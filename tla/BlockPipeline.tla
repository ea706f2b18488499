--------------------------- MODULE BlockPipeline ---------------------------
(***************************************************************************)
(* process_committed_block_inner (exex.rs): what one committed block of a  *)
(* chain notification turns into.  The operators are the pure part of the  *)
(* driver: the observed balance deltas, the re-execution gate, the         *)
(* reconciliation of process_block, and the markers of the skip path       *)
(* build_partial_batch_skip_frames.                                        *)
(*                                                                         *)
(* A chain is a sequence c of blocks; i is the position of the block being *)
(* processed.  Account[b] is the state after b: state is a function of the *)
(* block hash.  Activity[b][a] is what b really did to account a.          *)
(***************************************************************************)
EXTENDS BlockTree

CONSTANTS
    Watched,   \* cfg.watched
    Account,   \* Account[b][a]: balance and nonce of a after b (None: genesis)
    Activity   \* Activity[b][a]: value moved in and out by call frames, gas
               \* paid as a transaction's sender, net system credit (charges
               \* are negative), whether a's storage was written

\* Every balance change is a call frame, gas or a system credit; a sender's
\* nonce grows.  A contract may move value without its nonce changing.
ASSUME PipelineAssumption ==
    /\ Account \in [Blocks \cup {None} ->
                      [Watched -> [balance : Nat, nonce : Nat]]]
    /\ Activity \in [Blocks ->
                      [Watched -> [in : Nat, out : Nat, gas : Nat, credit : Int,
                                   writes : BOOLEAN]]]
    /\ \A b \in Blocks : \A a \in Watched :
         LET pre  == Account[Parent[b]][a]
             post == Account[b][a]
             act  == Activity[b][a]
         IN  /\ post.balance
                  = pre.balance + act.in - act.out - act.gas + act.credit
             /\ act.gas > 0 => post.nonce > pre.nonce

\* The row groups of a BlockBatch: what is read off the notification (ERC-20
\* transfers, gas payments, kind=system transfers), and the eth_transfers rows
\* that need a re-execution.
RowGroups == {"receipts", "frames"}

-----------------------------------------------------------------------------
\* chain.execution_outcome_at_block(number of c[i]): the bundle of the chain
\* reverted to c[i].  The changes of the blocks before c[i] stay in it, so
\* original_info is the state before the chain, not before the block.  An
\* account only whose storage was written is in the bundle as well.
OriginalInfo(c)  == Account[Parent[c[1]]]
Info(c, i)       == Account[c[i]]
BundleAccounts(c, i) ==
    {a \in Watched : \E j \in 1..i : \/ Account[c[j]][a] # Account[Parent[c[j]]][a]
                                    \/ Activity[c[j]][a].writes}

\* account_deltas of a watched account in the bundle.
Observed(c, i, a) == Info(c, i)[a].balance - OriginalInfo(c)[a].balance

AnyWatchedChanged(c, i) ==
    \E a \in BundleAccounts(c, i) : Info(c, i)[a] # OriginalInfo(c)[a]

\* The groups the block's batch holds when it reconciles.
FullGroups(c, i) == IF AnyWatchedChanged(c, i) THEN RowGroups ELSE {"receipts"}

\* Mutant: recognised system credits are not netted.
SystemSignedIgnored(b, a, missed) == 0

\* The net system credit this release recognises; missed are the blocks with
\* one it does not.
SystemSigned(b, a, missed) == IF b \in missed THEN 0 ELSE Activity[b][a].credit

\* reconcile_account's attributed sum; without a re-execution there are no
\* frames to sum.
Attributed(c, i, a, missed) ==
    (IF AnyWatchedChanged(c, i)
     THEN Activity[c[i]][a].in - Activity[c[i]][a].out ELSE 0)
      - Activity[c[i]][a].gas + SystemSigned(c[i], a, missed)

\* Mutant: only a shortfall counts as a residual.
UnreconciledOneSided(c, i, missed) ==
    {a \in BundleAccounts(c, i) :
       Observed(c, i, a) < Attributed(c, i, a, missed)}

\* The accounts process_block cannot reconcile.
Unreconciled(c, i, missed) ==
    {a \in BundleAccounts(c, i) :
       Observed(c, i, a) # Attributed(c, i, a, missed)}

Magnitude(x) == IF x < 0 THEN -x ELSE x

\* Mutant: magnitudes are netted without looking at their direction.
SkipResidualUnsigned(observed, signed) ==
    IF Magnitude(signed) >= Magnitude(observed) THEN 0
    ELSE Magnitude(observed) - Magnitude(signed)

\* skip_mode_attribution: the part of the observed delta that recognised
\* credits of the same direction do not cover.
SkipResidual(observed, signed) ==
    LET agree == \/ signed = 0
                 \/ observed > 0 /\ signed > 0
                 \/ observed < 0 /\ signed < 0
    IN  IF ~ agree THEN Magnitude(observed)
        ELSE IF Magnitude(signed) >= Magnitude(observed) THEN 0
        ELSE Magnitude(observed) - Magnitude(signed)

\* The accounts the skip path leaves a marker for.
SkipMarked(c, i, missed) ==
    {a \in BundleAccounts(c, i) :
       /\ Observed(c, i, a) # 0
       /\ SkipResidual(Observed(c, i, a), SystemSigned(c[i], a, missed)) # 0}

-----------------------------------------------------------------------------
\* What the block itself did, for the properties: its own balance change, the
\* accounts whose change goes beyond the system credits in its direction, those
\* any value passed through, and those that spent a credit in a block that
\* leaves the gate closed but has them in its bundle.
OwnDelta(b, a) == Account[b][a].balance - Account[Parent[b]][a].balance
Moved(b) ==
    {a \in Watched : \/ OwnDelta(b, a) > 0 /\ Activity[b][a].credit < OwnDelta(b, a)
                     \/ OwnDelta(b, a) < 0 /\ Activity[b][a].credit > OwnDelta(b, a)}
ValuePassed(b) ==
    {a \in Watched : Activity[b][a].in > 0 \/ Activity[b][a].out > 0}
CreditBehindGate(b) ==
    {a \in Watched : /\ \A x \in Watched : Account[b][x] = Account[Parent[b]][x]
                     /\ Activity[b][a].writes
                     /\ Activity[b][a].credit # 0}
============================================================================
