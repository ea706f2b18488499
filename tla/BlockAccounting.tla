--------------------------- MODULE BlockAccounting ---------------------------
(***************************************************************************)
(* How Passbook explains one block's balance changes from the pieces it    *)
(* can see: process_committed_block_inner (exex.rs) on Ethereum and        *)
(* process_committed_block (op_chain.rs) on an OP chain, down to           *)
(* process_block, build_partial_batch_skip_frames and reconcile_account.   *)
(*                                                                         *)
(* The world executes a block, transaction by transaction, and moves real  *)
(* balances.  Process then sees the receipts, the bundle, the call frames  *)
(* if parent state is available, and the block body, and yields the rows   *)
(* as the ledger stores them, or an error that stalls the driver.  i128 is *)
(* the width -I128Max - 1 .. I128Max; U256 is never exceeded.              *)
(***************************************************************************)
EXTENDS Integers, Sequences, SequencesExt, Functions

CONSTANTS
    Accounts, Watched,
    Coinbase, BaseVault, L1Vault,
    OperatorVault, \* where the OP stack puts its operator fee
    BaseFee,      \* base_fee_per_gas of the block
    Txs,          \* what a transaction may be
    Withdrawals,  \* what a beacon withdrawal may be
    Openings,     \* balances before the block
    MaxTxs,       \* bound: transactions of the block
    MaxWithdrawals, \* bound: withdrawals of the block
    I128Max

\* A log, as far as an ERC-20 Transfer goes; others do not decode.
Log == [transfer : BOOLEAN, from : Accounts, to : Accounts, amount : Nat]

Tx == [deposit : BOOLEAN, from : Accounts, to : Accounts, value : Nat,
       onward : Accounts, sends : Nat, \* what `to` sends in turn, and where
       writes : BOOLEAN,               \* does `to` change its storage?
       logs : Seq(Log),                \* what it emits, if it is successful
       ok : BOOLEAN, gas : Nat, price : Nat,
       l1 : Nat, priced : BOOLEAN,     \* the L1 data fee; can it be computed?
       extra : Nat,                    \* EIP-4844 blob fee, or OP operator fee
       mint : Nat, mintTo : Accounts]  \* what a deposit mints, and for whom

ASSUME AccountingAssumption ==
    /\ Watched \subseteq Accounts
    /\ {Coinbase, BaseVault, L1Vault, OperatorVault} \subseteq Accounts
    /\ BaseFee \in Nat /\ MaxTxs \in Nat /\ MaxWithdrawals \in Nat
    /\ I128Max \in Nat \ {0}
    /\ Openings \subseteq [Accounts -> Nat]
    /\ Withdrawals \subseteq [to : Accounts, amount : Nat \ {0}]
    /\ Txs \subseteq Tx
    /\ \A t \in Txs :
         /\ t.deposit => /\ t.price = 0 /\ t.l1 = 0 /\ t.extra = 0
                         /\ t.mintTo \in {t.from, t.to}
         /\ ~ t.deposit => t.price >= BaseFee /\ t.mint = 0

VARIABLES
    optimism,    \* is this an OP chain (op_chain.rs) or Ethereum (exex.rs)?
    cached,      \* does L1BlockInfo answer with the first fee it computed?
    opening,     \* balances before the block
    balance,     \* and now
    txs,         \* the block's transactions
    receipts,    \* cumulative gas used after each
    withdrawals,
    credited,    \* auxiliary: what the protocol credited outside any call
    gross,       \* auxiliary: opening balance and everything that came in
    outcome      \* what Passbook makes of the block

worldVars ==
    <<optimism, cached, opening, balance, txs, receipts, withdrawals, credited, gross>>
vars == <<worldVars, outcome>>

Pending == [kind |-> "none", rows |-> {}, tokens |-> {}, marks |-> [a \in Watched |-> 0]]
Kinds == {"none", "full", "partial", "residual", "overflow", "decode"}

TypeOK ==
    /\ optimism \in BOOLEAN /\ cached \in BOOLEAN
    /\ {opening, balance, credited, gross} \subseteq [Accounts -> Nat]
    /\ txs \in Seq(Txs) /\ receipts \in Seq(Nat)
    /\ withdrawals \in Seq(Withdrawals)
    /\ outcome.kind \in Kinds
    /\ outcome.marks \in [Watched -> Nat]
    /\ \A r \in outcome.rows : r.address \in Watched /\ r.wei \in Int
    /\ \A r \in outcome.tokens : r.address \in Watched /\ r.amount \in Int

Init ==
    /\ optimism \in BOOLEAN
    /\ cached \in {c \in BOOLEAN : c => optimism}
    /\ opening \in Openings
    /\ balance = opening /\ gross = opening
    /\ txs = <<>> /\ receipts = <<>> /\ withdrawals = <<>>
    /\ credited = [a \in Accounts |-> 0]
    /\ outcome = Pending

-----------------------------------------------------------------------------
\* The world.

\* The calls of a transaction in order, and those that move value and survive.
Frames(t) == <<[from |-> t.from, to |-> t.to, value |-> t.value],
               [from |-> t.to, to |-> t.onward, value |-> t.sends]>>
Moving(t) == {k \in 1..2 : t.ok /\ Frames(t)[k].value > 0}

CallsIn(t, a) ==
    IF t.ok THEN (IF t.to = a THEN t.value ELSE 0) + (IF t.onward = a THEN t.sends ELSE 0)
    ELSE 0
CallsOut(t, a) ==
    IF t.ok THEN (IF t.from = a THEN t.value ELSE 0) + (IF t.to = a THEN t.sends ELSE 0)
    ELSE 0

Fee(t) == t.gas * t.price + t.l1 + t.extra

\* What the protocol credits for a transaction without a call.  A mint goes to the
\* recipient, as op_chain.rs has it, or to the sender; a blob fee is burnt.
FeeCredit(t, a) ==
    IF t.deposit THEN (IF a = t.mintTo THEN t.mint ELSE 0)
    ELSE   (IF a = Coinbase THEN t.gas * (t.price - BaseFee) ELSE 0)
         + (IF optimism /\ a = BaseVault THEN t.gas * BaseFee ELSE 0)
         + (IF optimism /\ a = L1Vault THEN t.l1 ELSE 0)
         + (IF optimism /\ a = OperatorVault THEN t.extra ELSE 0)

Credit(amount) ==
    /\ credited' = [a \in Accounts |-> credited[a] + amount[a]]
    /\ UNCHANGED <<optimism, cached, opening, outcome>>

\* What the sender and the called contract can spend: fees are bought and
\* deposits minted before the first call.
Purse(t, a) ==
    balance[a] + (IF t.deposit THEN FeeCredit(t, a) ELSE 0)
      - (IF ~ t.deposit /\ a = t.from THEN Fee(t) ELSE 0)
Affordable(t) ==
    /\ Purse(t, t.from) >= IF t.deposit /\ ~ t.ok THEN 0 ELSE t.value
    /\ t.ok => Purse(t, t.to) + (IF t.to = t.from THEN 0 ELSE t.value) >= t.sends

\* A failed transaction still pays its fee; a failed deposit still mints.
Execute(t) ==
    LET mint == [a \in Accounts |-> FeeCredit(t, a)]
    IN  /\ outcome.kind = "none" /\ withdrawals = <<>>
        /\ Len(txs) < MaxTxs
        /\ t.deposit \/ t.l1 > 0 => optimism
        /\ Affordable(t)
        /\ txs' = Append(txs, t)
        /\ receipts' = Append(receipts,
             t.gas + (IF receipts = <<>> THEN 0 ELSE Last(receipts)))
        /\ balance' = [a \in Accounts |->
             balance[a] + mint[a] + CallsIn(t, a) - CallsOut(t, a)
               - (IF ~ t.deposit /\ a = t.from THEN Fee(t) ELSE 0)]
        /\ gross' = [a \in Accounts |-> gross[a] + mint[a] + CallsIn(t, a)]
        /\ Credit(mint)
        /\ UNCHANGED withdrawals

\* Withdrawals come after the transactions; there are none on the OP stack.
Withdraw(w) ==
    LET amount == [a \in Accounts |-> IF a = w.to THEN w.amount ELSE 0]
    IN  /\ outcome.kind = "none" /\ ~ optimism
        /\ Len(withdrawals) < MaxWithdrawals
        /\ withdrawals' = Append(withdrawals, w)
        /\ balance' = [a \in Accounts |-> balance[a] + amount[a]]
        /\ gross' = [a \in Accounts |-> gross[a] + amount[a]]
        /\ Credit(amount)
        /\ UNCHANGED <<txs, receipts>>

-----------------------------------------------------------------------------
\* What Passbook reads off the block.

\* The bundle: accounts the block changed, and contracts whose storage it did.
Senders == {t.from : t \in ToSet(txs)}
Bundle == {a \in Watched :
             \/ balance[a] # opening[a]
             \/ a \in Senders
             \/ \E t \in ToSet(txs) : t.ok /\ t.writes /\ t.to = a}
AnyWatchedChanged == \E a \in Bundle : balance[a] # opening[a] \/ a \in Senders

\* Mutant: a failed transaction has no gas payment.
GasUsedOfSuccess(i) == IF ~ txs[i].ok THEN 0
                       ELSE IF i = 1 THEN receipts[1] ELSE receipts[i] - receipts[i - 1]
\* Receipts are cumulative.
GasUsed(i) == IF i = 1 THEN receipts[1] ELSE receipts[i] - receipts[i - 1]

\* The L1 data fee table of the OP stack.  Deposits have no entry, nor does a
\* transaction for which l1_tx_data_fee errs; no entry counts as no fee.  All fees
\* of a block come from one mutable L1BlockInfo, which may keep the first.
Computed == {i \in DOMAIN txs : ~ txs[i].deposit /\ txs[i].priced}
L1DataFee(i) ==
    IF i \notin Computed THEN 0 ELSE txs[IF cached THEN Min(Computed) ELSE i].l1

\* compute_gas_payment for every transaction of a watched sender.
GasRows ==
    {[key |-> <<"gas", i, txs[i].from>>, address |-> txs[i].from,
      wei |-> -(GasUsed(i) * txs[i].price + L1DataFee(i))]
       : i \in {j \in DOMAIN txs : txs[j].from \in Watched}}

\* Mutant: the whole gas price goes to the beneficiary.
PriorityFeeWithBase(i) == txs[i].price * GasUsed(i)
\* (effective_gas_price - base_fee), saturating, for the gas of a transaction.
PriorityFee(i) ==
    (IF txs[i].price > BaseFee THEN txs[i].price - BaseFee ELSE 0) * GasUsed(i)

\* i128::try_from(_).unwrap_or(i128::MAX), and i128 additions of a release build.
Clamp(x) == IF x > I128Max THEN I128Max ELSE x
Wrap(x)  == ((x + I128Max + 1) % (2 * (I128Max + 1))) - (I128Max + 1)
Fits(x)  == -I128Max - 1 <= x /\ x <= I128Max

\* One netted credit per source and recipient, if there is anything to credit.
Netted(source, a, total) ==
    IF total = 0 \/ a \notin Watched THEN {}
    ELSE {[source |-> <<source, 0>>, address |-> a, wei |-> Clamp(total)]}

\* l1_system_credits
L1SystemCredits ==
    (UNION {Netted("withdrawal", a,
              SumFunction([i \in DOMAIN withdrawals |->
                IF withdrawals[i].to = a THEN withdrawals[i].amount ELSE 0]))
              : a \in Watched})
    \cup Netted("block_reward", Coinbase,
           SumFunction([i \in DOMAIN txs |-> PriorityFee(i)]))

\* deposit_mint_credits: one each, its source tagged with the deposit's hash.
DepositMintCredits ==
    {[source |-> <<"deposit_mint", i>>, address |-> txs[i].to,
      wei |-> Clamp(txs[i].mint)]
       : i \in {j \in DOMAIN txs : txs[j].mint > 0 /\ txs[j].to \in Watched}}

\* fee_vault_credits
FeeVaultCredits ==
    LET paying == {i \in DOMAIN txs : ~ txs[i].deposit}
    IN  Netted("sequencer_fee_vault", Coinbase,
          SumFunction([i \in paying |-> PriorityFee(i)]))
        \cup Netted("base_fee_vault", BaseVault,
               SumFunction([i \in paying |-> BaseFee * GasUsed(i)]))
        \cup Netted("l1_fee_vault", L1Vault,
               SumFunction([i \in paying |-> L1DataFee(i)]))

SystemCredits ==
    IF optimism THEN DepositMintCredits \cup FeeVaultCredits ELSE L1SystemCredits

\* Mutant: the credits are netted without asking whose they are.
SystemSignedOfAll(a) == Wrap(SumFunction([c \in SystemCredits |-> c.wei]))
\* The net credit of an account.
CreditsOf(a) == {c \in SystemCredits : c.address = a}
SystemSigned(a) == Wrap(SumFunction([c \in CreditsOf(a) |-> c.wei]))

\* Mutant: the trace path of a system row does not name its source.
SystemRowsUntagged ==
    {[key |-> <<"eth", 0, c.address>>, address |-> c.address, wei |-> c.wei]
       : c \in SystemCredits}
\* The kind=system rows, keyed by block hash, source and address.
SystemRows ==
    {[key |-> <<"eth", 0, <<c.source, c.address>>>>, address |-> c.address, wei |-> c.wei]
       : c \in SystemCredits}

\* The frames of a re-execution, top-level or internal, and their rows.
FrameRows(i) ==
    LET call(k) == Frames(txs[i])[k]
        In(k)  == [key |-> <<"eth", i, <<k, "in">>>>, address |-> call(k).to,
                   wei |-> call(k).value]
        Out(k) == [key |-> <<"eth", i, <<k, "out">>>>, address |-> call(k).from,
                   wei |-> -call(k).value]
    IN  {In(k) : k \in {j \in Moving(txs[i]) : call(j).to \in Watched}}
        \cup {Out(k) : k \in {j \in Moving(txs[i]) : call(j).from \in Watched}}

\* The logs of the receipts.  log_index counts them over the block.
Emitted(t) == IF t.ok THEN t.logs ELSE <<>>
BlockLogs ==
    UNION {{<<i, k>> : k \in DOMAIN Emitted(txs[i])} : i \in DOMAIN txs}
LogAt(l) == Emitted(txs[l[1]])[l[2]]
LogIndex(l) ==
    SumFunction([j \in 1..(l[1] - 1) |-> Len(Emitted(txs[j]))]) + l[2] - 1

\* decode_transfer: the watched parties of a Transfer, the recipient first.
Matched(log) ==
    IF log.transfer
    THEN {match \in {[turn |-> 0, address |-> log.to, amount |-> log.amount],
                     [turn |-> 1, address |-> log.from, amount |-> -log.amount]} :
            match.address \in Watched}
    ELSE {}

\* Mutant: the primary key of schema version 1, without the address.
Erc20KeyOfV1(l, a) == <<"erc20", l[1], LogIndex(l)>>
\* The primary key of erc20_transfers.
Erc20Key(l, a) == <<"erc20", l[1], LogIndex(l), a>>

\* What INSERT OR REPLACE keeps of rows inserted one after the other.
LastOfKey(rows) ==
    {r \in rows : \A s \in rows : s.key = r.key => s.turn <= r.turn}

\* The erc20_transfers rows of the block as the table keeps them.
Erc20Rows ==
    LET Row(l, match) ==
          [key |-> Erc20Key(l, match.address), turn |-> 2 * LogIndex(l) + match.turn,
           address |-> match.address, amount |-> match.amount]
    IN  LastOfKey(UNION {{Row(l, match) : match \in Matched(LogAt(l))} : l \in BlockLogs})

-----------------------------------------------------------------------------
\* reconcile_account: every input and every intermediate sum must fit.
ReconcileAccount(observed, in, out, gas, signed) ==
    LET attributed == in - out - gas + signed
    IN  IF \/ \E u \in {in, out, gas} : u > I128Max
           \/ ~ Fits(in - out - gas) \/ ~ Fits(attributed)
           \/ ~ Fits(observed - attributed)
        THEN "overflow"
        ELSE IF observed = attributed THEN "balanced" ELSE "residual"

Total(rows, a, sign) ==
    SumFunction([r \in {s \in rows : s.address = a /\ sign * s.wei > 0} |-> sign * r.wei])

\* process_block's verdict on an account of the bundle; frames are only there
\* if the gate was open.
BlockFrames ==
    IF AnyWatchedChanged THEN UNION {FrameRows(i) : i \in DOMAIN txs} ELSE {}
Verdict(a) ==
    ReconcileAccount(balance[a] - opening[a],
      Total(BlockFrames, a, 1), Total(BlockFrames, a, -1), Total(GasRows, a, -1),
      SystemSigned(a))

\* What INSERT OR REPLACE keeps: one row per primary key.
Stored(rows) == {r \in rows : r = CHOOSE s \in rows : s.key = r.key}

Magnitude(x) == IF x < 0 THEN -x ELSE x

\* Mutant: the magnitudes are subtracted whatever their size.
SkipResidualUnclamped(observed, signed) ==
    IF observed * signed < 0
    THEN Magnitude(observed) ELSE Magnitude(observed) - Magnitude(signed)
\* skip_mode_attribution
SkipResidual(observed, signed) ==
    IF observed * signed < 0
    THEN Magnitude(observed)
    ELSE LET rest == Magnitude(observed) - Magnitude(signed)
         IN  IF rest > 0 THEN rest ELSE 0

\* build_partial_batch_skip_frames
PartialBatch ==
    [kind  |-> "partial",
     rows  |-> Stored(GasRows \cup SystemRows),
     tokens |-> Erc20Rows,
     marks |-> [a \in Watched |->
                  SkipResidual(balance[a] - opening[a], SystemSigned(a))]]

FullBatch ==
    [kind  |-> "full",
     rows  |-> Stored(GasRows \cup SystemRows \cup BlockFrames),
     tokens |-> Erc20Rows,
     marks |-> Pending.marks]

\* The bundle first: a balance that is no i128 is an error.  Then the frames,
\* if the gate is open and parent state is there.  The first account in hash
\* order that does not reconcile decides which error is returned.
Process(available) ==
    /\ outcome.kind = "none" /\ txs # <<>>
    /\ UNCHANGED worldVars
    /\ IF \E a \in Bundle : opening[a] > I128Max \/ balance[a] > I128Max
       THEN outcome' = [Pending EXCEPT !.kind = "decode"]
       ELSE IF AnyWatchedChanged /\ ~ available
       THEN outcome' = PartialBatch
       ELSE IF \A a \in Bundle : Verdict(a) = "balanced"
       THEN outcome' = FullBatch
       ELSE \E a \in Bundle :
              /\ Verdict(a) # "balanced"
              /\ outcome' = [Pending EXCEPT !.kind = Verdict(a)]

Next ==
    \/ \E t \in Txs : Execute(t)
    \/ \E w \in Withdrawals : Withdraw(w)
    \/ \E available \in BOOLEAN : Process(available)

Spec == Init /\ [][Next]_vars

-----------------------------------------------------------------------------
\* No account's inflow, opening balance included, leaves the i128 range.
InRange == \A a \in Watched : gross[a] <= I128Max

\* Does the code know of the credits and fees of the block?  It does not if it
\* misses or mistakes an L1 data fee, if a deposit's mint went to a sender who is not
\* the recipient, if an operator fee reached a watched vault (the "narrow remaining
\* gap" of the README), or if a watched sender paid a blob or an operator fee.
CreditsRecognised ==
    /\ \A t \in ToSet(txs) :
         /\ t.l1 > 0 => t.priced
         /\ t.mint > 0 => t.mintTo = t.to
         /\ t.extra > 0 => ~ optimism \/ OperatorVault \notin Watched
    /\ cached => \A i, j \in Computed : txs[i].l1 = txs[j].l1
FeesRecognised == \A t \in ToSet(txs) : t.from \in Watched => t.extra = 0

Delta(a) == balance[a] - opening[a]
RowsOf(a) == {r \in outcome.rows : r.address = a}

\* A block that changed a watched balance or nonce stalls the driver only for a named
\* cause: an inflow out of range, or a credit or fee the code does not recognise.
\* Otherwise frames, gas and recognised credits add up to what the EVM did, for
\* senders, recipients, the coinbase and the fee vaults, failed transactions included.
ChangedBlockReconciles ==
    outcome.kind \in {"residual", "overflow", "decode"} /\ AnyWatchedChanged =>
        ~ (InRange /\ CreditsRecognised /\ FeesRecognised)

\* The credits the code nets for an account fit an i128, unclamped sum and all.
CreditsFit(a) == SumFunction([c \in CreditsOf(a) |-> c.wei]) <= I128Max

\* The rows the ledger keeps of a full batch, after INSERT OR REPLACE, add up to
\* every watched balance change.  For the accounts of the bundle they do so whatever
\* the code missed, as long as the credits it nets fit, and out of range too, if it
\* missed nothing: neither a clamped or wrapped sum nor a missing fee passes for
\* balanced.  An account outside the bundle is not reconciled, so a fee missed at a
\* vault that spent it goes unnoticed; both at once, a sum that wraps and a credit or
\* fee missed, are left out.
StoredRowsAddUp ==
    outcome.kind = "full" /\ AnyWatchedChanged =>
        \A a \in Watched :
            \/ InRange /\ CreditsRecognised
            \/ a \in Bundle /\ (CreditsFit(a) \/ (CreditsRecognised /\ FeesRecognised))
            => SumFunction([r \in RowsOf(a) |-> r.wei]) = Delta(a)

\* What the calls and the gas of the block did to an account: the part of its
\* change the protocol's credits do not explain.
Hidden(a) == Delta(a) - credited[a]

\* A batch without frames says how much it does not attribute, unless a credit was
\* missed or mistaken: an account whose calls brought in more than went out, or that
\* got no credit, has a marker of exactly the amount, blob fees included.
MarkersCoverTheGap ==
    InRange /\ CreditsRecognised /\ outcome.kind = "partial" =>
        \A a \in Watched :
            Hidden(a) > 0 \/ credited[a] = 0 => outcome.marks[a] = Magnitude(Hidden(a))

\* What the transfers logged in the block did to an account's tokens.
Moves(log, a) ==
    IF log.transfer
    THEN (IF log.to = a THEN log.amount ELSE 0) - (IF log.from = a THEN log.amount ELSE 0)
    ELSE 0
TokenNet(a) == SumFunction([l \in BlockLogs |-> Moves(LogAt(l), a)])
PaysItself(a) ==
    \E l \in BlockLogs : LogAt(l).transfer /\ LogAt(l).from = a /\ LogAt(l).to = a
TokensKept(a) ==
    SumFunction([r \in {s \in outcome.tokens : s.address = a} |-> r.amount])

\* The token rows the ledger keeps of a block, with frames or without, add up to
\* what the block did to an account's tokens: both parties of a transfer keep
\* their row, logs of one transaction and of several do not replace each other's.
\* An account that pays itself is the exception: its two rows have one key, and
\* the outgoing one replaces the other.
PartiesKeepTheirRows ==
    outcome.kind \in {"full", "partial"} =>
        \A a \in Watched : ~ PaysItself(a) => TokensKept(a) = TokenNet(a)

\* README: recognised system events produce no residual, so they do not stall.
EveryBlockReconciles ==
    InRange /\ CreditsRecognised /\ FeesRecognised /\ outcome.kind # "none" =>
        outcome.kind \in {"full", "partial"}
=============================================================================
