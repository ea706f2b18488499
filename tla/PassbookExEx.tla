---------------------------- MODULE PassbookExEx ----------------------------
(***************************************************************************)
(* run_passbook (exex.rs): the ExEx driver that turns the node's chain     *)
(* notifications into durable ledger writes.                               *)
(*                                                                         *)
(* The driver is one sequential task.  Between two of its steps the        *)
(* process may die; only the ledger survives.  A step is one iteration of  *)
(* a retry loop: it either commits one ledger transaction and moves on, or *)
(* fails and changes nothing (AttemptFails).  The environment chooses the  *)
(* notifications, the hash the provider returns for a missed height,       *)
(* whether parent state is available, and when the process dies.           *)
(***************************************************************************)
EXTENDS Ledger

CONSTANTS
    Notifications,  \* the notifications the node may deliver
    Unexplained     \* blocks with a system credit, or a charge such as a blob
                    \* fee, that the first release misses

ASSUME DriverAssumption ==
    /\ Unexplained \subseteq Blocks
    /\ \A n \in Notifications :
         /\ DOMAIN n = {"rev", "com"}
         /\ n.rev \in Seq(Blocks) /\ n.com \in Seq(Blocks)
         /\ n.rev # <<>> \/ n.com # <<>>
         /\ \A i \in 1..(Len(n.com) - 1) :
              Parent[n.com[i + 1]] = n.com[i]
    /\ None \notin Notifications

VARIABLES
    phase,            \* where run_passbook is; "down" while no process runs
    notif,            \* the notification being handled
    idx,              \* index into the committed chain
    high_water,       \* in-memory Option<u64>
    pending_finished, \* lag slot of lag_finished
    finished,         \* last FinishedHeight the node received
    defects,          \* blocks with a credit the deployed release misses
    told,             \* auxiliary: tip announced by this session's stream
    recorded,         \* auxiliary: blocks written or marked, and not deleted
    heights           \* auxiliary: every height ever written or marked

driverVars == <<phase, notif, idx, high_water, pending_finished, finished>>
auxVars == <<told, recorded, heights>>
vars == <<ledgerVars, driverVars, defects, auxVars>>

Phases == {"down", "ready", "deleting", "filling", "writing", "emitting"}

TypeOK ==
    /\ LedgerTypeOK
    /\ phase \in Phases
    /\ notif \in Notifications \cup {None}
    /\ idx \in Nat \ {0}
    /\ high_water \in Nat \cup {None}
    /\ pending_finished \in Blocks \cup {None}
    /\ finished \in Blocks \cup {None}
    /\ defects \subseteq Unexplained
    /\ told \in Blocks \cup {None}
    /\ recorded \subseteq Blocks
    /\ heights \subseteq Nat

Init ==
    /\ LedgerInit
    /\ phase = "down"
    /\ notif = None
    /\ idx = 1
    /\ high_water = None
    /\ pending_finished = None
    /\ finished = None
    /\ defects = Unexplained
    /\ told = None
    /\ recorded = {}
    /\ heights = {}

-----------------------------------------------------------------------------
First(c) == c[1]
Tip(c)   == c[Len(c)]
Elems(c) == {c[i] : i \in 1..Len(c)}

\* Mutant: the gap of exactly one block is overlooked.
HasGapOffByOne(hw, first) == hw # None /\ first > hw + 2

\* gap_range is Some(hw + 1 ..= first - 1)
HasGap(hw, first) == hw # None /\ first > hw + 1

\* Mutant: a notification that only reverts never ends.
AfterDeleteStuck(n) ==
    IF n.com = <<>> THEN "deleting"
    ELSE IF HasGap(high_water, Number[First(n.com)]) THEN "filling"
    ELSE "writing"

\* Where the loop body goes once the reverted chain has been dealt with.
AfterDelete(n) ==
    IF n.com = <<>> THEN "ready"
    ELSE IF HasGap(high_water, Number[First(n.com)]) THEN "filling"
    ELSE "writing"

\* The node starts (or restarts, possibly with a release that reconciles more
\* blocks): the high-water mark comes from the ledger, the lag slot is empty.
Start ==
    /\ phase = "down"
    /\ phase' = "ready"
    /\ high_water' = ResumeHeight
    /\ pending_finished' = None
    /\ defects' \in SUBSET defects
    /\ UNCHANGED <<ledgerVars, notif, idx, finished, auxVars>>

\* The process dies, or the stream ends or errs and the future returns.
Stop ==
    /\ phase # "down"
    /\ phase' = "down"
    /\ notif' = None
    /\ idx' = 1
    /\ high_water' = None
    /\ pending_finished' = None
    /\ told' = None
    /\ UNCHANGED <<ledgerVars, finished, defects, recorded, heights>>

\* ctx.notifications.try_next() yields n.
Receive(n) ==
    /\ phase = "ready"
    /\ notif' = n
    /\ idx' = 1
    /\ phase' = IF n.rev # <<>> THEN "deleting" ELSE AfterDelete(n)
    /\ told' = IF n.com # <<>> THEN Tip(n.com) ELSE Parent[First(n.rev)]
    /\ UNCHANGED <<ledgerVars, high_water, pending_finished, finished,
                   defects, recorded, heights>>

\* Reorg handling first: the rows of the reverted blocks go, nothing else does.
DeleteReverted ==
    /\ phase = "deleting"
    /\ DeleteBlocks(Elems(notif.rev))
    /\ phase' = AfterDelete(notif)
    /\ recorded' = recorded \ Elems(notif.rev)
    /\ UNCHANGED <<notif, idx, high_water, pending_finished, finished,
                   defects, told, heights>>

\* Mutant: only the last missed height is marked.
FillGapLastOnly(b) ==
    /\ phase = "filling"
    /\ Number[b] = Number[First(notif.com)] - 1
    /\ WriteGapBlockMarker(b)
    /\ high_water' = Number[b]
    /\ phase' = "writing"
    /\ recorded' = recorded \cup {b}
    /\ heights' = heights \cup {Number[b]}
    /\ UNCHANGED <<notif, idx, pending_finished, finished, defects, told>>

\* One gap height: b is the header the provider has for it.
FillGap(b) ==
    /\ phase = "filling"
    /\ Number[b] = high_water + 1
    /\ WriteGapBlockMarker(b)
    /\ high_water' = Number[b]
    /\ phase' = IF HasGap(Number[b], Number[First(notif.com)])
                THEN "filling" ELSE "writing"
    /\ recorded' = recorded \cup {b}
    /\ heights' = heights \cup {Number[b]}
    /\ UNCHANGED <<notif, idx, pending_finished, finished, defects, told>>

\* The block the per-block loop is at.
Current == notif.com[idx]

\* Mutants: the high-water mark is not advanced with the write; the tip is
\* announced after the first block of the chain.
AdvanceKeepsHighWater ==
    /\ recorded' = recorded \cup {Current}
    /\ heights' = heights \cup {Number[Current]}
    /\ idx' = IF idx < Len(notif.com) THEN idx + 1 ELSE idx
    /\ phase' = IF idx < Len(notif.com) THEN "writing" ELSE "emitting"
    /\ UNCHANGED <<notif, high_water, pending_finished, finished, defects, told>>
AdvanceEmitsEarly ==
    /\ high_water' = Number[Current]
    /\ recorded' = recorded \cup {Current}
    /\ heights' = heights \cup {Number[Current]}
    /\ phase' = "emitting"
    /\ UNCHANGED <<notif, idx, pending_finished, finished, defects, told>>

\* A committed block is durable: on to the next one, or to FinishedHeight.
Advance ==
    /\ high_water' = Number[Current]
    /\ recorded' = recorded \cup {Current}
    /\ heights' = heights \cup {Number[Current]}
    /\ idx' = IF idx < Len(notif.com) THEN idx + 1 ELSE idx
    /\ phase' = IF idx < Len(notif.com) THEN "writing" ELSE "emitting"
    /\ UNCHANGED <<notif, pending_finished, finished, defects, told>>

\* process_committed_block reconciled every watched account of the bundle and
\* the write committed.
WriteFull ==
    /\ phase = "writing"
    /\ Unreconciled(notif.com, idx, defects) = {}
    /\ WriteBlock(Current, FullGroups(notif.com, idx), {})
    /\ Advance

\* get_parent_state failed on the gated path: everything but the frames is
\* written, with a marker per account left unattributed.
WritePartial ==
    /\ phase = "writing"
    /\ AnyWatchedChanged(notif.com, idx)
    /\ WriteBlock(Current, {"receipts"}, SkipMarked(notif.com, idx, defects))
    /\ Advance

\* UnexplainedResidual: the best-effort diagnostic row, then sleep and retry.
\* The reported account is the first one the hash-ordered deltas come to.
Stall(a) ==
    /\ phase = "writing"
    /\ a \in Unreconciled(notif.com, idx, defects)
    /\ WriteUnattributed(Current, a)
    /\ UNCHANGED <<driverVars, defects, auxVars>>

\* Every other Err arm - the delete, the header lookup, the marker write, the
\* block processing, the block write: log, sleep, run the same step again.
AttemptFails ==
    /\ phase \in {"deleting", "filling", "writing"}
    /\ UNCHANGED vars

\* Mutant: the tip is announced at once, without the lag of one notification.
EmitUnlagged ==
    /\ phase = "emitting"
    /\ finished' = Tip(notif.com)
    /\ pending_finished' = Tip(notif.com)
    /\ phase' = "ready"
    /\ UNCHANGED <<ledgerVars, notif, idx, high_water, defects, auxVars>>

\* lag_finished: release the previous notification's tip, keep this one's.
Emit ==
    /\ phase = "emitting"
    /\ finished' = IF pending_finished # None THEN pending_finished
                   ELSE finished
    /\ pending_finished' = Tip(notif.com)
    /\ phase' = "ready"
    /\ UNCHANGED <<ledgerVars, notif, idx, high_water, defects, auxVars>>

\* What the stream may yield.  Within a session notifications continue each
\* other.  The first one may start anywhere, except that reth drops a committed
\* chain that does not reach past the head the session resumed with.
Deliverable(n) ==
    IF told # None
    THEN IF n.rev # <<>> THEN Tip(n.rev) = told
         ELSE Parent[First(n.com)] = told
    ELSE high_water # None /\ n.com # <<>> => Number[Tip(n.com)] > high_water

Step ==
    \/ DeleteReverted
    \/ \E b \in Blocks : FillGap(b)
    \/ WriteFull
    \/ WritePartial
    \/ \E a \in Watched : Stall(a)
    \/ AttemptFails
    \/ Emit

Next ==
    \/ Start
    \/ Stop
    \/ \E n \in Notifications : Deliverable(n) /\ Receive(n)
    \/ Step

Spec == Init /\ [][Next]_vars

\* Backoff is capped and every retry loop is endless: a step that can succeed
\* is tried again until it does, when transient faults end.  Nothing is assumed
\* of the node, of crashes, or of parent state being unavailable.
Fairness ==
    /\ WF_vars(DeleteReverted)
    /\ WF_vars(\E b \in Blocks : FillGap(b))
    /\ WF_vars(WriteFull)
    /\ WF_vars(Emit)

LiveSpec == Spec /\ Fairness

-----------------------------------------------------------------------------
\* The in-memory high-water mark and the durable resume point never disagree
\* while a process runs, whatever was reverted, retried or marked: a crash at
\* any point restarts gap detection exactly where the running task stood.
HighWaterMirrorsMeta == phase # "down" => high_water = ResumeHeight

\* The gap-fill design principle: one durable step never moves last_block past
\* a height that was neither written nor marked.  ImplementsCaptureLog contains
\* it (the guard of Record); it is stated for the reader and proved.
NeverSkipsAHeight ==
    [][last' # last /\ last # None => Number[last'] <= Number[last] + 1]_vars

\* No holes: every height from any recorded one up to last_block was itself
\* written or marked, across any sequence of gaps, reorgs and crashes.
NoHoles ==
    last # None =>
        \A m \in heights : \A k \in m..Number[last] : k \in heights

\* FinishedHeight (what the node may prune to) is only ever a height that was
\* made durable, and so is the height held back in the lag slot.
FinishedIsDurable ==
    /\ finished # None => Number[finished] \in heights
    /\ pending_finished # None => Number[pending_finished] \in heights

\* When a new FinishedHeight goes out, the whole committed chain of the
\* notification being handled is in the ledger, and the height released is
\* the one of the notification before it.
EmitsOnlyAfterDurable ==
    [][finished' # finished =>
         /\ Elems(notif.com) \subseteq recorded
         /\ finished' = pending_finished
         /\ pending_finished' = last]_vars

\* At the tip of the chain a notification commits one block; what the
\* ledger says of a block rests on it (see stall_in_chain).
SingleBlockChains == \A n \in Notifications : Len(n.com) <= 1

\* A block the driver went past has the frames of every watched account it
\* moved value of, or says which are missing - whatever mix of gap markers,
\* skips, stalls, reverts and redeliveries it saw.
Accounted(b) ==
    \A a \in Moved(b) : "frames" \in rows[b] \/ marks[b][a] # None
RecordedIsAccounted == \A b \in recorded : Accounted(b)

\* What a revert or a stall leaves behind: a block that is not recorded has no
\* rows, and no marker other than the diagnostic of a stall.
UnrecordedLeavesNothing ==
    \A b \in Blocks \ recorded :
        /\ rows[b] = {}
        /\ \A a \in Watched : marks[b][a] \in {None, "unexplained_residual"}

\* A balance change that a missed credit makes inexplicable is never stored as
\* if it were explained.
Inexplicable(b) ==
    {a \in Watched : Activity[b][a].credit # 0 /\ OwnDelta(b, a) # 0}
UnreconciledIsFlagged ==
    \A b \in defects \cap recorded : \A a \in Inexplicable(b) :
        "frames" \notin rows[b] /\ marks[b][a] # None

\* The driver stalls, and leaves the diagnostic of a residual, for two reasons
\* only: a credit some release missed, or a recognised credit spent in a block
\* that leaves the gate closed (see closed_gate).  Any other block reconciles.
StallsAreExplained ==
    \A b \in Blocks : \A a \in Watched :
        marks[b][a] = "unexplained_residual"
            => b \in Unexplained \/ a \in CreditBehindGate(b)

\* A notification in hand is handled to the end, unless the process stops or
\* the driver sits on a block whose credit the release misses, or one with a
\* credit behind the closed gate: no release of this code gets past that one.
Busy == phase \notin {"down", "ready"}
NotificationsAreHandled ==
    Busy ~> \/ ~ Busy
            \/ /\ phase = "writing"
               /\ Current \in defects \/ CreditBehindGate(Current) # {}

\* README: every transfer of a watched account, internal ones included.
TransfersAreAccounted ==
    \A b \in recorded : \A a \in ValuePassed(b) :
        "frames" \in rows[b] \/ marks[b][a] # None

\* The driver implements the capture log: every ledger transaction records the
\* next height or an earlier one, every event releases a durable height, and
\* everything else - deletes, stalls, retries, crashes - is invisible to it.
Log == INSTANCE CaptureLog WITH
         Heights  <- {Number[b] : b \in Blocks},
         durable  <- heights,
         current  <- ResumeHeight,
         released <- IF finished = None THEN None ELSE Number[finished]

ImplementsCaptureLog == Log!LogSpec
=============================================================================
