-------------------------- MODULE TaggingInspector --------------------------
(***************************************************************************)
(* Re-execution of a block's transactions under the value inspector:       *)
(* ValueInspector (inspector.rs), the TaggingInspector around it and the   *)
(* per-transaction collection of reexecute_block_frames (reexec.rs), up to *)
(* the trace_path that becomes part of a row's primary key.                *)
(*                                                                         *)
(* The EVM is the environment: it calls the hooks in any order a call tree *)
(* allows.  What a hook knows of a value movement is its trace_path, so a  *)
(* captured frame is the sequence number it was given; addresses, amounts  *)
(* and the kind of call are left out.                                      *)
(***************************************************************************)
EXTENDS Integers, Sequences

CONSTANTS
    MaxTxs,     \* transactions of the block
    MaxFrames,  \* bound: call and create frames of one transaction
    MaxMoves    \* bound: value movements of one transaction

ASSUME BoundsAssumption ==
    MaxTxs \in Nat /\ MaxFrames \in Nat /\ MaxMoves \in Nat

VARIABLES
    seq,           \* ValueInspector.seq
    frames,        \* ValueInspector.frames
    revert_marks,  \* ValueInspector.revert_marks
    tags,          \* TaggingInspector.tags
    depth,         \* TaggingInspector.depth
    captured,      \* Captured.frames and tx_reverted, one entry per transaction
    open,          \* EVM: the stack of open frames, [id, kind]
    entered,       \* EVM: frames this transaction entered so far
    failed,        \* EVM: ids of the frames that reverted or halted
    moves          \* auxiliary: what each numbered movement really was

inspectorVars == <<seq, frames, revert_marks, tags, depth>>
evmVars == <<open, entered, failed>>
vars == <<inspectorVars, captured, evmVars, moves>>

\* A movement: the frames it is rolled back with, and whether it is the value
\* of the transaction itself.
Move == [within : SUBSET Nat, own : BOOLEAN]
OpenFrame == [id : Nat, kind : {"call", "create"}]
Path == {"tx", "seq"} \X Nat
TxCapture == [reverted : BOOLEAN, paths : Seq(Path)]

TypeOK ==
    /\ seq \in Nat /\ depth \in Nat /\ entered \in Nat
    /\ frames \in Seq(Nat)
    /\ revert_marks \in Seq(Nat)
    /\ tags \in Seq(BOOLEAN)
    /\ captured \in Seq(TxCapture)
    /\ open \in Seq(OpenFrame)
    /\ failed \subseteq Nat
    /\ moves \in [0..(seq - 1) -> Move]

\* TaggingInspector::default(), as the tracer hands it to every transaction.
Fresh ==
    /\ seq = 0 /\ frames = <<>> /\ revert_marks = <<>>
    /\ tags = <<>> /\ depth = 0
    /\ open = <<>> /\ entered = 0 /\ failed = {}
    /\ moves = [m \in 0..-1 |-> [within |-> {}, own |-> FALSE]]

Init == Fresh /\ captured = <<>>

-----------------------------------------------------------------------------
\* What the EVM may do next: the first frame is the transaction's.
MayEnter ==
    /\ Len(captured) < MaxTxs
    /\ entered < MaxFrames
    /\ depth = 0 => entered = 0
OpenIds == {open[k].id : k \in 1..Len(open)}
Enter(kind) ==
    /\ open' = Append(open, [id |-> entered + 1, kind |-> kind])
    /\ entered' = entered + 1
    /\ UNCHANGED failed
Leave(ok) ==
    /\ open' = SubSeq(open, 1, Len(open) - 1)
    /\ failed' = IF ok THEN failed ELSE failed \cup {open[Len(open)].id}
    /\ UNCHANGED entered

\* push_frame: numbers are never given twice, not even to a dropped frame.
Numbered(within, own) ==
    /\ seq < MaxMoves
    /\ seq' = seq + 1
    /\ moves' = [m \in 0..seq |->
                   IF m = seq THEN [within |-> within, own |-> own] ELSE moves[m]]
Unnumbered == UNCHANGED <<seq, moves>>

\* Mutant: the mark of a frame is taken after its own value was recorded.
MarkedLate == Append(revert_marks, Len(frames) + 1)

\* enter_frame, before the frame's own value is recorded.
Marked == Append(revert_marks, Len(frames))

\* Mutant: a reverted frame is popped and its subtree kept.
ExitedKeeping(fs, ok) == fs

\* exit_frame: the movements left of fs when the innermost frame ends.
Exited(fs, ok) ==
    LET mark == revert_marks[Len(revert_marks)]
    IN  IF ~ ok /\ Len(fs) > mark THEN SubSeq(fs, 1, mark) ELSE fs
Popped == SubSeq(revert_marks, 1, Len(revert_marks) - 1)

\* Mutant: tags are left alone when frames are dropped.
SyncedNever(tg, n) == tg

\* sync_tags_after_exit
Synced(tg, n) == IF Len(tg) > n THEN SubSeq(tg, 1, n) ELSE tg

\* call: the mark, then the frame's own value if it transfers any.
Call(value) ==
    /\ MayEnter
    /\ Enter("call")
    /\ revert_marks' = Marked
    /\ depth' = depth + 1
    /\ IF value
       THEN /\ Numbered(OpenIds \cup {entered + 1}, depth = 0)
            /\ frames' = Append(frames, seq)
            /\ tags' = Append(tags, depth = 0)
       ELSE Unnumbered /\ UNCHANGED <<frames, tags>>
    /\ UNCHANGED captured

\* call_end
CallEnd(ok) ==
    /\ open # <<>>
    /\ open[Len(open)].kind = "call"
    /\ Leave(ok)
    /\ frames' = Exited(frames, ok)
    /\ revert_marks' = Popped
    /\ tags' = Synced(tags, Len(frames'))
    /\ depth' = depth - 1
    /\ Unnumbered
    /\ UNCHANGED captured

\* Mutant: a create does not count as a level of depth.
CreateUncounted ==
    /\ MayEnter
    /\ Enter("create")
    /\ revert_marks' = Marked
    /\ Unnumbered
    /\ UNCHANGED <<depth, frames, tags, captured>>

\* create: only the mark; the new address is not known yet.
Create ==
    /\ MayEnter
    /\ Enter("create")
    /\ revert_marks' = Marked
    /\ depth' = depth + 1
    /\ Unnumbered
    /\ UNCHANGED <<frames, tags, captured>>

\* create_end: the value is pushed when there is an address - a failed create
\* may have one too - and the frame is left after that.
CreateEnd(value, addressed, ok) ==
    LET pushed == IF value /\ addressed THEN Append(frames, seq) ELSE frames
        kept   == Exited(pushed, ok)
        tagged == IF Len(kept) > Len(frames) THEN Append(tags, depth = 1) ELSE tags
    IN  /\ open # <<>>
        /\ open[Len(open)].kind = "create"
        /\ ok => addressed
        /\ Leave(ok)
        /\ IF value /\ addressed THEN Numbered(OpenIds, depth = 1) ELSE Unnumbered
        /\ frames' = kept
        /\ revert_marks' = Popped
        /\ tags' = Synced(tagged, Len(kept))
        /\ depth' = depth - 1
        /\ UNCHANGED captured

\* Mutant: a selfdestruct of the transaction's own frame is tagged top-level.
SelfDestructTopLevel ==
    /\ open # <<>>
    /\ Numbered(OpenIds, FALSE)
    /\ frames' = Append(frames, seq)
    /\ tags' = Append(tags, depth = 1)
    /\ UNCHANGED <<revert_marks, depth, captured, evmVars>>

\* selfdestruct of a contract that holds value (without, nothing is recorded).
SelfDestruct ==
    /\ open # <<>>
    /\ Numbered(OpenIds, FALSE)
    /\ frames' = Append(frames, seq)
    /\ tags' = Append(tags, FALSE)
    /\ UNCHANGED <<revert_marks, depth, captured, evmVars>>

\* take_inspector and the trace_path the driver settles on: "tx:<i>" for the
\* transaction's own value, the sequence number for everything else.
TracePath(k) ==
    IF k \in DOMAIN tags /\ tags[k] THEN <<"tx", Len(captured)>>
    ELSE <<"seq", frames[k]>>

EndTx ==
    /\ open = <<>> /\ entered > 0
    /\ captured' = Append(captured,
         [reverted |-> 1 \in failed,
          paths    |-> [k \in 1..Len(frames) |-> TracePath(k)]])
    /\ seq' = 0 /\ frames' = <<>> /\ revert_marks' = <<>>
    /\ tags' = <<>> /\ depth' = 0
    /\ open' = <<>> /\ entered' = 0 /\ failed' = {}
    /\ moves' = [m \in 0..-1 |-> [within |-> {}, own |-> FALSE]]

Next ==
    \/ \E value \in BOOLEAN : Call(value)
    \/ \E ok \in BOOLEAN : CallEnd(ok)
    \/ Create
    \/ \E value, addressed, ok \in BOOLEAN : CreateEnd(value, addressed, ok)
    \/ SelfDestruct
    \/ EndTx

Spec == Init /\ [][Next]_vars

-----------------------------------------------------------------------------
\* A movement survives exactly when every frame around it does: whatever the
\* nesting of reverts, the inspector holds the movements the EVM commits and
\* no other.  Reconciliation sums them, so one too many stalls the driver.
OnlyCommittedValue ==
    {frames[k] : k \in 1..Len(frames)}
      = {m \in 0..(seq - 1) : moves[m].within \cap failed = {}}

\* tags[k] describes frames[k], through every truncation: the one marked
\* top-level is the transaction's own value.
TagsInLockstep ==
    /\ Len(tags) = Len(frames)
    /\ \A k \in 1..Len(frames) : tags[k] = moves[frames[k]].own

\* The trace paths of a transaction are distinct.  They are the last part of
\* the primary key of eth_transfers, where INSERT OR REPLACE would drop one of
\* two equal rows without a word.
PathsAreUnique ==
    \A i \in 1..Len(captured) :
        LET p == captured[i].paths
        IN  \A j, k \in 1..Len(p) : p[j] = p[k] => j = k

\* A transaction that failed as a whole leaves no frame, so no row ever has
\* the reverted flag set and the guard in process_block never fires.
FailedTxMovesNothing ==
    \A i \in 1..Len(captured) :
        captured[i].reverted => captured[i].paths = <<>>
=============================================================================
