------------------------ MODULE PassbookExEx_proofs ------------------------
(***************************************************************************)
(* Theorems about run_passbook, for every block tree, watched set and      *)
(* notification stream.                                                    *)
(***************************************************************************)
EXTENDS PassbookExEx, TLAPS

-----------------------------------------------------------------------------
\* What the assumptions say of the pieces the steps use.
LEMMA NoneIsNeither ==
    None \notin Blocks /\ None \notin Nat /\ None \notin Notifications
BY TreeAssumption, DriverAssumption

LEMMA HeightIsPositive ==
    ASSUME NEW b \in Blocks
    PROVE  Number[b] \in Nat /\ Number[b] >= 1
BY TreeAssumption

\* A non-empty committed chain: its elements are blocks of consecutive heights.
LEMMA ChainFacts ==
    ASSUME NEW n \in Notifications
    PROVE  /\ n.com \in Seq(Blocks) /\ n.rev \in Seq(Blocks)
           /\ \A i \in 1..Len(n.com) : n.com[i] \in Blocks
           /\ \A i \in 1..(Len(n.com) - 1) :
                Number[n.com[i + 1]] = Number[n.com[i]] + 1
           /\ n.com # <<>> => /\ Len(n.com) \in Nat /\ Len(n.com) >= 1
                              /\ First(n.com) \in Blocks
                              /\ Tip(n.com) \in Blocks
<1>1. /\ n.com \in Seq(Blocks) /\ n.rev \in Seq(Blocks)
      /\ \A i \in 1..(Len(n.com) - 1) : Parent[n.com[i + 1]] = n.com[i]
  BY DriverAssumption
<1>2. Len(n.com) \in Nat /\ \A i \in 1..Len(n.com) : n.com[i] \in Blocks
  BY <1>1
<1>3. ASSUME NEW i \in 1..(Len(n.com) - 1)
      PROVE  Number[n.com[i + 1]] = Number[n.com[i]] + 1
  <2>1. n.com[i + 1] \in Blocks /\ n.com[i] \in Blocks
    BY <1>2
  <2>2. QED BY <1>1, <2>1, TreeAssumption
<1>4. n.com # <<>> => /\ Len(n.com) \in Nat /\ Len(n.com) >= 1
                      /\ First(n.com) \in Blocks
                      /\ Tip(n.com) \in Blocks
  BY <1>1, <1>2 DEF First, Tip
<1>5. QED BY <1>1, <1>2, <1>3, <1>4

\* Upserting markers keeps the marker table well typed.
LEMMA FlagType ==
    ASSUME LedgerTypeOK, NEW b \in Blocks, NEW S, NEW cause \in Causes
    PROVE  Flag(b, S, cause) \in [Blocks -> [Watched -> Causes \cup {None}]]
BY DEF LedgerTypeOK, Flag

-----------------------------------------------------------------------------
\* The strengthening that makes type correctness inductive: in a phase that
\* reads the notification there is one, with the chain the phase reads.
PhaseInv ==
    /\ phase \in {"deleting", "filling", "writing", "emitting"} =>
         notif \in Notifications
    /\ phase \in {"filling", "writing", "emitting"} => notif.com # <<>>
    /\ phase \in {"filling", "writing"} => idx \in 1..Len(notif.com)
    /\ phase \in {"deleting", "filling"} => idx = 1
    /\ phase = "filling" => HasGap(high_water, Number[First(notif.com)])

LEMMA AfterDeletePhase ==
    ASSUME NEW n \in Notifications
    PROVE  /\ AfterDelete(n) \in {"ready", "filling", "writing"}
           /\ AfterDelete(n) # "ready" => n.com # <<>>
           /\ AfterDelete(n) = "filling" =>
                HasGap(high_water, Number[First(n.com)])
           /\ AfterDelete(n) = "writing" =>
                ~ HasGap(high_water, Number[First(n.com)])
BY DEF AfterDelete

\* Type correctness: every variable keeps its type, and the phases never read
\* a notification or a chain position that is not there.
LEMMA TypeCorrect == Spec => [](TypeOK /\ PhaseInv)
<1>1. Init => TypeOK /\ PhaseInv
  BY NoneIsNeither DEF Init, LedgerInit, TypeOK, LedgerTypeOK, PhaseInv, Phases
<1>2. TypeOK /\ PhaseInv /\ [Next]_vars => TypeOK' /\ PhaseInv'
  <2> SUFFICES ASSUME TypeOK, PhaseInv, [Next]_vars
               PROVE  TypeOK' /\ PhaseInv'
    OBVIOUS
  <2> USE NoneIsNeither
  <2>1. CASE Start
    BY <2>1, TreeAssumption DEF Start, TypeOK, LedgerTypeOK, PhaseInv, Phases,
       ResumeHeight, ledgerVars, auxVars, HasGap
  <2>2. CASE Stop
    BY <2>2 DEF Stop, TypeOK, LedgerTypeOK, PhaseInv, Phases, ledgerVars
  <2>3. ASSUME NEW n \in Notifications, Receive(n)
        PROVE  TypeOK' /\ PhaseInv'
    <3>1. phase' \in {"ready", "deleting", "filling", "writing"}
      BY <2>3, AfterDeletePhase DEF Receive
    <3>2. told' \in Blocks \cup {None}
      <4>1. CASE n.com # <<>>
        BY <4>1, <2>3, ChainFacts DEF Receive
      <4>2. CASE n.com = <<>>
        <5>1. First(n.rev) \in Blocks
          BY <4>2, DriverAssumption DEF First
        <5>2. QED BY <4>2, <5>1, <2>3, TreeAssumption DEF Receive
      <4>3. QED BY <4>1, <4>2
    <3>3. TypeOK'
      BY <2>3, <3>1, <3>2 DEF Receive, TypeOK, LedgerTypeOK, Phases, ledgerVars
    <3>4. PhaseInv'
      BY <2>3, <3>1, AfterDeletePhase, ChainFacts
      DEF Receive, PhaseInv, HasGap, First
    <3>5. QED BY <3>3, <3>4
  <2>4. CASE DeleteReverted
    <3>1. /\ notif \in Notifications /\ idx = 1
          /\ phase' \in {"ready", "filling", "writing"}
      BY <2>4, AfterDeletePhase DEF DeleteReverted, PhaseInv
    <3>2. LedgerTypeOK'
      BY <2>4 DEF DeleteReverted, DeleteBlocks, TypeOK, LedgerTypeOK
    <3>3. TypeOK'
      BY <2>4, <3>1, <3>2 DEF DeleteReverted, DeleteBlocks, TypeOK, Phases
    <3>4. PhaseInv'
      BY <2>4, <3>1, AfterDeletePhase, ChainFacts
      DEF DeleteReverted, PhaseInv, HasGap, First
    <3>5. QED BY <3>3, <3>4
  <2>5. ASSUME NEW b \in Blocks, FillGap(b)
        PROVE  TypeOK' /\ PhaseInv'
    <3>1. LedgerTypeOK'
      BY <2>5, FlagType
      DEF FillGap, WriteGapBlockMarker, TypeOK, LedgerTypeOK, Causes
    <3>2. TypeOK'
      BY <2>5, <3>1, HeightIsPositive DEF FillGap, TypeOK, Phases
    <3>3. PhaseInv'
      BY <2>5 DEF FillGap, PhaseInv, HasGap
    <3>4. QED BY <3>2, <3>3
  <2>6. ASSUME phase = "writing", Advance, NEW groups \in SUBSET RowGroups,
               NEW S, WriteBlock(Current, groups, S)
        PROVE  TypeOK' /\ PhaseInv'
    <3>1. Current \in Blocks /\ Len(notif.com) \in Nat /\ idx \in 1..Len(notif.com)
      BY <2>6, ChainFacts DEF PhaseInv, Current
    <3>2. LedgerTypeOK'
      BY <2>6, <3>1, FlagType
      DEF WriteBlock, TypeOK, LedgerTypeOK, Causes
    <3>3. TypeOK'
      <4>1. Number[Current] \in Nat
        BY <3>1, HeightIsPositive
      <4>2. idx' \in Nat \ {0}
        BY <2>6, <3>1 DEF Advance
      <4>3. phase' \in Phases
        BY <2>6 DEF Advance, Phases
      <4>4. recorded' \subseteq Blocks /\ heights' \subseteq Nat
        BY <2>6, <3>1, <4>1 DEF Advance, TypeOK
      <4>5. QED
        BY <2>6, <3>2, <4>1, <4>2, <4>3, <4>4 DEF Advance, TypeOK
    <3>4. PhaseInv'
      BY <2>6, <3>1 DEF Advance, PhaseInv
    <3>5. QED BY <3>3, <3>4
  <2>7. CASE WriteFull
    BY <2>6, <2>7 DEF WriteFull, FullGroups, RowGroups
  <2>8. CASE WritePartial
    BY <2>6, <2>8 DEF WritePartial, RowGroups
  <2>9. ASSUME NEW a \in Watched, Stall(a)
        PROVE  TypeOK' /\ PhaseInv'
    <3>1. Current \in Blocks
      BY <2>9, ChainFacts DEF Stall, PhaseInv, Current
    <3>2. LedgerTypeOK'
      BY <2>9, <3>1, FlagType
      DEF Stall, WriteUnattributed, TypeOK, LedgerTypeOK, Causes
    <3>3. QED
      BY <2>9, <3>2 DEF Stall, TypeOK, PhaseInv, driverVars, auxVars
  <2>10. CASE Emit
    BY <2>10, ChainFacts DEF Emit, TypeOK, LedgerTypeOK, PhaseInv, Phases,
       ledgerVars, auxVars
  <2>11. CASE UNCHANGED vars
    BY <2>11 DEF vars, ledgerVars, driverVars, auxVars, TypeOK, LedgerTypeOK,
       PhaseInv
  <2>12. QED
    BY <2>1, <2>2, <2>3, <2>4, <2>5, <2>7, <2>8, <2>9, <2>10, <2>11
    DEF Next, Step, AttemptFails
<1>3. QED BY <1>1, <1>2, PTL DEF Spec

\* The type invariant the runs check holds in every behaviour.
THEOREM TypeSafety == Spec => []TypeOK
BY TypeCorrect, PTL

-----------------------------------------------------------------------------
\* How far the next durable write may reach: the block the per-block loop is
\* at is at most one above the high-water mark, because the gap before the
\* first block was filled and the chain has consecutive heights.
ReachInv ==
    phase = "writing" =>
        (high_water # None => Number[Current] <= high_water + 1)

\* The resume point is the last of a gapless run of durable heights.
LogInv ==
    /\ last # None => Number[last] \in heights
    /\ last = None => heights = {}
    /\ NoHoles
    /\ FinishedIsDurable

\* What the notification being handled has put into the ledger so far.
ProgressInv ==
    /\ phase = "writing" => \A i \in 1..(idx - 1) : notif.com[i] \in recorded
    /\ phase = "emitting" => /\ Tip(notif.com) = last
                             /\ Elems(notif.com) \subseteq recorded

DriverInv == HighWaterMirrorsMeta /\ ReachInv /\ LogInv /\ ProgressInv

\* Recording one more height k keeps the log gapless when k is at most one
\* above the resume point.
LEMMA RecordHeight ==
    ASSUME TypeOK, LogInv, NEW b \in Blocks, last' = b,
           last # None => Number[b] <= Number[last] + 1,
           heights' = heights \cup {Number[b]},
           UNCHANGED <<pending_finished, finished>>
    PROVE  LogInv'
<1>1. Number[b] \in Nat /\ b # None
  BY HeightIsPositive, NoneIsNeither
<1>2. NoHoles'
  <2> SUFFICES ASSUME NEW m \in heights', NEW k \in m..Number[b]
               PROVE  k \in heights'
    BY DEF NoHoles
  <2>1. CASE k = Number[b]
    BY <2>1
  <2>2. CASE k # Number[b]
    <3>1. m \in Int /\ k \in Int /\ m <= k /\ k < Number[b]
      BY <1>1, <2>2 DEF TypeOK
    <3>2. m \in heights
      BY <1>1, <3>1
    <3>3. last # None /\ Number[last] \in Nat
      BY <3>2, HeightIsPositive DEF LogInv, TypeOK, LedgerTypeOK
    <3>4. k \in m..Number[last]
      BY <1>1, <3>1, <3>3
    <3>5. QED BY <3>2, <3>3, <3>4 DEF LogInv, NoHoles
  <2>3. QED BY <2>1, <2>2
<1>3. QED BY <1>1, <1>2 DEF LogInv, FinishedIsDurable

\* Where the loop body goes after the reverted chain, with nothing committed
\* yet: the chain's first block is within reach unless there is a gap to fill.
LEMMA AfterDeleteReach ==
    ASSUME TypeOK, NEW n \in Notifications, AfterDelete(n) = "writing",
           high_water # None
    PROVE  Number[n.com[1]] <= high_water + 1
<1>1. n.com # <<>> /\ ~ HasGap(high_water, Number[First(n.com)])
  BY AfterDeletePhase
<1>2. Number[First(n.com)] \in Nat
  BY <1>1, ChainFacts, HeightIsPositive
<1>3. QED BY <1>1, <1>2 DEF HasGap, First, TypeOK

LEMMA DriverInvStep ==
    TypeOK /\ PhaseInv /\ DriverInv /\ [Next]_vars => DriverInv'
<1> SUFFICES ASSUME TypeOK, PhaseInv, DriverInv, [Next]_vars
             PROVE  DriverInv'
  OBVIOUS
<1> USE NoneIsNeither
<1>1. CASE Start
  BY <1>1 DEF Start, DriverInv, HighWaterMirrorsMeta, ReachInv, LogInv,
     NoHoles, FinishedIsDurable, ProgressInv, ResumeHeight, ledgerVars, auxVars
<1>2. CASE Stop
  BY <1>2 DEF Stop, DriverInv, HighWaterMirrorsMeta, ReachInv, LogInv,
     NoHoles, FinishedIsDurable, ProgressInv, ResumeHeight, ledgerVars
<1>3. ASSUME NEW n \in Notifications, Receive(n)
      PROVE  DriverInv'
  <2>1. /\ notif' = n /\ idx' = 1
        /\ UNCHANGED <<last, high_water, pending_finished, finished, heights>>
        /\ phase = "ready"
        /\ phase' = "writing" => AfterDelete(n) = "writing"
        /\ phase' \in {"ready", "deleting", "filling", "writing"}
    BY <1>3, AfterDeletePhase DEF Receive, ledgerVars
  <2>2. HighWaterMirrorsMeta' /\ LogInv'
    BY <2>1 DEF DriverInv, HighWaterMirrorsMeta, ResumeHeight, LogInv, NoHoles,
       FinishedIsDurable
  <2>3. ReachInv'
    BY <2>1, AfterDeleteReach DEF ReachInv, Current
  <2>4. ProgressInv'
    BY <2>1 DEF ProgressInv
  <2>5. QED BY <2>2, <2>3, <2>4 DEF DriverInv
<1>4. CASE DeleteReverted
  <2>1. /\ notif \in Notifications /\ idx = 1 /\ phase = "deleting"
        /\ UNCHANGED <<notif, idx, last, high_water, pending_finished,
                       finished, heights>>
        /\ phase' = AfterDelete(notif)
        /\ phase' \in {"ready", "filling", "writing"}
    BY <1>4, AfterDeletePhase DEF DeleteReverted, DeleteBlocks, PhaseInv
  <2>2. HighWaterMirrorsMeta' /\ LogInv'
    BY <2>1 DEF DriverInv, HighWaterMirrorsMeta, ResumeHeight, LogInv, NoHoles,
       FinishedIsDurable
  <2>3. ReachInv'
    BY <2>1, AfterDeleteReach DEF ReachInv, Current
  <2>4. ProgressInv'
    BY <2>1 DEF ProgressInv
  <2>5. QED BY <2>2, <2>3, <2>4 DEF DriverInv
<1>5. ASSUME NEW b \in Blocks, FillGap(b)
      PROVE  DriverInv'
  <2>1. /\ phase = "filling" /\ notif \in Notifications /\ notif.com # <<>>
        /\ idx = 1 /\ HasGap(high_water, Number[First(notif.com)])
    BY <1>5 DEF FillGap, PhaseInv
  <2>2. /\ high_water # None /\ last # None /\ high_water = Number[last]
    BY <2>1 DEF HasGap, DriverInv, HighWaterMirrorsMeta, ResumeHeight
  <2>3. /\ last' = b /\ high_water' = Number[b] /\ Number[b] = Number[last] + 1
        /\ heights' = heights \cup {Number[b]}
        /\ UNCHANGED <<notif, idx, pending_finished, finished>>
        /\ phase' \in {"filling", "writing"}
        /\ phase' = "writing" => ~ HasGap(Number[b], Number[First(notif.com)])
    BY <1>5, <2>2 DEF FillGap, WriteGapBlockMarker
  <2>4. Number[b] \in Nat /\ Number[First(notif.com)] \in Nat
    BY <2>1, ChainFacts, HeightIsPositive
  <2>5. LogInv'
    BY <2>3, <2>4, RecordHeight DEF DriverInv
  <2>6. HighWaterMirrorsMeta'
    BY <2>3 DEF HighWaterMirrorsMeta, ResumeHeight
  <2>7. ReachInv'
    BY <2>1, <2>3, <2>4 DEF ReachInv, HasGap, Current, First
  <2>8. ProgressInv'
    BY <2>1, <2>3 DEF ProgressInv
  <2>9. QED BY <2>5, <2>6, <2>7, <2>8 DEF DriverInv
<1>6. ASSUME phase = "writing", Advance, NEW groups, NEW S,
             WriteBlock(Current, groups, S)
      PROVE  DriverInv'
  <2>1. /\ notif \in Notifications /\ Len(notif.com) \in Nat
        /\ idx \in 1..Len(notif.com) /\ Current \in Blocks
    BY <1>6, ChainFacts DEF PhaseInv, Current
  <2>2. Number[Current] \in Nat
    BY <2>1, HeightIsPositive
  <2>3. /\ last' = Current /\ high_water' = Number[Current]
        /\ heights' = heights \cup {Number[Current]}
        /\ recorded' = recorded \cup {Current}
        /\ UNCHANGED <<notif, pending_finished, finished>>
    BY <1>6 DEF Advance, WriteBlock
  <2>4. last # None => Number[Current] <= Number[last] + 1
    <3> SUFFICES ASSUME last # None PROVE Number[Current] <= Number[last] + 1
      OBVIOUS
    <3>1. Number[last] \in Nat
      BY HeightIsPositive DEF TypeOK, LedgerTypeOK
    <3>2. high_water = Number[last] /\ high_water # None
      BY <1>6, <3>1 DEF DriverInv, HighWaterMirrorsMeta, ResumeHeight
    <3>3. QED BY <1>6, <3>2 DEF DriverInv, ReachInv
  <2>5. LogInv'
    BY <2>1, <2>3, <2>4, RecordHeight DEF DriverInv
  <2>6. HighWaterMirrorsMeta'
    BY <2>1, <2>3 DEF HighWaterMirrorsMeta, ResumeHeight
  <2>7. ReachInv'
    <3>1. SUFFICES ASSUME phase' = "writing"
                   PROVE  Number[notif.com[idx']] <= Number[Current] + 1
      BY <2>3 DEF ReachInv, Current
    <3>2. idx < Len(notif.com) /\ idx' = idx + 1
      BY <1>6, <3>1 DEF Advance
    <3>3. Number[notif.com[idx + 1]] = Number[notif.com[idx]] + 1
      BY <2>1, <3>2, ChainFacts
    <3>4. QED BY <2>2, <3>2, <3>3 DEF Current
  <2>8. \A i \in 1..idx : notif.com[i] \in recorded'
    BY <1>6, <2>1, <2>3 DEF DriverInv, ProgressInv, Current
  <2>9. ProgressInv'
    <3>1. CASE idx < Len(notif.com)
      BY <1>6, <2>1, <2>3, <2>8, <3>1 DEF Advance, ProgressInv
    <3>2. CASE ~ (idx < Len(notif.com))
      <4>1. idx = Len(notif.com) /\ phase' = "emitting"
        BY <1>6, <2>1, <3>2 DEF Advance
      <4>2. QED
        BY <2>3, <2>8, <4>1 DEF ProgressInv, Tip, Elems, Current
    <3>3. QED BY <3>1, <3>2
  <2>10. QED BY <2>5, <2>6, <2>7, <2>9 DEF DriverInv
<1>7. CASE WriteFull
  BY <1>6, <1>7 DEF WriteFull
<1>8. CASE WritePartial
  BY <1>6, <1>8 DEF WritePartial
<1>9. ASSUME NEW a \in Watched, Stall(a)
      PROVE  DriverInv'
  BY <1>9 DEF Stall, WriteUnattributed, driverVars, auxVars, DriverInv,
     HighWaterMirrorsMeta, ReachInv, Current, LogInv, NoHoles,
     FinishedIsDurable, ProgressInv, ResumeHeight
<1>10. CASE Emit
  <2>1. Tip(notif.com) = last /\ last # None
    BY <1>10, ChainFacts DEF Emit, DriverInv, ProgressInv, PhaseInv
  <2>2. FinishedIsDurable'
    BY <1>10, <2>1 DEF Emit, DriverInv, LogInv, FinishedIsDurable, ledgerVars,
       auxVars
  <2>3. QED
    BY <1>10, <2>2 DEF Emit, DriverInv, HighWaterMirrorsMeta, ReachInv, LogInv,
       NoHoles, ProgressInv, ResumeHeight, ledgerVars, auxVars
<1>11. CASE UNCHANGED vars
  BY <1>11 DEF vars, ledgerVars, driverVars, auxVars, DriverInv,
     HighWaterMirrorsMeta, ReachInv, Current, LogInv, NoHoles,
     FinishedIsDurable, ProgressInv, ResumeHeight
<1>12. QED
  BY <1>1, <1>2, <1>3, <1>4, <1>5, <1>7, <1>8, <1>9, <1>10, <1>11
  DEF Next, Step, AttemptFails

\* Type correctness and the driver's invariant together, in every behaviour.
LEMMA DriverCorrect == Spec => [](TypeOK /\ PhaseInv /\ DriverInv)
<1>1. Init => DriverInv
  BY DEF Init, LedgerInit, DriverInv, HighWaterMirrorsMeta, ReachInv, LogInv,
     NoHoles, FinishedIsDurable, ProgressInv
<1>2. QED BY <1>1, TypeCorrect, DriverInvStep, PTL DEF Spec

\* A crash at any point restarts gap detection where the running task stood.
THEOREM HighWaterIsDurable == Spec => []HighWaterMirrorsMeta
BY DriverCorrect, PTL DEF DriverInv

\* No height between two recorded ones is ever skipped without a row or marker.
THEOREM LogHasNoHoles == Spec => []NoHoles
BY DriverCorrect, PTL DEF DriverInv, LogInv

\* Neither FinishedHeight nor the lag slot ever names a height not yet durable.
THEOREM PrunerIsSafe == Spec => []FinishedIsDurable
BY DriverCorrect, PTL DEF DriverInv, LogInv

-----------------------------------------------------------------------------
\* One ledger transaction moves last_block up by at most one height.
THEOREM StepsAreSmall == Spec => NeverSkipsAHeight
<1>1. TypeOK /\ PhaseInv /\ DriverInv /\ [Next]_vars =>
        [last' # last /\ last # None => Number[last'] <= Number[last] + 1]_vars
  <2> SUFFICES ASSUME TypeOK, PhaseInv, DriverInv, Next,
                      last' # last, last # None
               PROVE  Number[last'] <= Number[last] + 1
    BY DEF vars
  <2>1. Number[last] \in Nat
    BY HeightIsPositive DEF TypeOK, LedgerTypeOK
  <2>2. phase # "down" => high_water = Number[last] /\ high_water # None
    BY <2>1, NoneIsNeither DEF DriverInv, HighWaterMirrorsMeta, ResumeHeight
  <2>3. ASSUME NEW b \in Blocks, FillGap(b)
        PROVE  Number[last'] <= Number[last] + 1
    BY <2>1, <2>2, <2>3 DEF FillGap, WriteGapBlockMarker
  <2>4. ASSUME phase = "writing", last' = Current
        PROVE  Number[last'] <= Number[last] + 1
    BY <2>2, <2>4 DEF DriverInv, ReachInv
  <2>5. CASE WriteFull
    BY <2>4, <2>5 DEF WriteFull, WriteBlock
  <2>6. CASE WritePartial
    BY <2>4, <2>6 DEF WritePartial, WriteBlock
  <2>7. QED
    BY <2>3, <2>5, <2>6
    DEF Next, Start, Stop, Receive, Step, DeleteReverted, DeleteBlocks, Stall,
        WriteUnattributed, AttemptFails, Emit, vars, ledgerVars
<1>2. QED BY <1>1, DriverCorrect, PTL DEF Spec, NeverSkipsAHeight

\* FinishedHeight goes out only when the whole committed chain is durable, and
\* it names the tip of the notification before it.
THEOREM EmitIsLagged == Spec => EmitsOnlyAfterDurable
<1>1. TypeOK /\ PhaseInv /\ DriverInv /\ [Next]_vars =>
        [finished' # finished =>
           /\ Elems(notif.com) \subseteq recorded
           /\ finished' = pending_finished
           /\ pending_finished' = last]_vars
  <2> SUFFICES ASSUME PhaseInv, DriverInv, Next, finished' # finished
               PROVE  /\ Elems(notif.com) \subseteq recorded
                      /\ finished' = pending_finished
                      /\ pending_finished' = last
    BY DEF vars
  <2>1. Emit
    BY DEF Next, Start, Stop, Receive, Step, DeleteReverted, FillGap,
       WriteFull, WritePartial, Advance, Stall, AttemptFails, vars, driverVars
  <2>2. QED BY <2>1 DEF Emit, DriverInv, ProgressInv
<1>2. QED BY <1>1, DriverCorrect, PTL DEF Spec, EmitsOnlyAfterDurable

-----------------------------------------------------------------------------
\* Every step of the driver is a step of the capture log or invisible to it.
LEMMA LogStep ==
    TypeOK /\ PhaseInv /\ DriverInv /\ [Next]_vars
      => [Log!LogNext]_(Log!logVars)
<1> SUFFICES ASSUME TypeOK, PhaseInv, DriverInv, [Next]_vars
             PROVE  Log!LogNext \/ UNCHANGED Log!logVars
  BY DEF Log!LogNext, Log!logVars
<1> USE NoneIsNeither
<1>1. last # None => Number[last] \in Nat
  BY HeightIsPositive DEF TypeOK, LedgerTypeOK
<1>2. phase # "down" /\ last # None =>
        high_water = Number[last] /\ high_water # None
  BY <1>1 DEF DriverInv, HighWaterMirrorsMeta, ResumeHeight
<1>3. ASSUME NEW b \in Blocks, last' = b, heights' = heights \cup {Number[b]},
             UNCHANGED finished, last # None => Number[b] <= Number[last] + 1
      PROVE  Log!LogNext
  <2>1. Log!Record(Number[b])
    BY <1>3 DEF Log!Record, ResumeHeight
  <2>2. QED BY <2>1 DEF Log!LogNext
<1>4. ASSUME NEW b \in Blocks, FillGap(b)
      PROVE  Log!LogNext
  <2>1. last' = b /\ heights' = heights \cup {Number[b]} /\ UNCHANGED finished
    BY <1>4 DEF FillGap, WriteGapBlockMarker
  <2>2. last # None => Number[b] <= Number[last] + 1
    BY <1>1, <1>2, <1>4 DEF FillGap
  <2>3. QED BY <1>3, <2>1, <2>2
<1>5. ASSUME phase = "writing", Advance, last' = Current
      PROVE  Log!LogNext
  <2>1. Current \in Blocks
    BY <1>5, ChainFacts DEF PhaseInv, Current
  <2>2. last # None => Number[Current] <= Number[last] + 1
    BY <1>2, <1>5 DEF DriverInv, ReachInv
  <2>3. QED BY <1>3, <1>5, <2>1, <2>2 DEF Advance
<1>6. CASE WriteFull
  BY <1>5, <1>6 DEF WriteFull, WriteBlock
<1>7. CASE WritePartial
  BY <1>5, <1>7 DEF WritePartial, WriteBlock
<1>8. CASE Emit
  <2>1. CASE pending_finished = None
    BY <1>8, <2>1 DEF Emit, ledgerVars, auxVars, Log!logVars, ResumeHeight
  <2>2. CASE pending_finished # None
    <3>1. pending_finished \in Blocks /\ Number[pending_finished] \in heights
      BY <2>2 DEF TypeOK, DriverInv, LogInv, FinishedIsDurable
    <3>2. Log!Release(Number[pending_finished])
      BY <1>8, <2>2, <3>1
      DEF Emit, ledgerVars, auxVars, Log!Release, ResumeHeight
    <3>3. QED BY <3>1, <3>2 DEF Log!LogNext
  <2>3. QED BY <2>1, <2>2
<1>9. CASE UNCHANGED <<last, heights, finished>>
  BY <1>9 DEF Log!logVars, ResumeHeight
<1>10. QED
  BY <1>4, <1>6, <1>7, <1>8, <1>9
  DEF Next, Start, Stop, Receive, Step, DeleteReverted, DeleteBlocks, Stall,
      WriteUnattributed, AttemptFails, vars, ledgerVars, driverVars, auxVars

\* The driver implements the capture log: it never records past the next
\* height and never releases a height to the pruner that is not durable.
THEOREM DriverImplementsLog == Spec => ImplementsCaptureLog
<1>1. Init => Log!LogInit
  BY DEF Init, LedgerInit, Log!LogInit, ResumeHeight
<1>2. QED
  BY <1>1, LogStep, DriverCorrect, PTL DEF Spec, ImplementsCaptureLog, Log!LogSpec

-----------------------------------------------------------------------------
\* The driver touches the ledger through its four operations and nothing else.
\* Module LedgerTransactions shows the statements of each to be one such step.
THEOREM DriverKeepsToLedger == Spec => LedgerSpec
<1>1. Init => LedgerInit
  BY DEF Init
<1>2. TypeOK /\ PhaseInv /\ [Next]_vars => [LedgerNext]_ledgerVars
  <2> SUFFICES ASSUME TypeOK, PhaseInv, [Next]_vars
               PROVE  LedgerNext \/ UNCHANGED ledgerVars
    OBVIOUS
  <2>1. phase = "writing" => Current \in Blocks
    BY ChainFacts DEF PhaseInv, Current
  <2>2. CASE DeleteReverted
    <3>1. Elems(notif.rev) \in SUBSET Blocks
      BY <2>2, ChainFacts DEF DeleteReverted, PhaseInv, Elems
    <3> QED BY <2>2, <3>1 DEF DeleteReverted, LedgerNext
  <2>3. ASSUME NEW b \in Blocks, FillGap(b) PROVE LedgerNext
    BY <2>3 DEF FillGap, LedgerNext
  <2>4. CASE WriteFull
    <3>1. FullGroups(notif.com, idx) \in SUBSET RowGroups
      BY DEF FullGroups, RowGroups
    <3> QED BY <2>1, <2>4, <3>1 DEF WriteFull, LedgerNext
  <2>5. CASE WritePartial
    <3>1. {"receipts"} \in SUBSET RowGroups
      BY DEF RowGroups
    <3>2. SkipMarked(notif.com, idx, defects) \in SUBSET Watched
      BY DEF SkipMarked, BundleAccounts
    <3> QED BY <2>1, <2>5, <3>1, <3>2 DEF WritePartial, LedgerNext
  <2>6. ASSUME NEW a \in Watched, Stall(a) PROVE LedgerNext
    BY <2>1, <2>6 DEF Stall, LedgerNext
  <2>7. CASE UNCHANGED ledgerVars
    BY <2>7
  <2> QED BY <2>2, <2>3, <2>4, <2>5, <2>6, <2>7
          DEF Next, Start, Stop, Receive, Step, AttemptFails, Emit, vars
<1> QED BY <1>1, <1>2, TypeCorrect, PTL DEF Spec, LedgerSpec
=============================================================================
