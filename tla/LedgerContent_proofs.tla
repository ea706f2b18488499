------------------------ MODULE LedgerContent_proofs ------------------------
(***************************************************************************)
(* Theorems about what the ledger holds for a block: what a revert leaves, *)
(* and, when notifications commit one block at a time, that no balance     *)
(* change is lost silently and every stall has one of two named causes.    *)
(***************************************************************************)
EXTENDS PassbookExEx_proofs

-----------------------------------------------------------------------------
\* What the block pipeline computes when the chain of a notification is one
\* block long: the bundle then starts at the block's own parent, and the observed
\* delta is the block's own.
LEMMA AccountTypes ==
    ASSUME NEW b \in Blocks, NEW a \in Watched
    PROVE  /\ Account[b][a] \in [balance : Nat, nonce : Nat]
           /\ Account[Parent[b]][a] \in [balance : Nat, nonce : Nat]
           /\ Activity[b][a] \in [in : Nat, out : Nat, gas : Nat, credit : Int,
                                  writes : BOOLEAN]
           /\ OwnDelta(b, a) \in Int
           /\ OwnDelta(b, a) = Activity[b][a].in - Activity[b][a].out
                                 - Activity[b][a].gas + Activity[b][a].credit
<1>1. Parent[b] \in Blocks \cup {None}
  BY TreeAssumption
<1>2. /\ Account[b][a] \in [balance : Nat, nonce : Nat]
      /\ Account[Parent[b]][a] \in [balance : Nat, nonce : Nat]
      /\ Activity[b][a] \in [in : Nat, out : Nat, gas : Nat, credit : Int,
                                  writes : BOOLEAN]
  BY <1>1, PipelineAssumption
<1>3. Account[b][a].balance
        = Account[Parent[b]][a].balance + Activity[b][a].in - Activity[b][a].out
            - Activity[b][a].gas + Activity[b][a].credit
  BY PipelineAssumption
<1>4. QED BY <1>2, <1>3 DEF OwnDelta

\* The bundle of a chain of one block.
LEMMA OneBlockBundle ==
    ASSUME NEW c, NEW b \in Blocks, c[1] = b
    PROVE  /\ \A a : Observed(c, 1, a) = OwnDelta(b, a)
           /\ BundleAccounts(c, 1)
                = {a \in Watched : \/ Account[b][a] # Account[Parent[b]][a]
                                   \/ Activity[b][a].writes}
           /\ AnyWatchedChanged(c, 1)
                <=> \E a \in Watched : Account[b][a] # Account[Parent[b]][a]
<1>1. \A a : Observed(c, 1, a) = OwnDelta(b, a)
  BY DEF Observed, OwnDelta, Info, OriginalInfo
<1>2. BundleAccounts(c, 1)
        = {a \in Watched : \/ Account[b][a] # Account[Parent[b]][a]
                           \/ Activity[b][a].writes}
  <2>1. 1..1 = {1}
    OBVIOUS
  <2>2. QED BY <2>1 DEF BundleAccounts
<1>3. QED
  BY <1>1, <1>2 DEF AnyWatchedChanged, Info, OriginalInfo

\* A block whose credits are all recognised reconciles, unless one of them was
\* spent behind the closed gate.  Behind the gate no sender's nonce moved, so no
\* gas was paid, and the observed delta is zero.
LEMMA OneBlockReconciles ==
    ASSUME NEW c, NEW b \in Blocks, c[1] = b, NEW missed, b \notin missed
    PROVE  Unreconciled(c, 1, missed) \subseteq CreditBehindGate(b)
<1> SUFFICES ASSUME NEW a \in BundleAccounts(c, 1),
                    Observed(c, 1, a) # Attributed(c, 1, a, missed)
             PROVE  a \in CreditBehindGate(b)
  BY DEF Unreconciled
<1>1. a \in Watched
  BY OneBlockBundle
<1>2. Observed(c, 1, a) = Activity[b][a].in - Activity[b][a].out
                            - Activity[b][a].gas + Activity[b][a].credit
  BY <1>1, OneBlockBundle, AccountTypes
<1>3. ~ AnyWatchedChanged(c, 1)
  BY <1>1, <1>2 DEF Attributed, SystemSigned
<1>4. \A x \in Watched : Account[b][x] = Account[Parent[b]][x]
  BY <1>3, OneBlockBundle
<1>5. Activity[b][a].writes
  BY <1>1, <1>4, OneBlockBundle
<1>6. Observed(c, 1, a) = 0
  BY <1>1, <1>4, OneBlockBundle, AccountTypes DEF OwnDelta
<1>7. Activity[b][a].gas = 0
  <2>1. Activity[b][a].gas > 0
          => Account[b][a].nonce > Account[Parent[b]][a].nonce
    BY <1>1, PipelineAssumption
  <2>2. QED BY <1>1, <1>4, <2>1, AccountTypes
<1>8. Attributed(c, 1, a, missed) = Activity[b][a].credit
  BY <1>1, <1>3, <1>7, AccountTypes DEF Attributed, SystemSigned
<1>9. QED BY <1>1, <1>4, <1>5, <1>6, <1>8 DEF CreditBehindGate

\* An account whose balance changed is in the bundle and opens the gate.
LEMMA OneBlockGate ==
    ASSUME NEW c, NEW b \in Blocks, c[1] = b, NEW a \in Watched,
           OwnDelta(b, a) # 0
    PROVE  a \in BundleAccounts(c, 1) /\ AnyWatchedChanged(c, 1)
<1>1. Account[b][a] # Account[Parent[b]][a]
  BY AccountTypes DEF OwnDelta
<1>2. QED BY <1>1, OneBlockBundle

\* Not recognising a credit leaves more of a delta unattributed, never less.
LEMMA OneBlockSkip ==
    ASSUME NEW c, NEW b \in Blocks, c[1] = b, NEW missed, NEW a \in Moved(b)
    PROVE  a \in SkipMarked(c, 1, missed) /\ AnyWatchedChanged(c, 1)
<1> DEFINE d == OwnDelta(b, a)
           credit == Activity[b][a].credit
<1>0. a \in Watched /\ ((d > 0 /\ credit < d) \/ (d < 0 /\ credit > d))
  BY DEF Moved
<1>1. d \in Int /\ credit \in Int /\ d # 0
  <2>1. d \in Int /\ credit \in Int
    BY <1>0, AccountTypes
  <2> HIDE DEF d, credit
  <2>2. QED BY <1>0, <2>1
<1>2. SkipResidual(d, credit) # 0 /\ SkipResidual(d, 0) # 0
  <2> HIDE DEF d, credit
  <2>1. QED BY <1>0, <1>1 DEF SkipResidual, Magnitude
<1>3. QED
  BY <1>0, <1>1, <1>2, OneBlockBundle, OneBlockGate DEF SkipMarked, SystemSigned

\* A balance change next to a credit the release misses neither reconciles nor
\* passes the skip path unmarked.
LEMMA OneBlockMissed ==
    ASSUME NEW c, NEW b \in Blocks, c[1] = b, NEW missed, b \in missed,
           NEW a \in Watched, Activity[b][a].credit # 0, OwnDelta(b, a) # 0
    PROVE  a \in Unreconciled(c, 1, missed) /\ a \in SkipMarked(c, 1, missed)
<1>1. a \in BundleAccounts(c, 1) /\ AnyWatchedChanged(c, 1)
  BY OneBlockGate
<1>2. Observed(c, 1, a) # Attributed(c, 1, a, missed)
  <2>1. Observed(c, 1, a) = Activity[b][a].in - Activity[b][a].out
                              - Activity[b][a].gas + Activity[b][a].credit
    BY OneBlockBundle, AccountTypes
  <2>2. Attributed(c, 1, a, missed)
          = Activity[b][a].in - Activity[b][a].out - Activity[b][a].gas + 0
    BY <1>1 DEF Attributed, SystemSigned
  <2>3. QED BY <2>1, <2>2, AccountTypes
<1>3. SkipResidual(OwnDelta(b, a), 0) # 0
  BY AccountTypes DEF SkipResidual, Magnitude
<1>4. QED
  BY <1>1, <1>2, <1>3, OneBlockBundle DEF Unreconciled, SkipMarked, SystemSigned

-----------------------------------------------------------------------------
\* What the ledger holds.

\* The marker of an address flagged in block b, and of everything else.
LEMMA FlagValue ==
    ASSUME LedgerTypeOK, NEW b \in Blocks, NEW S, NEW cause,
           marks' = Flag(b, S, cause), NEW c \in Blocks, NEW a \in Watched
    PROVE  marks'[c][a] = IF c = b /\ a \in S THEN cause ELSE marks[c][a]
BY DEF LedgerTypeOK, Flag

\* The block at hand is a block of the tree.
LEMMA CurrentIsBlock ==
    ASSUME PhaseInv, phase = "writing"
    PROVE  Current \in Blocks /\ notif \in Notifications /\ idx \in 1..Len(notif.com)
BY ChainFacts DEF PhaseInv, Current

\* A step that records block b: row groups and a marker per address of S are
\* added to b's, the other blocks keep theirs.
Stores(b, groups, S, cause) ==
    /\ \A c \in Blocks :
         rows'[c] = IF c = b THEN rows[c] \cup groups ELSE rows[c]
    /\ \A c \in Blocks : \A a \in Watched :
         marks'[c][a] = IF c = b /\ a \in S THEN cause ELSE marks[c][a]
    /\ recorded' = recorded \cup {b}
    /\ defects' = defects

\* Both kinds of record, and what a delete does to one row and one marker.
LEMMA WriteBlockStores ==
    ASSUME LedgerTypeOK, NEW b \in Blocks, NEW groups, NEW S,
           WriteBlock(b, groups, S),
           recorded' = recorded \cup {b}, defects' = defects
    PROVE  Stores(b, groups, S, "parent_state_unavailable")
<1>1. /\ rows' = [rows EXCEPT ![b] = @ \cup groups]
      /\ marks' = Flag(b, S, "parent_state_unavailable")
  BY DEF WriteBlock
<1>2. \A c \in Blocks :
        rows'[c] = IF c = b THEN rows[c] \cup groups ELSE rows[c]
  BY <1>1 DEF LedgerTypeOK
<1>3. \A c \in Blocks : \A a \in Watched :
        marks'[c][a] = IF c = b /\ a \in S THEN "parent_state_unavailable"
                       ELSE marks[c][a]
  BY <1>1, FlagValue
<1>4. QED BY <1>2, <1>3 DEF Stores

LEMMA FillGapStores ==
    ASSUME LedgerTypeOK, NEW b \in Blocks, FillGap(b)
    PROVE  Stores(b, {}, Watched, "block_not_delivered")
<1>1. /\ marks' = Flag(b, Watched, "block_not_delivered")
      /\ recorded' = recorded \cup {b} /\ defects' = defects
      /\ rows' = rows
  BY DEF FillGap, WriteGapBlockMarker
<1>2. \A c \in Blocks : \A a \in Watched :
        marks'[c][a] = IF c = b /\ a \in Watched THEN "block_not_delivered"
                       ELSE marks[c][a]
  BY <1>1, FlagValue
<1>3. QED BY <1>1, <1>2 DEF Stores

LEMMA DeleteBlocksValue ==
    ASSUME LedgerTypeOK, NEW S, DeleteBlocks(S)
    PROVE  /\ \A c \in Blocks : rows'[c] = IF c \in S THEN {} ELSE rows[c]
           /\ \A c \in Blocks : \A a \in Watched :
                marks'[c][a] = IF c \in S THEN None ELSE marks[c][a]
BY DEF LedgerTypeOK, DeleteBlocks

\* A fresh ledger is empty.
LEMMA InitContent ==
    ASSUME Init
    PROVE  /\ recorded = {}
           /\ \A b \in Blocks : rows[b] = {}
           /\ \A b \in Blocks : \A a \in Watched : marks[b][a] = None
<1>1. recorded = {} /\ rows = [b \in Blocks |-> {}]
      /\ marks = [b \in Blocks |-> [a \in Watched |-> None]]
  BY DEF Init, LedgerInit
<1>2. QED BY <1>1

-----------------------------------------------------------------------------
\* Reverts and stalls leave no rows of a block that is not recorded, whatever
\* the length of the chains.
THEOREM RevertsAreClean == Spec => []UnrecordedLeavesNothing
<1>1. Init => UnrecordedLeavesNothing
  BY InitContent DEF UnrecordedLeavesNothing
<1>2. TypeOK /\ PhaseInv /\ UnrecordedLeavesNothing /\ [Next]_vars
        => UnrecordedLeavesNothing'
  <2> SUFFICES ASSUME TypeOK, PhaseInv, UnrecordedLeavesNothing, [Next]_vars
               PROVE  UnrecordedLeavesNothing'
    OBVIOUS
  <2>1. LedgerTypeOK
    BY DEF TypeOK
  <2>2. CASE UNCHANGED <<rows, marks, recorded>>
    BY <2>2 DEF UnrecordedLeavesNothing
  <2>3. CASE DeleteReverted
    <3> SUFFICES ASSUME NEW c \in Blocks \ recorded'
                 PROVE  /\ rows'[c] = {}
                        /\ \A a \in Watched : marks'[c][a] \in {None, "unexplained_residual"}
      BY DEF UnrecordedLeavesNothing
    <3>1. CASE c \in Elems(notif.rev)
      BY <2>1, <2>3, <3>1, DeleteBlocksValue DEF DeleteReverted
    <3>2. CASE c \notin Elems(notif.rev)
      <4>1. c \in Blocks \ recorded
        BY <2>3, <3>2 DEF DeleteReverted
      <4>2. rows'[c] = rows[c] /\ \A a \in Watched : marks'[c][a] = marks[c][a]
        BY <2>1, <2>3, <3>2, DeleteBlocksValue DEF DeleteReverted
      <4>3. QED BY <4>1, <4>2 DEF UnrecordedLeavesNothing
    <3>3. QED BY <3>1, <3>2
  <2>4. ASSUME NEW b \in Blocks, NEW groups, NEW S, NEW cause,
               Stores(b, groups, S, cause)
        PROVE  UnrecordedLeavesNothing'
    <3> SUFFICES ASSUME NEW c \in Blocks \ recorded'
                 PROVE  /\ rows'[c] = {}
                        /\ \A a \in Watched : marks'[c][a] \in {None, "unexplained_residual"}
      BY DEF UnrecordedLeavesNothing
    <3>1. c # b /\ c \in Blocks \ recorded
      BY <2>4 DEF Stores
    <3>2. rows'[c] = rows[c] /\ \A a \in Watched : marks'[c][a] = marks[c][a]
      BY <2>4, <3>1 DEF Stores
    <3>3. QED BY <3>1, <3>2 DEF UnrecordedLeavesNothing
  <2>5. ASSUME NEW b \in Blocks, FillGap(b)
        PROVE  UnrecordedLeavesNothing'
    BY <2>1, <2>4, <2>5, FillGapStores
  <2>6. CASE WriteFull
    BY <2>1, <2>4, <2>6, CurrentIsBlock, WriteBlockStores DEF WriteFull, Advance
  <2>7. CASE WritePartial
    BY <2>1, <2>4, <2>7, CurrentIsBlock, WriteBlockStores
    DEF WritePartial, Advance
  <2>8. ASSUME NEW a \in Watched, Stall(a)
        PROVE  UnrecordedLeavesNothing'
    <3>1. /\ Current \in Blocks
          /\ marks' = Flag(Current, {a}, "unexplained_residual")
          /\ UNCHANGED <<rows, recorded>>
      BY <2>8, CurrentIsBlock DEF Stall, WriteUnattributed, auxVars
    <3>2. \A c \in Blocks : \A x \in Watched :
            marks'[c][x] \in {"unexplained_residual", marks[c][x]}
      BY <2>1, <3>1, FlagValue
    <3>3. QED BY <3>1, <3>2 DEF UnrecordedLeavesNothing
  <2>9. QED
    BY <2>2, <2>3, <2>5, <2>6, <2>7, <2>8
    DEF Next, Step, Start, Stop, Receive, Emit, AttemptFails, vars, ledgerVars,
        auxVars
<1>3. QED BY <1>1, <1>2, TypeCorrect, PTL DEF Spec

-----------------------------------------------------------------------------
\* The strengthening for the content properties.  The second and third part
\* need UnrecordedLeavesNothing: a gap marker or a skip leaves the rows of a
\* block as they were, so that an inexplicable change has no frames afterwards
\* rests on what an earlier write, or a revert, left of it.
ContentInv ==
    /\ UnrecordedLeavesNothing
    /\ RecordedIsAccounted
    /\ UnreconciledIsFlagged
    /\ StallsAreExplained

LEMMA SubsetsOfWatched ==
    \A b : Moved(b) \subseteq Watched /\ Inexplicable(b) \subseteq Watched
BY DEF Moved, Inexplicable

\* The record is right for block b: its marks cover what moved in b, or b's
\* frames are stored with it.
Covers(b, groups, S) ==
    \/ /\ "frames" \notin groups
       /\ Moved(b) \subseteq S
       /\ b \in defects => Inexplicable(b) \subseteq S
    \/ /\ Moved(b) # {} => "frames" \in groups
       /\ b \in defects => Inexplicable(b) = {}

LEMMA RecordContent ==
    ASSUME TypeOK, ContentInv, NEW b \in Blocks, NEW S, NEW groups,
           NEW cause \in Causes, cause # "unexplained_residual",
           Stores(b, groups, S, cause), Covers(b, groups, S)
    PROVE  RecordedIsAccounted' /\ UnreconciledIsFlagged' /\ StallsAreExplained'
<1> USE CauseAssumption, SubsetsOfWatched
<1>1. /\ recorded \subseteq Blocks /\ cause # None
      /\ recorded' = recorded \cup {b} /\ defects' = defects
  BY DEF TypeOK, Stores
<1>2. \A c \in Blocks : \A a \in Watched :
        marks'[c][a] = IF c = b /\ a \in S THEN cause ELSE marks[c][a]
  BY DEF Stores
<1>3. \A c \in Blocks :
        rows'[c] = IF c = b THEN rows[c] \cup groups ELSE rows[c]
  BY DEF Stores
<1>4. RecordedIsAccounted'
  <2> SUFFICES ASSUME NEW c \in recorded', NEW a \in Moved(c),
                      "frames" \notin rows'[c]
               PROVE  marks'[c][a] # None
    BY DEF RecordedIsAccounted, Accounted
  <2>0. c \in Blocks /\ a \in Watched /\ "frames" \notin rows[c]
    BY <1>1, <1>3
  <2>1. CASE c = b
    <3>1. "frames" \notin groups
      BY <1>3, <2>1
    <3>2. a \in S
      BY <2>1, <3>1 DEF Covers
    <3>3. QED BY <1>1, <1>2, <2>0, <2>1, <3>2
  <2>2. CASE c # b
    <3>1. marks[c][a] # None
      BY <1>1, <2>0, <2>2 DEF ContentInv, RecordedIsAccounted, Accounted
    <3>2. QED BY <1>2, <2>0, <2>2, <3>1
  <2>3. QED BY <2>1, <2>2
<1>5. UnreconciledIsFlagged'
  <2> SUFFICES ASSUME NEW c \in defects \cap recorded', NEW a \in Inexplicable(c)
               PROVE  "frames" \notin rows'[c] /\ marks'[c][a] # None
    BY <1>1 DEF UnreconciledIsFlagged
  <2>1. c \in Blocks /\ a \in Watched /\ "frames" \notin rows[c]
    BY <1>1 DEF ContentInv, UnreconciledIsFlagged, UnrecordedLeavesNothing
  <2>2. CASE c = b
    <3>1. "frames" \notin groups /\ a \in S
      BY <2>2 DEF Covers
    <3>2. QED BY <1>1, <1>2, <1>3, <2>1, <2>2, <3>1
  <2>3. CASE c # b
    BY <1>1, <1>2, <1>3, <2>1, <2>3 DEF ContentInv, UnreconciledIsFlagged
  <2>4. QED BY <2>2, <2>3
<1>6. StallsAreExplained'
  BY <1>2 DEF ContentInv, StallsAreExplained
<1>7. QED BY <1>4, <1>5, <1>6

LEMMA ContentStep ==
    ASSUME SingleBlockChains, TypeOK, PhaseInv, ContentInv, [Next]_vars
    PROVE  RecordedIsAccounted' /\ UnreconciledIsFlagged' /\ StallsAreExplained'
<1> USE CauseAssumption, SubsetsOfWatched
<1>1. LedgerTypeOK /\ recorded \subseteq Blocks /\ defects \subseteq Unexplained
  BY DEF TypeOK
<1>2. phase = "writing" =>
        Current \in Blocks /\ idx = 1 /\ notif.com[1] = Current
  BY CurrentIsBlock DEF SingleBlockChains, Current
<1>3. CASE UNCHANGED <<rows, marks, recorded>> /\ defects' \subseteq defects
  BY <1>3 DEF ContentInv, RecordedIsAccounted, Accounted, UnreconciledIsFlagged,
     StallsAreExplained
<1>4. CASE DeleteReverted
  <2> DEFINE S == Elems(notif.rev)
  <2>1. /\ \A c \in Blocks : rows'[c] = IF c \in S THEN {} ELSE rows[c]
        /\ \A c \in Blocks : \A a \in Watched :
             marks'[c][a] = IF c \in S THEN None ELSE marks[c][a]
        /\ recorded' = recorded \ S /\ defects' = defects
    BY <1>1, <1>4, DeleteBlocksValue DEF DeleteReverted
  <2> HIDE DEF S
  <2>2. RecordedIsAccounted'
    BY <1>1, <2>1 DEF ContentInv, RecordedIsAccounted, Accounted
  <2>3. UnreconciledIsFlagged'
    BY <1>1, <2>1 DEF ContentInv, UnreconciledIsFlagged
  <2>4. StallsAreExplained'
    BY <2>1 DEF ContentInv, StallsAreExplained, Causes
  <2>5. QED BY <2>2, <2>3, <2>4
<1>5. ASSUME NEW b \in Blocks, FillGap(b)
      PROVE  RecordedIsAccounted' /\ UnreconciledIsFlagged' /\ StallsAreExplained'
  <2>1. Stores(b, {}, Watched, "block_not_delivered")
    BY <1>1, <1>5, FillGapStores
  <2>2. Covers(b, {}, Watched)
    BY DEF Covers
  <2>3. QED BY <2>1, <2>2, RecordContent DEF Causes
<1>6. CASE WriteFull
  <2>1. PICK b \in Blocks : b = Current
    BY <1>2, <1>6 DEF WriteFull
  <2>2. /\ notif.com[1] = b /\ idx = 1
        /\ Unreconciled(notif.com, 1, defects) = {}
        /\ WriteBlock(b, FullGroups(notif.com, 1), {})
        /\ recorded' = recorded \cup {b} /\ defects' = defects
    BY <1>2, <1>6, <2>1 DEF WriteFull, Advance
  <2>3. Moved(b) # {} => "frames" \in FullGroups(notif.com, 1)
    BY <2>2, OneBlockSkip DEF FullGroups, RowGroups
  <2>4. b \in defects => Inexplicable(b) = {}
    BY <2>2, OneBlockMissed DEF Inexplicable
  <2>5. Covers(b, FullGroups(notif.com, 1), {})
    BY <2>3, <2>4 DEF Covers
  <2>6. Stores(b, FullGroups(notif.com, 1), {}, "parent_state_unavailable")
    BY <1>1, <2>2, WriteBlockStores
  <2>7. QED BY <2>5, <2>6, RecordContent DEF Causes
<1>7. CASE WritePartial
  <2>1. PICK b \in Blocks : b = Current
    BY <1>2, <1>7 DEF WritePartial
  <2> DEFINE S == SkipMarked(notif.com, 1, defects)
  <2>2. /\ notif.com[1] = b /\ idx = 1
        /\ WriteBlock(b, {"receipts"}, S)
        /\ recorded' = recorded \cup {b} /\ defects' = defects
    BY <1>2, <1>7, <2>1 DEF WritePartial, Advance
  <2>3. Moved(b) \subseteq S
    BY <2>2, OneBlockSkip
  <2>4. b \in defects => Inexplicable(b) \subseteq S
    BY <2>2, OneBlockMissed DEF Inexplicable
  <2>5. Covers(b, {"receipts"}, S)
    BY <2>3, <2>4 DEF Covers
  <2>6. Stores(b, {"receipts"}, S, "parent_state_unavailable")
    BY <1>1, <2>2, WriteBlockStores
  <2>7. QED BY <2>5, <2>6, RecordContent DEF Causes
<1>8. ASSUME NEW a \in Watched, Stall(a)
      PROVE  RecordedIsAccounted' /\ UnreconciledIsFlagged' /\ StallsAreExplained'
  <2>1. PICK b \in Blocks : b = Current
    BY <1>2, <1>8 DEF Stall
  <2>2. /\ marks' = Flag(b, {a}, "unexplained_residual")
        /\ UNCHANGED <<rows, recorded, defects>>
        /\ a \in Unreconciled(notif.com, 1, defects) /\ notif.com[1] = b
    BY <1>2, <1>8, <2>1 DEF Stall, WriteUnattributed, auxVars
  <2>3. \A c \in Blocks : \A x \in Watched :
          marks'[c][x] = IF c = b /\ x \in {a} THEN "unexplained_residual"
                         ELSE marks[c][x]
    <3>1. marks' = Flag(b, {a}, "unexplained_residual")
      BY <2>2
    <3>2. QED BY <1>1, <3>1, FlagValue
  <2>4. b \in Unexplained \/ a \in CreditBehindGate(b)
    BY <1>1, <2>2, OneBlockReconciles
  <2>5. \A c \in Blocks : \A x \in Watched :
          marks[c][x] # None => marks'[c][x] # None
    BY <2>3 DEF Causes
  <2>6. RecordedIsAccounted' /\ UnreconciledIsFlagged'
    BY <1>1, <2>2, <2>5
    DEF ContentInv, RecordedIsAccounted, Accounted, UnreconciledIsFlagged
  <2>7. StallsAreExplained'
    BY <2>3, <2>4 DEF ContentInv, StallsAreExplained
  <2>8. QED BY <2>6, <2>7
<1>9. QED
  BY <1>3, <1>4, <1>5, <1>6, <1>7, <1>8
  DEF Next, Step, Start, Stop, Receive, Emit, AttemptFails, vars, ledgerVars,
      auxVars

LEMMA ContentCorrect == ASSUME SingleBlockChains PROVE Spec => []ContentInv
<1>1. Init => ContentInv
  BY InitContent, CauseAssumption
  DEF ContentInv, RecordedIsAccounted, UnrecordedLeavesNothing,
      UnreconciledIsFlagged, StallsAreExplained, Causes
<1>2. /\ TypeOK /\ PhaseInv /\ ContentInv /\ [Next]_vars
      /\ UnrecordedLeavesNothing'
      => ContentInv'
  BY ContentStep DEF ContentInv
<1>3. QED BY <1>1, <1>2, TypeCorrect, RevertsAreClean, PTL DEF Spec

\* With one block per notification, a block the driver went past has the
\* frames of every account that moved in it, or a marker for that account.
THEOREM NothingIsLostSilently ==
    ASSUME SingleBlockChains PROVE Spec => []RecordedIsAccounted
BY ContentCorrect, PTL DEF ContentInv

\* With one block per notification, a balance change a release cannot explain
\* is never stored as an explained one.
THEOREM NoSilentResidual ==
    ASSUME SingleBlockChains PROVE Spec => []UnreconciledIsFlagged
BY ContentCorrect, PTL DEF ContentInv

\* With one block per notification, the driver stalls only on a block with a
\* credit or charge some release misses, or with a recognised credit that was
\* spent in a block that moves no watched balance or nonce.
THEOREM StallsAreJustified ==
    ASSUME SingleBlockChains PROVE Spec => []StallsAreExplained
BY ContentCorrect, PTL DEF ContentInv
=============================================================================
