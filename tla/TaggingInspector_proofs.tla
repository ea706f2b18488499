----------------------- MODULE TaggingInspector_proofs -----------------------
(***************************************************************************)
(* The value inspector is correct for every transaction: any number of     *)
(* frames, any nesting, any mix of reverts.                                *)
(***************************************************************************)
EXTENDS TaggingInspector, TLAPS

\* The parts of the inductive invariant, over the buffer and the movements as
\* they are at some point of a hook: fs holds exactly the movements that no
\* failed frame takes back, oldest first, and the mark of an open frame is
\* where its own movements begin.
Committed(fs, sq, mv, fl) ==
    /\ \A k \in 1..Len(fs) :
         fs[k] \in 0..(sq - 1) /\ mv[fs[k]].within \cap fl = {}
    /\ \A m \in 0..(sq - 1) :
         mv[m].within \cap fl = {} => \E k \in 1..Len(fs) : fs[k] = m
Ascending(fs) == \A j, k \in 1..Len(fs) : j < k => fs[j] < fs[k]
MarksFit(fs, mv, rm, op) ==
    /\ Len(rm) = Len(op)
    /\ \A j, k \in 1..Len(op) : j < k => rm[j] <= rm[k]
    /\ \A k \in 1..Len(op) :
         /\ rm[k] \in 0..Len(fs)
         /\ \A j \in 1..Len(fs) : op[k].id \in mv[fs[j]].within <=> j > rm[k]
TagsFit(fs, mv, tg) ==
    /\ Len(tg) = Len(fs)
    /\ \A k \in 1..Len(fs) : tg[k] = mv[fs[k]].own

\* The EVM's side: ids grow along the stack, an open frame has not failed, the
\* transaction's frame is number 1 and every movement is inside it.
StackInv ==
    /\ failed \subseteq 1..entered
    /\ \A k \in 1..Len(open) : open[k].id \in 1..entered /\ open[k].id \notin failed
    /\ \A j, k \in 1..Len(open) : j < k => open[j].id < open[k].id
    /\ open # <<>> => open[1].id = 1
MovesInv ==
    \A m \in 0..(seq - 1) :
        moves[m].within \subseteq 1..entered /\ 1 \in moves[m].within
\* One movement at most is the transaction's own: a call records it on entry,
\* a create when nothing can follow.
OwnInv ==
    /\ \A m, n \in 0..(seq - 1) : moves[m].own /\ moves[n].own => m = n
    /\ \A m \in 0..(seq - 1) :
         moves[m].own /\ open # <<>> => open[1].kind = "call"

InspectorInv ==
    /\ TypeOK
    /\ depth = Len(open)
    /\ StackInv
    /\ MovesInv
    /\ OwnInv
    /\ Committed(frames, seq, moves, failed)
    /\ Ascending(frames)
    /\ MarksFit(frames, moves, revert_marks, open)
    /\ TagsFit(frames, moves, tags)

-----------------------------------------------------------------------------
\* A movement recorded inside the open frames (and no failed one) keeps the
\* buffer right.
LEMMA RecordKeeps ==
    ASSUME NEW fs \in Seq(Nat), NEW sq \in Nat,
           NEW mv, NEW mv2, NEW rm \in Seq(Nat), NEW op \in Seq(OpenFrame),
           NEW fl, NEW gs \in Seq(Nat), gs = Append(fs, sq),
           Committed(fs, sq, mv, fl), Ascending(fs), MarksFit(fs, mv, rm, op),
           \A m \in 0..(sq - 1) : mv2[m] = mv[m],
           \A x \in mv2[sq].within : x \notin fl,
           \A k \in 1..Len(op) : op[k].id \in mv2[sq].within
    PROVE  /\ Committed(gs, sq + 1, mv2, fl)
           /\ Ascending(gs)
           /\ MarksFit(gs, mv2, rm, op)
<1>1. /\ Len(fs) \in Nat /\ Len(gs) = Len(fs) + 1 /\ gs[Len(fs) + 1] = sq
      /\ \A k \in 1..Len(fs) : gs[k] = fs[k]
      /\ \A k \in 1..Len(gs) : k = Len(fs) + 1 \/ k \in 1..Len(fs)
  OBVIOUS
<1>2. \A m \in 0..((sq + 1) - 1) : m = sq \/ m \in 0..(sq - 1)
  OBVIOUS
<1>3. \A k \in 1..Len(fs) : fs[k] \in 0..(sq - 1) /\ mv2[fs[k]] = mv[fs[k]]
  BY DEF Committed
<1>4. Committed(gs, sq + 1, mv2, fl)
  <2>1. ASSUME NEW k \in 1..Len(gs)
        PROVE  gs[k] \in 0..((sq + 1) - 1) /\ mv2[gs[k]].within \cap fl = {}
    <3>1. CASE k = Len(fs) + 1
      BY <3>1, <1>1
    <3>2. CASE k \in 1..Len(fs)
      <4>1. gs[k] = fs[k] /\ fs[k] \in 0..(sq - 1) /\ mv2[fs[k]] = mv[fs[k]]
        BY <3>2, <1>1, <1>3
      <4>2. mv[fs[k]].within \cap fl = {}
        BY <3>2 DEF Committed
      <4>3. QED BY <4>1, <4>2
    <3>3. QED BY <3>1, <3>2, <1>1
  <2>2. ASSUME NEW m \in 0..((sq + 1) - 1), mv2[m].within \cap fl = {}
        PROVE  \E k \in 1..Len(gs) : gs[k] = m
    <3>1. CASE m = sq
      BY <3>1, <1>1
    <3>2. CASE m \in 0..(sq - 1)
      <4>1. PICK k \in 1..Len(fs) : fs[k] = m
        BY <3>2, <2>2 DEF Committed
      <4>2. QED BY <4>1, <1>1
    <3>3. QED BY <3>1, <3>2, <1>2
  <2>3. QED BY <2>1, <2>2 DEF Committed
<1>5. Ascending(gs)
  <2>1. ASSUME NEW j \in 1..Len(gs), NEW k \in 1..Len(gs), j < k
        PROVE  gs[j] < gs[k]
    <3>1. j \in 1..Len(fs) /\ gs[j] = fs[j] /\ fs[j] \in 0..(sq - 1)
      BY <2>1, <1>1, <1>3
    <3>2. CASE k = Len(fs) + 1
      BY <3>1, <3>2, <1>1
    <3>3. CASE k \in 1..Len(fs)
      BY <3>1, <3>3, <2>1, <1>1 DEF Ascending
    <3>4. QED BY <3>2, <3>3, <1>1
  <2>2. QED BY <2>1 DEF Ascending
<1>6. MarksFit(gs, mv2, rm, op)
  <2>1. ASSUME NEW k \in 1..Len(op)
        PROVE  /\ rm[k] \in 0..Len(gs)
               /\ \A j \in 1..Len(gs) : op[k].id \in mv2[gs[j]].within <=> j > rm[k]
    <3>1. rm[k] \in 0..Len(fs)
      BY DEF MarksFit
    <3>2. op[k].id \in mv2[gs[Len(fs) + 1]].within /\ Len(fs) + 1 > rm[k]
      BY <3>1, <1>1
    <3>3. ASSUME NEW j \in 1..Len(fs)
          PROVE  op[k].id \in mv2[gs[j]].within <=> j > rm[k]
      <4>1. mv2[gs[j]] = mv[fs[j]]
        BY <1>1, <1>3
      <4>2. QED BY <4>1 DEF MarksFit
    <3>4. \A j \in 1..Len(gs) : op[k].id \in mv2[gs[j]].within <=> j > rm[k]
      BY <3>2, <3>3, <1>1
    <3>5. QED BY <3>1, <3>4, <1>1
  <2>2. Len(rm) = Len(op) /\ \A j, k \in 1..Len(op) : j < k => rm[j] <= rm[k]
    BY DEF MarksFit
  <2>3. QED BY <2>1, <2>2 DEF MarksFit
<1>7. QED BY <1>4, <1>5, <1>6

\* What exit_frame leaves of the buffer.
LEMMA ExitedIsPrefix ==
    ASSUME NEW fs \in Seq(Nat), NEW ok \in BOOLEAN, revert_marks \in Seq(Nat),
           revert_marks # <<>>, revert_marks[Len(revert_marks)] \in 0..Len(fs)
    PROVE  /\ Exited(fs, ok) \in Seq(Nat)
           /\ Len(Exited(fs, ok)) <= Len(fs)
           /\ \A k \in 1..Len(Exited(fs, ok)) : Exited(fs, ok)[k] = fs[k]
           /\ ok => Exited(fs, ok) = fs
           /\ ~ ok => Len(Exited(fs, ok)) = revert_marks[Len(revert_marks)]
<1> DEFINE mark == revert_marks[Len(revert_marks)]
<1>1. mark \in 0..Len(fs) /\ Len(fs) \in Nat
  OBVIOUS
<1>2. CASE ok \/ Len(fs) <= mark
  <2>1. Exited(fs, ok) = fs
    BY <1>1, <1>2 DEF Exited
  <2>2. QED BY <2>1, <1>1, <1>2
<1>3. CASE ~ ok /\ Len(fs) > mark
  <2>1. Exited(fs, ok) = SubSeq(fs, 1, mark)
    BY <1>3 DEF Exited
  <2>2. QED BY <2>1, <1>1, <1>3
<1>4. QED BY <1>1, <1>2, <1>3

\* The buffer fs becomes es, the stack op becomes op2 when the innermost frame
\* ends: nothing is dropped, or everything from its mark on.
EndsAs(fs, es, sq, mv, fl, fl2, rm, rm2, op, op2) ==
    /\ fs \in Seq(Nat) /\ es \in Seq(Nat) /\ sq \in Nat
    /\ rm \in Seq(Nat) /\ op \in Seq(OpenFrame) /\ Len(op) > 0
    /\ Committed(fs, sq, mv, fl) /\ Ascending(fs) /\ MarksFit(fs, mv, rm, op)
    /\ Len(es) <= Len(fs)
    /\ \A k \in 1..Len(es) : es[k] = fs[k]
    /\ \/ Len(es) = Len(fs) /\ fl2 = fl
       \/ Len(es) = rm[Len(op)] /\ fl2 = fl \cup {op[Len(op)].id}
    /\ Len(rm2) = Len(op) - 1 /\ Len(op2) = Len(op) - 1
    /\ \A k \in 1..(Len(op) - 1) : rm2[k] = rm[k] /\ op2[k] = op[k]

\* Leaving the innermost frame keeps the buffer right, whether the frame
\* committed or not: the movements of a failed frame are exactly those from
\* its mark on.
LEMMA LeaveKeeps ==
    ASSUME NEW fs, NEW es, NEW sq, NEW mv, NEW fl, NEW fl2,
           NEW rm, NEW rm2, NEW op, NEW op2,
           EndsAs(fs, es, sq, mv, fl, fl2, rm, rm2, op, op2)
    PROVE  /\ Committed(es, sq, mv, fl2)
           /\ Ascending(es)
           /\ MarksFit(es, mv, rm2, op2)
<1> DEFINE top == Len(op)
\* The hypothesis, taken apart.
<1>1. /\ Len(fs) \in Nat /\ Len(es) \in Nat /\ Len(es) <= Len(fs)
      /\ top \in Nat /\ top \in 1..Len(op) /\ Len(op) = top
  BY DEF EndsAs
<1>2. Committed(fs, sq, mv, fl) /\ Ascending(fs) /\ MarksFit(fs, mv, rm, op)
  BY DEF EndsAs
<1>3. \A i \in 1..Len(es) : i \in 1..Len(fs) /\ es[i] = fs[i]
  <2>1. \A i \in 1..Len(es) : es[i] = fs[i]
    BY DEF EndsAs
  <2>2. QED BY <2>1, <1>1
<1>4. \/ Len(es) = Len(fs) /\ fl2 = fl
      \/ Len(es) = rm[top] /\ fl2 = fl \cup {op[top].id}
  BY DEF EndsAs
<1>5. /\ Len(rm2) = top - 1 /\ Len(op2) = top - 1
      /\ \A i \in 1..(top - 1) : rm2[i] = rm[i] /\ op2[i] = op[i]
  BY DEF EndsAs
<1> HIDE DEF top
<1>6. \A k \in 1..top : rm[k] \in 0..Len(fs)
  BY <1>1, <1>2 DEF MarksFit
<1>7. \A j, k \in 1..top : j < k => rm[j] <= rm[k]
  BY <1>1, <1>2 DEF MarksFit
<1>8. \A k \in 1..top : \A j \in 1..Len(fs) :
        op[k].id \in mv[fs[j]].within <=> j > rm[k]
  BY <1>1, <1>2 DEF MarksFit
<1>9. rm[top] \in Nat /\ rm[top] <= Len(fs) /\ top \in 1..top
  BY <1>1, <1>6
<1>10. Committed(es, sq, mv, fl2)
  <2>1. ASSUME NEW k \in 1..Len(es)
        PROVE  es[k] \in 0..(sq - 1) /\ mv[es[k]].within \cap fl2 = {}
    <3>1. k \in 1..Len(fs) /\ es[k] = fs[k]
      BY <1>3
    <3>2. fs[k] \in 0..(sq - 1) /\ mv[fs[k]].within \cap fl = {}
      BY <3>1, <1>2 DEF Committed
    <3>3. CASE Len(es) = Len(fs) /\ fl2 = fl
      BY <3>1, <3>2, <3>3
    <3>4. CASE Len(es) = rm[top] /\ fl2 = fl \cup {op[top].id}
      <4>1. op[top].id \in mv[fs[k]].within <=> k > rm[top]
        BY <3>1, <1>8, <1>9
      <4>2. ~ (k > rm[top])
        BY <3>4, <1>9
      <4>3. op[top].id \notin mv[fs[k]].within
        BY <4>1, <4>2
      <4>4. QED BY <4>3, <3>1, <3>2, <3>4
    <3>5. QED BY <3>3, <3>4, <1>4
  <2>2. ASSUME NEW m \in 0..(sq - 1), mv[m].within \cap fl2 = {}
        PROVE  \E k \in 1..Len(es) : es[k] = m
    <3>1. mv[m].within \cap fl = {}
      BY <2>2, <1>4
    <3>2. PICK k \in 1..Len(fs) : fs[k] = m
      BY <3>1, <1>2 DEF Committed
    <3>3. k \in 1..Len(es)
      <4>1. CASE Len(es) = Len(fs) /\ fl2 = fl
        BY <4>1
      <4>2. CASE Len(es) = rm[top] /\ fl2 = fl \cup {op[top].id}
        <5>1. op[top].id \notin mv[m].within
          BY <4>2, <2>2
        <5>2. op[top].id \in mv[fs[k]].within <=> k > rm[top]
          BY <1>8, <1>9
        <5>3. ~ (k > rm[top])
          BY <5>1, <5>2, <3>2
        <5>4. QED BY <5>3, <4>2, <1>1, <1>9
      <4>3. QED BY <4>1, <4>2, <1>4
    <3>4. QED BY <3>2, <3>3, <1>3
  <2>3. QED BY <2>1, <2>2 DEF Committed
<1>11. Ascending(es)
  <2>1. ASSUME NEW j \in 1..Len(es), NEW k \in 1..Len(es), j < k
        PROVE  es[j] < es[k]
    <3>1. /\ j \in 1..Len(fs) /\ es[j] = fs[j]
          /\ k \in 1..Len(fs) /\ es[k] = fs[k]
      BY <1>3
    <3>2. QED BY <3>1, <2>1, <1>2 DEF Ascending
  <2>2. QED BY <2>1 DEF Ascending
<1>12. MarksFit(es, mv, rm2, op2)
  <2>1. \A k \in 1..(top - 1) : k \in 1..top /\ k < top
    BY <1>1
  <2>2. ASSUME NEW k \in 1..(top - 1)
        PROVE  /\ rm2[k] \in 0..Len(es)
               /\ \A j \in 1..Len(es) : op2[k].id \in mv[es[j]].within <=> j > rm2[k]
    <3>1. k \in 1..top /\ rm2[k] = rm[k] /\ op2[k] = op[k]
      BY <2>1, <1>5
    <3>2. rm2[k] \in 0..Len(es)
      <4>1. rm[k] <= rm[top]
        BY <2>1, <1>7, <1>9
      <4>2. rm[k] \in 0..Len(fs)
        BY <3>1, <1>6
      <4>3. Len(es) = Len(fs) \/ Len(es) = rm[top]
        BY <1>4
      <4>4. QED BY <4>1, <4>2, <4>3, <3>1, <1>1, <1>9
    <3>3. ASSUME NEW j \in 1..Len(es)
          PROVE  op2[k].id \in mv[es[j]].within <=> j > rm2[k]
      <4>1. j \in 1..Len(fs) /\ es[j] = fs[j]
        BY <1>3
      <4>2. op[k].id \in mv[fs[j]].within <=> j > rm[k]
        BY <4>1, <3>1, <1>8
      <4>3. QED BY <4>1, <4>2, <3>1
    <3>4. QED BY <3>2, <3>3
  <2>3. ASSUME NEW j \in 1..(top - 1), NEW k \in 1..(top - 1), j < k
        PROVE  rm2[j] <= rm2[k]
    <3>1. rm2[j] = rm[j] /\ rm2[k] = rm[k]
      BY <1>5
    <3>2. QED BY <3>1, <2>1, <2>3, <1>7
  <2>4. QED BY <2>2, <2>3, <1>5 DEF MarksFit
<1>13. QED BY <1>10, <1>11, <1>12

-----------------------------------------------------------------------------
\* sync_tags_after_exit follows a truncation of the frames.
LEMMA SyncKeepsTags ==
    ASSUME NEW fs \in Seq(Nat), NEW es \in Seq(Nat), NEW tg \in Seq(BOOLEAN), NEW mv,
           TagsFit(fs, mv, tg), Len(es) <= Len(fs),
           \A k \in 1..Len(es) : es[k] = fs[k]
    PROVE  Synced(tg, Len(es)) \in Seq(BOOLEAN) /\ TagsFit(es, mv, Synced(tg, Len(es)))
<1>1. Len(tg) = Len(fs) /\ Len(fs) \in Nat /\ Len(es) \in Nat
  BY DEF TagsFit
<1>2. /\ Synced(tg, Len(es)) \in Seq(BOOLEAN)
      /\ Len(Synced(tg, Len(es))) = Len(es)
      /\ \A k \in 1..Len(es) : Synced(tg, Len(es))[k] = tg[k]
  <2>1. CASE Len(tg) > Len(es)
    <3>1. Synced(tg, Len(es)) = SubSeq(tg, 1, Len(es))
      BY <2>1 DEF Synced
    <3>2. QED BY <3>1, <2>1, <1>1
  <2>2. CASE ~ (Len(tg) > Len(es))
    <3>1. Synced(tg, Len(es)) = tg /\ Len(tg) = Len(es)
      BY <2>2, <1>1 DEF Synced
    <3>2. QED BY <3>1
  <2>3. QED BY <2>1, <2>2
<1>3. \A k \in 1..Len(es) : Synced(tg, Len(es))[k] = mv[es[k]].own
  BY <1>1, <1>2 DEF TagsFit
<1>4. QED BY <1>2, <1>3 DEF TagsFit

\* A movement that is recorded and tagged keeps the tags aligned.
LEMMA RecordKeepsTags ==
    ASSUME NEW fs \in Seq(Nat), NEW sq \in Nat, NEW mv, NEW mv2, NEW fl,
           NEW tg \in Seq(BOOLEAN), NEW own \in BOOLEAN,
           Committed(fs, sq, mv, fl), TagsFit(fs, mv, tg),
           \A m \in 0..(sq - 1) : mv2[m] = mv[m], mv2[sq].own = own
    PROVE  TagsFit(Append(fs, sq), mv2, Append(tg, own))
<1>1. Len(tg) = Len(fs) /\ Len(fs) \in Nat
  BY DEF TagsFit
<1>2. ASSUME NEW k \in 1..Len(Append(fs, sq))
      PROVE  Append(tg, own)[k] = mv2[Append(fs, sq)[k]].own
  <2>1. CASE k = Len(fs) + 1
    BY <2>1, <1>1
  <2>2. CASE k \in 1..Len(fs)
    <3>1. Append(tg, own)[k] = tg[k] /\ Append(fs, sq)[k] = fs[k]
      BY <2>2, <1>1
    <3>2. fs[k] \in 0..(sq - 1) /\ tg[k] = mv[fs[k]].own
      BY <2>2 DEF Committed, TagsFit
    <3>3. QED BY <3>1, <3>2
  <2>3. QED BY <2>1, <2>2, <1>1
<1>3. QED BY <1>1, <1>2 DEF TagsFit

\* A new frame: the stack stays well formed and its mark is right.
LEMMA EnterKeeps ==
    ASSUME InspectorInv, MayEnter, NEW kind \in {"call", "create"}, Enter(kind),
           revert_marks' = Marked
    PROVE  /\ entered' \in Nat /\ open' \in Seq(OpenFrame)
           /\ revert_marks' \in Seq(Nat)
           /\ Len(open') = Len(open) + 1
           /\ \A k \in 1..Len(open) : open'[k] = open[k]
           /\ open'[Len(open')] = [id |-> entered + 1, kind |-> kind]
           /\ StackInv'
           /\ MarksFit(frames, moves, revert_marks', open')
<1> DEFINE new == [id |-> entered + 1, kind |-> kind]
<1>1. /\ open \in Seq(OpenFrame) /\ entered \in Nat /\ frames \in Seq(Nat)
      /\ revert_marks \in Seq(Nat) /\ Len(open) \in Nat /\ Len(frames) \in Nat
      /\ Len(revert_marks) = Len(open) /\ new \in OpenFrame
  BY DEF InspectorInv, TypeOK, MarksFit, OpenFrame
<1>2. /\ open' = Append(open, new) /\ entered' = entered + 1 /\ failed' = failed
      /\ revert_marks' = Append(revert_marks, Len(frames))
  BY DEF Enter, Marked
<1> HIDE DEF new
<1>3. /\ entered' \in Nat /\ open' \in Seq(OpenFrame)
      /\ revert_marks' \in Seq(Nat)
      /\ Len(open') = Len(open) + 1 /\ Len(revert_marks') = Len(open) + 1
      /\ \A k \in 1..Len(open) : open'[k] = open[k] /\ revert_marks'[k] = revert_marks[k]
      /\ open'[Len(open) + 1] = new /\ revert_marks'[Len(open) + 1] = Len(frames)
      /\ \A k \in 1..Len(open') : k = Len(open) + 1 \/ k \in 1..Len(open)
  BY <1>1, <1>2
<1>4. StackInv'
  <2>1. failed' \subseteq 1..entered'
    BY <1>1, <1>2 DEF InspectorInv, StackInv
  <2>2. ASSUME NEW k \in 1..Len(open')
        PROVE  open'[k].id \in 1..entered' /\ open'[k].id \notin failed'
    <3>1. CASE k = Len(open) + 1
      BY <3>1, <1>1, <1>2, <1>3 DEF InspectorInv, StackInv, new
    <3>2. CASE k \in 1..Len(open)
      BY <3>2, <1>1, <1>2, <1>3 DEF InspectorInv, StackInv
    <3>3. QED BY <3>1, <3>2, <1>3
  <2>3. ASSUME NEW j \in 1..Len(open'), NEW k \in 1..Len(open'), j < k
        PROVE  open'[j].id < open'[k].id
    <3>1. j \in 1..Len(open) /\ open'[j] = open[j] /\ open[j].id \in 1..entered
      BY <2>3, <1>1, <1>3 DEF InspectorInv, StackInv
    <3>2. CASE k = Len(open) + 1
      BY <3>1, <3>2, <1>1, <1>3 DEF new
    <3>3. CASE k \in 1..Len(open)
      BY <3>1, <3>3, <2>3, <1>3 DEF InspectorInv, StackInv
    <3>4. QED BY <3>2, <3>3, <1>3
  <2>4. open'[1].id = 1
    <3>1. CASE open = <<>>
      BY <3>1, <1>1, <1>3 DEF new, MayEnter, InspectorInv
    <3>2. CASE open # <<>>
      BY <3>2, <1>1, <1>3 DEF InspectorInv, StackInv
    <3>3. QED BY <3>1, <3>2
  <2>5. QED BY <2>1, <2>2, <2>3, <2>4 DEF StackInv
<1>5. MarksFit(frames, moves, revert_marks', open')
  <2>1. ASSUME NEW k \in 1..Len(open')
        PROVE  /\ revert_marks'[k] \in 0..Len(frames)
               /\ \A j \in 1..Len(frames) :
                    open'[k].id \in moves[frames[j]].within <=> j > revert_marks'[k]
    <3>1. CASE k = Len(open) + 1
      <4>1. ASSUME NEW j \in 1..Len(frames)
            PROVE  open'[k].id \notin moves[frames[j]].within /\ ~ (j > revert_marks'[k])
        <5>1. moves[frames[j]].within \subseteq 1..entered
          BY DEF InspectorInv, Committed, MovesInv
        <5>2. open'[k].id = entered + 1
          BY <3>1, <1>3 DEF new
        <5>3. entered + 1 \notin 1..entered
          BY <1>1
        <5>4. revert_marks'[k] = Len(frames) /\ ~ (j > Len(frames))
          BY <3>1, <1>1, <1>3
        <5>5. ~ (j > revert_marks'[k])
          BY <5>4
        <5>6. open'[k].id \notin moves[frames[j]].within
          BY <5>1, <5>2, <5>3
        <5>7. QED BY <5>5, <5>6
      <4>2. revert_marks'[k] \in 0..Len(frames)
        BY <3>1, <1>1, <1>3
      <4>3. QED BY <4>1, <4>2
    <3>2. CASE k \in 1..Len(open)
      BY <3>2, <1>3 DEF InspectorInv, MarksFit
    <3>3. QED BY <3>1, <3>2, <1>3
  <2>2. ASSUME NEW j \in 1..Len(open'), NEW k \in 1..Len(open'), j < k
        PROVE  revert_marks'[j] <= revert_marks'[k]
    <3>1. /\ j \in 1..Len(open) /\ revert_marks'[j] = revert_marks[j]
          /\ revert_marks[j] \in 0..Len(frames)
      BY <2>2, <1>1, <1>3 DEF InspectorInv, MarksFit
    <3>2. CASE k = Len(open) + 1
      BY <3>1, <3>2, <1>1, <1>3
    <3>3. CASE k \in 1..Len(open)
      BY <3>1, <3>3, <2>2, <1>3 DEF InspectorInv, MarksFit
    <3>4. QED BY <3>2, <3>3, <1>3
  <2>3. QED BY <2>1, <2>2, <1>3 DEF MarksFit
<1>6. QED BY <1>3, <1>4, <1>5 DEF new

LEMMA PrefixLen ==
    ASSUME NEW S, NEW s \in Seq(S), NEW n \in 0..Len(s)
    PROVE  Len(SubSeq(s, 1, n)) = n
OBVIOUS

\* The innermost frame ends: the rest of the stack is as it was.
LEMMA LeaveStack ==
    ASSUME InspectorInv, open # <<>>, NEW ok \in BOOLEAN, Leave(ok)
    PROVE  /\ entered' = entered /\ open' \in Seq(OpenFrame)
           /\ failed' \subseteq Nat
           /\ Len(open) \in Nat \ {0}
           /\ Len(open') = Len(open) - 1
           /\ \A k \in 1..(Len(open) - 1) : open'[k] = open[k]
           /\ StackInv'
<1>1. /\ open \in Seq(OpenFrame) /\ entered \in Nat
      /\ Len(open) \in Nat \ {0} /\ entered' = entered
      /\ open' = SubSeq(open, 1, Len(open) - 1)
  BY DEF InspectorInv, TypeOK, Leave
<1>2. /\ open' \in Seq(OpenFrame) /\ Len(open') = Len(open) - 1
      /\ \A k \in 1..(Len(open) - 1) : open'[k] = open[k] /\ k \in 1..Len(open)
      /\ Len(open) \in 1..Len(open)
  <2>1. open' \in Seq(OpenFrame)
    BY <1>1
  <2>2. Len(open') = Len(open) - 1
    <3>1. Len(open) - 1 \in Nat /\ Len(open) - 1 <= Len(open)
      BY <1>1
    <3>2. Len(open) - 1 \in 0..Len(open)
      BY <3>1
    <3>3. Len(SubSeq(open, 1, Len(open) - 1)) = Len(open) - 1
      BY <3>2, <1>1, PrefixLen
    <3>4. QED BY <3>3, <1>1
  <2>3. ASSUME NEW k \in 1..(Len(open) - 1)
        PROVE  open'[k] = open[k] /\ k \in 1..Len(open)
    BY <1>1
  <2>4. Len(open) \in 1..Len(open)
    BY <1>1
  <2>5. QED BY <2>1, <2>2, <2>3, <2>4
<1>3. failed' \subseteq failed \cup {open[Len(open)].id}
  BY DEF Leave
<1>4. failed' \subseteq 1..entered
  BY <1>1, <1>2, <1>3 DEF InspectorInv, StackInv
<1>5. ASSUME NEW k \in 1..Len(open')
      PROVE  open'[k].id \in 1..entered' /\ open'[k].id \notin failed'
  <2>1. k \in 1..(Len(open) - 1) /\ k < Len(open)
    BY <1>1, <1>2
  <2>2. open'[k] = open[k] /\ k \in 1..Len(open)
    BY <2>1, <1>2
  <2>3. open[k].id \in 1..entered /\ open[k].id \notin failed
    BY <2>2 DEF InspectorInv, StackInv
  <2>4. open[k].id < open[Len(open)].id
    BY <2>1, <2>2, <1>2 DEF InspectorInv, StackInv
  <2>5. open[k].id # open[Len(open)].id
    BY <2>3, <2>4, <1>1
  <2>6. QED BY <2>2, <2>3, <2>5, <1>1, <1>3
<1>6. ASSUME NEW j \in 1..Len(open'), NEW k \in 1..Len(open'), j < k
      PROVE  open'[j].id < open'[k].id
  <2>1. /\ open'[j] = open[j] /\ j \in 1..Len(open)
        /\ open'[k] = open[k] /\ k \in 1..Len(open)
    BY <1>2
  <2>2. QED BY <2>1, <1>6 DEF InspectorInv, StackInv
<1>7. open' # <<>> => open'[1].id = 1
  <2>1. CASE open' # <<>>
    <3>1. 1 \in 1..(Len(open) - 1)
      BY <2>1, <1>1, <1>2
    <3>2. open'[1] = open[1]
      BY <3>1, <1>2
    <3>3. QED BY <3>2 DEF InspectorInv, StackInv
  <2>2. QED BY <2>1
<1>8. StackInv'
  BY <1>1, <1>4, <1>5, <1>6, <1>7 DEF StackInv
<1>9. failed' \subseteq Nat
  BY <1>4, <1>1
<1>10. QED BY <1>1, <1>2, <1>8, <1>9

\* A movement gets its number: the others keep theirs.
LEMMA NumberedKeeps ==
    ASSUME InspectorInv, NEW within, NEW own \in BOOLEAN, Numbered(within, own),
           entered' \in Nat, entered <= entered',
           within \subseteq 1..entered', 1 \in within
    PROVE  /\ seq \in Nat /\ seq' = seq + 1
           /\ moves' \in [0..(seq' - 1) -> Move]
           /\ \A m \in 0..(seq - 1) : moves'[m] = moves[m]
           /\ \A m \in 0..(seq' - 1) : m = seq \/ m \in 0..(seq - 1)
           /\ moves'[seq].within = within /\ moves'[seq].own = own
           /\ MovesInv'
<1> DEFINE new == [within |-> within, own |-> own]
<1>1. /\ seq \in Nat /\ seq' = seq + 1 /\ entered \in Nat
      /\ moves' = [m \in 0..seq |-> IF m = seq THEN new ELSE moves[m]]
      /\ moves \in [0..(seq - 1) -> Move]
  BY DEF InspectorInv, TypeOK, Numbered
<1>2. new \in Move /\ new.within = within /\ new.own = own
  BY <1>1 DEF Move
<1> HIDE DEF new
<1>3. /\ seq' - 1 = seq /\ seq \in 0..seq
      /\ \A m \in 0..seq : m = seq \/ m \in 0..(seq - 1)
      /\ \A m \in 0..(seq - 1) : m \in 0..seq /\ m # seq
  BY <1>1
<1>4. moves'[seq] = new /\ \A m \in 0..(seq - 1) : moves'[m] = moves[m]
  BY <1>1, <1>3
<1>5. moves' \in [0..(seq' - 1) -> Move]
  <2>1. \A m \in 0..seq : (IF m = seq THEN new ELSE moves[m]) \in Move
    BY <1>1, <1>2, <1>3
  <2>2. QED BY <2>1, <1>1, <1>3
<1>6. MovesInv'
  <2>1. ASSUME NEW m \in 0..(seq' - 1)
        PROVE  moves'[m].within \subseteq 1..entered' /\ 1 \in moves'[m].within
    <3>1. CASE m = seq
      BY <3>1, <1>2, <1>4
    <3>2. CASE m \in 0..(seq - 1)
      <4>1. moves[m].within \subseteq 1..entered /\ 1 \in moves[m].within
        BY <3>2 DEF InspectorInv, MovesInv
      <4>2. 1..entered \subseteq 1..entered'
        BY <1>1
      <4>3. QED BY <4>1, <4>2, <3>2, <1>4
    <3>3. QED BY <3>1, <3>2, <1>3
  <2>2. QED BY <2>1 DEF MovesInv
<1>7. QED BY <1>1, <1>2, <1>3, <1>4, <1>5, <1>6

\* Before its first frame, a transaction has moved nothing.
LEMMA NothingYet ==
    ASSUME InspectorInv, MayEnter, open = <<>>
    PROVE  entered = 0 /\ seq = 0
<1>1. depth = 0 /\ seq \in Nat
  BY DEF InspectorInv, TypeOK
<1>2. entered = 0
  BY <1>1 DEF MayEnter
<1>3. CASE seq # 0
  <2>1. 0 \in 0..(seq - 1)
    BY <1>1, <1>3
  <2>2. moves[0].within \subseteq 1..0 /\ 1 \in moves[0].within
    BY <2>1, <1>2 DEF InspectorInv, MovesInv
  <2>3. QED BY <2>2
<1>4. QED BY <1>2, <1>3

-----------------------------------------------------------------------------
LEMMA FreshInv == Fresh /\ captured \in Seq(TxCapture) => InspectorInv
<1> SUFFICES ASSUME Fresh, captured \in Seq(TxCapture) PROVE InspectorInv
  OBVIOUS
<1>1. /\ Len(frames) = 0 /\ Len(revert_marks) = 0 /\ Len(tags) = 0 /\ Len(open) = 0
      /\ seq = 0 /\ depth = 0 /\ entered = 0 /\ failed = {}
      /\ frames \in Seq(Nat) /\ revert_marks \in Seq(Nat)
      /\ tags \in Seq(BOOLEAN) /\ open \in Seq(OpenFrame)
  BY DEF Fresh
<1>2. moves \in [0..(seq - 1) -> Move]
  <2>1. 0..-1 = {} /\ 0..(seq - 1) = {}
    BY <1>1
  <2>2. moves = [m \in 0..-1 |-> [within |-> {}, own |-> FALSE]]
    BY DEF Fresh
  <2>3. QED BY <2>1, <2>2
<1>3. TypeOK
  BY <1>1, <1>2 DEF TypeOK
<1>4. 0..(seq - 1) = {} /\ 1..Len(frames) = {} /\ 1..Len(open) = {}
  BY <1>1
<1>5. Committed(frames, seq, moves, failed) /\ Ascending(frames)
  BY <1>4 DEF Committed, Ascending
<1>6. MarksFit(frames, moves, revert_marks, open) /\ TagsFit(frames, moves, tags)
  BY <1>1, <1>4 DEF MarksFit, TagsFit
<1>7. StackInv
  <2>1. open = <<>>
    BY DEF Fresh
  <2>2. QED BY <1>1, <1>4, <2>1 DEF StackInv
<1>8. MovesInv /\ OwnInv
  BY <1>4 DEF MovesInv, OwnInv
<1>9. QED BY <1>1, <1>3, <1>5, <1>6, <1>7, <1>8 DEF InspectorInv

LEMMA CallStep ==
    ASSUME InspectorInv, NEW value \in BOOLEAN, Call(value)
    PROVE  InspectorInv'
<1>1. /\ MayEnter /\ Enter("call") /\ revert_marks' = Marked /\ depth' = depth + 1
      /\ captured' = captured
  BY DEF Call
<1>2. /\ entered' \in Nat /\ open' \in Seq(OpenFrame) /\ revert_marks' \in Seq(Nat)
      /\ Len(open') = Len(open) + 1
      /\ \A k \in 1..Len(open) : open'[k] = open[k]
      /\ open'[Len(open')] = [id |-> entered + 1, kind |-> "call"]
      /\ StackInv'
      /\ MarksFit(frames, moves, revert_marks', open')
  BY <1>1, EnterKeeps
<1>3. /\ entered \in Nat /\ entered' = entered + 1 /\ failed' = failed
      /\ Len(open) \in Nat /\ depth = Len(open) /\ depth' \in Nat
      /\ depth' = Len(open') /\ open' # <<>>
  <2>1. entered \in Nat /\ open \in Seq(OpenFrame) /\ depth = Len(open)
    BY DEF InspectorInv, TypeOK
  <2>2. entered' = entered + 1 /\ failed' = failed
    BY <1>1 DEF Enter
  <2>3. Len(open) \in Nat /\ Len(open') # 0
    BY <2>1, <1>2
  <2>4. QED BY <2>1, <2>2, <2>3, <1>1, <1>2
<1>4. open'[1].kind = "call" \/ (open # <<>> /\ open'[1] = open[1])
  <2>1. CASE open = <<>>
    BY <2>1, <1>2, <1>3
  <2>2. CASE open # <<>>
    <3>1. 1 \in 1..Len(open)
      BY <2>2, <1>3 DEF InspectorInv, TypeOK
    <3>2. QED BY <2>2, <3>1, <1>2
  <2>3. QED BY <2>1, <2>2
<1>5. CASE ~ value
  <2>1. seq' = seq /\ moves' = moves /\ frames' = frames /\ tags' = tags
    BY <1>5 DEF Call, Unnumbered
  <2>2. MovesInv'
    <3>1. 1..entered \subseteq 1..entered'
      BY <1>3
    <3>2. QED BY <3>1, <2>1 DEF InspectorInv, MovesInv
  <2>3. OwnInv'
    BY <2>1, <1>4 DEF InspectorInv, OwnInv
  <2>4. TypeOK'
    BY <2>1, <1>1, <1>2, <1>3 DEF InspectorInv, TypeOK
  <2>5. /\ Committed(frames', seq', moves', failed') /\ Ascending(frames')
        /\ MarksFit(frames', moves', revert_marks', open') /\ TagsFit(frames', moves', tags')
    BY <2>1, <1>2, <1>3 DEF InspectorInv
  <2>6. QED BY <2>2, <2>3, <2>4, <2>5, <1>2, <1>3 DEF InspectorInv, Committed, Ascending, MarksFit, TagsFit
<1>6. CASE value
  <2> DEFINE within == OpenIds \cup {entered + 1}
  <2> DEFINE own == (depth = 0)
  <2>1. /\ Numbered(within, own) /\ own \in BOOLEAN
        /\ frames' = Append(frames, seq) /\ tags' = Append(tags, own)
    BY <1>6 DEF Call
  <2>2. \A x \in within : x \in 1..entered' /\ x \notin failed
    BY <1>3 DEF OpenIds, InspectorInv, StackInv
  <2>3. ASSUME NEW k \in 1..Len(open') PROVE open'[k].id \in within
    <3>1. CASE k = Len(open')
      BY <3>1, <1>2
    <3>2. CASE k # Len(open')
      <4>1. k \in 1..Len(open)
        BY <3>2, <1>2, <1>3
      <4>2. QED BY <4>1, <1>2 DEF OpenIds
    <3>3. QED BY <3>1, <3>2
  <2>4. 1 \in within
    <3>1. open'[1].id = 1 /\ 1 \in 1..Len(open')
      BY <1>2, <1>3 DEF StackInv
    <3>2. QED BY <3>1, <2>3
  <2>5. own => seq = 0
    <3>1. CASE open = <<>>
      BY <3>1, <1>1, NothingYet
    <3>2. CASE open # <<>>
      <4>1. Len(open) # 0
        BY <3>2 DEF InspectorInv, TypeOK
      <4>2. QED BY <4>1, <1>3
    <3>3. QED BY <3>1, <3>2
  <2>6. own => open'[1].kind = "call"
    BY <1>2, <1>3
  <2> HIDE DEF within, own
  <2>7. /\ seq \in Nat /\ seq' = seq + 1
        /\ moves' \in [0..(seq' - 1) -> Move]
        /\ \A m \in 0..(seq - 1) : moves'[m] = moves[m]
        /\ \A m \in 0..(seq' - 1) : m = seq \/ m \in 0..(seq - 1)
        /\ moves'[seq].within = within /\ moves'[seq].own = own
        /\ MovesInv'
    <3>1. entered' \in Nat /\ entered <= entered'
      BY <1>2, <1>3
    <3>2. within \subseteq 1..entered'
      BY <2>2
    <3>3. QED BY <2>1, <2>4, <3>1, <3>2, NumberedKeeps, Zenon
  <2>8. /\ frames \in Seq(Nat) /\ frames' \in Seq(Nat)
        /\ tags \in Seq(BOOLEAN) /\ tags' \in Seq(BOOLEAN)
    BY <2>1, <2>7 DEF InspectorInv, TypeOK
  <2>9. /\ Committed(frames', seq + 1, moves', failed) /\ Ascending(frames')
        /\ MarksFit(frames', moves', revert_marks', open')
    <3>1. /\ \A x \in moves'[seq].within : x \notin failed
          /\ \A k \in 1..Len(open') : open'[k].id \in moves'[seq].within
      BY <2>2, <2>3, <2>7
    <3>2. Committed(frames, seq, moves, failed) /\ Ascending(frames)
      BY DEF InspectorInv
    <3>3. QED BY <3>1, <3>2, <2>1, <2>7, <2>8, <1>2, RecordKeeps
  <2>10. TagsFit(frames', moves', tags')
    <3>1. Committed(frames, seq, moves, failed) /\ TagsFit(frames, moves, tags)
      BY DEF InspectorInv
    <3>2. TagsFit(Append(frames, seq), moves', Append(tags, own))
      BY <3>1, <2>1, <2>7, <2>8, RecordKeepsTags
    <3>3. QED BY <3>2, <2>1
  <2>11. OwnInv'
    <3>1. ASSUME NEW m \in 0..(seq' - 1), NEW n \in 0..(seq' - 1),
                 moves'[m].own, moves'[n].own
          PROVE  m = n
      <4>1. CASE m \in 0..(seq - 1) /\ n \in 0..(seq - 1)
        BY <4>1, <3>1, <2>7 DEF InspectorInv, OwnInv
      <4>2. CASE own
        BY <4>2, <2>5, <2>7
      <4>3. CASE ~ own /\ (m = seq \/ n = seq)
        BY <4>3, <3>1, <2>7
      <4>4. QED BY <4>1, <4>2, <4>3, <2>7
    <3>2. ASSUME NEW m \in 0..(seq' - 1), moves'[m].own
          PROVE  open'[1].kind = "call"
      <4>1. CASE m = seq
        BY <4>1, <3>2, <2>6, <2>7
      <4>2. CASE m \in 0..(seq - 1)
        BY <4>2, <3>2, <2>7, <1>4 DEF InspectorInv, OwnInv
      <4>3. QED BY <4>1, <4>2, <2>7
    <3>3. QED BY <3>1, <3>2 DEF OwnInv
  <2>12. TypeOK'
    BY <2>7, <2>8, <1>1, <1>2, <1>3 DEF InspectorInv, TypeOK
  <2>13. Committed(frames', seq', moves', failed')
    BY <2>7, <2>9, <1>3
  <2>14. QED BY <2>7, <2>9, <2>10, <2>11, <2>12, <2>13, <1>2, <1>3
           DEF InspectorInv, Committed, Ascending, MarksFit, TagsFit
<1>7. QED BY <1>5, <1>6

LEMMA CreateStep ==
    ASSUME InspectorInv, Create
    PROVE  InspectorInv'
<1>1. /\ MayEnter /\ Enter("create") /\ revert_marks' = Marked /\ depth' = depth + 1
      /\ captured' = captured /\ seq' = seq /\ moves' = moves
      /\ frames' = frames /\ tags' = tags
  BY DEF Create, Unnumbered
<1>2. /\ entered' \in Nat /\ open' \in Seq(OpenFrame) /\ revert_marks' \in Seq(Nat)
      /\ Len(open') = Len(open) + 1
      /\ \A k \in 1..Len(open) : open'[k] = open[k]
      /\ StackInv'
      /\ MarksFit(frames, moves, revert_marks', open')
  BY <1>1, EnterKeeps
<1>3. /\ entered \in Nat /\ entered' = entered + 1 /\ failed' = failed
      /\ Len(open) \in Nat /\ depth' \in Nat /\ depth' = Len(open')
  <2>1. entered \in Nat /\ open \in Seq(OpenFrame) /\ depth = Len(open)
    BY DEF InspectorInv, TypeOK
  <2>2. entered' = entered + 1 /\ failed' = failed
    BY <1>1 DEF Enter
  <2>3. Len(open) \in Nat
    BY <2>1
  <2>4. QED BY <2>1, <2>2, <2>3, <1>1, <1>2
<1>4. OwnInv'
  <2>1. CASE open = <<>>
    <3>1. seq = 0
      BY <2>1, <1>1, NothingYet
    <3>2. 0..(seq' - 1) = {}
      BY <3>1, <1>1
    <3>3. QED BY <3>2 DEF OwnInv
  <2>2. CASE open # <<>>
    <3>1. 1 \in 1..Len(open)
      BY <2>2, <1>3 DEF InspectorInv, TypeOK
    <3>2. open'[1] = open[1]
      BY <3>1, <1>2
    <3>3. QED BY <2>2, <3>2, <1>1 DEF InspectorInv, OwnInv
  <2>3. QED BY <2>1, <2>2
<1>5. MovesInv'
  <2>1. 1..entered \subseteq 1..entered'
    BY <1>3
  <2>2. QED BY <2>1, <1>1 DEF InspectorInv, MovesInv
<1>6. TypeOK'
  BY <1>1, <1>2, <1>3 DEF InspectorInv, TypeOK
<1>7. /\ Committed(frames', seq', moves', failed') /\ Ascending(frames')
      /\ MarksFit(frames', moves', revert_marks', open') /\ TagsFit(frames', moves', tags')
  BY <1>1, <1>2, <1>3 DEF InspectorInv
<1>8. QED BY <1>2, <1>3, <1>4, <1>5, <1>6, <1>7
       DEF InspectorInv, Committed, Ascending, MarksFit, TagsFit

\* A frame ends, whatever its end hook recorded before: the hook's buffer fs
\* is right for the stack it leaves.
LEMMA EndKeeps ==
    ASSUME InspectorInv, open # <<>>, NEW ok \in BOOLEAN, Leave(ok),
           NEW fs \in Seq(Nat), NEW sq \in Nat, NEW mv,
           Committed(fs, sq, mv, failed), Ascending(fs),
           MarksFit(fs, mv, revert_marks, open), revert_marks' = Popped
    PROVE  /\ Exited(fs, ok) \in Seq(Nat)
           /\ Len(Exited(fs, ok)) <= Len(fs)
           /\ \A k \in 1..Len(Exited(fs, ok)) : Exited(fs, ok)[k] = fs[k]
           /\ Committed(Exited(fs, ok), sq, mv, failed')
           /\ Ascending(Exited(fs, ok))
           /\ MarksFit(Exited(fs, ok), mv, revert_marks', open')
           /\ revert_marks' \in Seq(Nat)
<1> DEFINE es == Exited(fs, ok)
<1> DEFINE top == Len(open)
<1>1. /\ open \in Seq(OpenFrame) /\ revert_marks \in Seq(Nat)
      /\ top \in Nat /\ top > 0 /\ top = Len(open) /\ top \in 1..Len(open)
      /\ Len(revert_marks) = top
  BY DEF InspectorInv, TypeOK, MarksFit
<1>2. Len(open') = top - 1 /\ \A k \in 1..(top - 1) : open'[k] = open[k]
  BY LeaveStack
<1>3. /\ Len(revert_marks') = top - 1
      /\ \A k \in 1..(top - 1) : revert_marks'[k] = revert_marks[k]
      /\ revert_marks' \in Seq(Nat)
  <2>1. revert_marks' = SubSeq(revert_marks, 1, top - 1)
    BY <1>1 DEF Popped
  <2>2. QED BY <2>1, <1>1
<1>4. revert_marks # <<>> /\ revert_marks[Len(revert_marks)] \in 0..Len(fs)
  BY <1>1 DEF MarksFit
<1>5. /\ es \in Seq(Nat) /\ Len(es) <= Len(fs)
      /\ \A k \in 1..Len(es) : es[k] = fs[k]
      /\ ok => es = fs
      /\ ~ ok => Len(es) = revert_marks[top]
  BY <1>1, <1>4, ExitedIsPrefix
<1>6. \/ Len(es) = Len(fs) /\ failed' = failed
      \/ Len(es) = revert_marks[top] /\ failed' = failed \cup {open[top].id}
  BY <1>5 DEF Leave
<1> HIDE DEF es, top
<1>7. /\ Committed(es, sq, mv, failed') /\ Ascending(es)
      /\ MarksFit(es, mv, revert_marks', open')
  <2>1. \A k \in 1..(top - 1) : revert_marks'[k] = revert_marks[k] /\ open'[k] = open[k]
    BY <1>2, <1>3
  <2>2. EndsAs(fs, es, sq, mv, failed, failed', revert_marks, revert_marks', open, open')
    BY <2>1, <1>1, <1>2, <1>3, <1>5, <1>6 DEF EndsAs
  <2>3. QED BY <2>2, LeaveKeeps
<1>8. QED BY <1>3, <1>5, <1>7 DEF es

LEMMA CallEndStep ==
    ASSUME InspectorInv, NEW ok \in BOOLEAN, CallEnd(ok)
    PROVE  InspectorInv'
<1>1. /\ open # <<>> /\ Leave(ok) /\ frames' = Exited(frames, ok)
      /\ revert_marks' = Popped /\ tags' = Synced(tags, Len(frames'))
      /\ depth' = depth - 1 /\ seq' = seq /\ moves' = moves /\ captured' = captured
  BY DEF CallEnd, Unnumbered
<1>2. /\ frames \in Seq(Nat) /\ seq \in Nat /\ tags \in Seq(BOOLEAN)
      /\ Committed(frames, seq, moves, failed) /\ Ascending(frames)
      /\ MarksFit(frames, moves, revert_marks, open) /\ TagsFit(frames, moves, tags)
  BY DEF InspectorInv, TypeOK
<1>3. /\ frames' \in Seq(Nat) /\ Len(frames') <= Len(frames)
      /\ \A k \in 1..Len(frames') : frames'[k] = frames[k]
      /\ Committed(frames', seq, moves, failed') /\ Ascending(frames')
      /\ MarksFit(frames', moves, revert_marks', open')
      /\ revert_marks' \in Seq(Nat)
  BY <1>1, <1>2, EndKeeps
<1>4. tags' \in Seq(BOOLEAN) /\ TagsFit(frames', moves, tags')
  BY <1>1, <1>2, <1>3, SyncKeepsTags
<1>5. /\ entered' = entered /\ open' \in Seq(OpenFrame) /\ failed' \subseteq Nat
      /\ Len(open) \in Nat \ {0}
      /\ Len(open') = Len(open) - 1
      /\ \A k \in 1..(Len(open) - 1) : open'[k] = open[k]
      /\ StackInv'
  BY <1>1, LeaveStack
<1>6. OwnInv'
  <2>1. CASE open' = <<>>
    BY <2>1, <1>1 DEF InspectorInv, OwnInv
  <2>2. CASE open' # <<>>
    <3>1. 1 \in 1..(Len(open) - 1)
      BY <2>2, <1>5
    <3>2. open'[1] = open[1]
      BY <3>1, <1>5
    <3>3. QED BY <3>2, <1>1 DEF InspectorInv, OwnInv
  <2>3. QED BY <2>1, <2>2
<1>7. MovesInv'
  BY <1>1, <1>5 DEF InspectorInv, MovesInv
<1>8. depth' = Len(open') /\ depth' \in Nat
  BY <1>1, <1>5 DEF InspectorInv
<1>9. TypeOK'
  BY <1>1, <1>3, <1>4, <1>5, <1>8 DEF InspectorInv, TypeOK
<1>10. QED BY <1>1, <1>3, <1>4, <1>5, <1>6, <1>7, <1>8, <1>9
        DEF InspectorInv, Committed, Ascending, MarksFit, TagsFit

LEMMA CreateEndStep ==
    ASSUME InspectorInv, NEW value \in BOOLEAN, NEW addressed \in BOOLEAN,
           NEW ok \in BOOLEAN, CreateEnd(value, addressed, ok)
    PROVE  InspectorInv'
<1> DEFINE pushed == IF value /\ addressed THEN Append(frames, seq) ELSE frames
<1> DEFINE kept == Exited(pushed, ok)
<1> DEFINE own == (depth = 1)
<1> DEFINE tagged == IF Len(kept) > Len(frames) THEN Append(tags, own) ELSE tags
<1>1. /\ open # <<>> /\ open[Len(open)].kind = "create" /\ Leave(ok)
      /\ frames' = kept /\ revert_marks' = Popped
      /\ tags' = Synced(tagged, Len(kept))
      /\ depth' = depth - 1 /\ captured' = captured
  BY DEF CreateEnd
<1>2. /\ frames \in Seq(Nat) /\ seq \in Nat /\ tags \in Seq(BOOLEAN)
      /\ Committed(frames, seq, moves, failed) /\ Ascending(frames)
      /\ MarksFit(frames, moves, revert_marks, open) /\ TagsFit(frames, moves, tags)
      /\ revert_marks \in Seq(Nat) /\ open \in Seq(OpenFrame)
      /\ Len(tags) = Len(frames) /\ Len(frames) \in Nat /\ depth = Len(open)
      /\ entered \in Nat
  BY DEF InspectorInv, TypeOK, TagsFit
<1>3. /\ entered' = entered /\ open' \in Seq(OpenFrame) /\ failed' \subseteq Nat
      /\ Len(open) \in Nat \ {0}
      /\ Len(open') = Len(open) - 1
      /\ \A k \in 1..(Len(open) - 1) : open'[k] = open[k]
      /\ StackInv'
  BY <1>1, LeaveStack
<1>4. own => open[1].kind = "create" /\ open' = <<>>
  BY <1>1, <1>2, <1>3
<1>5. own \in BOOLEAN
  OBVIOUS
\* What the hook recorded, before it leaves the frame.
<1>6. /\ pushed \in Seq(Nat) /\ seq' \in Nat
      /\ moves' \in [0..(seq' - 1) -> Move] /\ MovesInv' /\ OwnInv'
      /\ Committed(pushed, seq', moves', failed) /\ Ascending(pushed)
      /\ MarksFit(pushed, moves', revert_marks, open)
      /\ TagsFit(frames, moves', tags)
      /\ Len(pushed) = Len(frames) \/ TagsFit(pushed, moves', Append(tags, own))
      /\ Len(pushed) \in Nat /\ Len(pushed) <= Len(frames) + 1
      /\ \A k \in 1..Len(frames) : pushed[k] = frames[k]
  <2>1. CASE ~ (value /\ addressed)
    <3>1. pushed = frames /\ seq' = seq /\ moves' = moves
      BY <2>1 DEF CreateEnd, Unnumbered
    <3>2. MovesInv'
      BY <3>1, <1>3 DEF InspectorInv, MovesInv
    <3>3. OwnInv'
      <4>1. CASE open' = <<>>
        BY <4>1, <3>1 DEF InspectorInv, OwnInv
      <4>2. CASE open' # <<>>
        <5>1. 1 \in 1..(Len(open) - 1)
          BY <4>2, <1>3
        <5>2. open'[1] = open[1]
          BY <5>1, <1>3
        <5>3. QED BY <1>1, <5>2, <3>1 DEF InspectorInv, OwnInv
      <4>3. QED BY <4>1, <4>2
    <3>4. moves' \in [0..(seq' - 1) -> Move]
      BY <3>1 DEF InspectorInv, TypeOK
    <3> HIDE DEF pushed
    <3>5. QED BY <3>1, <3>2, <3>3, <3>4, <1>2
  <2>2. CASE value /\ addressed
    <3>1. pushed = Append(frames, seq) /\ Numbered(OpenIds, own)
      BY <2>2 DEF CreateEnd
    <3>2. /\ OpenIds \subseteq 1..entered' /\ 1 \in OpenIds
          /\ \A x \in OpenIds : x \notin failed
      <4>1. 1 \in 1..Len(open) /\ open[1].id = 1
        BY <1>1, <1>3 DEF InspectorInv, StackInv
      <4>2. QED BY <4>1, <1>3 DEF OpenIds, InspectorInv, StackInv
    <3> HIDE DEF own, pushed, kept, tagged
    <3>3. /\ seq' = seq + 1
          /\ moves' \in [0..(seq' - 1) -> Move]
          /\ \A m \in 0..(seq - 1) : moves'[m] = moves[m]
          /\ \A m \in 0..(seq' - 1) : m = seq \/ m \in 0..(seq - 1)
          /\ moves'[seq].within = OpenIds /\ moves'[seq].own = own
          /\ MovesInv'
      <4>1. entered' \in Nat /\ entered <= entered'
        BY <1>2, <1>3
      <4>2. QED BY <4>1, <3>1, <3>2, <1>5, NumberedKeeps
    <3>4. /\ pushed \in Seq(Nat) /\ Len(pushed) = Len(frames) + 1
          /\ \A k \in 1..Len(frames) : pushed[k] = frames[k]
      BY <3>1, <1>2
    <3>5. /\ Committed(pushed, seq + 1, moves', failed) /\ Ascending(pushed)
          /\ MarksFit(pushed, moves', revert_marks, open)
      <4>1. /\ \A x \in moves'[seq].within : x \notin failed
            /\ \A k \in 1..Len(open) : open[k].id \in moves'[seq].within
        BY <3>2, <3>3 DEF OpenIds
      <4>2. QED BY <4>1, <3>1, <3>3, <3>4, <1>2, RecordKeeps
    <3>6. TagsFit(pushed, moves', Append(tags, own))
      BY <3>1, <3>3, <1>2, <1>5, RecordKeepsTags
    <3>7. TagsFit(frames, moves', tags)
      <4>1. ASSUME NEW k \in 1..Len(frames) PROVE tags[k] = moves'[frames[k]].own
        <5>1. frames[k] \in 0..(seq - 1) /\ tags[k] = moves[frames[k]].own
          BY <1>2 DEF Committed, TagsFit
        <5>2. QED BY <5>1, <3>3
      <4>2. QED BY <4>1, <1>2 DEF TagsFit
    <3>8. OwnInv'
      <4>1. ASSUME NEW m \in 0..(seq' - 1), moves'[m].own, own
            PROVE  m = seq
        <5>1. CASE m \in 0..(seq - 1)
          <6>1. moves[m].own
            BY <5>1, <4>1, <3>3
          <6>2. open[1].kind = "call"
            BY <5>1, <6>1, <1>1 DEF InspectorInv, OwnInv
          <6>3. QED BY <6>2, <4>1, <1>4
        <5>2. QED BY <5>1, <3>3
      <4>2. ASSUME NEW m \in 0..(seq' - 1), moves'[m].own, ~ own
            PROVE  m \in 0..(seq - 1) /\ moves[m].own
        BY <4>2, <3>3
      <4>3. ASSUME NEW m \in 0..(seq' - 1), NEW n \in 0..(seq' - 1),
                   moves'[m].own, moves'[n].own
            PROVE  m = n
        BY <4>1, <4>2, <4>3 DEF InspectorInv, OwnInv
      <4>4. ASSUME NEW m \in 0..(seq' - 1), moves'[m].own, open' # <<>>
            PROVE  open'[1].kind = "call"
        <5>1. ~ own
          BY <4>4, <1>4
        <5>2. m \in 0..(seq - 1) /\ moves[m].own
          BY <4>2, <4>4, <5>1
        <5>3. 1 \in 1..(Len(open) - 1)
          BY <4>4, <1>3
        <5>4. open'[1] = open[1]
          BY <5>3, <1>3
        <5>5. QED BY <5>2, <5>4, <1>1 DEF InspectorInv, OwnInv
      <4>5. QED BY <4>3, <4>4 DEF OwnInv
    <3>9. seq' \in Nat /\ Len(pushed) \in Nat
      BY <3>3, <3>4, <1>2
    <3>10. QED BY <3>3, <3>4, <3>5, <3>6, <3>7, <3>8, <3>9
  <2>3. QED BY <2>1, <2>2
<1> HIDE DEF pushed, own
<1>7. /\ kept \in Seq(Nat) /\ Len(kept) <= Len(pushed)
      /\ \A k \in 1..Len(kept) : kept[k] = pushed[k]
      /\ Committed(kept, seq', moves', failed') /\ Ascending(kept)
      /\ MarksFit(kept, moves', revert_marks', open')
      /\ revert_marks' \in Seq(Nat)
  BY <1>1, <1>6, EndKeeps
<1> HIDE DEF kept
<1>8. tags' \in Seq(BOOLEAN) /\ TagsFit(kept, moves', tags')
  <2>1. CASE Len(kept) > Len(frames)
    <3>1. tagged = Append(tags, own) /\ tagged \in Seq(BOOLEAN)
      BY <2>1, <1>2, <1>5
    <3>2. TagsFit(pushed, moves', tagged)
      BY <3>1, <2>1, <1>2, <1>6, <1>7
    <3>3. QED BY <3>1, <3>2, <1>1, <1>6, <1>7, SyncKeepsTags
  <2>2. CASE ~ (Len(kept) > Len(frames))
    <3>1. tagged = tags /\ Len(kept) \in Nat /\ Len(kept) <= Len(frames)
      BY <2>2, <1>2, <1>7
    <3>2. \A k \in 1..Len(kept) : kept[k] = frames[k]
      BY <3>1, <1>2, <1>6, <1>7
    <3>3. QED BY <3>1, <3>2, <1>1, <1>2, <1>6, <1>7, SyncKeepsTags
  <2>3. QED BY <2>1, <2>2
<1>9. depth' = Len(open') /\ depth' \in Nat
  BY <1>1, <1>2, <1>3
<1>10. TypeOK'
  BY <1>1, <1>2, <1>3, <1>6, <1>7, <1>8, <1>9 DEF InspectorInv, TypeOK
<1>11. QED BY <1>1, <1>3, <1>6, <1>7, <1>8, <1>9, <1>10
        DEF InspectorInv, Committed, Ascending, MarksFit, TagsFit

LEMMA SelfDestructStep ==
    ASSUME InspectorInv, SelfDestruct
    PROVE  InspectorInv'
<1>1. /\ open # <<>> /\ Numbered(OpenIds, FALSE)
      /\ frames' = Append(frames, seq) /\ tags' = Append(tags, FALSE)
      /\ revert_marks' = revert_marks /\ depth' = depth /\ captured' = captured
      /\ open' = open /\ entered' = entered /\ failed' = failed
  BY DEF SelfDestruct, evmVars
<1>2. /\ frames \in Seq(Nat) /\ seq \in Nat /\ tags \in Seq(BOOLEAN)
      /\ Committed(frames, seq, moves, failed) /\ Ascending(frames)
      /\ MarksFit(frames, moves, revert_marks, open) /\ TagsFit(frames, moves, tags)
      /\ revert_marks \in Seq(Nat) /\ open \in Seq(OpenFrame) /\ entered \in Nat
      /\ Len(open) \in Nat
  BY DEF InspectorInv, TypeOK
<1>3. /\ OpenIds \subseteq 1..entered' /\ 1 \in OpenIds
      /\ \A x \in OpenIds : x \notin failed
  <2>1. 1 \in 1..Len(open) /\ open[1].id = 1
    BY <1>1, <1>2 DEF InspectorInv, StackInv
  <2>2. QED BY <2>1, <1>1 DEF OpenIds, InspectorInv, StackInv
<1>4. /\ seq' = seq + 1
      /\ moves' \in [0..(seq' - 1) -> Move]
      /\ \A m \in 0..(seq - 1) : moves'[m] = moves[m]
      /\ \A m \in 0..(seq' - 1) : m = seq \/ m \in 0..(seq - 1)
      /\ moves'[seq].within = OpenIds /\ moves'[seq].own = FALSE
      /\ MovesInv'
  <2>1. entered' \in Nat /\ entered <= entered' /\ FALSE \in BOOLEAN
    BY <1>1, <1>2
  <2>2. QED BY <2>1, <1>1, <1>3, NumberedKeeps
<1>5. frames' \in Seq(Nat) /\ tags' \in Seq(BOOLEAN) /\ seq' \in Nat
  BY <1>1, <1>2, <1>4
<1>6. /\ Committed(frames', seq + 1, moves', failed) /\ Ascending(frames')
      /\ MarksFit(frames', moves', revert_marks, open)
  <2>1. /\ \A x \in moves'[seq].within : x \notin failed
        /\ \A k \in 1..Len(open) : open[k].id \in moves'[seq].within
    BY <1>3, <1>4 DEF OpenIds
  <2>2. QED BY <2>1, <1>1, <1>2, <1>4, <1>5, RecordKeeps
<1>7. TagsFit(frames', moves', tags')
  <2>1. FALSE \in BOOLEAN
    OBVIOUS
  <2>2. TagsFit(Append(frames, seq), moves', Append(tags, FALSE))
    BY <2>1, <1>2, <1>4, RecordKeepsTags
  <2>3. QED BY <2>2, <1>1
<1>8. OwnInv'
  <2>1. ASSUME NEW m \in 0..(seq' - 1), moves'[m].own
        PROVE  m \in 0..(seq - 1) /\ moves[m].own
    BY <2>1, <1>4
  <2>2. QED BY <2>1, <1>1 DEF InspectorInv, OwnInv
<1>9. TypeOK'
  BY <1>1, <1>2, <1>4, <1>5 DEF InspectorInv, TypeOK
<1>10. StackInv'
  BY <1>1 DEF InspectorInv, StackInv
<1>11. QED BY <1>1, <1>4, <1>6, <1>7, <1>8, <1>9, <1>10
        DEF InspectorInv, Committed, Ascending, MarksFit, TagsFit

-----------------------------------------------------------------------------
\* What has been captured so far is right.
CapturedInv == PathsAreUnique /\ FailedTxMovesNothing

\* The paths of the transaction that ends.
LEMMA PathsOfTx ==
    ASSUME InspectorInv, NEW p, p = [k \in 1..Len(frames) |-> TracePath(k)],
           open = <<>>, entered > 0
    PROVE  /\ p \in Seq(Path) /\ Len(p) = Len(frames)
           /\ \A j, k \in 1..Len(p) : p[j] = p[k] => j = k
           /\ 1 \in failed => p = <<>>
<1>1. /\ frames \in Seq(Nat) /\ tags \in Seq(BOOLEAN) /\ captured \in Seq(TxCapture)
      /\ Len(tags) = Len(frames) /\ Len(frames) \in Nat /\ Len(captured) \in Nat
      /\ DOMAIN tags = 1..Len(frames) /\ seq \in Nat
  BY DEF InspectorInv, TypeOK, TagsFit
<1>2. /\ \A k \in 1..Len(frames) : frames[k] \in 0..(seq - 1)
      /\ \A k \in 1..Len(frames) : tags[k] = moves[frames[k]].own
  BY DEF InspectorInv, Committed, TagsFit
<1>3. ASSUME NEW k \in 1..Len(frames)
      PROVE  TracePath(k) = IF tags[k] THEN <<"tx", Len(captured)>> ELSE <<"seq", frames[k]>>
  BY <1>1 DEF TracePath
<1>4. ASSUME NEW k \in 1..Len(frames)
      PROVE  TracePath(k) \in Path
  BY <1>1, <1>3 DEF Path
<1>5. p \in Seq(Path) /\ Len(p) = Len(frames)
  BY <1>1, <1>4
<1>6. ASSUME NEW j \in 1..Len(p), NEW k \in 1..Len(p), p[j] = p[k]
      PROVE  j = k
  <2>1. /\ j \in 1..Len(frames) /\ k \in 1..Len(frames)
        /\ p[j] = TracePath(j) /\ p[k] = TracePath(k)
    BY <1>5
  <2>2. frames[j] = frames[k]
    <3>1. CASE tags[j] /\ tags[k]
      BY <3>1, <2>1, <1>2 DEF InspectorInv, OwnInv
    <3>2. CASE ~ tags[j] /\ ~ tags[k]
      BY <3>2, <2>1, <1>3, <1>6
    <3>3. CASE tags[j] /\ ~ tags[k]
      BY <3>3, <2>1, <1>3, <1>6
    <3>4. CASE ~ tags[j] /\ tags[k]
      BY <3>4, <2>1, <1>3, <1>6
    <3>5. QED BY <3>1, <3>2, <3>3, <3>4
  <2>3. ~ (frames[j] < frames[k]) /\ ~ (frames[k] < frames[j])
    BY <2>1, <2>2, <1>1, <1>2
  <2>4. ~ (j < k) /\ ~ (k < j)
    BY <2>1, <2>3 DEF InspectorInv, Ascending
  <2>5. QED BY <2>1, <2>4, <1>1
<1>7. ASSUME 1 \in failed
      PROVE  p = <<>>
  <2>1. ASSUME NEW k \in 1..Len(frames) PROVE FALSE
    <3>1. 1 \in moves[frames[k]].within
      BY <1>2 DEF InspectorInv, MovesInv
    <3>2. moves[frames[k]].within \cap failed = {}
      BY DEF InspectorInv, Committed
    <3>3. QED BY <3>1, <3>2, <1>7
  <2>2. Len(frames) = 0
    BY <2>1, <1>1
  <2>3. QED BY <2>2, <1>5
<1>8. QED BY <1>5, <1>6, <1>7

LEMMA EndTxStep ==
    ASSUME InspectorInv, CapturedInv, EndTx
    PROVE  InspectorInv' /\ CapturedInv'
<1> DEFINE p == [k \in 1..Len(frames) |-> TracePath(k)]
<1> DEFINE whole == 1 \in failed
<1> DEFINE entry == [reverted |-> whole, paths |-> p]
<1>1. /\ p \in Seq(Path)
      /\ \A j, k \in 1..Len(p) : p[j] = p[k] => j = k
      /\ 1 \in failed => p = <<>>
  BY PathsOfTx DEF EndTx
<1>2. captured' = Append(captured, entry) /\ captured \in Seq(TxCapture)
  BY DEF EndTx, InspectorInv, TypeOK
<1>3. whole \in BOOLEAN /\ (whole => p = <<>>)
  BY <1>1
<1> HIDE DEF p, whole
<1>4. entry \in TxCapture /\ entry.paths = p /\ entry.reverted = whole
  BY <1>1, <1>3 DEF TxCapture
<1> HIDE DEF entry
<1>5. (captured \in Seq(TxCapture))'
  BY <1>2, <1>4
<1>6. Fresh'
  BY DEF EndTx, Fresh
<1>7. InspectorInv'
  BY <1>5, <1>6, FreshInv, PTL
<1>8. CapturedInv'
  <2>1. /\ Len(captured') = Len(captured) + 1 /\ Len(captured) \in Nat
        /\ captured'[Len(captured) + 1] = entry
        /\ \A i \in 1..Len(captured) : captured'[i] = captured[i]
        /\ \A i \in 1..Len(captured') : i = Len(captured) + 1 \/ i \in 1..Len(captured)
    BY <1>2, <1>4
  <2>2. ASSUME NEW i \in 1..Len(captured')
        PROVE  /\ \A j, k \in 1..Len(captured'[i].paths) :
                    captured'[i].paths[j] = captured'[i].paths[k] => j = k
               /\ captured'[i].reverted => captured'[i].paths = <<>>
    <3>1. CASE i = Len(captured) + 1
      BY <3>1, <2>1, <1>1, <1>4, <1>3
    <3>2. CASE i \in 1..Len(captured)
      BY <3>2, <2>1 DEF CapturedInv, PathsAreUnique, FailedTxMovesNothing
    <3>3. QED BY <3>1, <3>2, <2>1
  <2>3. QED BY <2>2 DEF CapturedInv, PathsAreUnique, FailedTxMovesNothing
<1>9. QED BY <1>7, <1>8

\* The first state, and every step: only EndTx touches what is captured.
LEMMA InitOK == Init => InspectorInv /\ CapturedInv
<1> SUFFICES ASSUME Init PROVE InspectorInv /\ CapturedInv
  OBVIOUS
<1>1. Fresh /\ captured = <<>> /\ captured \in Seq(TxCapture)
  BY DEF Init
<1>2. InspectorInv
  BY <1>1, FreshInv
<1>3. 1..Len(captured) = {}
  BY <1>1
<1>4. CapturedInv
  BY <1>3 DEF CapturedInv, PathsAreUnique, FailedTxMovesNothing
<1>5. QED BY <1>2, <1>4

LEMMA StepOK == InspectorInv /\ CapturedInv /\ [Next]_vars => InspectorInv' /\ CapturedInv'
<1> SUFFICES ASSUME InspectorInv, CapturedInv, [Next]_vars
             PROVE  InspectorInv' /\ CapturedInv'
  OBVIOUS
<1>1. captured' = captured => CapturedInv'
  BY DEF CapturedInv, PathsAreUnique, FailedTxMovesNothing
<1>2. ASSUME NEW value \in BOOLEAN, Call(value)
      PROVE  InspectorInv' /\ CapturedInv'
  <2>1. captured' = captured
    BY <1>2 DEF Call
  <2>2. QED BY <2>1, <1>1, <1>2, CallStep
<1>3. ASSUME NEW ok \in BOOLEAN, CallEnd(ok)
      PROVE  InspectorInv' /\ CapturedInv'
  <2>1. captured' = captured
    BY <1>3 DEF CallEnd
  <2>2. QED BY <2>1, <1>1, <1>3, CallEndStep
<1>4. CASE Create
  <2>1. captured' = captured
    BY <1>4 DEF Create
  <2>2. QED BY <2>1, <1>1, <1>4, CreateStep
<1>5. ASSUME NEW value \in BOOLEAN, NEW addressed \in BOOLEAN, NEW ok \in BOOLEAN,
             CreateEnd(value, addressed, ok)
      PROVE  InspectorInv' /\ CapturedInv'
  <2>1. captured' = captured
    BY <1>5 DEF CreateEnd
  <2>2. QED BY <2>1, <1>1, <1>5, CreateEndStep
<1>6. CASE SelfDestruct
  <2>1. captured' = captured
    BY <1>6 DEF SelfDestruct
  <2>2. QED BY <2>1, <1>1, <1>6, SelfDestructStep
<1>7. CASE EndTx
  BY <1>7, EndTxStep
<1>8. CASE UNCHANGED vars
  <2>1. captured' = captured
    BY <1>8 DEF vars
  <2>2. InspectorInv'
    BY <1>8 DEF vars, inspectorVars, evmVars, InspectorInv, TypeOK, StackInv, MovesInv,
                OwnInv, Committed, Ascending, MarksFit, TagsFit
  <2>3. QED BY <2>1, <2>2, <1>1
<1>9. QED BY <1>2, <1>3, <1>4, <1>5, <1>6, <1>7, <1>8 DEF Next

\* The inductive invariant holds in every state.
THEOREM InspectorInvariant == Spec => [](InspectorInv /\ CapturedInv)
BY InitOK, StepOK, PTL DEF Spec

\* Every variable of the inspector keeps its type.
THEOREM TypeCorrect == Spec => []TypeOK
<1>1. InspectorInv => TypeOK
  BY DEF InspectorInv
<1>2. QED BY <1>1, InspectorInvariant, PTL

\* inspector.rs: the buffer holds exactly the value the EVM commits, for any
\* nesting of calls, creates, selfdestructs and reverts.
THEOREM CommittedValueOnly == Spec => []OnlyCommittedValue
<1>1. InspectorInv => OnlyCommittedValue
  <2> SUFFICES ASSUME InspectorInv PROVE OnlyCommittedValue
    OBVIOUS
  <2>1. QED BY DEF InspectorInv, Committed, OnlyCommittedValue
<1>2. QED BY <1>1, InspectorInvariant, PTL

\* reexec.rs: the tags follow the buffer through every truncation.
THEOREM TagsFollowFrames == Spec => []TagsInLockstep
<1>1. InspectorInv => TagsInLockstep
  BY DEF InspectorInv, TagsFit, TagsInLockstep
<1>2. QED BY <1>1, InspectorInvariant, PTL

\* attribution.rs: no two frames of a transaction share a trace_path.
THEOREM TracePathsUnique == Spec => []PathsAreUnique
<1>1. CapturedInv => PathsAreUnique
  BY DEF CapturedInv
<1>2. QED BY <1>1, InspectorInvariant, PTL

\* A transaction that failed as a whole is captured without a frame.
THEOREM FailedTxEmpty == Spec => []FailedTxMovesNothing
<1>1. CapturedInv => FailedTxMovesNothing
  BY DEF CapturedInv
<1>2. QED BY <1>1, InspectorInvariant, PTL
=============================================================================
