---------------------- MODULE LedgerTransactions_proofs ----------------------
(***************************************************************************)
(* Proofs about LedgerTransactions: the statements, the mutex and the      *)
(* rollback together implement the atomic operations of module Ledger, for *)
(* every number of readers, every tree of blocks and every watch list.     *)
(***************************************************************************)
EXTENDS LedgerTransactions, TLAPS

\* What the mutex keeps apart: an open transaction and statements to run belong
\* to the driver while it holds the lock; a reader that has seen something holds
\* it and has seen what is committed.
LockInv ==
    /\ holder # Driver => txn = None /\ todo = {}
    /\ holder = Driver =>
         /\ want # None
         /\ txn = None <=> want.op = "write_unattributed"
    /\ \A r \in Readers : view[r] # None => holder = r /\ view[r] = disk

\* The open transaction is the committed database with the statements that have
\* run, and nothing else.
ProgressInv ==
    /\ txn # None => txn = After(disk, want, Statements(want) \ todo)
    /\ holder = Driver /\ txn = None => todo = Statements(want)

MetaInv == MetaPairIsOneBlock

IInv == TypeOK /\ LockInv /\ ProgressInv /\ MetaInv

-----------------------------------------------------------------------------
\* What the four kinds of operation look like.
LEMMA OperationShape ==
  ASSUME NEW o \in Operations
  PROVE  /\ o.op \in {"write_block", "write_unattributed",
                      "write_gap_block_marker", "delete_blocks"}
         /\ o.groups \in SUBSET RowGroups /\ o.marked \in SUBSET Watched
         /\ o.hashes \in SUBSET Blocks
         /\ o.op = "delete_blocks" =>
              o.groups = {} /\ o.marked = {} /\ o.cause = None
         /\ o.op # "delete_blocks" =>
              o.hashes = {} /\ o.block \in Blocks /\ o.cause \in MarkCauses
         /\ o.op = "write_block" => o.cause = "parent_state_unavailable"
         /\ o.op = "write_gap_block_marker" =>
              /\ o.groups = {} /\ o.marked = Watched
              /\ o.cause = "block_not_delivered"
         /\ o.op = "write_unattributed" =>
              /\ o.groups = {} /\ \E a \in Watched : o.marked = {a}
              /\ o.cause = "unexplained_residual"
  BY DEF Operations, WriteBlockOps, WriteUnattributedOps, WriteGapBlockMarkerOps,
         DeleteBlocksOps, Operation, MarkCauses, RowGroups

\* Which statements an operation has, kind by kind.
LEMMA StatementsOf ==
  ASSUME NEW o \in Operations, NEW b, NEW x
  PROVE  /\ Insert(b, x) \in Statements(o) <=>
              b = o.block /\ \E g \in o.groups : x \in PartsOf(g)
         /\ Mark(b, x) \in Statements(o) <=> b = o.block /\ x \in o.marked
         /\ Delete(b, x) \in Statements(o) <=> b \in o.hashes /\ x \in Tables
         /\ Meta(b, x) \in Statements(o) <=>
              /\ o.op \in {"write_block", "write_gap_block_marker"}
              /\ b = o.block /\ x \in {"last_block", "last_block_hash"}
  BY DEF Statements, Insert, Mark, Delete, Meta

\* A statement list keeps to the database's type.
LEMMA AfterType ==
  ASSUME TreeAssumption, NEW db \in Databases, NEW o \in Operations,
         NEW S \in SUBSET Statements(o)
  PROVE  After(db, o, S) \in Databases
<1>1. \A b \in Blocks, a \in Watched : Mark(b, a) \in S => o.cause \in MarkCauses
  <2> SUFFICES ASSUME NEW b \in Blocks, NEW a \in Watched, Mark(b, a) \in S
               PROVE  o.cause \in MarkCauses
    OBVIOUS
  <2>1. Mark(b, a) \in Statements(o)
    OBVIOUS
  <2> QED BY <2>1, StatementsOf, OperationShape
<1>2. \A x : Meta(o.block, x) \in S => o.block \in Blocks /\ Number[o.block] \in Nat
  <2> SUFFICES ASSUME NEW x, Meta(o.block, x) \in S
               PROVE  o.block \in Blocks /\ Number[o.block] \in Nat
    OBVIOUS
  <2>1. Meta(o.block, x) \in Statements(o)
    OBVIOUS
  <2>2. o.op # "delete_blocks"
    BY <2>1, StatementsOf
  <2> QED BY <2>2, OperationShape DEF TreeAssumption
<1> QED BY <1>1, <1>2 DEF After, Databases

\* Running one more statement of an operation is running them all at once.
LEMMA AfterOneMore ==
  ASSUME NEW db \in Databases, NEW o \in Operations,
         NEW S \in SUBSET Statements(o), NEW s \in Statements(o)
  PROVE  After(After(db, o, S), o, {s}) = After(db, o, S \cup {s})
<1> DEFINE one == After(db, o, S)
           two == After(one, o, {s})
           both == After(db, o, S \cup {s})
<1>1. \A b \in Blocks : two.rows[b] = both.rows[b]
  <2> SUFFICES ASSUME NEW b \in Blocks PROVE two.rows[b] = both.rows[b]
    OBVIOUS
  <2>1. \A p \in Parts : ~ (Insert(b, p) \in S /\ Delete(b, TableOf(p)) = s)
    <3> SUFFICES ASSUME NEW p \in Parts, Insert(b, p) \in S, Delete(b, TableOf(p)) = s
                 PROVE  FALSE
      OBVIOUS
    <3>1. Insert(b, p) \in Statements(o) /\ Delete(b, TableOf(p)) \in Statements(o)
      OBVIOUS
    <3>2. o.groups # {} /\ o.hashes # {}
      BY <3>1, StatementsOf
    <3> QED BY <3>2, OperationShape
  <2>2. one.rows[b] = {p \in Parts : \/ Insert(b, p) \in S
                                     \/ p \in db.rows[b] /\ Delete(b, TableOf(p)) \notin S}
    BY DEF After
  <2>3. two.rows[b] = {p \in Parts : \/ Insert(b, p) = s
                                     \/ p \in one.rows[b] /\ Delete(b, TableOf(p)) # s}
    BY DEF After
  <2>4. both.rows[b] = {p \in Parts :
          \/ Insert(b, p) \in S \cup {s}
          \/ p \in db.rows[b] /\ Delete(b, TableOf(p)) \notin S \cup {s}}
    BY DEF After
  <2> HIDE DEF one, two, both
  <2> QED BY <2>1, <2>2, <2>3, <2>4
<1>2. \A b \in Blocks, a \in Watched : two.marks[b][a] = both.marks[b][a]
  <2> SUFFICES ASSUME NEW b \in Blocks, NEW a \in Watched
               PROVE  two.marks[b][a] = both.marks[b][a]
    OBVIOUS
  <2>1. ~ (Mark(b, a) \in S /\ Delete(b, "unattributed_deltas") = s)
    <3> SUFFICES ASSUME Mark(b, a) \in S, Delete(b, "unattributed_deltas") = s
                 PROVE  FALSE
      OBVIOUS
    <3>1. Mark(b, a) \in Statements(o) /\ Delete(b, "unattributed_deltas") \in Statements(o)
      OBVIOUS
    <3>2. o.marked # {} /\ o.hashes # {}
      BY <3>1, StatementsOf
    <3> QED BY <3>2, OperationShape
  <2> QED BY <2>1 DEF After
<1>3. two.number = both.number /\ two.hash = both.hash
  BY DEF After
<1>4. /\ two.rows = [b \in Blocks |-> two.rows[b]]
      /\ both.rows = [b \in Blocks |-> both.rows[b]]
      /\ two.marks = [b \in Blocks |-> [a \in Watched |-> two.marks[b][a]]]
      /\ both.marks = [b \in Blocks |-> [a \in Watched |-> both.marks[b][a]]]
      /\ two = [rows |-> two.rows, marks |-> two.marks,
                number |-> two.number, hash |-> two.hash]
      /\ both = [rows |-> both.rows, marks |-> both.marks,
                 number |-> both.number, hash |-> both.hash]
  BY DEF After
<1> HIDE DEF one, two, both
<1>5. two.rows = both.rows
  BY <1>1, <1>4
<1>6. two.marks = both.marks
  BY <1>2, <1>4
<1>7. two = both
  BY <1>3, <1>4, <1>5, <1>6
<1> QED BY <1>7 DEF one, two, both

\* No statement: no change.
LEMMA AfterNothing ==
  ASSUME NEW db \in Databases, NEW o
  PROVE  After(db, o, {}) = db
<1>1. \A b \in Blocks : db.rows[b] = {p \in Parts : p \in db.rows[b]}
  BY DEF Databases
<1>2. db.rows = [b \in Blocks |-> {p \in Parts : p \in db.rows[b]}]
  BY <1>1 DEF Databases
<1>3. db.marks = [b \in Blocks |-> [a \in Watched |-> db.marks[b][a]]]
  BY DEF Databases
<1>4. After(db, o, {}) = [rows |-> db.rows, marks |-> db.marks,
                         number |-> db.number, hash |-> db.hash]
  BY <1>2, <1>3 DEF After
<1> QED BY <1>4 DEF Databases

-----------------------------------------------------------------------------
LEMMA RetryShape ==
  ASSUME NEW o \in Operations, NEW p \in Retries(o)
  PROVE  p \in Operations /\ p.op = o.op
  BY DEF Retries

\* TypeOK, LockInv and ProgressInv hold at the start.
LEMMA InitInv ==
  ASSUME TreeAssumption, TransactionsAssumption, Init
  PROVE  IInv
<1>1. Empty \in Databases
  BY DEF Empty, Databases
<1> QED BY <1>1 DEF Init, IInv, TypeOK, LockInv, ProgressInv, MetaInv,
                    MetaPairIsOneBlock, Empty, CallStates, TransactionsAssumption

\* The lock is taken with every statement still to run.
LEMMA LockKeeps ==
  ASSUME TreeAssumption, TransactionsAssumption, IInv, Lock
  PROVE  IInv'
<1> USE DEF IInv, Lock, Begin, connection
<1>1. want \in Operations
  BY DEF TypeOK
<1>2. TypeOK'
  BY <1>1 DEF TypeOK
<1>3. LockInv'
  BY DEF LockInv, TypeOK, TransactionsAssumption
<1>4. ProgressInv'
  BY <1>1, AfterNothing, Statements(want) \ Statements(want) = {}
     DEF ProgressInv, TypeOK, TransactionsAssumption
<1>5. MetaInv'
  BY DEF MetaInv, MetaPairIsOneBlock
<1> QED BY <1>2, <1>3, <1>4, <1>5

LEMMA ExecuteKeeps ==
  ASSUME TreeAssumption, TransactionsAssumption, IInv,
         NEW s \in todo, Execute(s)
  PROVE  IInv'
<1> DEFINE done == Statements(want) \ todo
<1>1. /\ want \in Operations /\ todo \in SUBSET Statements(want)
      /\ txn \in Databases /\ disk \in Databases /\ txn = After(disk, want, done)
  BY DEF IInv, TypeOK, ProgressInv, LockInv, Execute, TransactionsAssumption
<1>2. txn' = After(txn, want, {s}) /\ todo' = todo \ {s}
      /\ UNCHANGED <<disk, want, holder, poisoned, call, view>>
  BY DEF Execute
<1>3. txn' \in Databases
  BY <1>1, <1>2, AfterType
<1>4. Statements(want) \ todo' = done \cup {s}
  BY <1>1, <1>2
<1>5. txn' = After(disk, want, Statements(want) \ todo')
  BY <1>1, <1>2, <1>4, AfterOneMore
<1>6. TypeOK'
  BY <1>1, <1>2, <1>3, ZenonT(30) DEF IInv, TypeOK
<1>7. LockInv'
  BY <1>2, <1>3 DEF IInv, LockInv, Execute, TypeOK, TransactionsAssumption
<1>8. ProgressInv'
  BY <1>2, <1>3, <1>5 DEF ProgressInv, TransactionsAssumption
<1>9. MetaInv'
  BY <1>2 DEF IInv, MetaInv, MetaPairIsOneBlock
<1> QED BY <1>6, <1>7, <1>8, <1>9 DEF IInv

\* The meta pair of a whole operation is the one of its block, or as before.
LEMMA AfterMeta ==
  ASSUME NEW db \in Databases, NEW o \in Operations
  PROVE  LET new == After(db, o, Statements(o))
         IN  IF o.op \in {"write_block", "write_gap_block_marker"}
             THEN new.number = Number[o.block] /\ new.hash = o.block
             ELSE new.number = db.number /\ new.hash = db.hash
<1>1. /\ Meta(o.block, "last_block") \in Statements(o)
           <=> o.op \in {"write_block", "write_gap_block_marker"}
      /\ Meta(o.block, "last_block_hash") \in Statements(o)
           <=> o.op \in {"write_block", "write_gap_block_marker"}
  BY StatementsOf
<1> QED BY <1>1 DEF After

\* A commit, or the one statement of a diagnostic, makes the whole operation
\* durable.
LEMMA DurableKeeps ==
  ASSUME TreeAssumption, TransactionsAssumption, IInv, holder = Driver,
         disk' = After(disk, want, Statements(want)), txn' = None, todo' = {},
         want' = None, holder' = None, UNCHANGED <<poisoned, call, view>>
  PROVE  IInv'
<1>1. want \in Operations /\ disk \in Databases
  BY DEF IInv, TypeOK, LockInv
<1>2. disk' \in Databases
  BY <1>1, AfterType
<1>3. TypeOK'
  BY <1>2 DEF IInv, TypeOK
<1>4. LockInv'
  BY DEF IInv, LockInv, TransactionsAssumption
<1>5. ProgressInv'
  BY DEF ProgressInv, TransactionsAssumption
<1>6. MetaInv'
  <2>1. CASE want.op \in {"write_block", "write_gap_block_marker"}
    <3>1. want.block \in Blocks
      BY <1>1, <2>1, OperationShape
    <3> QED BY <1>1, <2>1, <3>1, AfterMeta
            DEF MetaInv, MetaPairIsOneBlock, TreeAssumption
  <2>2. CASE want.op \notin {"write_block", "write_gap_block_marker"}
    BY <1>1, <2>2, AfterMeta DEF IInv, MetaInv, MetaPairIsOneBlock
  <2> QED BY <2>1, <2>2
<1> QED BY <1>3, <1>4, <1>5, <1>6 DEF IInv

LEMMA CommitIsWhole ==
  ASSUME TransactionsAssumption, IInv, Commit
  PROVE  /\ holder = Driver
         /\ disk' = After(disk, want, Statements(want))
  BY Statements(want) \ {} = Statements(want) DEF IInv, ProgressInv, Commit

LEMMA ExecuteAloneIsWhole ==
  ASSUME TransactionsAssumption, IInv, NEW s \in todo, ExecuteAlone(s)
  PROVE  /\ holder = Driver
         /\ disk' = After(disk, want, Statements(want))
<1>1. want \in Operations /\ want.op = "write_unattributed" /\ todo = Statements(want)
  BY DEF IInv, LockInv, ProgressInv, TypeOK, ExecuteAlone
<1>2. Statements(want) = {s}
  BY <1>1, OperationShape DEF Statements
<1> QED BY <1>2 DEF ExecuteAlone

\* Everything else leaves the committed database alone and at most drops what
\* is open.
LEMMA OtherStepsKeep ==
  ASSUME TreeAssumption, TransactionsAssumption, IInv,
         \/ \E o \in Operations : Reach(o)
         \/ Fail
         \/ \E r \in Readers : Request(r) \/ Serve(r) \/ QueryFails(r) \/ Panic(r)
         \/ Crash
         \/ UNCHANGED vars
  PROVE  IInv' /\ UNCHANGED disk
<1> USE DEF IInv, connection
<1>1. CASE \E o \in Operations : Reach(o)
  <2> PICK o \in Operations : Reach(o)
    BY <1>1
  <2>1. want = None /\ want' = o /\ want' # None
        /\ UNCHANGED <<disk, txn, todo, holder, poisoned, call, view>>
    BY DEF Reach, TransactionsAssumption
  <2>2. holder # Driver /\ todo = {} /\ txn = None
    BY <2>1 DEF LockInv
  <2>3. TypeOK'
    BY <2>1, <2>2 DEF TypeOK
  <2>4. LockInv' /\ ProgressInv' /\ MetaInv'
    BY <2>1, <2>2 DEF LockInv, ProgressInv, MetaInv, MetaPairIsOneBlock
  <2> QED BY <2>1, <2>3, <2>4
<1>2. CASE Fail
  <2>1. want \in Operations
    BY <1>2 DEF Fail, LockInv, TypeOK
  <2>2. want' \in Operations \cup {None}
    BY <1>2, <2>1, RetryShape DEF Fail
  <2>3. TypeOK'
    BY <1>2, <2>2 DEF Fail, TypeOK
  <2>4. LockInv' /\ ProgressInv' /\ MetaInv'
    BY <1>2 DEF Fail, LockInv, ProgressInv, MetaInv, MetaPairIsOneBlock,
                TransactionsAssumption
  <2> QED BY <1>2, <2>3, <2>4 DEF Fail
<1>3. ASSUME NEW r \in Readers, Request(r) \/ Serve(r) \/ QueryFails(r) \/ Panic(r)
      PROVE  IInv' /\ UNCHANGED disk
  <2> USE DEF TransactionsAssumption
  <2>1. CASE Request(r)
    <3>1. TypeOK'
      BY <2>1 DEF Request, TypeOK, CallStates
    <3>2. LockInv' /\ ProgressInv' /\ MetaInv'
      BY <2>1 DEF Request, LockInv, ProgressInv, MetaInv, MetaPairIsOneBlock
    <3> QED BY <2>1, <3>1, <3>2 DEF Request
  <2>2. CASE ReaderLock(r)
    <3>1. TypeOK'
      BY <2>2 DEF ReaderLock, TypeOK, CallStates
    <3>2. LockInv' /\ ProgressInv' /\ MetaInv'
      BY <2>2 DEF ReaderLock, LockInv, ProgressInv, MetaInv, MetaPairIsOneBlock
    <3> QED BY <2>2, <3>1, <3>2 DEF ReaderLock
  <2>3. CASE Query(r)
    <3>1. holder # Driver /\ Seen = disk
      BY <2>3 DEF Query, Seen, LockInv
    <3>2. TypeOK'
      BY <2>3, <3>1 DEF Query, TypeOK
    <3>3. LockInv' /\ ProgressInv' /\ MetaInv'
      BY <2>3, <3>1 DEF Query, LockInv, ProgressInv, MetaInv, MetaPairIsOneBlock, TypeOK
    <3> QED BY <2>3, <3>2, <3>3 DEF Query
  <2>4. CASE Reply(r) \/ QueryFails(r) \/ Panic(r)
    <3>1. Finish(r) /\ poisoned' \in BOOLEAN
      BY <2>4 DEF Reply, QueryFails, Panic, TypeOK
    <3>2. TypeOK'
      BY <3>1 DEF Finish, TypeOK, CallStates
    <3>3. LockInv' /\ ProgressInv' /\ MetaInv'
      BY <3>1 DEF Finish, LockInv, ProgressInv, MetaInv, MetaPairIsOneBlock, TypeOK
    <3> QED BY <3>1, <3>2, <3>3 DEF Finish
  <2> QED BY <1>3, <2>1, <2>2, <2>3, <2>4 DEF Serve
<1>4. CASE Crash
  BY <1>4 DEF Crash, TypeOK, LockInv, ProgressInv, MetaInv, MetaPairIsOneBlock,
              CallStates, TransactionsAssumption
<1>5. CASE UNCHANGED vars
  BY <1>5 DEF vars, TypeOK, LockInv, ProgressInv, MetaInv, MetaPairIsOneBlock
<1> QED BY <1>1, <1>2, <1>3, <1>4, <1>5

\* IInv is inductive.
THEOREM Inductive ==
  ASSUME TreeAssumption, TransactionsAssumption
  PROVE  Spec => []IInv
<1>1. Init => IInv
  BY InitInv
<1>2. IInv /\ [Next]_vars => IInv'
  <2> SUFFICES ASSUME IInv, [Next]_vars PROVE IInv'
    OBVIOUS
  <2>1. CASE Lock
    BY <2>1, LockKeeps
  <2>2. ASSUME NEW s \in todo, Run(s) PROVE IInv'
    <3>1. CASE Execute(s)
      BY <3>1, ExecuteKeeps
    <3>2. CASE ExecuteAlone(s)
      BY <3>2, ExecuteAloneIsWhole, DurableKeeps DEF ExecuteAlone, IInv, LockInv
    <3> QED BY <2>2, <3>1, <3>2 DEF Run
  <2>3. CASE Commit
    BY <2>3, CommitIsWhole, DurableKeeps DEF Commit
  <2>4. CASE UNCHANGED vars
    BY <2>4, OtherStepsKeep
  <2> QED BY <2>1, <2>2, <2>3, <2>4, OtherStepsKeep DEF Next
<1> QED BY <1>1, <1>2, PTL DEF Spec

\* Type correctness of the connection, the mutex and the calls.
THEOREM TypeCorrect ==
  ASSUME TreeAssumption, TransactionsAssumption
  PROVE  Spec => []TypeOK
<1>1. IInv => TypeOK
  BY DEF IInv
<1> QED BY <1>1, Inductive, PTL

\* The committed meta pair is always of one block (writer.rs, queries.rs:45).
THEOREM MetaPairIsWhole ==
  ASSUME TreeAssumption, TransactionsAssumption
  PROVE  Spec => []MetaPairIsOneBlock
<1>1. IInv => MetaPairIsOneBlock
  BY DEF IInv, MetaInv
<1> QED BY <1>1, Inductive, PTL

\* An RPC call reads one committed state, however many queries it runs.
THEOREM ReadersSeeSnapshots ==
  ASSUME TreeAssumption, TransactionsAssumption
  PROVE  Spec => []AnswersAreSnapshots
<1>1. IInv => AnswersAreSnapshots
  BY DEF IInv, AnswersAreSnapshots, LockInv, TransactionsAssumption
<1> QED BY <1>1, Inductive, PTL

-----------------------------------------------------------------------------
\* What a whole operation does to rows and markers, in the terms of Ledger.
LEMMA AfterRows ==
  ASSUME NEW db \in Databases, NEW o \in Operations, NEW b \in Blocks
  PROVE  {g \in RowGroups : PartsOf(g) \subseteq After(db, o, Statements(o)).rows[b]}
           = IF o.op = "delete_blocks"
             THEN IF b \in o.hashes THEN {}
                  ELSE {g \in RowGroups : PartsOf(g) \subseteq db.rows[b]}
             ELSE {g \in RowGroups : PartsOf(g) \subseteq db.rows[b]}
                    \cup (IF b = o.block THEN o.groups ELSE {})
<1> DEFINE new == After(db, o, Statements(o)).rows[b]
<1>1. new = {p \in Parts :
                \/ b = o.block /\ \E g \in o.groups : p \in PartsOf(g)
                \/ p \in db.rows[b] /\ b \notin o.hashes}
  <2>1. \A p \in Parts : TableOf(p) \in Tables
    BY DEF TableOf, Tables
  <2> QED BY <2>1, StatementsOf DEF After
<1>2. db.rows[b] \subseteq Parts
  BY DEF Databases
<1>3. /\ PartsOf("frames") = {"eth frames"}
      /\ PartsOf("receipts") = {"eth system", "erc20", "gas"}
      /\ RowGroups = {"receipts", "frames"}
      /\ Parts = {"eth frames", "eth system", "erc20", "gas"}
  BY DEF PartsOf, Parts, RowGroups
<1> HIDE DEF new
<1>4. CASE o.op = "delete_blocks"
  <2>1. o.groups = {}
    BY <1>4, OperationShape
  <2>2. CASE b \in o.hashes
    BY <1>1, <1>3, <1>4, <2>1, <2>2 DEF new
  <2>3. CASE b \notin o.hashes
    BY <1>1, <1>2, <1>4, <2>1, <2>3, new = db.rows[b] DEF new
  <2> QED BY <2>2, <2>3
<1>5. CASE o.op # "delete_blocks"
  <2>1. o.hashes = {} /\ o.groups \subseteq RowGroups
    BY <1>5, OperationShape
  <2>2. \A p \in Parts : p \in new <=>
          (b = o.block /\ \E g \in o.groups : p \in PartsOf(g)) \/ p \in db.rows[b]
    BY <1>1, <2>1
  <2>3. \A g \in RowGroups :
          PartsOf(g) \subseteq new <=>
            PartsOf(g) \subseteq db.rows[b] \/ (b = o.block /\ g \in o.groups)
    <3>1. PartsOf("frames") \subseteq new <=>
            "eth frames" \in db.rows[b] \/ (b = o.block /\ "frames" \in o.groups)
      BY <1>3, <2>1, <2>2
    <3>2. PartsOf("receipts") \subseteq new <=>
            \/ {"eth system", "erc20", "gas"} \subseteq db.rows[b]
            \/ (b = o.block /\ "receipts" \in o.groups)
      BY <1>3, <2>1, <2>2
    <3> QED BY <1>3, <3>1, <3>2
  <2> QED BY <1>5, <2>1, <2>3 DEF new
<1> QED BY <1>4, <1>5

LEMMA AfterMarks ==
  ASSUME NEW db \in Databases, NEW o \in Operations, NEW b \in Blocks, NEW a \in Watched
  PROVE  After(db, o, Statements(o)).marks[b][a]
           = IF b = o.block /\ a \in o.marked THEN o.cause
             ELSE IF b \in o.hashes THEN None ELSE db.marks[b][a]
<1>1. "unattributed_deltas" \in Tables
  BY DEF Tables
<1> QED BY <1>1, StatementsOf DEF After

\* The ledger of module Ledger that a database stands for.
GroupsIn(db) == [b \in Blocks |-> {g \in RowGroups : PartsOf(g) \subseteq db.rows[b]}]

\* Flagging the accounts of one block, entry by entry and as one update.
Flagged(m, b, S, cause) ==
    [m EXCEPT ![b] = [a \in Watched |-> IF a \in S THEN cause ELSE @[a]]]

LEMMA FlaggedMarks ==
  ASSUME NEW m, NEW n, NEW b \in Blocks, NEW S, NEW cause,
         m \in [Blocks -> [Watched -> MarkCauses \cup {None}]],
         n \in [Blocks -> [Watched -> MarkCauses \cup {None}]],
         \A c \in Blocks, a \in Watched :
           n[c][a] = IF c = b /\ a \in S THEN cause ELSE m[c][a]
  PROVE  n = Flagged(m, b, S, cause)
<1> DEFINE flagged == [a \in Watched |-> IF a \in S THEN cause ELSE m[b][a]]
           e == [m EXCEPT ![b] = flagged]
<1>1. n[b] = flagged
  <2>1. n[b] = [a \in Watched |-> n[b][a]]
    OBVIOUS
  <2>2. \A a \in Watched : n[b][a] = IF a \in S THEN cause ELSE m[b][a]
    OBVIOUS
  <2> QED BY <2>1, <2>2, ZenonT(30)
<1>2. ASSUME NEW c \in Blocks, c # b PROVE n[c] = m[c]
  <2>1. n[c] = [a \in Watched |-> n[c][a]] /\ m[c] = [a \in Watched |-> m[c][a]]
    OBVIOUS
  <2>2. \A a \in Watched : n[c][a] = m[c][a]
    BY <1>2
  <2> QED BY <2>1, <2>2
<1>3. n = [c \in Blocks |-> n[c]] /\ m = [c \in Blocks |-> m[c]]
  OBVIOUS
<1> HIDE DEF flagged
<1>4. \A c \in Blocks : n[c] = e[c]
  BY <1>1, <1>2, <1>3
<1>5. e = [c \in Blocks |-> e[c]]
  BY <1>3
<1> HIDE DEF e
<1>6. n = e
  BY <1>3, <1>4, <1>5
<1> QED BY <1>6 DEF e, flagged, Flagged

LEMMA FlaggedDatabase ==
  ASSUME NEW d \in Databases, NEW e \in Databases,
         NEW b \in Blocks, NEW S, NEW cause,
         \A c \in Blocks, a \in Watched :
           e.marks[c][a] = IF c = b /\ a \in S THEN cause ELSE d.marks[c][a]
  PROVE  e.marks = Flagged(d.marks, b, S, cause)
<1> DEFINE m == d.marks
           n == e.marks
<1>1. /\ m \in [Blocks -> [Watched -> MarkCauses \cup {None}]]
      /\ n \in [Blocks -> [Watched -> MarkCauses \cup {None}]]
  BY DEF Databases
<1>2. \A c \in Blocks, a \in Watched :
        n[c][a] = IF c = b /\ a \in S THEN cause ELSE m[c][a]
  OBVIOUS
<1> HIDE DEF m, n
<1>3. n = Flagged(m, b, S, cause)
  BY <1>1, <1>2, FlaggedMarks
<1> QED BY <1>3 DEF m, n

\* Two functions on the blocks that agree block by block.
LEMMA SameOnBlocks ==
  ASSUME NEW f, NEW g, f = [b \in Blocks |-> f[b]], g = [b \in Blocks |-> g[b]],
         \A b \in Blocks : f[b] = g[b]
  PROVE  f = g
<1>1. [b \in Blocks |-> f[b]] = [b \in Blocks |-> g[b]]
  OBVIOUS
<1> QED BY <1>1, Zenon

LEMMA WholeOperationIsAtomic ==
  ASSUME TreeAssumption, NEW o \in Operations, disk \in Databases,
         disk' = After(disk, o, Statements(o))
  PROVE  Atomic!LedgerNext
<1> DEFINE new == After(disk, o, Statements(o))
<1>1. \A b \in Blocks : GroupsIn(new)[b] =
        IF o.op = "delete_blocks"
        THEN IF b \in o.hashes THEN {} ELSE GroupsIn(disk)[b]
        ELSE GroupsIn(disk)[b] \cup (IF b = o.block THEN o.groups ELSE {})
  BY AfterRows DEF GroupsIn
<1>2. \A b \in Blocks, a \in Watched : new.marks[b][a] =
        IF b = o.block /\ a \in o.marked THEN o.cause
        ELSE IF b \in o.hashes THEN None ELSE disk.marks[b][a]
  BY AfterMarks
<1>3. new \in Databases
  BY AfterType
<1>4. new.hash = IF o.op \in {"write_block", "write_gap_block_marker"}
                 THEN o.block ELSE disk.hash
  BY AfterMeta
<1>5. /\ GroupsIn(new) = [b \in Blocks |-> GroupsIn(new)[b]]
      /\ GroupsIn(disk) = [b \in Blocks |-> GroupsIn(disk)[b]]
  BY DEF GroupsIn
<1> HIDE DEF new
<1>10. ASSUME NEW b \in Blocks, NEW S, NEW cause,
              \A c \in Blocks, a \in Watched :
                new.marks[c][a] = IF c = b /\ a \in S THEN cause ELSE disk.marks[c][a]
       PROVE  new.marks = Flagged(disk.marks, b, S, cause)
  BY <1>3, <1>10, FlaggedDatabase
<1>6. CASE o.op = "write_block"
  <2>1. /\ o.block \in Blocks /\ o.groups \in SUBSET RowGroups
        /\ o.marked \in SUBSET Watched /\ o.hashes = {}
        /\ o.cause = "parent_state_unavailable"
    BY <1>6, OperationShape
  <2>2. GroupsIn(new) = [GroupsIn(disk) EXCEPT ![o.block] = @ \cup o.groups]
    <3> DEFINE old == GroupsIn(disk)
               now == GroupsIn(new)
               e == [old EXCEPT ![o.block] = @ \cup o.groups]
    <3>1. \A b \in Blocks : now[b] = old[b] \cup (IF b = o.block THEN o.groups ELSE {})
      BY <1>1, <1>6
    <3>2. old = [b \in Blocks |-> old[b]] /\ now = [b \in Blocks |-> now[b]]
      BY <1>5
    <3> HIDE DEF old, now
    <3>3. \A b \in Blocks : e[b] = old[b] \cup (IF b = o.block THEN o.groups ELSE {})
      BY <2>1, <3>2
    <3>4. e = [b \in Blocks |-> e[b]]
      BY <3>2
    <3> HIDE DEF e
    <3>5. \A b \in Blocks : now[b] = e[b]
      BY <3>1, <3>3
    <3>6. now = e
      BY <3>2, <3>4, <3>5, SameOnBlocks, Zenon
    <3> QED BY <3>6 DEF e, old, now
  <2>3. new.marks = Flagged(disk.marks, o.block, o.marked, "parent_state_unavailable")
    <3>1. \A b \in Blocks, x \in Watched : new.marks[b][x] =
            IF b = o.block /\ x \in o.marked THEN "parent_state_unavailable" ELSE disk.marks[b][x]
      BY <1>2, <2>1
    <3> QED BY <1>10, <2>1, <3>1
  <2>4. Atomic!WriteBlock(o.block, o.groups, o.marked)
    BY <1>4, <1>6, <2>2, <2>3 DEF Atomic!WriteBlock, Atomic!Flag, GroupsIn, new, Flagged
  <2> QED BY <2>1, <2>4 DEF Atomic!LedgerNext, Atomic!RowGroups, RowGroups
<1>7. CASE o.op = "write_unattributed"
  <2>1. /\ o.block \in Blocks /\ o.groups = {} /\ o.hashes = {}
        /\ o.cause = "unexplained_residual"
    BY <1>7, OperationShape
  <2> PICK a \in Watched : o.marked = {a}
    BY <1>7, OperationShape
  <2>2. GroupsIn(new) = GroupsIn(disk)
    BY <1>1, <1>5, <1>7, <2>1
  <2>3. new.marks = Flagged(disk.marks, o.block, {a}, "unexplained_residual")
    <3>1. \A b \in Blocks, x \in Watched : new.marks[b][x] =
            IF b = o.block /\ x \in {a} THEN "unexplained_residual" ELSE disk.marks[b][x]
      BY <1>2, <2>1
    <3> QED BY <1>10, <2>1, <3>1
  <2>4. Atomic!WriteUnattributed(o.block, a)
    BY <1>4, <1>7, <2>2, <2>3 DEF Atomic!WriteUnattributed, Atomic!Flag, GroupsIn, new, Flagged
  <2> QED BY <2>1, <2>4 DEF Atomic!LedgerNext
<1>8. CASE o.op = "write_gap_block_marker"
  <2>1. /\ o.block \in Blocks /\ o.groups = {} /\ o.hashes = {}
        /\ o.marked = Watched /\ o.cause = "block_not_delivered"
    BY <1>8, OperationShape
  <2>2. GroupsIn(new) = GroupsIn(disk)
    BY <1>1, <1>5, <1>8, <2>1
  <2>3. new.marks = Flagged(disk.marks, o.block, Watched, "block_not_delivered")
    <3>1. \A b \in Blocks, x \in Watched : new.marks[b][x] =
            IF b = o.block /\ x \in Watched THEN "block_not_delivered" ELSE disk.marks[b][x]
      BY <1>2, <2>1
    <3> QED BY <1>10, <2>1, <3>1
  <2>4. Atomic!WriteGapBlockMarker(o.block)
    BY <1>4, <1>8, <2>2, <2>3 DEF Atomic!WriteGapBlockMarker, Atomic!Flag, GroupsIn, new, Flagged
  <2> QED BY <2>1, <2>4 DEF Atomic!LedgerNext
<1>9. CASE o.op = "delete_blocks"
  <2>1. o.hashes \in SUBSET Blocks /\ o.marked = {} /\ o.groups = {}
    BY <1>9, OperationShape
  <2>2. GroupsIn(new) = [b \in Blocks |-> IF b \in o.hashes THEN {} ELSE GroupsIn(disk)[b]]
    BY <1>1, <1>5, <1>9
  <2>3. new.marks = [b \in Blocks |-> IF b \in o.hashes THEN [a \in Watched |-> None]
                                      ELSE disk.marks[b]]
    BY <1>2, <1>3, <2>1 DEF Databases
  <2>4. Atomic!DeleteBlocks(o.hashes)
    BY <1>4, <1>9, <2>2, <2>3 DEF Atomic!DeleteBlocks, GroupsIn, new
  <2> QED BY <2>1, <2>4 DEF Atomic!LedgerNext
<1> QED BY <1>6, <1>7, <1>8, <1>9, OperationShape

\* Statement by statement, with errors, rollbacks, crashes and readers between
\* any two, the ledger does what the four atomic operations do, in some order.
THEOREM StatementsImplementLedger ==
  ASSUME TreeAssumption, TransactionsAssumption
  PROVE  Spec => ImplementsLedger
<1>1. Init => Atomic!LedgerInit
  <2>1. \A g \in RowGroups : ~ (PartsOf(g) \subseteq {})
    <3>1. "eth frames" \in PartsOf("frames") /\ "gas" \in PartsOf("receipts")
      BY DEF PartsOf, Parts
    <3> QED BY <3>1 DEF RowGroups
  <2> QED BY <2>1 DEF Init, Empty, Atomic!LedgerInit
<1>2. IInv /\ [Next]_vars => [Atomic!LedgerNext]_(Atomic!ledgerVars)
  <2> SUFFICES ASSUME IInv, [Next]_vars
               PROVE  Atomic!LedgerNext \/ UNCHANGED Atomic!ledgerVars
    OBVIOUS
  <2>1. disk \in Databases /\ (holder = Driver => want \in Operations)
    BY DEF IInv, TypeOK, LockInv
  <2>2. CASE UNCHANGED disk
    BY <2>2 DEF Atomic!ledgerVars
  <2>3. CASE Commit
    BY <2>1, <2>3, CommitIsWhole, WholeOperationIsAtomic
  <2>4. ASSUME NEW s \in todo, ExecuteAlone(s) PROVE Atomic!LedgerNext
    BY <2>1, <2>4, ExecuteAloneIsWhole, WholeOperationIsAtomic
  <2>5. CASE Lock \/ \E s \in todo : Execute(s)
    BY <2>2, <2>5 DEF Lock, Execute
  <2>6. CASE \/ \E o \in Operations : Reach(o)
             \/ Fail
             \/ \E r \in Readers : Request(r) \/ Serve(r) \/ QueryFails(r) \/ Panic(r)
             \/ Crash
             \/ UNCHANGED vars
    BY <2>2, <2>6, OtherStepsKeep
  <2> QED BY <2>2, <2>3, <2>4, <2>5, <2>6 DEF Next, Run
<1> QED BY <1>1, <1>2, Inductive, PTL DEF Spec, ImplementsLedger, Atomic!LedgerSpec
=============================================================================
