------------------------- MODULE LedgerTransactions -------------------------
(***************************************************************************)
(* The shared ledger, statement by statement: one SQLite connection behind *)
(* one Arc<Mutex<Ledger>>, the driver that writes through it               *)
(* (ledger/writer.rs, called from exex.rs) and the RPC readers (rpc.rs).   *)
(*                                                                         *)
(* A write locks the mutex, opens a transaction, runs its statements on    *)
(* the connection and commits; an error rolls back and unlocks, and the    *)
(* driver tries again.  A reader locks, runs its queries and unlocks; if   *)
(* it panics meanwhile the mutex is poisoned for the life of the process:  *)
(* the driver recovers the guard, a reader turns the poison into an error. *)
(* The connection shows its own uncommitted statements, so only the mutex  *)
(* keeps them from the readers.                                            *)
(***************************************************************************)
EXTENDS BlockPipeline

CONSTANTS
    Readers,  \* the RPC calls the server works on at a time
    Driver    \* the ExEx task

VARIABLES
    disk,      \* the committed database
    txn,       \* the database as the open transaction has it, or None
    todo,      \* the statements the operation has yet to run
    want,      \* the ledger operation the driver is at, or None
    holder,    \* who holds the mutex, or None
    poisoned,  \* did a holder panic?
    call,      \* call[r]: where the RPC call r is
    view       \* view[r]: what the queries of the call have seen so far

connection == <<disk, txn, todo>>
vars == <<connection, want, holder, poisoned, call, view>>

\* The loops of write_block and the tables they fill.  What is read off the
\* notification is spread over three of them.
Parts == {"eth frames", "eth system", "erc20", "gas"}
PartsOf(group) ==
    IF group = "frames" THEN {"eth frames"} ELSE Parts \ {"eth frames"}
TableOf(part) ==
    IF part = "erc20" THEN "erc20_transfers"
    ELSE IF part = "gas" THEN "gas_payments" ELSE "eth_transfers"
Tables == {"eth_transfers", "erc20_transfers", "gas_payments",
           "unattributed_deltas"}
MarkCauses == {"parent_state_unavailable", "unexplained_residual",
               "block_not_delivered"}

Databases ==
    [rows   : [Blocks -> SUBSET Parts],
     marks  : [Blocks -> [Watched -> MarkCauses \cup {None}]],
     number : Nat \cup {None},     \* meta.last_block
     hash   : Blocks \cup {None}]  \* meta.last_block_hash

Empty == [rows   |-> [b \in Blocks |-> {}],
          marks  |-> [b \in Blocks |-> [a \in Watched |-> None]],
          number |-> None, hash |-> None]

-----------------------------------------------------------------------------
\* The operations the driver calls.
Operation(op, b, groups, marked, cause, hashes) ==
    [op |-> op, block |-> b, groups |-> groups, marked |-> marked,
     cause |-> cause, hashes |-> hashes]

\* A batch has the frames, or markers for what they would have explained.
WriteBlockOps ==
    {Operation("write_block", b, RowGroups, {}, "parent_state_unavailable", {})
       : b \in Blocks}
    \cup {Operation("write_block", b, {"receipts"}, marked, "parent_state_unavailable", {})
            : b \in Blocks, marked \in SUBSET Watched}
WriteUnattributedOps ==
    {Operation("write_unattributed", b, {}, {a}, "unexplained_residual", {})
       : b \in Blocks, a \in Watched}
WriteGapBlockMarkerOps ==
    {Operation("write_gap_block_marker", b, {}, Watched, "block_not_delivered", {})
       : b \in Blocks}
DeleteBlocksOps ==
    {Operation("delete_blocks", None, {}, {}, None, hashes)
       : hashes \in SUBSET Blocks \ {{}}}
Operations == WriteBlockOps \cup WriteUnattributedOps
                \cup WriteGapBlockMarkerOps \cup DeleteBlocksOps

ASSUME TransactionsAssumption ==
    /\ Driver \notin Readers
    /\ None \notin Readers \cup {Driver}
    /\ None \notin Operations
    /\ None \notin Databases

\* What a retry may turn an operation into: the block is processed again, now
\* with or without parent state; the header is looked up again; the hashes to
\* delete stay.  The diagnostic of a stall is not retried.
Retries(o) ==
    {p \in Operations :
       /\ p.op = o.op /\ p.hashes = o.hashes
       /\ o.op = "write_block" => p.block = o.block
       /\ o.op = "write_gap_block_marker" => Number[p.block] = Number[o.block]}

\* The statements of an operation; each is about one block.
Delete(b, table) == <<"delete", b, table>>
Insert(b, part)  == <<"insert", b, part>>
Mark(b, a)       == <<"mark", b, a>>
Meta(b, key)     == <<"meta", b, key>>
Statements(o) ==
    {Delete(b, t) : b \in o.hashes, t \in Tables}
      \cup {Insert(o.block, p) : p \in UNION {PartsOf(g) : g \in o.groups}}
      \cup {Mark(o.block, a) : a \in o.marked}
      \cup IF o.op \in {"write_block", "write_gap_block_marker"}
           THEN {Meta(o.block, "last_block"), Meta(o.block, "last_block_hash")} ELSE {}

\* Their order: block by block, and for a block table by table, loop by loop;
\* the markers come in any order.
ScriptOrder == <<"eth_transfers", "erc20_transfers", "gas_payments", "unattributed_deltas",
                 "eth frames", "eth system", "erc20", "gas",
                 "mark", "last_block", "last_block_hash">>
Rank(s) ==
    LET name == IF s[1] = "mark" THEN "mark" ELSE s[3]
    IN  11 * Number[s[2]] + CHOOSE i \in 1..11 : ScriptOrder[i] = name
Turn(s) == \A t \in todo : Rank(s) <= Rank(t)

\* db after the statements S of operation o.
After(db, o, S) ==
    [rows |-> [b \in Blocks |->
       {p \in Parts : \/ Insert(b, p) \in S
                      \/ p \in db.rows[b] /\ Delete(b, TableOf(p)) \notin S}],
     marks |-> [b \in Blocks |-> [a \in Watched |->
       IF Mark(b, a) \in S THEN o.cause
       ELSE IF Delete(b, "unattributed_deltas") \in S THEN None
       ELSE db.marks[b][a]]],
     number |-> IF Meta(o.block, "last_block") \in S THEN Number[o.block] ELSE db.number,
     hash |-> IF Meta(o.block, "last_block_hash") \in S THEN o.block ELSE db.hash]

-----------------------------------------------------------------------------
CallStates == {"idle", "waiting", "reading"}

TypeOK ==
    /\ disk \in Databases
    /\ txn \in Databases \cup {None}
    /\ want \in Operations \cup {None}
    /\ todo \in IF want = None THEN {{}} ELSE SUBSET Statements(want)
    /\ holder \in Readers \cup {Driver, None}
    /\ poisoned \in BOOLEAN
    /\ call \in [Readers -> CallStates]
    /\ view \in [Readers -> Databases \cup {None}]

Init ==
    /\ disk = Empty
    /\ txn = None
    /\ todo = {}
    /\ want = None
    /\ holder = None
    /\ poisoned = FALSE
    /\ call = [r \in Readers |-> "idle"]
    /\ view = [r \in Readers |-> None]

\* The driver comes to a ledger operation.
Reach(o) ==
    /\ want = None
    /\ want' = o
    /\ UNCHANGED <<connection, holder, poisoned, call, view>>

\* A diagnostic is one statement that commits itself; the others open a
\* transaction.
Begin(o) == txn' = IF o.op = "write_unattributed" THEN None ELSE disk

\* Mutant: the driver takes a poisoned lock for a failure.
LockUnlessPoisoned ==
    /\ want # None /\ holder = None /\ ~ poisoned
    /\ holder' = Driver
    /\ Begin(want)
    /\ todo' = Statements(want)
    /\ UNCHANGED <<disk, want, poisoned, call, view>>
\* ledger.lock().unwrap_or_else(|e| e.into_inner()), then conn.transaction().
Lock ==
    /\ want # None /\ holder = None
    /\ holder' = Driver
    /\ Begin(want)
    /\ todo' = Statements(want)
    /\ UNCHANGED <<disk, want, poisoned, call, view>>

\* Mutant: the statements run without a transaction.
ExecuteUnwrapped(s) ==
    /\ holder = Driver /\ txn # None
    /\ s \in todo /\ Turn(s)
    /\ disk' = After(disk, want, {s})
    /\ txn' = disk'
    /\ todo' = todo \ {s}
    /\ UNCHANGED <<want, holder, poisoned, call, view>>
\* tx.execute of the next statement.
Execute(s) ==
    /\ holder = Driver /\ txn # None
    /\ s \in todo /\ Turn(s)
    /\ txn' = After(txn, want, {s})
    /\ todo' = todo \ {s}
    /\ UNCHANGED <<disk, want, holder, poisoned, call, view>>

\* Mutant: the meta pair is written by a transaction of its own, later.
CommitRowsFirst ==
    /\ holder = Driver /\ txn # None /\ todo \subseteq {Meta(want.block, "last_block_hash")}
    /\ disk' = txn
    /\ txn' = None /\ todo' = {}
    /\ want' = None /\ holder' = None
    /\ UNCHANGED <<poisoned, call, view>>
\* tx.commit(), and the guard is dropped.
Commit ==
    /\ holder = Driver /\ txn # None /\ todo = {}
    /\ disk' = txn
    /\ txn' = None
    /\ want' = None /\ holder' = None
    /\ UNCHANGED <<todo, poisoned, call, view>>

\* conn.execute outside a transaction: write_unattributed.
ExecuteAlone(s) ==
    /\ holder = Driver /\ txn = None
    /\ s \in todo
    /\ disk' = After(disk, want, {s})
    /\ todo' = {}
    /\ want' = None /\ holder' = None
    /\ UNCHANGED <<txn, poisoned, call, view>>

\* Mutant: a retry goes on with the statements that are left.
FailResuming ==
    /\ holder = Driver
    /\ txn' = None
    /\ want' \in IF txn = None THEN {None} ELSE Retries(want)
    /\ holder' = None
    /\ UNCHANGED <<disk, todo, poisoned, call, view>>
\* Mutant: the guard outlives the failed attempt.
FailHoldingGuard ==
    /\ holder = Driver
    /\ txn' = None /\ todo' = {}
    /\ want' \in IF txn = None THEN {None} ELSE Retries(want)
    /\ UNCHANGED <<disk, holder, poisoned, call, view>>
\* A statement or the commit errs (SQLITE_BUSY, disk full): the transaction is
\* dropped, which rolls it back, and the guard with it, before the backoff.
Fail ==
    /\ holder = Driver
    /\ txn' = None /\ todo' = {}
    /\ want' \in IF txn = None THEN {None} ELSE Retries(want)
    /\ holder' = None
    /\ UNCHANGED <<disk, poisoned, call, view>>

\* A client calls passbook_health or passbook_getTransfers.
Request(r) ==
    /\ call[r] = "idle"
    /\ call' = [call EXCEPT ![r] = "waiting"]
    /\ UNCHANGED <<connection, want, holder, poisoned, view>>

\* Mutant: the reader has a guard of its own.
ReaderLockShared(r) ==
    /\ call[r] = "waiting" /\ holder \in {None, Driver}
    /\ call' = [call EXCEPT ![r] = IF poisoned THEN "idle" ELSE "reading"]
    /\ holder' = IF poisoned THEN holder ELSE r
    /\ UNCHANGED <<connection, want, poisoned, view>>
\* self.ledger.lock().map_err(err)?: the error drops the guard at once.
ReaderLock(r) ==
    /\ call[r] = "waiting" /\ holder = None
    /\ call' = [call EXCEPT ![r] = IF poisoned THEN "idle" ELSE "reading"]
    /\ holder' = IF poisoned THEN None ELSE r
    /\ UNCHANGED <<connection, want, poisoned, view>>

\* One query of the call; health has two, get_transfers up to three.  view
\* keeps what the first one saw.
Seen == IF txn = None THEN disk ELSE txn
Query(r) ==
    /\ holder = r /\ view[r] = None
    /\ view' = [view EXCEPT ![r] = Seen]
    /\ UNCHANGED <<connection, want, holder, poisoned, call>>

\* The call ends: with its result, after a query that failed, or in a panic,
\* which poisons the mutex on its way out.  A failed query of get_transfers is the
\* call's error; health puts nothing in its place (.ok()) and answers all the same.
\* What an answer holds, beyond the state it was read from, is left out.
Finish(r) ==
    /\ holder = r
    /\ call' = [call EXCEPT ![r] = "idle"]
    /\ view' = [view EXCEPT ![r] = None]
    /\ holder' = None
    /\ UNCHANGED <<connection, want>>
Reply(r)      == view[r] # None /\ Finish(r) /\ UNCHANGED poisoned
QueryFails(r) == Finish(r) /\ UNCHANGED poisoned
Panic(r)      == Finish(r) /\ poisoned' = TRUE

\* The process dies; the next one has a mutex and a connection of its own.
Crash ==
    /\ txn' = None /\ todo' = {}
    /\ want' = None /\ holder' = None /\ poisoned' = FALSE
    /\ call' = [r \in Readers |-> "idle"]
    /\ view' = [r \in Readers |-> None]
    /\ UNCHANGED disk

Run(s) == Execute(s) \/ ExecuteAlone(s)
Serve(r) == ReaderLock(r) \/ Query(r) \/ Reply(r)

Next ==
    \/ \E o \in Operations : Reach(o)
    \/ Lock
    \/ \E s \in todo : Run(s)
    \/ Commit
    \/ Fail
    \/ \E r \in Readers : Request(r) \/ Serve(r) \/ QueryFails(r) \/ Panic(r)
    \/ Crash

Spec == Init /\ [][Next]_vars

\* Holders go on; a mutex that is free again and again is given to whoever
\* waits; transient faults end.
LiveSpec ==
    /\ Spec
    /\ SF_vars(Lock)
    /\ WF_vars(\E s \in todo : Run(s))
    /\ WF_vars(Commit)
    /\ \A r \in Readers : SF_vars(ReaderLock(r)) /\ WF_vars(Query(r) \/ Reply(r))
    /\ <>[][~ Fail]_vars

-----------------------------------------------------------------------------
\* queries.rs: the meta pair is written in one transaction, so what is committed
\* never holds the number of one block and the hash of another, or one alone,
\* whatever failed, was rolled back or died half-way.
MetaPairIsOneBlock ==
    disk.number = IF disk.hash = None THEN None ELSE Number[disk.hash]

\* Everything one RPC call reads, over all its queries, is one committed state
\* of the ledger: no uncommitted statement, and no commit in between.
AnswersAreSnapshots ==
    \A r \in Readers : view[r] # None => holder = r /\ view[r] = disk /\ txn = None

\* An operation the driver has come to ends (it is done, given up for a
\* diagnostic, or the process dies): no reader, panicked or not, keeps it out.
WriterIsNotLockedOut == want # None ~> want = None

\* A call that waits for the ledger gets an answer or an error.
CallersAreServed ==
    \A r \in Readers : call[r] = "waiting" ~> call[r] = "idle"

\* The statements implement the atomic operations of module Ledger: a group
\* counts as stored when all of its parts are.
Atomic == INSTANCE Ledger WITH
            rows  <- [b \in Blocks |-> {g \in RowGroups : PartsOf(g) \subseteq disk.rows[b]}],
            marks <- disk.marks,
            last  <- disk.hash

ImplementsLedger == Atomic!LedgerSpec
=============================================================================
