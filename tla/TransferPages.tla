---------------------------- MODULE TransferPages ----------------------------
(***************************************************************************)
(* passbook_getTransfers (rpc.rs, ledger/queries.rs): a client follows     *)
(* next_cursor from page to page while the ExEx keeps writing blocks and   *)
(* deleting reverted ones.  Every call holds the ledger's mutex, so the    *)
(* statements of one page see one state; nothing is held between pages.    *)
(*                                                                         *)
(* The rows are those of one chain and one address.  A row's primary key   *)
(* is its block (a height of a branch), its category (the tag of the UNION *)
(* ALL) and a number; its rowid is the place of the write that put it      *)
(* there, then that number.                                                *)
(***************************************************************************)
EXTENDS Integers, Sequences, FiniteSets

CONSTANTS
    Batches,   \* what a write may hold: category -> number of rows
    Queries,   \* the queries the client may ask: [from, to, kind, limit]
    Branches,  \* the branches of the chain: a block is a height of a branch
    MaxBlock,  \* bound: heights
    MaxWrites, \* bound: writes
    MaxLimit,  \* 1000 in the code
    None       \* no cursor

Categories == 0..3
Unattributed == 3

\* The `want` tag of a query: a category, all of them, or none.
AnyKind == -1
UnknownKind == 99

ASSUME PagesAssumption ==
    /\ Batches \subseteq [Categories -> Nat]
    /\ Queries \subseteq [from : Nat, to : Nat,
                          kind : Categories \cup {AnyKind, UnknownKind}, limit : Nat]
    /\ MaxBlock \in Nat /\ MaxWrites \in Nat /\ MaxLimit \in Nat \ {0}
    /\ None \notin Nat \cup Queries

VARIABLES
    stored,    \* the rows of the four tables
    head,      \* meta.last_block (0: nothing recorded yet)
    writes,    \* number of writes so far: orders the rowids they take
    query,     \* the client's query, or None before it asks
    cursor,    \* what the client passes with its next call (None: nothing)
    finished,  \* next_cursor was null
    stream,    \* the rows of all pages so far, in order
    late       \* auxiliary: keys of the rows that came in behind the cursor

writerVars == <<stored, head, writes>>
clientVars == <<query, cursor, finished, stream>>
vars == <<writerVars, clientVars, late>>

Row == [block : Nat, branch : Branches, category : Categories, nr : Nat, turn : Nat]

\* The primary key of a row: the block's hash and what the table adds to it.
Key(r) == <<r.block, r.branch, r.category, r.nr>>
Keys(S) == {Key(r) : r \in S}

TypeOK ==
    /\ stored \subseteq Row
    /\ \A r, s \in stored : Key(r) = Key(s) => r = s
    /\ head \in Nat /\ writes \in Nat
    /\ query \in Queries \cup {None}
    /\ cursor \in Nat \cup {None}
    /\ finished \in BOOLEAN
    /\ stream \in Seq(Row)
    /\ late \subseteq Nat \X Branches \X Categories \X Nat

Init ==
    /\ stored = {} /\ head = 0 /\ writes = 0
    /\ query = None /\ cursor = None /\ finished = FALSE
    /\ stream = <<>>
    /\ late = {}

-----------------------------------------------------------------------------
\* A height the driver writes at: the next one or, when the node delivers blocks
\* again, an earlier one; anywhere in an empty ledger.
Writable(n) == n \in 1..MaxBlock /\ (head = 0 \/ n <= head + 1)

BatchRows(n, b, batch, turn) ==
    UNION {{[block |-> n, branch |-> b, category |-> c, nr |-> k, turn |-> turn]
              : k \in 1..batch[c]} : c \in Categories}

\* Mutant: a row already there is inserted a second time.
UpsertTwice(new) ==
    /\ stored' = stored \cup new
    /\ writes' = writes + 1
    /\ late' = late \cup {k \in Keys(new) \ Keys(stored) : cursor # None /\ k[1] < cursor}

\* INSERT OR REPLACE: a row with the key of a new one goes, and the new one takes
\* a rowid above all others.  A row of a block the client is past comes late,
\* unless it only replaces one.
Upsert(new) ==
    /\ stored' = {r \in stored : Key(r) \notin Keys(new)} \cup new
    /\ writes' = writes + 1
    /\ late' = late \cup {k \in Keys(new) \ Keys(stored) : cursor # None /\ k[1] < cursor}

\* write_block, and write_gap_block_marker with a batch of one marker: a block
\* written for the first time or once more, with the same rows or others (a skip
\* or a gap marker first, in full later).
WriteBlock(n, b, batch) ==
    /\ writes < MaxWrites
    /\ Writable(n)
    /\ Upsert(BatchRows(n, b, batch, writes))
    /\ head' = n
    /\ UNCHANGED clientVars

\* write_unattributed: the diagnostic of a stall on block n.
Diagnostic == [c \in Categories |-> IF c = Unattributed THEN 1 ELSE 0]
WriteUnattributed(n, b) ==
    /\ writes < MaxWrites
    /\ Writable(n)
    /\ Upsert(BatchRows(n, b, Diagnostic, writes))
    /\ UNCHANGED <<head, clientVars>>

\* delete_blocks: the rows of the reverted blocks, those of branch b above
\* height n, go; meta stays as it is.
DeleteBlocks(n, b) ==
    /\ n < head
    /\ stored' = {r \in stored : ~ (r.branch = b /\ r.block > n)}
    /\ UNCHANGED <<head, writes, clientVars, late>>

-----------------------------------------------------------------------------
\* ORDER BY block_number, category, rid
Before(r, s) ==
    \/ r.block < s.block
    \/ r.block = s.block /\ r.category < s.category
    \/ r.block = s.block /\ r.category = s.category /\ r.turn < s.turn
    \/ /\ r.block = s.block /\ r.category = s.category /\ r.turn = s.turn
       /\ r.nr < s.nr
RowAt(S, i) == CHOOSE r \in S : Cardinality({s \in S : Before(s, r)}) = i - 1
Ordered(S)  == [i \in 1..Cardinality(S) |-> RowAt(S, i)]

\* The rows of the UNION ALL; an unknown kind matches none.
Matching(q, lo) ==
    {r \in stored : /\ lo <= r.block /\ r.block <= q.to
                    /\ q.kind \in {AnyKind, r.category}}

\* limit.clamp(1, 1000)
Clamped(limit) ==
    IF limit < 1 THEN 1 ELSE IF limit > MaxLimit THEN MaxLimit ELSE limit

\* Mutants of the page: the cut block itself is skipped; the rows fetched are
\* returned as they are; a block longer than a page is asked for again, or is
\* returned and asked for again.
PageSkippingCut(S, lim) ==
    LET first == RowAt(S, 1).block
        cut   == RowAt(S, lim + 1).block
    IN  IF Cardinality(S) <= lim THEN [rows |-> Ordered(S), next |-> None]
        ELSE IF cut > first
        THEN [rows |-> Ordered({r \in S : r.block < cut}), next |-> cut + 1]
        ELSE [rows |-> Ordered({r \in S : r.block = cut}), next |-> cut + 1]
PageSplittingBlock(S, lim) ==
    IF Cardinality(S) <= lim THEN [rows |-> Ordered(S), next |-> None]
    ELSE [rows |-> SubSeq(Ordered(S), 1, lim), next |-> RowAt(S, lim + 1).block]
PageStuck(S, lim) ==
    LET cut == RowAt(S, lim + 1).block
    IN  IF Cardinality(S) <= lim THEN [rows |-> Ordered(S), next |-> None]
        ELSE [rows |-> Ordered({r \in S : r.block < cut}), next |-> cut]

PageRepeating(S, lim) ==
    LET first == RowAt(S, 1).block
        cut   == RowAt(S, lim + 1).block
    IN  IF Cardinality(S) <= lim THEN [rows |-> Ordered(S), next |-> None]
        ELSE IF cut > first
        THEN [rows |-> Ordered({r \in S : r.block < cut}), next |-> cut]
        ELSE [rows |-> Ordered({r \in S : r.block = cut}), next |-> cut]

\* get_transfers over the matching rows S.  The first lim + 1 in order are
\* fetched; the block of the last one may be cut off, so the page ends before
\* it - or, when it is the only block, a second query takes all of it and a
\* third asks for rows beyond.
PageOf(S, lim) ==
    LET first == RowAt(S, 1).block
        cut   == RowAt(S, lim + 1).block
        more  == \E r \in S : r.block > cut
    IN  IF Cardinality(S) <= lim THEN [rows |-> Ordered(S), next |-> None]
        ELSE IF cut > first
        THEN [rows |-> Ordered({r \in S : r.block < cut}), next |-> cut]
        ELSE [rows |-> Ordered({r \in S : r.block = cut}),
              next |-> IF more THEN cut + 1 ELSE None]

\* Where a page starts; from_block does not count once there is a cursor.
Low(q) == IF cursor # None THEN cursor ELSE q.from

\* The client asks for the first page, or follows next_cursor.
GetTransfers(q) ==
    /\ ~ finished
    /\ query \in {None, q}
    /\ query' = q
    /\ UNCHANGED <<writerVars, late>>
    /\ \E S \in {Matching(q, Low(q))} : \E page \in {PageOf(S, Clamped(q.limit))} :
         /\ cursor' = page.next
         /\ finished' = (page.next = None)
         /\ stream' = stream \o page.rows

Next ==
    \/ \E n \in 1..MaxBlock, b \in Branches, batch \in Batches : WriteBlock(n, b, batch)
    \/ \E n \in 1..MaxBlock, b \in Branches : WriteUnattributed(n, b)
    \/ \E n \in 0..(MaxBlock - 1), b \in Branches : DeleteBlocks(n, b)
    \/ \E q \in Queries : GetTransfers(q)

Spec == Init /\ [][Next]_vars

\* The client goes on until next_cursor is null.
LiveSpec == Spec /\ WF_vars(\E q \in Queries : query = q /\ GetTransfers(q))

-----------------------------------------------------------------------------
RowsOf(s) == {s[i] : i \in 1..Len(s)}

\* A page is exactly the matching rows of the blocks it covers, up to the next
\* cursor: a block is never split and none is passed over.
NewRows == {stream'[i] : i \in (Len(stream) + 1)..Len(stream')}
PageIsBlockComplete ==
    [][<<query, cursor, finished>>' # <<query, cursor, finished>> =>
         NewRows = {r \in Matching(query', Low(query')) :
                      cursor' = None \/ r.block < cursor'}]_vars

\* The stream over all pages is strictly ascending in the documented order, and
\* no row comes twice - though blocks are written, written again, reverted and
\* replaced between two pages.
StreamAscends ==
    \A i, j \in 1..Len(stream) :
        i < j => /\ Before(stream[i], stream[j])
                 /\ Key(stream[i]) # Key(stream[j])

\* When the last page is taken, the client has every row that matches, but for
\* those that came in behind its cursor: no cut and no row written or moved
\* elsewhere makes a page skip one that was there in time.
AllOf(q) == Matching(q, q.from)
OnlyLateRowsAreMissed ==
    [][finished' /\ ~ finished =>
         Keys(AllOf(query')) \subseteq Keys(RowsOf(stream')) \cup late]_vars

\* Following the cursor comes to an end.
PagingEnds == (query # None) ~> finished
=============================================================================
