------------------------ MODULE TransferPages_proofs ------------------------
(***************************************************************************)
(* A client that follows next_cursor is given whole blocks in ascending    *)
(* order, and every matching row that did not come in behind its cursor,   *)
(* whatever the writer does between two pages: proofs for all batches,     *)
(* queries and page caps.                                                  *)
(***************************************************************************)
EXTENDS TransferPages, FiniteSetTheorems, TLAPS

\* ORDER BY block_number, category, rid tells any two rows of S apart.
Distinguishable(S) ==
    \A r, s \in S : ~ Before(r, s) /\ ~ Before(s, r) => r = s

LEMMA BeforeIsAnOrder ==
    /\ \A r \in Row : ~ Before(r, r)
    /\ \A r, s, t \in Row : Before(r, s) /\ Before(s, t) => Before(r, t)
<1>1. \A r \in Row : /\ r.block \in Int /\ r.category \in Int
                     /\ r.turn \in Int /\ r.nr \in Int
  BY DEF Row, Categories
<1>2. QED BY <1>1 DEF Before

-----------------------------------------------------------------------------
\* The result of ORDER BY.

Below(S, r) == {s \in S : Before(s, r)}

\* The number of rows below a row tells its place.
LEMMA RanksCount ==
    ASSUME NEW S \in SUBSET Row, IsFiniteSet(S), Distinguishable(S)
    PROVE  /\ \A r \in S : Cardinality(Below(S, r)) \in 0..(Cardinality(S) - 1)
           /\ \A r, s \in S : Before(r, s) =>
                Cardinality(Below(S, r)) < Cardinality(Below(S, s))
           /\ \A k \in 0..(Cardinality(S) - 1) :
                \E r \in S : Cardinality(Below(S, r)) = k
<1> DEFINE n == Cardinality(S)
           rank == [r \in S |-> Cardinality(Below(S, r))]
<1>1. n \in Nat
  BY FS_CardinalityType
<1>2. \A r \in S : IsFiniteSet(Below(S, r)) /\ Cardinality(Below(S, r)) \in Nat
  BY FS_Subset, FS_CardinalityType DEF Below
<1>3. ASSUME NEW r \in S
      PROVE  Cardinality(Below(S, r)) \in 0..(n - 1)
  <2>1. Below(S, r) \in SUBSET (S \ {r})
    BY BeforeIsAnOrder DEF Below
  <2>2. IsFiniteSet(S \ {r}) /\ Cardinality(S \ {r}) = n - 1
    BY FS_RemoveElement
  <2>3. Cardinality(Below(S, r)) <= n - 1
    BY <2>1, <2>2, FS_Subset
  <2>4. QED BY <1>1, <1>2, <2>3
<1>4. ASSUME NEW r \in S, NEW s \in S, Before(r, s)
      PROVE  Cardinality(Below(S, r)) < Cardinality(Below(S, s))
  <2>1. Below(S, r) \cup {r} \in SUBSET Below(S, s)
    <3>1. r \in Below(S, s)
      BY <1>4 DEF Below
    <3>2. \A x \in Below(S, r) : x \in Below(S, s)
      BY <1>4, BeforeIsAnOrder DEF Below
    <3>3. QED BY <3>1, <3>2
  <2>2. r \notin Below(S, r)
    BY BeforeIsAnOrder DEF Below
  <2>3. Cardinality(Below(S, r) \cup {r}) = Cardinality(Below(S, r)) + 1
    BY <1>2, <2>2, FS_AddElement
  <2>4. Cardinality(Below(S, r) \cup {r}) <= Cardinality(Below(S, s))
    BY <1>2, <2>1, FS_Subset
  <2>5. QED BY <1>2, <2>3, <2>4
<1>5. ASSUME NEW k \in 0..(n - 1)
      PROVE  \E r \in S : Cardinality(Below(S, r)) = k
  <2>1. rank \in [S -> 0..(n - 1)]
    BY <1>3
  <2>2. \A r, s \in S : r # s => rank[r] # rank[s]
    <3>1. \A r, s \in S : r # s => Before(r, s) \/ Before(s, r)
      BY DEF Distinguishable
    <3>2. \A r, s \in S : Before(r, s) => rank[r] < rank[s]
      BY <1>4
    <3>3. \A r \in S : rank[r] \in Int
      BY <1>2
    <3>4. QED BY <3>1, <3>2, <3>3
  <2>3. rank \in Injection(S, 0..(n - 1))
    BY <2>1, <2>2 DEF Injection, IsInjective
  <2>4. IsFiniteSet(0..(n - 1)) /\ Cardinality(0..(n - 1)) = n
    BY <1>1, FS_Interval
  <2>5. rank \in Surjection(S, 0..(n - 1))
    BY <2>3, <2>4, FS_Injection
  <2>6. QED BY <2>5 DEF Surjection
<1>6. QED BY <1>3, <1>4, <1>5

\* ORDER BY returns every row once, in strictly ascending order.
LEMMA OrderedRows ==
    ASSUME NEW S \in SUBSET Row, IsFiniteSet(S), Distinguishable(S)
    PROVE  /\ Ordered(S) \in Seq(S)
           /\ Len(Ordered(S)) = Cardinality(S) /\ Cardinality(S) \in Nat
           /\ RowsOf(Ordered(S)) = S
           /\ \A i, j \in 1..Cardinality(S) :
                i < j => Before(Ordered(S)[i], Ordered(S)[j])
<1> DEFINE n == Cardinality(S)
           rank(r) == Cardinality(Below(S, r))
<1>1. n \in Nat
  BY FS_CardinalityType
<1>2. ASSUME NEW i \in 1..n
      PROVE  Ordered(S)[i] \in S /\ rank(Ordered(S)[i]) = i - 1
  <2>1. i - 1 \in 0..(n - 1)
    BY <1>1
  <2>2. \E r \in S : Cardinality({s \in S : Before(s, r)}) = i - 1
    BY <2>1, RanksCount DEF Below
  <2>3. QED BY <2>2 DEF Ordered, RowAt, Below
<1>3. Ordered(S) \in [1..n -> S]
  BY <1>2 DEF Ordered
<1>4. Ordered(S) \in Seq(S) /\ Len(Ordered(S)) = n
  BY <1>1, <1>3
<1>5. ASSUME NEW r \in S
      PROVE  \E i \in 1..n : Ordered(S)[i] = r
  <2>1. rank(r) \in 0..(n - 1)
    BY RanksCount
  <2>2. rank(r) + 1 \in 1..n /\ (rank(r) + 1) - 1 = rank(r)
    BY <1>1, <2>1
  <2> DEFINE s == Ordered(S)[rank(r) + 1]
  <2>3. s \in S /\ rank(s) = rank(r)
    BY <1>2, <2>2
  <2>4. ~ Before(r, s) /\ ~ Before(s, r)
    BY <2>1, <2>3, RanksCount
  <2>5. s = r
    BY <2>3, <2>4 DEF Distinguishable
  <2>6. QED BY <2>2, <2>5
<1>6. ASSUME NEW i \in 1..n, NEW j \in 1..n, i < j
      PROVE  Before(Ordered(S)[i], Ordered(S)[j])
  <2> DEFINE r == Ordered(S)[i]
             s == Ordered(S)[j]
  <2>1. r \in S /\ s \in S /\ rank(r) = i - 1 /\ rank(s) = j - 1
    BY <1>2
  <2>2. ~ Before(s, r)
    <3>1. Before(s, r) => rank(s) < rank(r)
      BY <2>1, RanksCount
    <3>2. ~ (rank(s) < rank(r))
      BY <2>1, <1>6
    <3>3. QED BY <3>1, <3>2
  <2>3. r # s
    BY <2>1, <1>6
  <2>4. QED BY <2>1, <2>2, <2>3 DEF Distinguishable
<1>7. QED BY <1>1, <1>2, <1>4, <1>5, <1>6 DEF RowsOf

-----------------------------------------------------------------------------
\* One page.

LEMMA ClampedLimit ==
    ASSUME NEW limit \in Nat
    PROVE  Clamped(limit) \in Nat /\ Clamped(limit) >= 1
BY PagesAssumption DEF Clamped

\* A page has the rows of S up to the next cursor, and the next cursor is past
\* a row of S and at most one of S: a page that is not the last has a row, and
\* leaves one.
LEMMA PageRows ==
    ASSUME NEW S \in SUBSET Row, IsFiniteSet(S), Distinguishable(S),
           NEW lim \in Nat, lim >= 1
    PROVE  LET page == PageOf(S, lim)
               kept == {r \in S : page.next = None \/ r.block < page.next}
           IN  /\ page.next \in Nat \cup {None}
               /\ page.rows = Ordered(kept)
               /\ page.next # None =>
                    /\ \E r \in S : r.block < page.next
                    /\ \E r \in S : page.next <= r.block
<1> DEFINE page == PageOf(S, lim)
           kept == {r \in S : page.next = None \/ r.block < page.next}
           rows == Ordered(S)
           n == Cardinality(S)
<1>1. CASE n <= lim
  <2>1. page = [rows |-> rows, next |-> None]
    BY <1>1 DEF PageOf
  <2>2. kept = S
    BY <2>1
  <2>3. QED BY <2>1, <2>2
<1>2. CASE ~ (n <= lim)
  <2>1. n \in Nat /\ 1 \in 1..n /\ lim + 1 \in 1..n
    BY <1>2, OrderedRows
  <2>2. \A i \in 1..n : rows[i] \in S /\ rows[i] = RowAt(S, i)
    <3>1. \A i \in 1..n : rows[i] \in S
      BY OrderedRows DEF RowsOf
    <3>2. \A i \in 1..n : rows[i] = RowAt(S, i)
      BY DEF Ordered
    <3>3. QED BY <3>1, <3>2
  <2> DEFINE first == rows[1].block
             cut == rows[lim + 1].block
  <2>3. rows[1] \in S /\ rows[lim + 1] \in S /\ first \in Nat /\ cut \in Nat
    BY <2>1, <2>2 DEF Row
  <2>4. \A r \in S : r.block \in Nat /\ first <= r.block
    <3>1. \A i \in 1..n : i = 1 \/ Before(rows[1], rows[i])
      BY <2>1, OrderedRows
    <3>2. ASSUME NEW r \in S
          PROVE  r.block \in Nat /\ first <= r.block
      <4>1. PICK i \in 1..n : r = rows[i]
        BY OrderedRows DEF RowsOf
      <4>2. r.block \in Nat
        BY DEF Row
      <4>3. r = rows[1] \/ Before(rows[1], r)
        BY <3>1, <4>1
      <4>4. QED BY <2>3, <4>2, <4>3 DEF Before
    <3>3. QED BY <3>2
  <2>5. None \notin Nat
    BY PagesAssumption
  <2>6. CASE cut > first
    <3>1. page = [rows |-> Ordered({r \in S : r.block < cut}), next |-> cut]
      BY <1>2, <2>1, <2>2, <2>6 DEF PageOf
    <3>2. kept = {r \in S : r.block < cut}
      BY <2>3, <2>5, <3>1
    <3>3. QED BY <2>3, <2>6, <3>1, <3>2
  <2>7. CASE ~ (cut > first)
    <3> DEFINE more == \E r \in S : r.block > cut
    <3>1. page = [rows |-> Ordered({r \in S : r.block = cut}),
                  next |-> IF more THEN cut + 1 ELSE None]
      BY <1>2, <2>1, <2>2, <2>7 DEF PageOf
    <3>2. \A r \in S : cut <= r.block
      BY <2>3, <2>4, <2>7
    <3>3. CASE more
      <4>1. page.next = cut + 1 /\ cut + 1 \in Nat /\ cut + 1 # None
        BY <2>3, <2>5, <3>1, <3>3
      <4>2. \A r \in S : r.block < cut + 1 <=> r.block = cut
        BY <2>3, <2>4, <3>2
      <4>3. kept = {r \in S : r.block = cut}
        BY <4>1, <4>2
      <4>4. \E r \in S : cut + 1 <= r.block
        BY <2>3, <2>4, <3>3
      <4>5. rows[lim + 1].block < cut + 1
        BY <2>3
      <4>6. page.rows = Ordered(kept)
        BY <3>1, <4>3
      <4> HIDE DEF page
      <4>7. \E r \in S : r.block < page.next
        BY <2>3, <4>1, <4>5
      <4>8. \E r \in S : page.next <= r.block
        BY <4>1, <4>4
      <4>9. QED BY <4>1, <4>6, <4>7, <4>8 DEF page
    <3>4. CASE ~ more
      <4>1. page.next = None
        BY <3>1, <3>4
      <4>2. \A r \in S : r.block = cut
        BY <2>3, <2>4, <3>2, <3>4
      <4>3. kept = {r \in S : r.block = cut}
        BY <4>1, <4>2
      <4>4. page.rows = Ordered(kept)
        BY <3>1, <4>3
      <4>5. QED BY <4>1, <4>4
    <3>5. QED BY <3>3, <3>4
  <2>8. QED BY <2>6, <2>7
<1>3. QED BY <1>1, <1>2

-----------------------------------------------------------------------------
\* The inductive invariant.

\* The tables hold finitely many rows, all of earlier writes, and a write is of
\* one block: with the primary key this tells the rows of a height apart, those
\* of two branches too.
StoredInv ==
    /\ IsFiniteSet(stored)
    /\ \A r \in stored : r.turn < writes
    /\ \A r, s \in stored : r.turn = s.turn => r.branch = s.branch

\* The cursor is beyond every row the client has.
CursorInv ==
    /\ query = None => stream = <<>> /\ cursor = None /\ ~ finished
    /\ query # None => /\ finished = (cursor = None)
                       /\ cursor # None => query.from <= cursor
    /\ cursor # None => \A r \in RowsOf(stream) : r.block < cursor

\* What matches before the cursor is in the client's hands or came in late.
LateInv ==
    cursor # None =>
        \A r \in AllOf(query) :
            r.block < cursor => Key(r) \in Keys(RowsOf(stream)) \cup late

PagesInv == TypeOK /\ StoredInv /\ CursorInv /\ StreamAscends /\ LateInv

-----------------------------------------------------------------------------
\* What a write adds.
LEMMA BatchFacts ==
    ASSUME NEW batch \in [Categories -> Nat], NEW n \in Nat, NEW b \in Branches,
           NEW turn \in Nat
    PROVE  LET new == BatchRows(n, b, batch, turn)
           IN  /\ IsFiniteSet(new)
               /\ new \subseteq Row
               /\ \A r \in new : r.block = n /\ r.branch = b /\ r.turn = turn
<1> DEFINE row(c, k) == [block |-> n, branch |-> b, category |-> c, nr |-> k, turn |-> turn]
           G(c) == {row(c, k) : k \in 1..batch[c]}
           U == {G(c) : c \in Categories}
           new == BatchRows(n, b, batch, turn)
<1>1. ASSUME NEW c \in Categories
      PROVE  IsFiniteSet(G(c))
  <2>1. IsFiniteSet(1..batch[c])
    BY FS_Interval
  <2> DEFINE f == [k \in 1..batch[c] |-> row(c, k)]
  <2>2. f \in Surjection(1..batch[c], G(c))
    BY DEF Surjection
  <2>3. QED BY <2>1, <2>2, FS_Surjection
<1>2. IsFiniteSet(U)
  <2> DEFINE g == [c \in Categories |-> G(c)]
  <2>1. g \in Surjection(Categories, U)
    BY DEF Surjection
  <2>2. IsFiniteSet(Categories)
    <3>1. 0 \in Int /\ 3 \in Int
      OBVIOUS
    <3>2. IsFiniteSet(0..3)
      BY <3>1, FS_Interval
    <3>3. QED BY <3>2 DEF Categories
  <2>3. QED BY <2>1, <2>2, FS_Surjection
<1>3. \A T \in U : IsFiniteSet(T)
  BY <1>1
<1>4. IsFiniteSet(UNION U)
  BY <1>2, <1>3, FS_UNION
<1>5. new = UNION U
  BY DEF BatchRows
<1>6. ASSUME NEW r \in new
      PROVE  r \in Row /\ r.block = n /\ r.branch = b /\ r.turn = turn
  <2>1. PICK c \in Categories : r \in G(c)
    BY <1>5
  <2>2. PICK k \in 1..batch[c] : r = row(c, k)
    BY <2>1
  <2>3. k \in Nat
    OBVIOUS
  <2>4. QED BY <2>2, <2>3 DEF Row
<1>7. QED BY <1>4, <1>5, <1>6

LEMMA StoredIsOrdered ==
    ASSUME TypeOK, StoredInv, NEW S \in SUBSET stored
    PROVE  S \in SUBSET Row /\ IsFiniteSet(S) /\ Distinguishable(S)
<1>1. S \in SUBSET Row /\ IsFiniteSet(S)
  BY FS_Subset DEF TypeOK, StoredInv
<1>2. ASSUME NEW r \in S, NEW s \in S, ~ Before(r, s), ~ Before(s, r)
      PROVE  r = s
  <2>1. /\ r.block \in Int /\ r.category \in Int /\ r.turn \in Int /\ r.nr \in Int
        /\ s.block \in Int /\ s.category \in Int /\ s.turn \in Int /\ s.nr \in Int
    BY <1>1 DEF Row, Categories
  <2>2. r.block = s.block /\ r.category = s.category /\ r.turn = s.turn /\ r.nr = s.nr
    BY <1>2, <2>1 DEF Before
  <2>3. Key(r) = Key(s)
    BY <2>2 DEF StoredInv, Key
  <2>4. QED BY <2>3 DEF TypeOK
<1>3. QED BY <1>1, <1>2 DEF Distinguishable

\* A call adds to the stream, in order, the rows from the cursor to the next.
LEMMA CallAddsAPage ==
    ASSUME TypeOK, StoredInv, NEW q \in Queries, GetTransfers(q),
           NEW new, new = PageOf(Matching(q, Low(q)), Clamped(q.limit)).rows
    PROVE  LET S == Matching(q, Low(q))
           IN  /\ Low(q) \in Nat
               /\ new \in Seq(Row) /\ stream' = stream \o new
               /\ RowsOf(new) = {r \in S : cursor' = None \/ r.block < cursor'}
               /\ \A i, j \in 1..Len(new) : i < j => Before(new[i], new[j])
               /\ cursor' \in Nat \cup {None}
               /\ cursor' # None => /\ \E r \in S : r.block < cursor'
                                    /\ \E r \in S : cursor' <= r.block
<1> DEFINE S == Matching(q, Low(q))
           lim == Clamped(q.limit)
           page == PageOf(S, lim)
           kept == {r \in S : page.next = None \/ r.block < page.next}
<1>1. q.from \in Nat /\ q.limit \in Nat
  BY PagesAssumption
<1>2. Low(q) \in Nat
  BY <1>1 DEF Low, TypeOK
<1>3. S \in SUBSET stored
  BY DEF Matching
<1>4. S \in SUBSET Row /\ IsFiniteSet(S) /\ Distinguishable(S)
  BY <1>3, StoredIsOrdered
<1>5. lim \in Nat /\ lim >= 1
  BY <1>1, ClampedLimit
<1>6. /\ page.next \in Nat \cup {None}
      /\ page.rows = Ordered(kept)
      /\ page.next # None => /\ \E r \in S : r.block < page.next
                             /\ \E r \in S : page.next <= r.block
  BY <1>4, <1>5, PageRows
<1>7. kept \in SUBSET Row /\ IsFiniteSet(kept) /\ Distinguishable(kept)
  BY <1>3, StoredIsOrdered
<1>8. cursor' = page.next /\ stream' = stream \o new /\ new = Ordered(kept)
  BY <1>6 DEF GetTransfers
<1> HIDE DEF page
<1>9. /\ new \in Seq(kept) /\ RowsOf(new) = kept
      /\ \A i, j \in 1..Len(new) : i < j => Before(new[i], new[j])
  BY <1>7, <1>8, OrderedRows
<1>10. new \in Seq(Row)
  BY <1>7, <1>9
<1>11. QED BY <1>2, <1>6, <1>8, <1>9, <1>10

LEMMA Concatenation ==
    ASSUME NEW s \in Seq(Row), NEW new \in Seq(Row)
    PROVE  /\ s \o new \in Seq(Row)
           /\ RowsOf(s \o new) = RowsOf(s) \cup RowsOf(new)
           /\ {(s \o new)[i] : i \in (Len(s) + 1)..Len(s \o new)} = RowsOf(new)
<1>1. /\ Len(s) \in Nat /\ Len(new) \in Nat /\ Len(s \o new) = Len(s) + Len(new)
      /\ \A i \in 1..Len(s) : (s \o new)[i] = s[i]
      /\ \A i \in 1..Len(new) : (s \o new)[Len(s) + i] = new[i]
  OBVIOUS
<1>2. {(s \o new)[i] : i \in (Len(s) + 1)..Len(s \o new)} = RowsOf(new)
  <2>1. ASSUME NEW i \in (Len(s) + 1)..Len(s \o new)
        PROVE  (s \o new)[i] \in RowsOf(new)
    <3>1. i - Len(s) \in 1..Len(new) /\ Len(s) + (i - Len(s)) = i
      BY <1>1
    <3>2. QED BY <1>1, <3>1 DEF RowsOf
  <2>2. ASSUME NEW i \in 1..Len(new)
        PROVE  \E j \in (Len(s) + 1)..Len(s \o new) : (s \o new)[j] = new[i]
    <3>1. Len(s) + i \in (Len(s) + 1)..Len(s \o new)
      BY <1>1
    <3>2. QED BY <1>1, <3>1
  <2>3. QED BY <2>1, <2>2 DEF RowsOf
<1>3. RowsOf(s \o new) = RowsOf(s) \cup {(s \o new)[i] : i \in (Len(s) + 1)..Len(s \o new)}
  <2>1. 1..Len(s \o new) = (1..Len(s)) \cup ((Len(s) + 1)..Len(s \o new))
    BY <1>1
  <2>2. QED BY <1>1, <2>1 DEF RowsOf
<1>4. QED BY <1>2, <1>3

-----------------------------------------------------------------------------
\* The invariant holds and every action preserves it.

LEMMA InitPages == Init => PagesInv
<1> SUFFICES ASSUME Init
             PROVE  PagesInv
  OBVIOUS
<1>1. TypeOK
  <2>1. finished \in BOOLEAN
    BY Zenon DEF Init
  <2>2. stream \in Seq(Row)
    BY DEF Init
  <2>3. QED BY <2>1, <2>2 DEF Init, TypeOK
<1>2. StoredInv
  BY FS_EmptySet DEF Init, StoredInv
<1>3. CursorInv /\ LateInv
  BY DEF Init, CursorInv, LateInv
<1>4. StreamAscends
  BY DEF Init, StreamAscends
<1>5. QED BY <1>1, <1>2, <1>3, <1>4 DEF PagesInv

\* A new row that replaces one is where the old one was; a new key before the
\* cursor is noted as late.
LEMMA UpsertKeepsPages ==
    ASSUME PagesInv, NEW batch \in [Categories -> Nat], NEW n \in Nat,
           NEW b \in Branches, Upsert(BatchRows(n, b, batch, writes)),
           UNCHANGED clientVars, head' \in Nat
    PROVE  PagesInv'
<1> DEFINE new == BatchRows(n, b, batch, writes)
<1> USE DEF PagesInv
<1>1. /\ writes \in Nat
      /\ stored' = {r \in stored : Key(r) \notin Keys(new)} \cup new
      /\ writes' = writes + 1
      /\ late' = late \cup {k \in Keys(new) \ Keys(stored) : cursor # None /\ k[1] < cursor}
      /\ query' = query /\ cursor' = cursor /\ finished' = finished /\ stream' = stream
  BY DEF Upsert, TypeOK, clientVars
<1>2. /\ IsFiniteSet(new) /\ new \subseteq Row
      /\ \A r \in new : r.block = n /\ r.branch = b /\ r.turn = writes
  BY <1>1, BatchFacts
<1> HIDE DEF new
<1>3. \A r \in new : Key(r) \in Keys(new)
  BY DEF Keys
<1>4. ASSUME NEW r \in new, NEW s \in new, Key(r) = Key(s)
      PROVE  r = s
  <2>1. r.category = s.category /\ r.nr = s.nr
    BY <1>4 DEF Key
  <2>2. r \in Row /\ s \in Row
    BY <1>2
  <2>3. QED BY <1>2, <2>1, <2>2 DEF Row
<1>5. TypeOK'
  <2>1. stored' \subseteq Row
    BY <1>1, <1>2 DEF TypeOK
  <2>2. \A r, s \in stored' : Key(r) = Key(s) => r = s
    BY <1>1, <1>3, <1>4 DEF TypeOK
  <2>3. \A r \in new : Key(r) \in Nat \X Branches \X Categories \X Nat
    BY <1>2 DEF Key, Row
  <2>4. late' \subseteq Nat \X Branches \X Categories \X Nat
    BY <1>1, <2>3 DEF TypeOK, Keys
  <2>5. QED BY <1>1, <2>1, <2>2, <2>4 DEF TypeOK
<1>6. StoredInv'
  <2>1. IsFiniteSet(stored')
    <3>1. IsFiniteSet({r \in stored : Key(r) \notin Keys(new)})
      BY FS_Subset DEF StoredInv
    <3>2. QED BY <1>1, <1>2, <3>1, FS_Union
  <2>2. \A r \in stored : r.turn \in Nat /\ r.turn < writes
    BY DEF TypeOK, StoredInv, Row
  <2>3. \A r \in stored' : r.turn < writes'
    BY <1>1, <1>2, <2>2
  <2>4. \A r, s \in stored' : r.turn = s.turn => r.branch = s.branch
    BY <1>1, <1>2, <2>2 DEF StoredInv
  <2>5. QED BY <2>1, <2>3, <2>4 DEF StoredInv
<1>7. CursorInv' /\ StreamAscends'
  BY <1>1 DEF CursorInv, StreamAscends, RowsOf
<1>8. LateInv'
  <2> SUFFICES ASSUME cursor # None, NEW r \in AllOf(query)', r.block < cursor
               PROVE  Key(r) \in Keys(RowsOf(stream)) \cup late'
    BY <1>1 DEF LateInv, RowsOf, Keys
  <2>1. r \in stored' /\ query.from <= r.block /\ r.block <= query.to
        /\ query.kind \in {AnyKind, r.category}
    BY <1>1 DEF AllOf, Matching
  <2>2. \A s \in stored : s.block = r.block /\ s.category = r.category
          => Key(s) \in Keys(RowsOf(stream)) \cup late
    BY <2>1 DEF AllOf, Matching, LateInv
  <2>3. CASE Key(r) \in Keys(stored)
    <3>1. PICK s \in stored : Key(s) = Key(r)
      BY <2>3 DEF Keys
    <3>2. s.block = r.block /\ s.category = r.category
      BY <3>1 DEF Key
    <3>3. QED BY <1>1, <2>2, <3>1, <3>2
  <2>4. CASE Key(r) \notin Keys(stored)
    <3>1. r \in new
      BY <1>1, <2>1, <2>4 DEF Keys
    <3>2. Key(r) \in Keys(new) /\ Key(r)[1] = r.block
      BY <1>3, <3>1 DEF Key
    <3>3. QED BY <1>1, <2>4, <3>2
  <2>5. QED BY <2>3, <2>4
<1>9. QED BY <1>5, <1>6, <1>7, <1>8

LEMMA WriterKeepsPages ==
    ASSUME PagesInv, NEW n \in 1..MaxBlock, NEW b \in Branches,
           \/ \E batch \in Batches : WriteBlock(n, b, batch)
           \/ WriteUnattributed(n, b)
    PROVE  PagesInv'
<1>1. n \in Nat /\ head \in Nat
  BY PagesAssumption DEF PagesInv, TypeOK
<1>2. CASE \E batch \in Batches : WriteBlock(n, b, batch)
  <2>1. PICK batch \in Batches : WriteBlock(n, b, batch)
    BY <1>2
  <2>2. batch \in [Categories -> Nat]
    BY PagesAssumption
  <2>3. Upsert(BatchRows(n, b, batch, writes)) /\ UNCHANGED clientVars /\ head' = n
    BY <2>1 DEF WriteBlock
  <2>4. QED BY <1>1, <2>2, <2>3, UpsertKeepsPages
<1>3. CASE WriteUnattributed(n, b)
  <2>1. Diagnostic \in [Categories -> Nat]
    BY DEF Diagnostic
  <2>2. Upsert(BatchRows(n, b, Diagnostic, writes)) /\ UNCHANGED clientVars /\ head' = head
    BY <1>3 DEF WriteUnattributed, clientVars
  <2>3. QED BY <1>1, <2>1, <2>2, UpsertKeepsPages
<1>4. QED BY <1>2, <1>3

LEMMA DeleteKeepsPages ==
    ASSUME PagesInv, NEW n, NEW b, DeleteBlocks(n, b)
    PROVE  PagesInv'
<1> USE DEF PagesInv
<1>1. /\ stored' \subseteq stored /\ head' = head /\ writes' = writes /\ late' = late
      /\ query' = query /\ cursor' = cursor /\ finished' = finished /\ stream' = stream
  BY DEF DeleteBlocks, clientVars
<1>2. TypeOK'
  BY <1>1 DEF TypeOK
<1>3. StoredInv'
  <2>1. IsFiniteSet(stored')
    BY <1>1, FS_Subset DEF StoredInv
  <2>2. QED BY <1>1, <2>1 DEF StoredInv
<1>4. CursorInv' /\ StreamAscends'
  BY <1>1 DEF CursorInv, StreamAscends, RowsOf
<1>5. LateInv'
  <2>1. AllOf(query)' \subseteq AllOf(query)
    BY <1>1 DEF AllOf, Matching
  <2>2. Keys(RowsOf(stream))' = Keys(RowsOf(stream))
    BY <1>1 DEF Keys, RowsOf
  <2>3. QED BY <1>1, <2>1, <2>2 DEF LateInv
<1>6. QED BY <1>2, <1>3, <1>4, <1>5

\* What a call leaves unsaid in CallAddsAPage: the stream grows by the page, at
\* its end, and the cursor moves on.
LEMMA CallMovesOn ==
    ASSUME PagesInv, NEW q \in Queries, GetTransfers(q)
    PROVE  LET S == Matching(q, Low(q))
               P == {r \in S : cursor' = None \/ r.block < cursor'}
           IN  /\ RowsOf(stream') = RowsOf(stream) \cup P
               /\ NewRows = P
               /\ \A r \in RowsOf(stream) : r.block < Low(q)
               /\ cursor # None => Low(q) = cursor
               /\ cursor = None => stream = <<>> /\ Low(q) = q.from
               /\ q.from <= Low(q)
               /\ cursor' # None => Low(q) < cursor'
<1> USE DEF PagesInv
<1> DEFINE S == Matching(q, Low(q))
           new == PageOf(S, Clamped(q.limit)).rows
<1>1. /\ Low(q) \in Nat
      /\ new \in Seq(Row) /\ stream' = stream \o new
      /\ RowsOf(new) = {r \in S : cursor' = None \/ r.block < cursor'}
      /\ cursor' \in Nat \cup {None}
      /\ cursor' # None => \E r \in S : r.block < cursor'
  BY CallAddsAPage
<1> HIDE DEF new
<1>2. RowsOf(stream') = RowsOf(stream) \cup RowsOf(new) /\ NewRows = RowsOf(new)
  <2>1. stream \in Seq(Row)
    BY DEF TypeOK
  <2>2. /\ RowsOf(stream \o new) = RowsOf(stream) \cup RowsOf(new)
        /\ {(stream \o new)[i] : i \in (Len(stream) + 1)..Len(stream \o new)} = RowsOf(new)
    BY <1>1, <2>1, Concatenation
  <2>3. QED BY <1>1, <2>2 DEF NewRows
<1>3. ~ finished /\ query \in {None, q}
  BY DEF GetTransfers
<1>4. q # None /\ q.from \in Nat
  BY PagesAssumption
<1>5. cursor = None => query = None
  BY <1>3 DEF CursorInv
<1>6. cursor = None => stream = <<>> /\ Low(q) = q.from
  BY <1>5 DEF CursorInv, Low
<1>7. cursor # None => /\ Low(q) = cursor /\ q.from <= cursor
                       /\ \A r \in RowsOf(stream) : r.block < cursor
  BY <1>3 DEF CursorInv, Low
<1>8. stream = <<>> => RowsOf(stream) = {}
  BY DEF RowsOf
<1>9. cursor' # None => Low(q) < cursor'
  <2> SUFFICES ASSUME cursor' # None
               PROVE  Low(q) < cursor'
    OBVIOUS
  <2>1. PICK r \in S : r.block < cursor'
    BY <1>1
  <2>2. Low(q) <= r.block /\ r.block \in Nat
    BY DEF Matching, TypeOK, Row
  <2>3. QED BY <1>1, <2>1, <2>2
<1>10. QED BY <1>1, <1>2, <1>4, <1>6, <1>7, <1>8, <1>9

LEMMA CallKeepsPages ==
    ASSUME PagesInv, NEW q \in Queries, GetTransfers(q)
    PROVE  PagesInv'
<1> USE DEF PagesInv
<1> DEFINE S == Matching(q, Low(q))
           P == {r \in S : cursor' = None \/ r.block < cursor'}
           new == PageOf(S, Clamped(q.limit)).rows
<1>1. /\ stored' = stored /\ head' = head /\ writes' = writes /\ late' = late
      /\ query' = q /\ finished' = (cursor' = None)
  BY DEF GetTransfers, writerVars
<1>2. /\ Low(q) \in Nat
      /\ new \in Seq(Row) /\ stream' = stream \o new
      /\ RowsOf(new) = P
      /\ \A i, j \in 1..Len(new) : i < j => Before(new[i], new[j])
      /\ cursor' \in Nat \cup {None}
      /\ cursor' # None => \E r \in S : cursor' <= r.block
  BY CallAddsAPage
<1>3. /\ RowsOf(stream') = RowsOf(stream) \cup P
      /\ \A r \in RowsOf(stream) : r.block < Low(q)
      /\ cursor # None => Low(q) = cursor
      /\ cursor = None => stream = <<>> /\ Low(q) = q.from
      /\ q.from <= Low(q)
      /\ cursor' # None => Low(q) < cursor'
  BY CallMovesOn
<1>4. stream \in Seq(Row) /\ q # None /\ q.from \in Nat /\ stored \subseteq Row
  BY PagesAssumption DEF TypeOK
<1>5. \A r \in Row : r.block \in Nat
  BY DEF Row
<1>6. \A r \in S : r \in stored /\ Low(q) <= r.block
  BY DEF Matching
<1> HIDE DEF new, S
<1>7. TypeOK'
  <2>1. stream' \in Seq(Row)
    BY <1>2, <1>4, Concatenation
  <2>2. finished' \in BOOLEAN
    BY <1>1
  <2>3. QED BY <1>1, <1>2, <2>1, <2>2 DEF TypeOK
<1>8. StoredInv'
  BY <1>1 DEF StoredInv
<1>9. CursorInv'
  <2>1. cursor' # None => q.from <= cursor'
    BY <1>2, <1>3, <1>4
  <2>2. cursor' # None => \A r \in RowsOf(stream') : r.block < cursor'
    <3> SUFFICES ASSUME cursor' # None, NEW r \in RowsOf(stream')
                 PROVE  r.block < cursor'
      OBVIOUS
    <3>1. CASE r \in RowsOf(stream)
      <4>1. r \in Row
        BY <1>4, <3>1 DEF RowsOf
      <4>2. QED BY <1>2, <1>3, <1>5, <3>1, <4>1
    <3>2. CASE r \in P
      BY <3>2
    <3>3. QED BY <1>3, <3>1, <3>2
  <2>3. QED BY <1>1, <1>4, <2>1, <2>2 DEF CursorInv, RowsOf
<1>10. StreamAscends'
  <2> DEFINE m == Len(stream)
             n == Len(new)
  <2>1. /\ m \in Nat /\ n \in Nat /\ Len(stream') = m + n
        /\ \A i \in 1..m : stream'[i] = stream[i]
        /\ \A i \in 1..n : stream'[m + i] = new[i]
    BY <1>2, <1>4
  <2>2. ASSUME NEW i \in 1..(m + n), NEW j \in 1..(m + n), i < j
        PROVE  Before(stream'[i], stream'[j]) /\ Key(stream'[i]) # Key(stream'[j])
    <3>1. CASE j <= m
      <4>1. i \in 1..m /\ j \in 1..m
        BY <2>1, <2>2, <3>1
      <4>2. QED BY <2>1, <2>2, <4>1 DEF StreamAscends
    <3>2. CASE i <= m /\ m < j
      <4>1. i \in 1..m /\ j - m \in 1..n /\ m + (j - m) = j
        BY <2>1, <3>2
      <4>2. stream'[i] = stream[i] /\ stream'[j] = new[j - m]
        BY <2>1, <4>1
      <4>3. stream[i] \in RowsOf(stream) /\ new[j - m] \in P
        BY <1>2, <4>1 DEF RowsOf
      <4>4. stream[i] \in Row /\ new[j - m] \in Row
        BY <1>2, <1>4, <4>1
      <4>5. stream[i].block < new[j - m].block
        BY <1>2, <1>3, <1>5, <1>6, <4>3, <4>4
      <4>6. stream[i].block # new[j - m].block
        BY <1>5, <4>4, <4>5
      <4>7. QED BY <4>2, <4>5, <4>6 DEF Before, Key
    <3>3. CASE m < i
      <4>1. i - m \in 1..n /\ j - m \in 1..n /\ i - m < j - m
        BY <2>1, <2>2, <3>3
      <4>2. m + (i - m) = i /\ m + (j - m) = j
        BY <2>1
      <4>3. stream'[i] = new[i - m] /\ stream'[j] = new[j - m]
        BY <2>1, <4>1, <4>2
      <4>4. Before(new[i - m], new[j - m])
        BY <1>2, <4>1
      <4>5. new[i - m] \in P /\ new[j - m] \in P
        BY <1>2, <4>1 DEF RowsOf
      <4>6. new[i - m] \in stored /\ new[j - m] \in stored
        BY <1>6, <4>5
      <4>7. new[i - m] # new[j - m]
        BY <1>4, <4>4, <4>6, BeforeIsAnOrder
      <4>8. Key(new[i - m]) # Key(new[j - m])
        BY <4>6, <4>7 DEF TypeOK
      <4>9. QED BY <4>3, <4>4, <4>8
    <3>4. QED BY <2>1, <3>1, <3>2, <3>3
  <2>3. QED BY <2>1, <2>2 DEF StreamAscends
<1>11. LateInv'
  <2> SUFFICES ASSUME cursor' # None, NEW r \in stored,
                      q.from <= r.block, r.block <= q.to, q.kind \in {AnyKind, r.category},
                      r.block < cursor'
               PROVE  Key(r) \in Keys(RowsOf(stream')) \cup late
    BY <1>1 DEF LateInv, AllOf, Matching, RowsOf, Keys
  <2>1. r.block \in Nat
    BY <1>4, <1>5
  <2>2. CASE Low(q) <= r.block
    <3>1. r \in P
      BY <2>2 DEF S, Matching
    <3>2. QED BY <1>3, <3>1 DEF Keys
  <2>3. CASE ~ (Low(q) <= r.block)
    <3>1. cursor # None
      BY <1>3, <2>3
    <3>2. query = q /\ Low(q) = cursor /\ r.block < cursor
      <4>1. query = q
        BY <3>1 DEF GetTransfers, CursorInv
      <4>2. QED BY <1>2, <1>3, <2>1, <2>3, <3>1, <4>1
    <3>3. Key(r) \in Keys(RowsOf(stream)) \cup late
      BY <3>1, <3>2 DEF LateInv, AllOf, Matching
    <3>4. QED BY <1>3, <3>3 DEF Keys
  <2>4. QED BY <2>2, <2>3
<1>12. QED BY <1>7, <1>8, <1>9, <1>10, <1>11

LEMMA PagesInvariant == Spec => []PagesInv
<1>1. Init => PagesInv
  BY InitPages
<1>2. PagesInv /\ [Next]_vars => PagesInv'
  <2> SUFFICES ASSUME PagesInv, [Next]_vars
               PROVE  PagesInv'
    OBVIOUS
  <2>1. CASE \/ \E n \in 1..MaxBlock, b \in Branches, batch \in Batches :
                  WriteBlock(n, b, batch)
             \/ \E n \in 1..MaxBlock, b \in Branches : WriteUnattributed(n, b)
    BY <2>1, WriterKeepsPages
  <2>2. CASE \E n \in 0..(MaxBlock - 1), b \in Branches : DeleteBlocks(n, b)
    BY <2>2, DeleteKeepsPages
  <2>3. CASE \E q \in Queries : GetTransfers(q)
    BY <2>3, CallKeepsPages
  <2>4. CASE UNCHANGED vars
    BY <2>4 DEF vars, writerVars, clientVars, PagesInv, TypeOK, StoredInv, CursorInv,
                StreamAscends, LateInv, RowsOf, AllOf, Matching, Keys
  <2>5. QED BY <2>1, <2>2, <2>3, <2>4 DEF Next
<1>3. QED BY <1>1, <1>2, PTL DEF Spec

-----------------------------------------------------------------------------
\* What a client may rely on.

\* The values are those the tables and the answers of the RPC can have.
THEOREM TypeCorrect == Spec => []TypeOK
BY PagesInvariant, PTL DEF PagesInv

\* Over all pages the rows come in strictly ascending order of block, category
\* and rowid, none twice, for any page target, although blocks are written,
\* reverted and replaced between the calls (queries.rs, get_transfers).
THEOREM StreamIsAscending == Spec => []StreamAscends
BY PagesInvariant, PTL DEF PagesInv

\* A page is exactly the matching rows from the cursor it was asked with to the
\* one it returns: get_transfers never splits a block, passes over a row or
\* returns one of a block it will return again.
THEOREM PagesAreWholeBlocks == Spec => PageIsBlockComplete
<1>1. PagesInv /\ [Next]_vars =>
        [<<query, cursor, finished>>' # <<query, cursor, finished>> =>
           NewRows = {r \in Matching(query', Low(query')) :
                        cursor' = None \/ r.block < cursor'}]_vars
  <2> SUFFICES ASSUME PagesInv, Next,
                      <<query, cursor, finished>>' # <<query, cursor, finished>>
               PROVE  NewRows = {r \in Matching(query', Low(query')) :
                                   cursor' = None \/ r.block < cursor'}
    OBVIOUS
  <2>1. PICK q \in Queries : GetTransfers(q)
    BY DEF Next, WriteBlock, WriteUnattributed, DeleteBlocks, clientVars
  <2>2. query' = q
    BY <2>1 DEF GetTransfers
  <2>3. QED BY <2>1, <2>2, CallMovesOn
<1>2. QED BY <1>1, PagesInvariant, PTL DEF Spec, PageIsBlockComplete

\* When the last page is returned, the client has every row that matches its
\* query at that moment, but for rows that came in behind its cursor.
THEOREM NothingInTimeIsMissed == Spec => OnlyLateRowsAreMissed
<1>1. PagesInv /\ [Next]_vars =>
        [finished' /\ ~ finished =>
           Keys(AllOf(query')) \subseteq Keys(RowsOf(stream')) \cup late]_vars
  <2> SUFFICES ASSUME PagesInv, Next, finished', ~ finished,
                      NEW r \in AllOf(query')
               PROVE  Key(r) \in Keys(RowsOf(stream')) \cup late
    BY DEF Keys
  <2>1. PICK q \in Queries : GetTransfers(q)
    BY DEF Next, WriteBlock, WriteUnattributed, DeleteBlocks, clientVars
  <2>2. query' = q /\ cursor' = None
    BY <2>1 DEF GetTransfers
  <2>3. /\ RowsOf(stream') = RowsOf(stream) \cup Matching(q, Low(q))
        /\ cursor # None => Low(q) = cursor
        /\ cursor = None => Low(q) = q.from
    BY <2>1, <2>2, CallMovesOn
  <2>4. r \in AllOf(q) /\ r.block \in Nat
    BY <2>2 DEF AllOf, Matching, PagesInv, TypeOK, Row
  <2>5. CASE Low(q) <= r.block
    <3>1. r \in Matching(q, Low(q))
      BY <2>4, <2>5 DEF AllOf, Matching
    <3>2. QED BY <2>3, <3>1 DEF Keys
  <2>6. CASE ~ (Low(q) <= r.block)
    <3>1. cursor # None /\ Low(q) = cursor
      BY <2>3, <2>4, <2>6 DEF AllOf, Matching
    <3>2. query = q /\ r.block < cursor
      BY <2>1, <2>4, <2>6, <3>1 DEF GetTransfers, CursorInv, PagesInv, TypeOK
    <3>3. Key(r) \in Keys(RowsOf(stream)) \cup late
      BY <2>4, <3>1, <3>2 DEF PagesInv, LateInv
    <3>4. QED BY <2>3, <3>3 DEF Keys
  <2>7. QED BY <2>5, <2>6
<1>2. QED BY <1>1, PagesInvariant, PTL DEF Spec, OnlyLateRowsAreMissed
=============================================================================
