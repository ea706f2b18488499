----------------------- MODULE BlockAccounting_proofs -----------------------
(***************************************************************************)
(* The rows and markers Passbook derives from a block account for what the *)
(* EVM did to the watched balances: proofs for blocks of any length, any   *)
(* accounts, fees and widths.                                              *)
(***************************************************************************)
EXTENDS BlockAccounting, FiniteSetTheorems, TLAPS

-----------------------------------------------------------------------------
\* Induction over data.  The induction theorems of the library speak of an
\* operator; these speak of the set H of the values for which a claim holds.

LEMMA LeastNumber ==
    ASSUME NEW T \in SUBSET Nat, T # {}
    PROVE  \E m \in T : \A k \in T : m <= k
<1> DEFINE R == OpToRel(<, Nat)
<1>1. \A x, y \in Nat : <<x, y>> \in R <=> x < y
  BY DEF OpToRel
<1>2. IsWellFoundedOn(R, Nat)
  BY NatLessThanWellFounded
<1> HIDE DEF R
<1>3. PICK m \in T : \A k \in T : ~ (<<k, m>> \in R)
  BY <1>2, WFMin
<1>4. \A k \in T : ~ (k < m) /\ k \in Nat /\ m \in Nat
  BY <1>1, <1>3
<1>5. QED BY <1>4

LEMMA NumberInduction ==
    ASSUME NEW H, 0 \in H, \A n \in Nat : n \in H => n + 1 \in H
    PROVE  Nat \subseteq H
<1> SUFFICES ASSUME Nat \ H # {}
             PROVE  FALSE
  OBVIOUS
<1>1. PICK m \in Nat \ H : \A k \in Nat \ H : m <= k
  BY LeastNumber
<1>2. m # 0 /\ m - 1 \in Nat /\ ~ (m <= m - 1)
  BY <1>1
<1>3. m - 1 \in H
  BY <1>1, <1>2
<1>4. (m - 1) + 1 = m
  BY <1>1
<1>5. QED BY <1>1, <1>2, <1>3, <1>4

LEMMA SubsetInduction ==
    ASSUME NEW S, IsFiniteSet(S), NEW H,
           \A T \in SUBSET S : (\A x \in T : T \ {x} \in H) => T \in H
    PROVE  S \in H
<1> DEFINE R == StrictSubsetOrdering(S)
           B == {T \in SUBSET S : T \notin H}
<1> SUFFICES ASSUME B # {}
             PROVE  FALSE
  OBVIOUS
<1>1. IsWellFoundedOn(R, SUBSET S)
  <2>1. IsWellFoundedOn(R, FiniteSubsetsOf(S))
    BY FS_StrictSubsetOrderingWellFounded
  <2>2. FiniteSubsetsOf(S) = SUBSET S
    BY FS_FiniteSubsetsOfFinite
  <2> HIDE DEF R
  <2>3. QED BY <2>1, <2>2
<1>2. \A T \in SUBSET S : \A x \in T : <<T \ {x}, T>> \in R
  BY DEF StrictSubsetOrdering
<1> HIDE DEF R
<1>3. PICK T \in B : \A U \in B : ~ (<<U, T>> \in R)
  BY <1>1, WFMin
<1>4. \A x \in T : T \ {x} \in H
  BY <1>2, <1>3
<1>5. QED BY <1>3, <1>4

-----------------------------------------------------------------------------
\* Sums over finite sets.

Sum(f, S) == SumFunctionOnSet(f, S)

LEMMA SumOfFunction ==
    ASSUME NEW f
    PROVE  SumFunction(f) = Sum(f, DOMAIN f)
BY DEF SumFunction, Sum

\* The recursion behind a sum: the elements are taken in the order of CHOOSE.
Pick(s) == CHOOSE x \in s : TRUE
TallyStep(f, g, s) == IF s = {} THEN 0 ELSE f[Pick(s)] + g[s \ {Pick(s)}]
Tally(f, S) == CHOOSE g : g = [s \in SUBSET S |-> TallyStep(f, g, s)]

LEMMA SumIsTally ==
    ASSUME NEW f, NEW S
    PROVE  Sum(f, S) = Tally(f, S)[S]
BY DEF Sum, SumFunctionOnSet, FoldFunctionOnSet, MapThenFoldSet, Tally, TallyStep, Pick

LEMMA PickInSet ==
    ASSUME NEW s, s # {}
    PROVE  Pick(s) \in s
BY DEF Pick

LEMMA TallyExists ==
    ASSUME NEW f, NEW S, IsFiniteSet(S)
    PROVE  \E g : g = [s \in SUBSET S |-> TallyStep(f, g, s)]
<1> DEFINE Small(n) == {s \in SUBSET S : Cardinality(s) <= n}
           H == {n \in Nat : \E g : g = [s \in Small(n) |-> TallyStep(f, g, s)]}
<1>1. \A s \in SUBSET S : IsFiniteSet(s) /\ Cardinality(s) \in Nat
                           /\ Cardinality(s) <= Cardinality(S)
  BY FS_Subset, FS_CardinalityType
<1>2. \A s \in SUBSET S : s # {} =>
        s \ {Pick(s)} \in SUBSET S /\ Cardinality(s \ {Pick(s)}) = Cardinality(s) - 1
  BY <1>1, PickInSet, FS_RemoveElement
<1>3. 0 \in H
  <2> DEFINE g == [s \in Small(0) |-> 0]
  <2>1. \A s \in Small(0) : s = {}
    BY <1>1, FS_EmptySet
  <2>2. \A s \in Small(0) : TallyStep(f, g, s) = 0
    BY <2>1 DEF TallyStep
  <2>3. g = [s \in Small(0) |-> TallyStep(f, g, s)]
    BY <2>2
  <2>4. QED BY <2>3
<1>4. ASSUME NEW n \in Nat, n \in H
      PROVE  n + 1 \in H
  <2>1. PICK g : g = [s \in Small(n) |-> TallyStep(f, g, s)]
    BY <1>4
  <2> DEFINE h == [s \in Small(n + 1) |-> TallyStep(f, g, s)]
  <2>2. \A s \in Small(n) : s \in Small(n + 1) /\ h[s] = g[s]
    <3>1. \A s \in Small(n) : s \in Small(n + 1)
      BY <1>1
    <3>2. \A s \in Small(n) : g[s] = TallyStep(f, g, s)
      BY <2>1
    <3>3. QED BY <3>1, <3>2
  <2>3. \A s \in Small(n + 1) : s # {} => s \ {Pick(s)} \in Small(n)
    BY <1>1, <1>2
  <2>4. \A s \in Small(n + 1) : TallyStep(f, h, s) = TallyStep(f, g, s)
    <3> HIDE DEF Small, h
    <3>1. QED BY <2>2, <2>3 DEF TallyStep
  <2>5. h = [s \in Small(n + 1) |-> TallyStep(f, h, s)]
    BY <2>4
  <2>6. n + 1 \in Nat
    OBVIOUS
  <2> HIDE DEF h, Small
  <2>7. QED BY <2>5, <2>6
<1>5. Cardinality(S) \in H
  <2> HIDE DEF H
  <2>1. QED BY <1>1, <1>3, <1>4, NumberInduction
<1>6. Small(Cardinality(S)) = SUBSET S
  BY <1>1
<1>7. QED BY <1>5, <1>6

\* The values of the recursion for a set are those of its own tally.
LEMMA TallyValues ==
    ASSUME NEW f, NEW S, IsFiniteSet(S)
    PROVE  \A s \in SUBSET S :
             Sum(f, s) = IF s = {} THEN 0 ELSE f[Pick(s)] + Sum(f, s \ {Pick(s)})
<1>1. \A T \in SUBSET S : IsFiniteSet(T)
  BY FS_Subset
<1>2. ASSUME NEW T \in SUBSET S
      PROVE  Tally(f, T) = [s \in SUBSET T |-> TallyStep(f, Tally(f, T), s)]
  BY <1>1, <1>2, TallyExists DEF Tally
<1>3. ASSUME NEW T \in SUBSET S
      PROVE  \A s \in SUBSET T : Tally(f, S)[s] = Tally(f, T)[s]
  <2> DEFINE H == {s \in SUBSET T : Tally(f, S)[s] = Tally(f, T)[s]}
  <2>1. ASSUME NEW s \in SUBSET T, \A x \in s : s \ {x} \in H
        PROVE  s \in H
    <3>1. Tally(f, S)[s] = TallyStep(f, Tally(f, S), s)
      BY <1>2
    <3>2. Tally(f, T)[s] = TallyStep(f, Tally(f, T), s)
      BY <1>2
    <3>3. s # {} => Tally(f, S)[s \ {Pick(s)}] = Tally(f, T)[s \ {Pick(s)}]
      BY <2>1, PickInSet
    <3>4. QED BY <3>1, <3>2, <3>3 DEF TallyStep
  <2>2. ASSUME NEW s \in SUBSET T
        PROVE  s \in H
    <3>1. IsFiniteSet(s) /\ SUBSET s \subseteq SUBSET T
      BY <1>1
    <3> HIDE DEF H
    <3>2. QED BY <2>1, <3>1, SubsetInduction
  <2>3. QED BY <2>2
<1>4. \A s \in SUBSET S : Sum(f, s) = Tally(f, S)[s]
  BY <1>3, SumIsTally
<1>5. \A s \in SUBSET S : Tally(f, S)[s] = TallyStep(f, Tally(f, S), s)
  BY <1>2
<1>6. \A s \in SUBSET S : s # {} => s \ {Pick(s)} \in SUBSET S
  OBVIOUS
<1>7. QED BY <1>4, <1>5, <1>6 DEF TallyStep

LEMMA SumEmpty ==
    ASSUME NEW f
    PROVE  Sum(f, {}) = 0
BY TallyValues, FS_EmptySet

LEMMA SumType ==
    ASSUME NEW f, NEW S, IsFiniteSet(S), \A x \in S : f[x] \in Int
    PROVE  Sum(f, S) \in Int
<1> DEFINE H == {T \in SUBSET S : Sum(f, T) \in Int}
<1>1. ASSUME NEW T \in SUBSET S, \A x \in T : T \ {x} \in H
      PROVE  T \in H
  <2>1. Sum(f, T) = IF T = {} THEN 0 ELSE f[Pick(T)] + Sum(f, T \ {Pick(T)})
    BY TallyValues
  <2>2. CASE T = {}
    BY <2>1, <2>2
  <2>3. CASE T # {}
    BY <1>1, <2>1, <2>3, PickInSet
  <2>4. QED BY <2>2, <2>3
<1>2. S \in H
  <2> HIDE DEF H
  <2>1. QED BY <1>1, SubsetInduction
<1>3. QED BY <1>2

\* The order of the elements does not matter.
LEMMA SumRemove ==
    ASSUME NEW f, NEW S, IsFiniteSet(S), \A x \in S : f[x] \in Int, NEW y \in S
    PROVE  Sum(f, S) = f[y] + Sum(f, S \ {y})
<1> DEFINE H == {T \in SUBSET S : \A x \in T : Sum(f, T) = f[x] + Sum(f, T \ {x})}
<1>1. ASSUME NEW T \in SUBSET S, \A x \in T : T \ {x} \in H, NEW x \in T
      PROVE  Sum(f, T) = f[x] + Sum(f, T \ {x})
  <2> DEFINE p == Pick(T)
  <2>1. p \in T
    BY PickInSet
  <2> HIDE DEF p
  <2>2. Sum(f, T) = f[p] + Sum(f, T \ {p})
    BY TallyValues DEF p
  <2>3. CASE x = p
    BY <2>2, <2>3
  <2>4. CASE x # p
    <3>1. Sum(f, T \ {p}) = f[x] + Sum(f, (T \ {p}) \ {x})
      BY <1>1, <2>1, <2>4
    <3>2. Sum(f, T \ {x}) = f[p] + Sum(f, (T \ {x}) \ {p})
      BY <1>1, <2>1, <2>4
    <3>3. (T \ {x}) \ {p} = (T \ {p}) \ {x}
      OBVIOUS
    <3>4. Sum(f, (T \ {p}) \ {x}) \in Int
      <4>1. IsFiniteSet((T \ {p}) \ {x})
        BY FS_Subset
      <4>2. QED BY <4>1, SumType
    <3>5. f[x] \in Int /\ f[p] \in Int
      BY <2>1
    <3>6. \A b, c, d \in Int : b + (c + d) = c + (b + d)
      OBVIOUS
    <3>7. f[p] + (f[x] + Sum(f, (T \ {p}) \ {x})) = f[x] + (f[p] + Sum(f, (T \ {p}) \ {x}))
      BY ONLY <3>4, <3>5, <3>6, Zenon
    <3>8. QED BY <2>2, <3>1, <3>2, <3>3, <3>7, Zenon
  <2>5. QED BY <2>3, <2>4
<1>2. \A T \in SUBSET S : (\A x \in T : T \ {x} \in H) => T \in H
  BY <1>1
<1>3. S \in H
  <2> HIDE DEF H
  <2>1. QED BY <1>2, SubsetInduction
<1>4. QED BY <1>3

LEMMA SumAdd ==
    ASSUME NEW f, NEW S, IsFiniteSet(S), NEW y, y \notin S,
           \A x \in S \cup {y} : f[x] \in Int
    PROVE  Sum(f, S \cup {y}) = Sum(f, S) + f[y]
<1>1. IsFiniteSet(S \cup {y}) /\ (S \cup {y}) \ {y} = S
  BY FS_AddElement
<1>2. Sum(f, S \cup {y}) = f[y] + Sum(f, (S \cup {y}) \ {y})
  BY <1>1, SumRemove
<1>3. Sum(f, S) \in Int /\ f[y] \in Int
  BY SumType
<1>4. \A b, c \in Int : b + c = c + b
  OBVIOUS
<1>5. QED BY <1>1, <1>2, <1>3, <1>4, Zenon

LEMMA SumSingle ==
    ASSUME NEW f, NEW y, f[y] \in Int
    PROVE  Sum(f, {y}) = f[y]
<1>1. Sum(f, {} \cup {y}) = Sum(f, {}) + f[y]
  BY SumAdd, FS_EmptySet
<1>2. {} \cup {y} = {y}
  OBVIOUS
<1>3. QED BY <1>1, <1>2, SumEmpty

\* Sums are additive in the summand and, so, monotonic and determined by it.
LEMMA SumPlus ==
    ASSUME NEW f, NEW g, NEW h, NEW S, IsFiniteSet(S),
           \A x \in S : f[x] \in Int /\ g[x] \in Int /\ h[x] = f[x] + g[x]
    PROVE  Sum(h, S) = Sum(f, S) + Sum(g, S)
<1> DEFINE H == {T \in SUBSET S : Sum(h, T) = Sum(f, T) + Sum(g, T)}
<1>1. ASSUME NEW T \in SUBSET S, \A x \in T : T \ {x} \in H
      PROVE  T \in H
  <2>1. CASE T = {}
    BY <2>1, SumEmpty
  <2>2. CASE T # {}
    <3>1. PICK x \in T : TRUE
      BY <2>2
    <3>2. IsFiniteSet(T) /\ IsFiniteSet(T \ {x})
      BY FS_Subset
    <3>3. \A y \in T : f[y] \in Int /\ g[y] \in Int /\ h[y] \in Int
      OBVIOUS
    <3>4. /\ Sum(h, T) = h[x] + Sum(h, T \ {x})
          /\ Sum(f, T) = f[x] + Sum(f, T \ {x})
          /\ Sum(g, T) = g[x] + Sum(g, T \ {x})
      BY <3>2, <3>3, SumRemove
    <3>5. Sum(f, T \ {x}) \in Int /\ Sum(g, T \ {x}) \in Int
      BY <3>2, <3>3, SumType
    <3>6. Sum(h, T \ {x}) = Sum(f, T \ {x}) + Sum(g, T \ {x})
      BY <1>1
    <3>7. QED BY <3>3, <3>4, <3>5, <3>6
  <2>3. QED BY <2>1, <2>2
<1>2. S \in H
  <2> HIDE DEF H
  <2>1. QED BY <1>1, SubsetInduction
<1>3. QED BY <1>2

LEMMA SumNat ==
    ASSUME NEW f, NEW S, IsFiniteSet(S), \A x \in S : f[x] \in Nat
    PROVE  Sum(f, S) \in Nat
<1> DEFINE H == {T \in SUBSET S : Sum(f, T) \in Nat}
<1>1. ASSUME NEW T \in SUBSET S, \A x \in T : T \ {x} \in H
      PROVE  T \in H
  <2>1. Sum(f, T) = IF T = {} THEN 0 ELSE f[Pick(T)] + Sum(f, T \ {Pick(T)})
    BY TallyValues
  <2>2. CASE T = {}
    BY <2>1, <2>2
  <2>3. CASE T # {}
    BY <1>1, <2>1, <2>3, PickInSet
  <2>4. QED BY <2>2, <2>3
<1>2. S \in H
  <2> HIDE DEF H
  <2>1. QED BY <1>1, SubsetInduction
<1>3. QED BY <1>2

LEMMA SumZero ==
    ASSUME NEW f, NEW S, IsFiniteSet(S), \A x \in S : f[x] = 0
    PROVE  Sum(f, S) = 0
<1>1. Sum(f, S) = Sum(f, S) + Sum(f, S)
  BY SumPlus
<1>2. Sum(f, S) \in Int
  BY SumType
<1>3. \A b \in Int : b = b + b => b = 0
  OBVIOUS
<1>4. QED BY <1>1, <1>2, <1>3, Zenon

LEMMA SumSame ==
    ASSUME NEW f, NEW g, NEW S, IsFiniteSet(S),
           \A x \in S : f[x] \in Int /\ g[x] = f[x]
    PROVE  Sum(g, S) = Sum(f, S)
<1> DEFINE z == [x \in S |-> 0]
<1>1. Sum(z, S) = 0
  BY SumZero
<1>2. \A x \in S : g[x] = f[x] + z[x] /\ z[x] \in Int
  OBVIOUS
<1> HIDE DEF z
<1>3. Sum(g, S) = Sum(f, S) + Sum(z, S)
  BY <1>2, SumPlus
<1>4. QED BY <1>1, <1>3, SumType

LEMMA SumAtMost ==
    ASSUME NEW f, NEW g, NEW S, IsFiniteSet(S),
           \A x \in S : f[x] \in Int /\ g[x] \in Int /\ f[x] <= g[x]
    PROVE  Sum(f, S) <= Sum(g, S)
<1> DEFINE d == [x \in S |-> g[x] - f[x]]
<1>1. \A x \in S : d[x] \in Nat /\ d[x] \in Int /\ g[x] = f[x] + d[x]
  OBVIOUS
<1> HIDE DEF d
<1>2. Sum(g, S) = Sum(f, S) + Sum(d, S)
  BY <1>1, SumPlus
<1>3. Sum(d, S) \in Nat /\ Sum(f, S) \in Int
  BY <1>1, SumNat, SumType
<1>4. QED BY <1>2, <1>3

\* No summand that is not negative exceeds the sum.
LEMMA SumHasPart ==
    ASSUME NEW f, NEW S, IsFiniteSet(S), \A x \in S : f[x] \in Nat, NEW y \in S
    PROVE  f[y] <= Sum(f, S)
<1>1. \A x \in S : f[x] \in Int
  OBVIOUS
<1>2. Sum(f, S) = f[y] + Sum(f, S \ {y})
  BY <1>1, SumRemove
<1>3. Sum(f, S \ {y}) \in Nat
  BY FS_RemoveElement, SumNat
<1>4. QED BY <1>2, <1>3

LEMMA FiniteImage ==
    ASSUME NEW h, NEW S, IsFiniteSet(S)
    PROVE  IsFiniteSet({h[x] : x \in S})
<1> DEFINE T == {h[x] : x \in S}
           g == [x \in S |-> h[x]]
<1>1. g \in Surjection(S, T)
  BY DEF Surjection
<1> HIDE DEF g, T
<1>2. IsFiniteSet(T)
  BY <1>1, FS_Surjection
<1>3. QED BY <1>2 DEF T

LEMMA FiniteFamily ==
    ASSUME NEW P, NEW I, IsFiniteSet(I), \A i \in I : IsFiniteSet(P[i])
    PROVE  IsFiniteSet(UNION {P[i] : i \in I})
<1> DEFINE F == {P[i] : i \in I}
<1>1. IsFiniteSet(F) /\ \A T \in F : IsFiniteSet(T)
  BY FiniteImage
<1> HIDE DEF F
<1>2. IsFiniteSet(UNION F)
  BY <1>1, FS_UNION
<1>3. QED BY <1>2 DEF F

LEMMA SumSplit ==
    ASSUME NEW f, NEW S, NEW T, IsFiniteSet(S), IsFiniteSet(T), S \cap T = {},
           \A x \in S \cup T : f[x] \in Int
    PROVE  Sum(f, S \cup T) = Sum(f, S) + Sum(f, T)
<1> DEFINE H == {U \in SUBSET T : Sum(f, S \cup U) = Sum(f, S) + Sum(f, U)}
<1>1. ASSUME NEW U \in SUBSET T, \A x \in U : U \ {x} \in H
      PROVE  U \in H
  <2>1. Sum(f, S) \in Int
    BY SumType
  <2>2. CASE U = {}
    <3>1. S \cup U = S
      BY <2>2
    <3>2. \A b \in Int : b = b + 0
      OBVIOUS
    <3>3. Sum(f, S \cup U) = Sum(f, S) + Sum(f, U)
      BY <2>1, <2>2, <3>1, <3>2, SumEmpty, Zenon
    <3>4. QED BY <3>3
  <2>3. CASE U # {}
    <3>1. PICK x \in U : TRUE
      BY <2>3
    <3>2. IsFiniteSet(U) /\ IsFiniteSet(U \ {x}) /\ IsFiniteSet(S \cup U)
      <4>1. IsFiniteSet(U) /\ IsFiniteSet(U \ {x})
        BY FS_Subset
      <4>2. QED BY <4>1, FS_Union
    <3>3. (S \cup U) \ {x} = S \cup (U \ {x})
      BY <3>1
    <3>4. Sum(f, S \cup U) = f[x] + Sum(f, S \cup (U \ {x}))
      <4>1. x \in S \cup U /\ \A y \in S \cup U : f[y] \in Int
        OBVIOUS
      <4>2. Sum(f, S \cup U) = f[x] + Sum(f, (S \cup U) \ {x})
        BY <3>2, <4>1, SumRemove
      <4>3. QED BY <3>3, <4>2
    <3>5. Sum(f, U) = f[x] + Sum(f, U \ {x})
      BY <3>2, SumRemove
    <3>6. Sum(f, S \cup (U \ {x})) = Sum(f, S) + Sum(f, U \ {x})
      BY <1>1
    <3>7. f[x] \in Int /\ Sum(f, U \ {x}) \in Int
      BY <3>2, SumType
    <3>8. \A b, c, d \in Int : b + (c + d) = c + (b + d)
      OBVIOUS
    <3>9. f[x] + (Sum(f, S) + Sum(f, U \ {x})) = Sum(f, S) + (f[x] + Sum(f, U \ {x}))
      BY ONLY <2>1, <3>7, <3>8, Zenon
    <3>10. Sum(f, S \cup U) = Sum(f, S) + Sum(f, U)
      BY <3>4, <3>5, <3>6, <3>9, Zenon
    <3>11. QED BY <3>10
  <2>4. QED BY <2>2, <2>3
<1>2. T \in H
  <2> HIDE DEF H
  <2>1. QED BY <1>1, SubsetInduction
<1>3. QED BY <1>2

\* Summands that are zero may be left out.
LEMMA SumSupport ==
    ASSUME NEW f, NEW S, IsFiniteSet(S), NEW T \in SUBSET S,
           \A x \in T : f[x] \in Int, \A x \in S \ T : f[x] = 0
    PROVE  Sum(f, S) = Sum(f, T)
<1>1. IsFiniteSet(T) /\ IsFiniteSet(S \ T)
  BY FS_Subset
<1>2. T \cup (S \ T) = S /\ T \cap (S \ T) = {}
  OBVIOUS
<1>3. \A x \in T \cup (S \ T) : f[x] \in Int
  OBVIOUS
<1>4. Sum(f, T \cup (S \ T)) = Sum(f, T) + Sum(f, S \ T)
  BY <1>1, <1>2, <1>3, SumSplit
<1>5. Sum(f, S \ T) = 0
  BY <1>1, SumZero
<1>6. Sum(f, T) \in Int
  BY <1>1, SumType
<1>7. \A b \in Int : b + 0 = b
  OBVIOUS
<1>8. QED BY <1>2, <1>4, <1>5, <1>6, <1>7, Zenon

\* A sum over the elements h[x] is one over the x, if no two x share one.
LEMMA SumImage ==
    ASSUME NEW f, NEW g, NEW h, NEW S, IsFiniteSet(S),
           \A x, y \in S : h[x] = h[y] => x = y,
           \A x \in S : f[x] \in Int /\ g[h[x]] = f[x]
    PROVE  Sum(g, {h[x] : x \in S}) = Sum(f, S)
<1> DEFINE Im(T) == {h[x] : x \in T}
           H == {T \in SUBSET S : Sum(g, Im(T)) = Sum(f, T)}
<1>1. ASSUME NEW T \in SUBSET S, \A x \in T : T \ {x} \in H
      PROVE  T \in H
  <2>1. CASE T = {}
    <3>1. Im(T) = {}
      BY <2>1
    <3>2. Sum(g, Im(T)) = Sum(f, T)
      BY <2>1, <3>1, SumEmpty, Zenon
    <3>3. QED BY <3>2
  <2>2. CASE T # {}
    <3>1. PICK x \in T : TRUE
      BY <2>2
    <3>2. IsFiniteSet(T)
      BY FS_Subset
    <3>3. IsFiniteSet(Im(T))
      BY <3>2, FiniteImage
    <3>4. Im(T) \ {h[x]} = Im(T \ {x})
      BY <3>1
    <3>5. h[x] \in Im(T) /\ \A y \in Im(T) : g[y] \in Int
      OBVIOUS
    <3>6. Sum(g, Im(T)) = g[h[x]] + Sum(g, Im(T) \ {h[x]})
      <4> HIDE DEF Im
      <4>1. QED BY <3>3, <3>5, SumRemove
    <3>7. Sum(f, T) = f[x] + Sum(f, T \ {x})
      BY <3>2, SumRemove
    <3>8. Sum(g, Im(T \ {x})) = Sum(f, T \ {x})
      BY <1>1
    <3>9. g[h[x]] = f[x]
      OBVIOUS
    <3>10. Sum(g, Im(T)) = Sum(f, T)
      <4> HIDE DEF Im
      <4>1. QED BY <3>4, <3>6, <3>7, <3>8, <3>9, Zenon
    <3>11. QED BY <3>10
  <2>3. QED BY <2>1, <2>2
<1>2. S \in H
  <2> HIDE DEF H
  <2>1. QED BY <1>1, SubsetInduction
<1>3. QED BY <1>2

\* A sum over a family of disjoint sets is the sum of the sums over each.
LEMMA SumFamily ==
    ASSUME NEW f, NEW P, NEW g, NEW I, IsFiniteSet(I),
           \A i \in I : IsFiniteSet(P[i]) /\ g[i] = Sum(f, P[i]),
           \A i \in I : \A x \in P[i] : f[x] \in Int,
           \A i, j \in I : i # j => P[i] \cap P[j] = {}
    PROVE  Sum(f, UNION {P[i] : i \in I}) = Sum(g, I)
<1> DEFINE Of(J) == UNION {P[i] : i \in J}
           H == {J \in SUBSET I : Sum(f, Of(J)) = Sum(g, J)}
<1>0. \A i \in I : g[i] \in Int
  BY SumType
<1>1. ASSUME NEW J \in SUBSET I, \A i \in J : J \ {i} \in H
      PROVE  J \in H
  <2>1. CASE J = {}
    <3>1. Of(J) = {}
      BY <2>1
    <3>2. Sum(f, Of(J)) = Sum(g, J)
      BY <2>1, <3>1, SumEmpty, Zenon
    <3>3. QED BY <3>2
  <2>2. CASE J # {}
    <3>1. PICK i \in J : TRUE
      BY <2>2
    <3>2. IsFiniteSet(J) /\ IsFiniteSet(J \ {i})
      BY FS_Subset
    <3>3. IsFiniteSet(P[i]) /\ IsFiniteSet(Of(J \ {i}))
      BY <3>2, FiniteFamily
    <3>4. Of(J) = P[i] \cup Of(J \ {i})
      BY <3>1
    <3>5. P[i] \cap Of(J \ {i}) = {}
      OBVIOUS
    <3>6. \A x \in P[i] \cup Of(J \ {i}) : f[x] \in Int
      OBVIOUS
    <3>7. Sum(f, P[i] \cup Of(J \ {i})) = Sum(f, P[i]) + Sum(f, Of(J \ {i}))
      <4> DEFINE A == P[i]
                 B == Of(J \ {i})
      <4>1. IsFiniteSet(A) /\ IsFiniteSet(B) /\ A \cap B = {}
        BY <3>3, <3>5
      <4>2. \A x \in A \cup B : f[x] \in Int
        BY <3>6
      <4> HIDE DEF A, B
      <4>3. Sum(f, A \cup B) = Sum(f, A) + Sum(f, B)
        BY <4>1, <4>2, SumSplit
      <4>4. QED BY <4>3 DEF A, B
    <3>8. Sum(g, J) = g[i] + Sum(g, J \ {i})
      BY <1>0, <3>2, SumRemove
    <3>9. Sum(f, Of(J \ {i})) = Sum(g, J \ {i})
      BY <1>1
    <3>10. Sum(f, Of(J)) = Sum(g, J)
      <4>1. g[i] = Sum(f, P[i])
        OBVIOUS
      <4> HIDE DEF Of
      <4>2. QED BY <3>4, <3>7, <3>8, <3>9, <4>1, Zenon
    <3>11. QED BY <3>10
  <2>3. QED BY <2>1, <2>2
<1>2. I \in H
  <2> HIDE DEF H
  <2>1. QED BY <1>1, SubsetInduction
<1>3. QED BY <1>2

\* What one more element adds to a sum over a sequence.
LEMMA SumAppend ==
    ASSUME NEW n \in Nat, NEW f, NEW g, \A i \in 1..n : f[i] \in Int /\ g[i] = f[i],
           g[n + 1] \in Int
    PROVE  Sum(g, 1..(n + 1)) = Sum(f, 1..n) + g[n + 1]
<1>1. IsFiniteSet(1..n)
  BY FS_Interval
<1>2. 1..(n + 1) = (1..n) \cup {n + 1} /\ n + 1 \notin 1..n
  OBVIOUS
<1>3. \A i \in (1..n) \cup {n + 1} : g[i] \in Int
  OBVIOUS
<1>4. Sum(g, (1..n) \cup {n + 1}) = Sum(g, 1..n) + g[n + 1]
  <2> DEFINE N == 1..n
             m == n + 1
  <2>1. IsFiniteSet(N) /\ m \notin N /\ \A i \in N \cup {m} : g[i] \in Int
    BY <1>1, <1>2, <1>3
  <2> HIDE DEF N, m
  <2>2. Sum(g, N \cup {m}) = Sum(g, N) + g[m]
    BY <2>1, SumAdd
  <2>3. QED BY <2>2 DEF N, m
<1>5. Sum(g, 1..n) = Sum(f, 1..n)
  BY <1>1, SumSame
<1>6. QED BY <1>2, <1>4, <1>5, Zenon

LEMMA SumOfAppended ==
    ASSUME NEW n \in Nat, NEW f, NEW g, DOMAIN f = 1..n, DOMAIN g = 1..(n + 1),
           \A i \in 1..n : f[i] \in Int /\ g[i] = f[i], g[n + 1] \in Int
    PROVE  SumFunction(g) = SumFunction(f) + g[n + 1]
BY SumAppend, SumOfFunction, Zenon

-----------------------------------------------------------------------------
\* What a transaction may be.

LEMMA TxType ==
    ASSUME NEW t \in Txs
    PROVE  /\ t \in Tx
           /\ t.deposit \in BOOLEAN /\ t.ok \in BOOLEAN /\ t.priced \in BOOLEAN
           /\ t.from \in Accounts /\ t.to \in Accounts /\ t.onward \in Accounts
           /\ t.value \in Nat /\ t.sends \in Nat /\ t.gas \in Nat /\ t.price \in Nat
           /\ t.mint \in Nat /\ t.mintTo \in Accounts /\ t.l1 \in Nat /\ t.extra \in Nat
           /\ t.logs \in Seq(Log)
           /\ t.deposit => t.price = 0 /\ t.l1 = 0 /\ t.extra = 0
           /\ ~ t.deposit => t.price >= BaseFee /\ t.mint = 0
BY AccountingAssumption DEF Tx

LEMMA NatTimes ==
    ASSUME NEW x \in Nat, NEW y \in Nat
    PROVE  x * y \in Nat
OBVIOUS

LEMMA TxAmounts ==
    ASSUME NEW t \in Txs, NEW a
    PROVE  /\ CallsIn(t, a) \in Nat /\ CallsOut(t, a) \in Nat
           /\ Fee(t) \in Nat /\ FeeCredit(t, a) \in Nat
<1>1. CallsIn(t, a) \in Nat /\ CallsOut(t, a) \in Nat
  BY TxType DEF CallsIn, CallsOut
<1>2. BaseFee \in Nat
  BY AccountingAssumption
<1>3. Fee(t) \in Nat
  BY TxType, NatTimes DEF Fee
<1>4. FeeCredit(t, a) \in Nat
  <2>1. t.gas * BaseFee \in Nat
    BY <1>2, TxType, NatTimes
  <2>2. CASE t.deposit
    BY <2>2, TxType DEF FeeCredit
  <2>3. CASE ~ t.deposit
    <3>1. t.price - BaseFee \in Nat
      BY <1>2, <2>3, TxType
    <3>2. t.gas * (t.price - BaseFee) \in Nat
      BY <3>1, TxType, NatTimes
    <3> DEFINE c == t.gas * (t.price - BaseFee)
               b == t.gas * BaseFee
    <3>3. FeeCredit(t, a) = (IF a = Coinbase THEN c ELSE 0)
                            + (IF optimism /\ a = BaseVault THEN b ELSE 0)
                            + (IF optimism /\ a = L1Vault THEN t.l1 ELSE 0)
                            + (IF optimism /\ a = OperatorVault THEN t.extra ELSE 0)
      BY <2>3 DEF FeeCredit
    <3>4. c \in Nat /\ b \in Nat /\ t.l1 \in Nat /\ t.extra \in Nat
      BY <2>1, <3>2, TxType
    <3> HIDE DEF c, b
    <3>5. QED BY <3>3, <3>4
  <2>4. QED BY <2>2, <2>3
<1>5. QED BY <1>1, <1>3, <1>4

-----------------------------------------------------------------------------
\* The books of the world: what came in is the opening balance, the credits of
\* the protocol and the incoming calls; what is left of it after the outgoing
\* calls and the fees is the balance.

PaidBy(t, a) == IF ~ t.deposit /\ a = t.from THEN Fee(t) ELSE 0
Into(a)      == SumFunction([i \in DOMAIN txs |-> CallsIn(txs[i], a)])
OutOf(a)     == SumFunction([i \in DOMAIN txs |-> CallsOut(txs[i], a)])
Paid(a)      == SumFunction([i \in DOMAIN txs |-> PaidBy(txs[i], a)])
FeesTo(a)    == SumFunction([i \in DOMAIN txs |-> FeeCredit(txs[i], a)])
Withdrawn(a) == SumFunction([i \in DOMAIN withdrawals |->
                  IF withdrawals[i].to = a THEN withdrawals[i].amount ELSE 0])

Books ==
    \A a \in Accounts :
        /\ credited[a] = FeesTo(a) + Withdrawn(a)
        /\ gross[a] = opening[a] + credited[a] + Into(a)
        /\ balance[a] = gross[a] - OutOf(a) - Paid(a)

WorldType ==
    /\ optimism \in BOOLEAN /\ cached \in BOOLEAN
    /\ opening \in [Accounts -> Nat] /\ balance \in [Accounts -> Nat]
    /\ credited \in [Accounts -> Nat] /\ gross \in [Accounts -> Nat]
    /\ txs \in Seq(Txs) /\ receipts \in Seq(Nat)
    /\ withdrawals \in Seq(Withdrawals)

Receipted ==
    /\ Len(receipts) = Len(txs)
    /\ \A i \in DOMAIN txs : GasUsed(i) = txs[i].gas

\* Deposits and L1 fees are of the OP stack, withdrawals of Ethereum.
ChainKind ==
    /\ ~ optimism => \A i \in DOMAIN txs : ~ txs[i].deposit /\ txs[i].l1 = 0
    /\ optimism => withdrawals = <<>>

World == WorldType /\ Books /\ Receipted /\ ChainKind

\* The sums of the books are natural numbers.
LEMMA BookTypes ==
    ASSUME WorldType, NEW a
    PROVE  /\ Into(a) \in Nat /\ OutOf(a) \in Nat /\ Paid(a) \in Nat
           /\ FeesTo(a) \in Nat /\ Withdrawn(a) \in Nat
<1>1. IsFiniteSet(DOMAIN txs) /\ IsFiniteSet(DOMAIN withdrawals)
  BY FS_Interval DEF WorldType
<1>2. \A i \in DOMAIN txs : txs[i] \in Txs
  BY DEF WorldType
<1>3. Into(a) \in Nat
  <2> DEFINE f == [i \in DOMAIN txs |-> CallsIn(txs[i], a)]
  <2>1. \A i \in DOMAIN txs : f[i] \in Nat
    BY <1>2, TxAmounts
  <2>2. DOMAIN f = DOMAIN txs
    OBVIOUS
  <2> HIDE DEF f
  <2>3. SumFunction(f) \in Nat
    BY <1>1, <2>1, <2>2, SumNat, SumOfFunction
  <2>4. QED BY <2>3 DEF Into, f
<1>4. OutOf(a) \in Nat
  <2> DEFINE f == [i \in DOMAIN txs |-> CallsOut(txs[i], a)]
  <2>1. \A i \in DOMAIN txs : f[i] \in Nat
    BY <1>2, TxAmounts
  <2>2. DOMAIN f = DOMAIN txs
    OBVIOUS
  <2> HIDE DEF f
  <2>3. SumFunction(f) \in Nat
    BY <1>1, <2>1, <2>2, SumNat, SumOfFunction
  <2>4. QED BY <2>3 DEF OutOf, f
<1>5. Paid(a) \in Nat
  <2> DEFINE f == [i \in DOMAIN txs |-> PaidBy(txs[i], a)]
  <2>1. \A i \in DOMAIN txs : f[i] \in Nat
    BY <1>2, TxAmounts DEF PaidBy
  <2>2. DOMAIN f = DOMAIN txs
    OBVIOUS
  <2> HIDE DEF f
  <2>3. SumFunction(f) \in Nat
    BY <1>1, <2>1, <2>2, SumNat, SumOfFunction
  <2>4. QED BY <2>3 DEF Paid, f
<1>6. FeesTo(a) \in Nat
  <2> DEFINE f == [i \in DOMAIN txs |-> FeeCredit(txs[i], a)]
  <2>1. \A i \in DOMAIN txs : f[i] \in Nat
    BY <1>2, TxAmounts
  <2>2. DOMAIN f = DOMAIN txs
    OBVIOUS
  <2> HIDE DEF f
  <2>3. SumFunction(f) \in Nat
    BY <1>1, <2>1, <2>2, SumNat, SumOfFunction
  <2>4. QED BY <2>3 DEF FeesTo, f
<1>7. Withdrawn(a) \in Nat
  <2> DEFINE f == [i \in DOMAIN withdrawals |->
                     IF withdrawals[i].to = a THEN withdrawals[i].amount ELSE 0]
  <2>0. \A w \in Withdrawals : w.amount \in Nat
    BY AccountingAssumption
  <2>1. \A i \in DOMAIN withdrawals : f[i] \in Nat
    BY <2>0 DEF WorldType
  <2>2. DOMAIN f = DOMAIN withdrawals
    OBVIOUS
  <2> HIDE DEF f
  <2>3. SumFunction(f) \in Nat
    BY <1>1, <2>1, <2>2, SumNat, SumOfFunction
  <2>4. QED BY <2>3 DEF Withdrawn, f
<1>8. QED BY <1>3, <1>4, <1>5, <1>6, <1>7

-----------------------------------------------------------------------------
\* The world keeps its books.

LEMMA InitKeepsBooks == Init => World
<1> SUFFICES ASSUME Init PROVE World
  OBVIOUS
<1>1. WorldType
  BY AccountingAssumption DEF Init, WorldType
<1>2. ASSUME NEW f, DOMAIN f = {}
      PROVE  SumFunction(f) = 0
  BY <1>2, SumOfFunction, SumEmpty
<1>3. DOMAIN txs = {} /\ DOMAIN withdrawals = {}
  BY DEF Init
<1>4. ASSUME NEW a
      PROVE  /\ Into(a) = 0 /\ OutOf(a) = 0 /\ Paid(a) = 0
             /\ FeesTo(a) = 0 /\ Withdrawn(a) = 0
  BY <1>2, <1>3, Zenon DEF Into, OutOf, Paid, FeesTo, Withdrawn
<1>5. Books
  BY <1>1, <1>4 DEF Books, WorldType, Init
<1>6. Receipted /\ ChainKind
  BY <1>3 DEF Receipted, ChainKind, Init
<1>7. QED BY <1>1, <1>5, <1>6 DEF World

LEMMA ExecuteSums ==
    ASSUME World, NEW t \in Txs, Execute(t), NEW a
    PROVE  /\ Into(a)' = Into(a) + CallsIn(t, a)
           /\ OutOf(a)' = OutOf(a) + CallsOut(t, a)
           /\ Paid(a)' = Paid(a) + PaidBy(t, a)
           /\ FeesTo(a)' = FeesTo(a) + FeeCredit(t, a)
           /\ Withdrawn(a)' = Withdrawn(a)
<1> DEFINE n == Len(txs)
<1>1. /\ n \in Nat /\ DOMAIN txs = 1..n /\ DOMAIN txs' = 1..(n + 1)
      /\ \A i \in 1..n : txs[i] \in Txs /\ txs'[i] = txs[i]
      /\ txs'[n + 1] = t
  BY DEF World, WorldType, Execute
<1>2. optimism' = optimism /\ withdrawals' = withdrawals
  BY DEF Execute, Credit
<1>3. \A s \in Txs : /\ CallsIn(s, a) \in Int /\ CallsOut(s, a) \in Int
                     /\ PaidBy(s, a) \in Int /\ FeeCredit(s, a) \in Int
  BY TxAmounts DEF PaidBy
<1> HIDE DEF n
<1>4. Into(a)' = Into(a) + CallsIn(t, a)
  <2> DEFINE f == [i \in DOMAIN txs |-> CallsIn(txs[i], a)]
             g == [i \in DOMAIN txs' |-> CallsIn(txs'[i], a)]
  <2>1. /\ DOMAIN f = 1..n /\ DOMAIN g = 1..(n + 1)
        /\ \A i \in 1..n : f[i] \in Int /\ g[i] = f[i]
        /\ g[n + 1] = CallsIn(t, a) /\ g[n + 1] \in Int
    BY <1>1, <1>3
  <2> HIDE DEF f, g
  <2>2. SumFunction(g) = SumFunction(f) + CallsIn(t, a)
    BY <1>1, <2>1, SumOfAppended
  <2>3. QED BY <2>2 DEF f, g, Into
<1>5. OutOf(a)' = OutOf(a) + CallsOut(t, a)
  <2> DEFINE f == [i \in DOMAIN txs |-> CallsOut(txs[i], a)]
             g == [i \in DOMAIN txs' |-> CallsOut(txs'[i], a)]
  <2>1. /\ DOMAIN f = 1..n /\ DOMAIN g = 1..(n + 1)
        /\ \A i \in 1..n : f[i] \in Int /\ g[i] = f[i]
        /\ g[n + 1] = CallsOut(t, a) /\ g[n + 1] \in Int
    BY <1>1, <1>3
  <2> HIDE DEF f, g
  <2>2. SumFunction(g) = SumFunction(f) + CallsOut(t, a)
    BY <1>1, <2>1, SumOfAppended
  <2>3. QED BY <2>2 DEF f, g, OutOf
<1>6. Paid(a)' = Paid(a) + PaidBy(t, a)
  <2> DEFINE f == [i \in DOMAIN txs |-> PaidBy(txs[i], a)]
             g == [i \in DOMAIN txs' |-> PaidBy(txs'[i], a)]
  <2>1. /\ DOMAIN f = 1..n /\ DOMAIN g = 1..(n + 1)
        /\ \A i \in 1..n : f[i] \in Int /\ g[i] = f[i]
        /\ g[n + 1] = PaidBy(t, a) /\ g[n + 1] \in Int
    BY <1>1, <1>3
  <2> HIDE DEF f, g
  <2>2. SumFunction(g) = SumFunction(f) + PaidBy(t, a)
    BY <1>1, <2>1, SumOfAppended
  <2>3. QED BY <2>2 DEF f, g, Paid
<1>7. FeesTo(a)' = FeesTo(a) + FeeCredit(t, a)
  <2> DEFINE f == [i \in DOMAIN txs |-> FeeCredit(txs[i], a)]
             g == [i \in DOMAIN txs' |-> FeeCredit(txs'[i], a)]
  <2>1. /\ DOMAIN f = 1..n /\ DOMAIN g = 1..(n + 1)
        /\ \A i \in 1..n : f[i] \in Int /\ g[i] = f[i]
        /\ g[n + 1] = FeeCredit(t, a) /\ g[n + 1] \in Int
    BY <1>1, <1>3
  <2>2. FeesTo(a)' = SumFunction(g)
    BY <1>2 DEF FeesTo, FeeCredit
  <2> HIDE DEF f, g
  <2>3. SumFunction(g) = SumFunction(f) + FeeCredit(t, a)
    BY <1>1, <2>1, SumOfAppended
  <2>4. QED BY <2>2, <2>3 DEF f, FeesTo
<1>8. Withdrawn(a)' = Withdrawn(a)
  BY <1>2 DEF Withdrawn
<1>9. QED BY <1>4, <1>5, <1>6, <1>7, <1>8

\* Nobody spends what is not there: a balance stays a natural number.
LEMMA ExecuteIsCovered ==
    ASSUME World, NEW t \in Txs, Execute(t), NEW a \in Accounts
    PROVE  balance[a] + FeeCredit(t, a) + CallsIn(t, a) - CallsOut(t, a) - PaidBy(t, a)
             \in Nat
<1> DEFINE fee == Fee(t)
           mint == FeeCredit(t, a)
<1>1. fee \in Nat /\ mint \in Nat
  BY TxAmounts
<1>2. balance[a] \in Nat
  BY DEF World, WorldType
<1>3. a = t.from =>
        balance[a] + (IF t.deposit THEN mint ELSE 0) - (IF ~ t.deposit THEN fee ELSE 0)
          >= IF t.deposit /\ ~ t.ok THEN 0 ELSE t.value
  BY DEF Execute, Affordable, Purse
<1>4. a = t.to /\ t.ok =>
        balance[a] + (IF t.deposit THEN mint ELSE 0)
          - (IF ~ t.deposit /\ a = t.from THEN fee ELSE 0)
          + (IF t.to = t.from THEN 0 ELSE t.value) >= t.sends
  BY DEF Execute, Affordable, Purse
<1> HIDE DEF fee, mint
<1>5. t.value \in Nat /\ t.sends \in Nat
  BY TxType
<1>6. balance[a] + mint + CallsIn(t, a) - CallsOut(t, a)
        - (IF ~ t.deposit /\ a = t.from THEN fee ELSE 0) \in Nat
  <2> DEFINE b == balance[a]
             v == t.value
             w == t.sends
  <2>1. b \in Nat /\ v \in Nat /\ w \in Nat
    BY <1>2, <1>5
  <2>2. a = t.from =>
          b + (IF t.deposit THEN mint ELSE 0) - (IF ~ t.deposit THEN fee ELSE 0)
            >= IF t.deposit /\ ~ t.ok THEN 0 ELSE v
    BY <1>3
  <2>3. a = t.to /\ t.ok =>
          b + (IF t.deposit THEN mint ELSE 0)
            - (IF ~ t.deposit /\ a = t.from THEN fee ELSE 0)
            + (IF t.to = t.from THEN 0 ELSE v) >= w
    BY <1>4
  <2> DEFINE in == CallsIn(t, a)
             out == CallsOut(t, a)
             paid == IF ~ t.deposit /\ a = t.from THEN fee ELSE 0
  <2>4. /\ in = IF t.ok THEN (IF t.to = a THEN v ELSE 0)
                               + (IF t.onward = a THEN w ELSE 0) ELSE 0
        /\ out = IF t.ok THEN (IF t.from = a THEN v ELSE 0)
                                + (IF t.to = a THEN w ELSE 0) ELSE 0
        /\ paid = IF ~ t.deposit /\ a = t.from THEN fee ELSE 0
    BY DEF CallsIn, CallsOut
  <2> HIDE DEF b, v, w, in, out, paid
  <2>5. b + mint + in - out - paid \in Nat
    <3>1. CASE a = t.from
      BY <1>1, <2>1, <2>2, <2>3, <2>4, <3>1
    <3>2. CASE a # t.from /\ a = t.to
      BY <1>1, <2>1, <2>2, <2>3, <2>4, <3>2
    <3>3. CASE a # t.from /\ a # t.to
      BY <1>1, <2>1, <2>2, <2>3, <2>4, <3>3
    <3>4. QED BY <3>1, <3>2, <3>3
  <2>6. QED BY <2>5 DEF b, in, out, paid
<1>7. QED BY <1>6 DEF fee, mint, PaidBy

LEMMA ExecuteKeepsBooks ==
    ASSUME World, NEW t \in Txs, Execute(t)
    PROVE  World'
<1> DEFINE n == Len(txs)
<1>1. /\ n \in Nat /\ DOMAIN txs = 1..n /\ DOMAIN txs' = 1..(n + 1)
      /\ \A i \in 1..n : txs[i] \in Txs /\ txs'[i] = txs[i]
      /\ txs'[n + 1] = t
      /\ Len(txs') = n + 1 /\ txs' \in Seq(Txs)
  BY DEF World, WorldType, Execute
<1>2. UNCHANGED <<optimism, cached, opening, withdrawals>>
  BY DEF Execute, Credit
<1>3. \A a \in Accounts :
        /\ credited'[a] = credited[a] + FeeCredit(t, a)
        /\ gross'[a] = gross[a] + FeeCredit(t, a) + CallsIn(t, a)
        /\ balance'[a] = balance[a] + FeeCredit(t, a) + CallsIn(t, a) - CallsOut(t, a)
                           - PaidBy(t, a)
        /\ FeeCredit(t, a) \in Nat /\ CallsIn(t, a) \in Nat /\ CallsOut(t, a) \in Nat
        /\ PaidBy(t, a) \in Nat
  <2>1. \A a \in Accounts :
          /\ credited'[a] = credited[a] + FeeCredit(t, a)
          /\ gross'[a] = gross[a] + FeeCredit(t, a) + CallsIn(t, a)
          /\ balance'[a] = balance[a] + FeeCredit(t, a) + CallsIn(t, a) - CallsOut(t, a)
                             - PaidBy(t, a)
    BY DEF Execute, Credit, PaidBy
  <2>2. \A a \in Accounts : 
          /\ FeeCredit(t, a) \in Nat /\ CallsIn(t, a) \in Nat /\ CallsOut(t, a) \in Nat
          /\ PaidBy(t, a) \in Nat
    BY TxAmounts DEF PaidBy
  <2>3. QED BY <2>1, <2>2
<1>4. Len(receipts) = n /\ receipts \in Seq(Nat)
  BY DEF World, WorldType, Receipted
<1>5. /\ receipts' \in Seq(Nat) /\ Len(receipts') = n + 1
      /\ \A i \in 1..n : receipts'[i] = receipts[i]
      /\ receipts'[n + 1] = t.gas + (IF n = 0 THEN 0 ELSE receipts[n])
  <2> DEFINE cumulative == t.gas + (IF receipts = <<>> THEN 0 ELSE Last(receipts))
  <2>1. receipts' = Append(receipts, cumulative)
    BY DEF Execute
  <2>2. cumulative = t.gas + (IF n = 0 THEN 0 ELSE receipts[n])
    BY <1>4 DEF Last
  <2>3. cumulative \in Nat
    BY <1>1, <1>4, <2>2, TxType
  <2> HIDE DEF cumulative, n
  <2>4. QED BY <1>1, <1>4, <2>1, <2>2, <2>3
<1>6. WorldType'
  <2>1. \A a \in Accounts : balance'[a] \in Nat
    BY <1>3, ExecuteIsCovered
  <2>2. \A a \in Accounts : credited'[a] \in Nat /\ gross'[a] \in Nat
    <3> TAKE a \in Accounts
    <3>1. credited[a] \in Nat /\ gross[a] \in Nat
      BY DEF World, WorldType
    <3>2. QED BY <1>3, <3>1
  <2>3. /\ balance' = [a \in Accounts |-> balance'[a]]
        /\ credited' = [a \in Accounts |-> credited'[a]]
        /\ gross' = [a \in Accounts |-> gross'[a]]
    BY DEF Execute, Credit
  <2>4. balance' \in [Accounts -> Nat] /\ credited' \in [Accounts -> Nat]
        /\ gross' \in [Accounts -> Nat]
    BY <2>1, <2>2, <2>3
  <2>5. QED BY <1>1, <1>2, <1>5, <2>4 DEF World, WorldType
<1>7. Books'
  <2> SUFFICES ASSUME NEW a \in Accounts
               PROVE  /\ credited'[a] = FeesTo(a)' + Withdrawn(a)'
                      /\ gross'[a] = opening'[a] + credited'[a] + Into(a)'
                      /\ balance'[a] = gross'[a] - OutOf(a)' - Paid(a)'
    BY DEF Books
  <2>1. /\ credited[a] = FeesTo(a) + Withdrawn(a)
        /\ gross[a] = opening[a] + credited[a] + Into(a)
        /\ balance[a] = gross[a] - OutOf(a) - Paid(a)
    BY DEF World, Books
  <2>2. /\ Into(a) \in Nat /\ OutOf(a) \in Nat /\ Paid(a) \in Nat
        /\ FeesTo(a) \in Nat /\ Withdrawn(a) \in Nat
    BY BookTypes DEF World
  <2>3. /\ opening[a] \in Nat /\ balance[a] \in Nat /\ credited[a] \in Nat
        /\ gross[a] \in Nat
    BY DEF World, WorldType
  <2>4. /\ Into(a)' = Into(a) + CallsIn(t, a)
        /\ OutOf(a)' = OutOf(a) + CallsOut(t, a)
        /\ Paid(a)' = Paid(a) + PaidBy(t, a)
        /\ FeesTo(a)' = FeesTo(a) + FeeCredit(t, a)
        /\ Withdrawn(a)' = Withdrawn(a)
    BY ExecuteSums
  <2>5. QED BY <1>2, <1>3, <2>1, <2>2, <2>3, <2>4
<1>8. Receipted'
  <2>1. ASSUME NEW i \in 1..(n + 1)
        PROVE  GasUsed(i)' = txs'[i].gas
    <3>1. CASE i \in 1..n
      <4>1. GasUsed(i) = txs[i].gas
        BY <1>1, <3>1 DEF World, Receipted
      <4>2. GasUsed(i)' = GasUsed(i)
        BY <1>1, <1>5, <3>1 DEF GasUsed
      <4>3. QED BY <1>1, <3>1, <4>1, <4>2
    <3>2. CASE i = n + 1
      <4>1. t.gas \in Nat
        BY TxType
      <4>2. CASE n = 0
        BY <1>1, <1>5, <3>2, <4>1, <4>2 DEF GasUsed
      <4>3. CASE n # 0
        <5>1. i # 1 /\ i - 1 = n /\ n \in 1..n
          BY <1>1, <3>2, <4>3
        <5>2. receipts[n] \in Nat
          BY <1>4, <5>1
        <5>3. GasUsed(i)' = (t.gas + receipts[n]) - receipts[n]
          BY <1>5, <3>2, <4>3, <5>1 DEF GasUsed
        <5>4. QED BY <1>1, <3>2, <4>1, <5>2, <5>3
      <4>4. QED BY <4>2, <4>3
    <3>3. QED BY <1>1, <3>1, <3>2
  <2>2. QED BY <1>1, <1>5, <2>1 DEF Receipted
<1>9. ChainKind'
  <2>1. t.l1 \in Nat /\ (t.deposit \/ t.l1 > 0 => optimism) /\ withdrawals = <<>>
    BY TxType DEF Execute
  <2>2. ChainKind
    BY DEF World
  <2> HIDE DEF n
  <2>3. \A i \in 1..(n + 1) : i \in 1..n \/ i = n + 1
    BY <1>1
  <2>4. QED BY <1>1, <1>2, <2>1, <2>2, <2>3 DEF ChainKind
<1>10. QED BY <1>6, <1>7, <1>8, <1>9 DEF World

LEMMA WithdrawKeepsBooks ==
    ASSUME World, NEW w \in Withdrawals, Withdraw(w)
    PROVE  World'
<1> DEFINE n == Len(withdrawals)
           amount(x, a) == IF x.to = a THEN x.amount ELSE 0
<1>1. /\ n \in Nat /\ DOMAIN withdrawals = 1..n /\ DOMAIN withdrawals' = 1..(n + 1)
      /\ \A i \in 1..n : /\ withdrawals[i] \in Withdrawals
                         /\ withdrawals'[i] = withdrawals[i]
      /\ withdrawals'[n + 1] = w /\ withdrawals' \in Seq(Withdrawals)
  BY DEF World, WorldType, Withdraw
<1>2. UNCHANGED <<optimism, cached, opening, txs, receipts>> /\ ~ optimism
  BY DEF Withdraw, Credit
<1>3. \A x \in Withdrawals : \A a : amount(x, a) \in Nat
  BY AccountingAssumption
<1>4. \A a \in Accounts :
        /\ credited'[a] = credited[a] + amount(w, a)
        /\ gross'[a] = gross[a] + amount(w, a)
        /\ balance'[a] = balance[a] + amount(w, a)
  BY DEF Withdraw, Credit
<1>5. ASSUME NEW a
      PROVE  Withdrawn(a)' = Withdrawn(a) + amount(w, a)
  <2> DEFINE f == [i \in DOMAIN withdrawals |-> amount(withdrawals[i], a)]
             g == [i \in DOMAIN withdrawals' |-> amount(withdrawals'[i], a)]
  <2>1. /\ DOMAIN f = 1..n /\ DOMAIN g = 1..(n + 1)
        /\ \A i \in 1..n : f[i] \in Int /\ g[i] = f[i]
        /\ g[n + 1] = amount(w, a) /\ g[n + 1] \in Int
    BY <1>1, <1>3
  <2>2. Withdrawn(a) = SumFunction(f) /\ Withdrawn(a)' = SumFunction(g)
    BY DEF Withdrawn
  <2> HIDE DEF f, g, n, amount
  <2>3. SumFunction(g) = SumFunction(f) + amount(w, a)
    BY <1>1, <2>1, SumOfAppended
  <2>4. QED BY <2>2, <2>3
<1>6. ASSUME NEW a
      PROVE  /\ Into(a)' = Into(a) /\ OutOf(a)' = OutOf(a)
             /\ Paid(a)' = Paid(a) /\ FeesTo(a)' = FeesTo(a)
  BY <1>2 DEF Into, OutOf, Paid, FeesTo, FeeCredit
<1> HIDE DEF n, amount
<1>7. WorldType'
  <2>1. \A a \in Accounts :
          credited'[a] \in Nat /\ gross'[a] \in Nat /\ balance'[a] \in Nat
    <3> TAKE a \in Accounts
    <3>1. credited[a] \in Nat /\ gross[a] \in Nat /\ balance[a] \in Nat
      BY DEF World, WorldType
    <3>2. QED BY <1>3, <1>4, <3>1
  <2>2. /\ balance' = [a \in Accounts |-> balance'[a]]
        /\ credited' = [a \in Accounts |-> credited'[a]]
        /\ gross' = [a \in Accounts |-> gross'[a]]
    BY DEF Withdraw, Credit
  <2>3. balance' \in [Accounts -> Nat] /\ credited' \in [Accounts -> Nat]
        /\ gross' \in [Accounts -> Nat]
    BY <2>1, <2>2
  <2>4. QED BY <1>1, <1>2, <2>3 DEF World, WorldType
<1>8. Books'
  <2> SUFFICES ASSUME NEW a \in Accounts
               PROVE  /\ credited'[a] = FeesTo(a)' + Withdrawn(a)'
                      /\ gross'[a] = opening'[a] + credited'[a] + Into(a)'
                      /\ balance'[a] = gross'[a] - OutOf(a)' - Paid(a)'
    BY DEF Books
  <2>1. /\ credited[a] = FeesTo(a) + Withdrawn(a)
        /\ gross[a] = opening[a] + credited[a] + Into(a)
        /\ balance[a] = gross[a] - OutOf(a) - Paid(a)
    BY DEF World, Books
  <2>2. /\ Into(a) \in Nat /\ OutOf(a) \in Nat /\ Paid(a) \in Nat
        /\ FeesTo(a) \in Nat /\ Withdrawn(a) \in Nat
    BY BookTypes DEF World
  <2>3. /\ opening[a] \in Nat /\ balance[a] \in Nat /\ credited[a] \in Nat
        /\ gross[a] \in Nat
    BY DEF World, WorldType
  <2>4. amount(w, a) \in Nat
    BY <1>3
  <2>5. QED BY <1>2, <1>4, <1>5, <1>6, <2>1, <2>2, <2>3, <2>4
<1>9. Receipted'
  BY <1>2 DEF World, Receipted, GasUsed
<1>10. ChainKind'
  BY <1>2 DEF World, ChainKind
<1>11. QED BY <1>7, <1>8, <1>9, <1>10 DEF World

LEMMA FrozenBooks ==
    ASSUME World, UNCHANGED worldVars
    PROVE  World'
<1>1. WorldType'
  BY DEF World, WorldType, worldVars
<1>2. \A a : /\ Into(a)' = Into(a) /\ OutOf(a)' = OutOf(a) /\ Paid(a)' = Paid(a)
             /\ FeesTo(a)' = FeesTo(a) /\ Withdrawn(a)' = Withdrawn(a)
  BY DEF worldVars, Into, OutOf, Paid, FeesTo, FeeCredit, Withdrawn
<1>3. Books'
  BY <1>2 DEF World, Books, worldVars
<1>4. Receipted' /\ ChainKind'
  BY DEF World, Receipted, GasUsed, ChainKind, worldVars
<1>5. QED BY <1>1, <1>3, <1>4 DEF World

-----------------------------------------------------------------------------
\* What Passbook has made of the block, in terms of the block.

Undecodable == \E a \in Bundle : opening[a] > I128Max \/ balance[a] > I128Max

Explained ==
    \/ outcome = Pending
    \/ Undecodable /\ outcome = [Pending EXCEPT !.kind = "decode"]
    \/ AnyWatchedChanged /\ outcome = PartialBatch
    \/ outcome = FullBatch /\ \A a \in Bundle : Verdict(a) = "balanced"
    \/ /\ ~ Undecodable
       /\ \E a \in Bundle : Verdict(a) # "balanced"
                            /\ outcome = [Pending EXCEPT !.kind = Verdict(a)]

\* A sentence about the block does not change while the block does not.
LEMMA FrozenBlock ==
    ASSUME UNCHANGED worldVars
    PROVE  /\ PartialBatch' = PartialBatch /\ FullBatch' = FullBatch
           /\ Undecodable' = Undecodable /\ AnyWatchedChanged' = AnyWatchedChanged
           /\ Bundle' = Bundle
           /\ \A a : Verdict(a)' = Verdict(a)
<1>1. Bundle' = Bundle
  BY DEF worldVars, Bundle, Senders
<1>2. AnyWatchedChanged' = AnyWatchedChanged
  BY DEF worldVars, AnyWatchedChanged, Bundle, Senders
<1>3. Undecodable' = Undecodable
  BY DEF worldVars, Undecodable, Bundle, Senders
<1>4. GasRows' = GasRows
  BY DEF worldVars, GasRows, GasUsed, L1DataFee, Computed
<1>5. SystemCredits' = SystemCredits
  <2>1. L1SystemCredits' = L1SystemCredits
    BY DEF worldVars, L1SystemCredits, PriorityFee, GasUsed
  <2>2. DepositMintCredits' = DepositMintCredits
    BY DEF worldVars, DepositMintCredits
  <2>3. FeeVaultCredits' = FeeVaultCredits
    BY DEF worldVars, FeeVaultCredits, PriorityFee, GasUsed, L1DataFee, Computed
  <2>4. QED BY <2>1, <2>2, <2>3 DEF worldVars, SystemCredits
<1>6. SystemRows' = SystemRows /\ \A a : SystemSigned(a)' = SystemSigned(a)
  BY <1>5 DEF SystemRows, SystemSigned, CreditsOf
<1>7. BlockFrames' = BlockFrames
  BY <1>2 DEF worldVars, BlockFrames, FrameRows, Moving
<1>8. Erc20Rows' = Erc20Rows
  BY DEF worldVars, Erc20Rows, Erc20Key, BlockLogs, LogAt, LogIndex
<1>9. PartialBatch' = PartialBatch
  BY <1>4, <1>6, <1>8 DEF worldVars, PartialBatch
<1>10. FullBatch' = FullBatch
  BY <1>4, <1>6, <1>7, <1>8 DEF worldVars, FullBatch, Pending
<1>11. \A a : Verdict(a)' = Verdict(a)
  BY <1>4, <1>6, <1>7 DEF worldVars, Verdict
<1>12. QED BY <1>1, <1>2, <1>3, <1>9, <1>10, <1>11

LEMMA VerdictKinds ==
    ASSUME NEW a
    PROVE  Verdict(a) \in {"balanced", "residual", "overflow"}
BY DEF Verdict, ReconcileAccount

LEMMA PendingOutcome ==
    ASSUME Explained, outcome.kind = "none"
    PROVE  outcome = Pending
BY VerdictKinds DEF Explained, Pending, PartialBatch, FullBatch

LEMMA ProcessExplains ==
    ASSUME NEW available \in BOOLEAN, Process(available)
    PROVE  Explained'
<1>1. UNCHANGED worldVars
  BY DEF Process
<1>2. \/ Undecodable /\ outcome' = [Pending EXCEPT !.kind = "decode"]
      \/ AnyWatchedChanged /\ outcome' = PartialBatch
      \/ outcome' = FullBatch /\ \A a \in Bundle : Verdict(a) = "balanced"
      \/ /\ ~ Undecodable
         /\ \E a \in Bundle : Verdict(a) # "balanced"
                              /\ outcome' = [Pending EXCEPT !.kind = Verdict(a)]
  BY DEF Process, Undecodable
<1>3. Pending' = Pending
  BY DEF Pending
<1>4. QED BY <1>1, <1>2, <1>3, FrozenBlock DEF Explained

LEMMA FrozenOutcome ==
    ASSUME Explained, UNCHANGED <<worldVars, outcome>>
    PROVE  Explained'
<1>1. UNCHANGED worldVars /\ UNCHANGED outcome /\ Pending' = Pending
  BY DEF Pending
<1>2. QED BY <1>1, FrozenBlock DEF Explained

BlockInv == World /\ Explained

THEOREM BlockInvariant == Spec => []BlockInv
<1>1. Init => BlockInv
  BY InitKeepsBooks DEF BlockInv, Explained, Init
<1>2. BlockInv /\ [Next]_vars => BlockInv'
  <2> SUFFICES ASSUME BlockInv, [Next]_vars
               PROVE  BlockInv'
    OBVIOUS
  <2>1. ASSUME NEW t \in Txs, Execute(t)
        PROVE  BlockInv'
    <3>1. outcome = Pending /\ outcome' = Pending'
      BY <2>1, PendingOutcome DEF BlockInv, Execute, Credit, Pending
    <3>2. QED BY <2>1, <3>1, ExecuteKeepsBooks DEF BlockInv, Explained
  <2>2. ASSUME NEW w \in Withdrawals, Withdraw(w)
        PROVE  BlockInv'
    <3>1. outcome = Pending /\ outcome' = Pending'
      BY <2>2, PendingOutcome DEF BlockInv, Withdraw, Credit, Pending
    <3>2. QED BY <2>2, <3>1, WithdrawKeepsBooks DEF BlockInv, Explained
  <2>3. ASSUME NEW available \in BOOLEAN, Process(available)
        PROVE  BlockInv'
    BY <2>3, ProcessExplains, FrozenBooks DEF BlockInv, Process
  <2>4. CASE UNCHANGED vars
    BY <2>4, FrozenBooks, FrozenOutcome DEF BlockInv, vars
  <2>5. QED BY <2>1, <2>2, <2>3, <2>4 DEF Next
<1>3. QED BY <1>1, <1>2, PTL DEF Spec

-----------------------------------------------------------------------------
\* What a set of rows adds up to.

At(rows, a) == {r \in rows : r.address = a}
Wei(rows)   == SumFunction([r \in rows |-> r.wei])

LEMMA WeiType ==
    ASSUME NEW R, IsFiniteSet(R), \A r \in R : r.wei \in Int
    PROVE  Wei(R) \in Int
<1> DEFINE f == [r \in R |-> r.wei]
<1>1. DOMAIN f = R /\ \A r \in R : f[r] \in Int
  OBVIOUS
<1> HIDE DEF f
<1>2. SumFunction(f) \in Int
  BY <1>1, SumType, SumOfFunction
<1>3. QED BY <1>2 DEF Wei, f

LEMMA WeiSplit ==
    ASSUME NEW R, NEW T, IsFiniteSet(R), IsFiniteSet(T), R \cap T = {},
           \A r \in R \cup T : r.wei \in Int
    PROVE  Wei(R \cup T) = Wei(R) + Wei(T)
<1> DEFINE f == [r \in R \cup T |-> r.wei]
           g == [r \in R |-> r.wei]
           h == [r \in T |-> r.wei]
<1>1. /\ DOMAIN f = R \cup T /\ DOMAIN g = R /\ DOMAIN h = T
      /\ \A r \in R \cup T : f[r] \in Int
      /\ \A r \in R : g[r] = f[r]
      /\ \A r \in T : h[r] = f[r]
  OBVIOUS
<1> HIDE DEF f, g, h
<1>2. Sum(f, R \cup T) = Sum(f, R) + Sum(f, T)
  BY <1>1, SumSplit
<1>3. Sum(g, R) = Sum(f, R)
  BY <1>1, SumSame
<1>4. Sum(h, T) = Sum(f, T)
  BY <1>1, SumSame
<1>5. SumFunction(f) = SumFunction(g) + SumFunction(h)
  BY <1>1, <1>2, <1>3, <1>4, SumOfFunction, Zenon
<1>6. QED BY <1>5 DEF Wei, f, g, h

\* The rows h[x], one for each x.
LEMMA WeiOfImage ==
    ASSUME NEW h, NEW f, NEW S, IsFiniteSet(S),
           \A x, y \in S : h[x] = h[y] => x = y,
           \A x \in S : f[x] \in Int /\ h[x].wei = f[x]
    PROVE  Wei({h[x] : x \in S}) = Sum(f, S)
<1> DEFINE R == {h[x] : x \in S}
           g == [r \in R |-> r.wei]
<1>1. DOMAIN g = R /\ \A x \in S : g[h[x]] = f[x]
  OBVIOUS
<1> HIDE DEF g
<1>2. Sum(g, R) = Sum(f, S)
  BY <1>1, SumImage
<1> HIDE DEF R
<1>3. SumFunction(g) = Sum(f, S)
  BY <1>1, <1>2, SumOfFunction, Zenon
<1>4. QED BY <1>3 DEF Wei, g, R

\* What comes in and what goes out make up what the rows add up to.
LEMMA TotalsNet ==
    ASSUME NEW R, IsFiniteSet(R), \A r \in R : r.wei \in Int, NEW a
    PROVE  /\ Total(R, a, 1) \in Nat /\ Total(R, a, -1) \in Nat
           /\ Wei(At(R, a)) = Total(R, a, 1) - Total(R, a, -1)
<1> DEFINE A == At(R, a)
           P == {s \in R : s.address = a /\ 1 * s.wei > 0}
           N == {s \in R : s.address = a /\ (-1) * s.wei > 0}
           f == [r \in A |-> r.wei]
           p == [r \in P |-> 1 * r.wei]
           n == [r \in N |-> (-1) * r.wei]
           pp == [r \in A |-> IF r.wei > 0 THEN r.wei ELSE 0]
           nn == [r \in A |-> IF r.wei < 0 THEN -r.wei ELSE 0]
<1>1. P \in SUBSET A /\ N \in SUBSET A
  BY DEF At
<1>2. IsFiniteSet(A) /\ IsFiniteSet(P) /\ IsFiniteSet(N)
  BY FS_Subset DEF At
<1>3. \A r \in A : /\ f[r] \in Int /\ pp[r] \in Nat /\ nn[r] \in Nat
                   /\ pp[r] = f[r] + nn[r]
  BY DEF At
<1>4. /\ \A r \in P : pp[r] \in Int /\ p[r] = pp[r] /\ p[r] \in Nat
      /\ \A r \in A \ P : pp[r] = 0
      /\ \A r \in N : nn[r] \in Int /\ n[r] = nn[r] /\ n[r] \in Nat
      /\ \A r \in A \ N : nn[r] = 0
  BY DEF At
<1>5. DOMAIN f = A /\ DOMAIN p = P /\ DOMAIN n = N
  OBVIOUS
<1>6. Total(R, a, 1) = SumFunction(p) /\ Total(R, a, -1) = SumFunction(n)
      /\ Wei(A) = SumFunction(f)
  BY DEF Total, Wei
<1> HIDE DEF A, P, N, f, p, n, pp, nn
<1>7. Sum(pp, A) = Sum(f, A) + Sum(nn, A)
  <2>1. \A r \in A : f[r] \in Int /\ nn[r] \in Int /\ pp[r] = f[r] + nn[r]
    BY <1>3
  <2>2. QED BY <1>2, <2>1, SumPlus
<1>8. Sum(pp, A) = Sum(pp, P) /\ Sum(nn, A) = Sum(nn, N)
  BY <1>1, <1>2, <1>4, SumSupport
<1>9. Sum(p, P) = Sum(pp, P) /\ Sum(n, N) = Sum(nn, N)
  BY <1>2, <1>4, SumSame
<1>10. Sum(p, P) \in Nat /\ Sum(n, N) \in Nat
  BY <1>2, <1>4, SumNat
<1>11. Sum(f, A) \in Int
  BY <1>2, <1>3, SumType
<1>12. \A x \in Int : \A y, z \in Nat : y = x + z => x = y - z
  OBVIOUS
<1>13. Sum(f, A) = Sum(p, P) - Sum(n, N)
  <2>1. Sum(p, P) = Sum(f, A) + Sum(n, N)
    BY <1>7, <1>8, <1>9, Zenon
  <2>2. QED BY ONLY <1>10, <1>11, <1>12, <2>1, Zenon
<1>14. QED
  <2>1. /\ Total(R, a, 1) = Sum(p, P) /\ Total(R, a, -1) = Sum(n, N)
        /\ Wei(A) = Sum(f, A)
    BY <1>5, <1>6, SumOfFunction, Zenon
  <2>2. QED BY <1>10, <1>13, <2>1 DEF A

-----------------------------------------------------------------------------
\* The gas rows.

GasFee(i) == GasUsed(i) * txs[i].price + L1DataFee(i)
GasRow(i) == [key |-> <<"gas", i, txs[i].from>>, address |-> txs[i].from,
              wei |-> -GasFee(i)]
GasOf(a)  == SumFunction([i \in DOMAIN txs |-> IF txs[i].from = a THEN GasFee(i) ELSE 0])

LEMMA WorldTxs ==
    ASSUME World
    PROVE  /\ IsFiniteSet(DOMAIN txs) /\ DOMAIN txs \subseteq Nat \ {0}
           /\ \A i \in DOMAIN txs : txs[i] \in Txs /\ GasUsed(i) = txs[i].gas
<1>1. txs \in Seq(Txs)
  BY DEF World, WorldType
<1>2. DOMAIN txs = 1..Len(txs) /\ Len(txs) \in Nat /\ \A i \in DOMAIN txs : txs[i] \in Txs
  BY <1>1
<1>3. IsFiniteSet(DOMAIN txs)
  BY <1>2, FS_Interval
<1>4. QED BY <1>2, <1>3 DEF World, Receipted

\* The table of L1 data fees holds what was charged, if that can be known.
LEMMA L1FeeType ==
    ASSUME World, NEW i \in DOMAIN txs
    PROVE  /\ L1DataFee(i) \in Nat
           /\ txs[i].deposit => L1DataFee(i) = 0
           /\ CreditsRecognised => L1DataFee(i) = txs[i].l1
<1> DEFINE C == Computed
           f == Min(C)
<1>1. /\ txs[i].l1 \in Nat /\ (txs[i].deposit => txs[i].l1 = 0)
      /\ \A j \in C : j \in DOMAIN txs /\ j \in Nat /\ txs[j].l1 \in Nat
                      /\ ~ txs[j].deposit
  BY WorldTxs, TxType DEF Computed
<1>2. L1DataFee(i) = IF i \notin C THEN 0 ELSE txs[IF cached THEN f ELSE i].l1
  BY DEF L1DataFee
<1>3. i \in C => f \in C
  <2> SUFFICES ASSUME i \in C PROVE f \in C
    OBVIOUS
  <2>1. C \in SUBSET Nat /\ C # {}
    BY <1>1
  <2>2. \E m \in C : \A k \in C : m <= k
    <3> HIDE DEF C
    <3>1. QED BY <2>1, LeastNumber
  <2>3. QED BY <2>2 DEF Min
<1>4. CreditsRecognised =>
        /\ (i \notin C => txs[i].l1 = 0)
        /\ cached => \A j, k \in C : txs[j].l1 = txs[k].l1
  <2>1. txs[i] \in ToSet(txs)
    BY DEF ToSet
  <2>2. CreditsRecognised => (txs[i].l1 > 0 => txs[i].priced)
    BY <2>1 DEF CreditsRecognised
  <2>3. i \notin C => txs[i].deposit \/ ~ txs[i].priced
    BY DEF Computed
  <2>4. CreditsRecognised => (i \notin C => txs[i].l1 = 0)
    BY <1>1, <2>2, <2>3
  <2>5. QED BY <2>4 DEF CreditsRecognised
<1> HIDE DEF C, f
<1>5. QED BY <1>1, <1>2, <1>3, <1>4

LEMMA GasFeeType ==
    ASSUME World, NEW i \in DOMAIN txs
    PROVE  /\ GasFee(i) \in Nat
           /\ CreditsRecognised /\ txs[i].extra = 0 => GasFee(i) = PaidBy(txs[i], txs[i].from)
<1> DEFINE t == txs[i]
           used == t.gas * t.price
           l1 == L1DataFee(i)
<1>1. t \in Txs /\ GasUsed(i) = t.gas
  BY WorldTxs
<1>2. used \in Nat /\ t.l1 \in Nat /\ t.extra \in Nat /\ l1 \in Nat
  BY <1>1, TxType, NatTimes, L1FeeType
<1>3. GasFee(i) = used + l1 /\ Fee(t) = used + t.l1 + t.extra
  BY <1>1 DEF GasFee, Fee
<1>4. t.deposit => used = 0 /\ t.l1 = 0
  BY <1>1, TxType
<1>5. CreditsRecognised => l1 = t.l1
  BY L1FeeType
<1>6. PaidBy(t, t.from) = IF ~ t.deposit THEN Fee(t) ELSE 0
  BY DEF PaidBy
<1> HIDE DEF used, t, l1
<1>7. /\ GasFee(i) \in Nat
      /\ CreditsRecognised /\ t.extra = 0 => GasFee(i) = PaidBy(t, t.from)
  BY <1>2, <1>3, <1>4, <1>5, <1>6
<1>8. QED BY <1>7 DEF t

\* What the rows charge is what was paid, if every fee is recognised.
LEMMA GasIsPaid ==
    ASSUME World, NEW a
    PROVE  /\ GasOf(a) \in Nat
           /\ CreditsRecognised /\ (\A i \in DOMAIN txs : txs[i].from = a => txs[i].extra = 0)
                => GasOf(a) = Paid(a)
<1> DEFINE f == [i \in DOMAIN txs |-> IF txs[i].from = a THEN GasFee(i) ELSE 0]
           g == [i \in DOMAIN txs |-> PaidBy(txs[i], a)]
           Known == CreditsRecognised /\ \A i \in DOMAIN txs :
                      txs[i].from = a => txs[i].extra = 0
<1>1. IsFiniteSet(DOMAIN txs)
  BY WorldTxs
<1>2. ASSUME NEW i \in DOMAIN txs
      PROVE  f[i] \in Nat /\ g[i] \in Nat /\ (Known => f[i] = g[i])
  <2>1. txs[i] \in Txs /\ PaidBy(txs[i], a) \in Nat
    BY WorldTxs, TxAmounts DEF PaidBy
  <2>2. CASE txs[i].from = a
    BY <2>1, <2>2, GasFeeType
  <2>3. CASE txs[i].from # a
    BY <2>1, <2>3 DEF PaidBy
  <2>4. QED BY <2>2, <2>3
<1>3. DOMAIN f = DOMAIN txs /\ DOMAIN g = DOMAIN txs
  OBVIOUS
<1>4. GasOf(a) = SumFunction(f) /\ Paid(a) = SumFunction(g)
  BY DEF GasOf, Paid
<1> HIDE DEF f, g, Known
<1>5. GasOf(a) = Sum(f, DOMAIN txs) /\ Paid(a) = Sum(g, DOMAIN txs)
  BY <1>3, <1>4, SumOfFunction, Zenon
<1>6. Sum(f, DOMAIN txs) \in Nat
  BY <1>1, <1>2, SumNat
<1>7. Known => Sum(f, DOMAIN txs) = Sum(g, DOMAIN txs)
  <2>1. Known => \A i \in DOMAIN txs : g[i] \in Int /\ f[i] = g[i]
    BY <1>2
  <2>2. QED BY <1>1, <2>1, SumSame
<1>8. QED BY <1>5, <1>6, <1>7 DEF Known

LEMMA GasRowSet ==
    ASSUME World
    PROVE  /\ GasRows = {GasRow(i) : i \in {j \in DOMAIN txs : txs[j].from \in Watched}}
           /\ IsFiniteSet(GasRows)
           /\ \A r \in GasRows : r.wei \in Int /\ r.wei <= 0 /\ r.address \in Watched
<1> DEFINE G == {j \in DOMAIN txs : txs[j].from \in Watched}
           h == [i \in G |-> GasRow(i)]
<1>1. GasRows = {GasRow(i) : i \in G}
  BY DEF GasRows, GasRow, GasFee
<1>2. IsFiniteSet(G)
  BY WorldTxs, FS_Subset
<1>3. IsFiniteSet({h[i] : i \in G})
  <2> HIDE DEF h, G
  <2>1. QED BY <1>2, FiniteImage
<1>4. {h[i] : i \in G} = GasRows
  BY <1>1
<1>5. ASSUME NEW i \in G
      PROVE  /\ GasRow(i).wei \in Int /\ GasRow(i).wei <= 0
             /\ GasRow(i).address \in Watched
  <2>1. GasFee(i) \in Nat
    BY GasFeeType
  <2>2. QED BY <2>1 DEF GasRow
<1>6. QED BY <1>1, <1>3, <1>4, <1>5

LEMMA GasTotals ==
    ASSUME World, NEW a \in Watched
    PROVE  /\ Total(GasRows, a, -1) = GasOf(a)
           /\ Wei(At(GasRows, a)) = -GasOf(a)
<1> DEFINE D == DOMAIN txs
           K == {i \in D : txs[i].from = a /\ GasFee(i) > 0}
           N == {s \in GasRows : s.address = a /\ (-1) * s.wei > 0}
           h == [i \in K |-> GasRow(i)]
           n == [r \in N |-> (-1) * r.wei]
           f == [i \in D |-> IF txs[i].from = a THEN GasFee(i) ELSE 0]
<1>1. IsFiniteSet(D) /\ IsFiniteSet(K) /\ K \in SUBSET D
  BY WorldTxs, FS_Subset
<1>2. \A i \in D : GasFee(i) \in Nat
  BY GasFeeType
<1>3. N = {h[i] : i \in K}
  <2>1. ASSUME NEW i \in K PROVE GasRow(i) \in N
    BY <1>2, GasRowSet DEF GasRow
  <2>2. ASSUME NEW r \in N PROVE \E i \in K : r = GasRow(i)
    <3>1. PICK i \in D : r = GasRow(i)
      BY GasRowSet
    <3>2. i \in K
      BY <1>2, <3>1 DEF GasRow
    <3>3. QED BY <3>1, <3>2
  <2>3. QED BY <2>1, <2>2
<1>4. /\ \A i, j \in K : h[i] = h[j] => i = j
      /\ \A i \in K : f[i] \in Int /\ n[h[i]] = f[i]
  <2>1. \A i, j \in K : h[i] = h[j] => i = j
    BY DEF GasRow
  <2>2. ASSUME NEW i \in K PROVE f[i] \in Int /\ n[h[i]] = f[i]
    <3>1. h[i] \in N /\ h[i].wei = -GasFee(i) /\ GasFee(i) \in Nat
      BY <1>2, <1>3 DEF GasRow
    <3>2. QED BY <3>1
  <2>3. QED BY <2>1, <2>2
<1>5. \A i \in D \ K : f[i] = 0
  BY <1>2
<1>6. DOMAIN n = N /\ DOMAIN f = D
  OBVIOUS
<1>7. Total(GasRows, a, -1) = SumFunction(n) /\ GasOf(a) = SumFunction(f)
  <2>1. Total(GasRows, a, -1) = SumFunction(n)
    BY Zenon DEF Total
  <2>2. GasOf(a) = SumFunction(f)
    BY Zenon DEF GasOf
  <2>3. QED BY <2>1, <2>2
<1> HIDE DEF D, K, N, h, n, f
<1>8. Sum(n, {h[i] : i \in K}) = Sum(f, K)
  BY <1>1, <1>4, SumImage
<1>9. Sum(f, D) = Sum(f, K)
  BY <1>1, <1>4, <1>5, SumSupport
<1>10. Total(GasRows, a, -1) = GasOf(a)
  BY <1>3, <1>6, <1>7, <1>8, <1>9, SumOfFunction, Zenon
<1>11. Total(GasRows, a, 1) = 0
  <2> DEFINE P == {s \in GasRows : s.address = a /\ 1 * s.wei > 0}
             p == [r \in P |-> 1 * r.wei]
  <2>1. P = {}
    BY GasRowSet
  <2>2. DOMAIN p = {} /\ Total(GasRows, a, 1) = SumFunction(p)
    BY <2>1 DEF Total
  <2> HIDE DEF P, p
  <2>3. QED BY <2>2, SumOfFunction, SumEmpty, Zenon
<1>12. Wei(At(GasRows, a)) = 0 - GasOf(a)
  BY <1>10, <1>11, GasRowSet, TotalsNet
<1>13. GasOf(a) \in Nat
  BY GasIsPaid
<1>14. \A x \in Nat : 0 - x = -x
  OBVIOUS
<1>15. QED BY <1>10, <1>12, <1>13, <1>14, Zenon

-----------------------------------------------------------------------------
\* The rows of the calls.  sgn is 1 for the row of who receives, -1 for the row
\* of who sends.

Side(sgn)        == IF sgn = 1 THEN "in" ELSE "out"
Party(t, k, sgn) == IF sgn = 1 THEN Frames(t)[k].to ELSE Frames(t)[k].from
CallRow(i, k, sgn) ==
    [key |-> <<"eth", i, <<k, Side(sgn)>>>>, address |-> Party(txs[i], k, sgn),
     wei |-> IF sgn = 1 THEN Frames(txs[i])[k].value ELSE -Frames(txs[i])[k].value]
CallsOf(t, a, sgn) == IF sgn = 1 THEN CallsIn(t, a) ELSE CallsOut(t, a)
Seen(i, sgn) == {k \in Moving(txs[i]) : Party(txs[i], k, sgn) \in Watched}

LEMMA FrameRowSet ==
    ASSUME NEW i
    PROVE  FrameRows(i) = {CallRow(i, k, 1) : k \in Seen(i, 1)}
                          \cup {CallRow(i, k, -1) : k \in Seen(i, -1)}
BY DEF FrameRows, CallRow, Side, Party, Seen

LEMMA FrameType ==
    ASSUME NEW t \in Txs
    PROVE  /\ Moving(t) \subseteq {1, 2}
           /\ \A k \in {1, 2} : Frames(t)[k].value \in Nat
           /\ \A k \in Moving(t) : Frames(t)[k].value > 0
<1>1. t.value \in Nat /\ t.sends \in Nat
  BY TxType
<1>2. Frames(t)[1].value = t.value /\ Frames(t)[2].value = t.sends
  BY DEF Frames
<1>3. Moving(t) \subseteq {1, 2} /\ \A k \in Moving(t) : Frames(t)[k].value > 0
  BY DEF Moving
<1>4. QED BY <1>1, <1>2, <1>3

LEMMA CallRowType ==
    ASSUME World, NEW i \in DOMAIN txs, NEW sgn \in {1, -1}, NEW k \in Moving(txs[i])
    PROVE  /\ CallRow(i, k, sgn).wei \in Int
           /\ sgn * CallRow(i, k, sgn).wei = Frames(txs[i])[k].value
           /\ Frames(txs[i])[k].value \in Nat \ {0}
<1> DEFINE v == Frames(txs[i])[k].value
<1>1. v \in Nat /\ v > 0
  BY WorldTxs, FrameType
<1>2. CallRow(i, k, sgn).wei = IF sgn = 1 THEN v ELSE -v
  BY DEF CallRow
<1> HIDE DEF v
<1>3. CASE sgn = 1
  BY <1>1, <1>2, <1>3 DEF v
<1>4. CASE sgn = -1
  BY <1>1, <1>2, <1>4 DEF v
<1>5. QED BY <1>3, <1>4

LEMMA TwoCalls == IsFiniteSet({1}) /\ IsFiniteSet({1, 2})
<1>1. IsFiniteSet({1})
  BY FS_Singleton
<1>2. IsFiniteSet({1} \cup {2})
  BY <1>1, FS_AddElement
<1>3. {1} \cup {2} = {1, 2}
  OBVIOUS
<1>4. QED BY <1>1, <1>2, <1>3

\* The calls of one transaction that reach an account, one by one.
LEMMA CallsAddUp ==
    ASSUME NEW t \in Txs, NEW a, NEW sgn \in {1, -1},
           NEW f, \A k \in {1, 2} : f[k] = Frames(t)[k].value
    PROVE  Sum(f, {k \in Moving(t) : Party(t, k, sgn) = a}) = CallsOf(t, a, sgn)
<1> DEFINE K == {k \in Moving(t) : Party(t, k, sgn) = a}
           g == [k \in {1, 2} |-> IF k \in K THEN f[k] ELSE 0]
<1>1. t.value \in Nat /\ t.sends \in Nat
  BY TxType
<1>2. f[1] = t.value /\ f[2] = t.sends
  BY DEF Frames
<1>3. K \in SUBSET {1, 2}
  BY FrameType
<1>4. IsFiniteSet({1}) /\ IsFiniteSet({1, 2}) /\ {1, 2} = {1} \cup {2} /\ 2 \notin {1}
  BY TwoCalls
<1>5. IsFiniteSet(K)
  BY <1>3, <1>4, FS_Subset
<1>6. \A k \in {1, 2} : f[k] \in Int /\ g[k] \in Int
  BY <1>1, <1>2
<1>7. \A k \in K : g[k] = f[k] /\ f[k] \in Int
  BY <1>3, <1>6
<1>8. \A k \in {1, 2} \ K : g[k] = 0
  OBVIOUS
<1>9. /\ g[1] = IF t.ok /\ (IF sgn = 1 THEN t.to ELSE t.from) = a THEN t.value ELSE 0
      /\ g[2] = IF t.ok /\ (IF sgn = 1 THEN t.onward ELSE t.to) = a THEN t.sends ELSE 0
  <2>1. \A k \in {1, 2} : k \in K <=> /\ t.ok /\ Frames(t)[k].value > 0
                                      /\ Party(t, k, sgn) = a
    BY DEF Moving
  <2>2. Party(t, 1, sgn) = (IF sgn = 1 THEN t.to ELSE t.from)
        /\ Party(t, 2, sgn) = (IF sgn = 1 THEN t.onward ELSE t.to)
    BY DEF Party, Frames
  <2>3. g[1] = (IF 1 \in K THEN t.value ELSE 0) /\ g[2] = (IF 2 \in K THEN t.sends ELSE 0)
    BY <1>2
  <2>4. Frames(t)[1].value = t.value /\ Frames(t)[2].value = t.sends
    BY DEF Frames
  <2> HIDE DEF K, g
  <2>5. QED BY <1>1, <2>1, <2>2, <2>3, <2>4
<1> HIDE DEF K, g
<1>10. Sum(g, {1, 2}) = g[1] + g[2]
  <2>1. Sum(g, {1} \cup {2}) = Sum(g, {1}) + g[2]
    BY <1>4, <1>6, SumAdd
  <2>2. Sum(g, {1}) = g[1]
    BY <1>6, SumSingle
  <2>3. QED BY <1>4, <2>1, <2>2, Zenon
<1>11. Sum(g, {1, 2}) = Sum(g, K)
  <2> DEFINE S == {1, 2}
  <2>1. IsFiniteSet(S) /\ K \in SUBSET S /\ (\A k \in K : g[k] \in Int)
        /\ \A k \in S \ K : g[k] = 0
    BY <1>3, <1>4, <1>6, <1>8
  <2> HIDE DEF S
  <2>2. Sum(g, S) = Sum(g, K)
    BY <2>1, SumSupport
  <2>3. QED BY <2>2 DEF S
<1>12. Sum(g, K) = Sum(f, K)
  BY <1>5, <1>7, SumSame
<1>13. g[1] + g[2] = CallsOf(t, a, sgn)
  BY <1>1, <1>9 DEF CallsOf, CallsIn, CallsOut
<1>14. Sum(f, K) = CallsOf(t, a, sgn)
  BY <1>10, <1>11, <1>12, <1>13, Zenon
<1>15. QED BY <1>14 DEF K

LEMMA FrameRowsType ==
    ASSUME World
    PROVE  /\ IsFiniteSet(BlockFrames)
           /\ \A r \in BlockFrames : r.wei \in Int /\ r.address \in Watched
<1> DEFINE D == DOMAIN txs
           P == [i \in D |-> FrameRows(i)]
<1>1. ASSUME NEW i \in D
      PROVE  /\ IsFiniteSet(P[i])
             /\ \A r \in P[i] : r.wei \in Int /\ r.address \in Watched
  <2>1. ASSUME NEW sgn \in {1, -1}
        PROVE  /\ IsFiniteSet({CallRow(i, k, sgn) : k \in Seen(i, sgn)})
               /\ \A k \in Seen(i, sgn) : CallRow(i, k, sgn).wei \in Int
                                          /\ CallRow(i, k, sgn).address \in Watched
    <3> DEFINE h == [k \in Seen(i, sgn) |-> CallRow(i, k, sgn)]
    <3>1. IsFiniteSet({1, 2}) /\ Seen(i, sgn) \in SUBSET {1, 2}
      BY WorldTxs, FrameType, TwoCalls DEF Seen
    <3>2. IsFiniteSet(Seen(i, sgn))
      BY <3>1, FS_Subset
    <3>3. {h[k] : k \in Seen(i, sgn)} = {CallRow(i, k, sgn) : k \in Seen(i, sgn)}
      OBVIOUS
    <3> HIDE DEF h
    <3>4. IsFiniteSet({h[k] : k \in Seen(i, sgn)})
      BY <3>2, FiniteImage
    <3>5. \A k \in Seen(i, sgn) : CallRow(i, k, sgn).wei \in Int
                                  /\ CallRow(i, k, sgn).address \in Watched
      BY CallRowType DEF Seen, CallRow
    <3>6. QED BY <3>3, <3>4, <3>5
  <2>2. P[i] = {CallRow(i, k, 1) : k \in Seen(i, 1)} \cup {CallRow(i, k, -1) : k \in Seen(i, -1)}
    BY FrameRowSet
  <2>3. IsFiniteSet({CallRow(i, k, 1) : k \in Seen(i, 1)}
                      \cup {CallRow(i, k, -1) : k \in Seen(i, -1)})
    BY <2>1, FS_Union
  <2>4. QED BY <2>1, <2>2, <2>3
<1>2. IsFiniteSet(D)
  BY WorldTxs
<1>3. UNION {P[i] : i \in D} = UNION {FrameRows(i) : i \in D}
  OBVIOUS
<1> HIDE DEF P, D
<1>4. IsFiniteSet(UNION {P[i] : i \in D})
  BY <1>1, <1>2, FiniteFamily
<1>5. \A r \in UNION {P[i] : i \in D} : r.wei \in Int /\ r.address \in Watched
  BY <1>1
<1>6. BlockFrames = {} \/ BlockFrames = UNION {P[i] : i \in D}
  BY <1>3 DEF BlockFrames, D
<1>7. QED BY <1>4, <1>5, <1>6, FS_EmptySet

\* With the gate open the frames show what the calls moved.
LEMMA FrameTotals ==
    ASSUME World, AnyWatchedChanged, NEW a \in Watched, NEW sgn \in {1, -1}
    PROVE  Total(BlockFrames, a, sgn) = IF sgn = 1 THEN Into(a) ELSE OutOf(a)
<1> DEFINE D == DOMAIN txs
           K(i) == {k \in Moving(txs[i]) : Party(txs[i], k, sgn) = a}
           P == [i \in D |-> {CallRow(i, k, sgn) : k \in K(i)}]
           F == {s \in BlockFrames : s.address = a /\ sgn * s.wei > 0}
           n == [r \in F |-> sgn * r.wei]
           g == [i \in D |-> CallsOf(txs[i], a, sgn)]
<1>1. IsFiniteSet(D)
  BY WorldTxs
<1>2. F = UNION {P[i] : i \in D}
  <2>1. ASSUME NEW i \in D, NEW k \in K(i)
        PROVE  CallRow(i, k, sgn) \in F
    <3>1. k \in Seen(i, sgn)
      BY DEF Seen
    <3>2. CallRow(i, k, sgn) \in FrameRows(i)
      BY <3>1, FrameRowSet
    <3>3. CallRow(i, k, sgn) \in BlockFrames
      BY <3>2 DEF BlockFrames
    <3>4. CallRow(i, k, sgn).address = a
      BY DEF CallRow
    <3>5. sgn * CallRow(i, k, sgn).wei > 0
      BY CallRowType
    <3>6. QED BY <3>3, <3>4, <3>5
  <2>2. ASSUME NEW r \in F
        PROVE  \E i \in D : \E k \in K(i) : r = CallRow(i, k, sgn)
    <3>1. PICK i \in D : r \in FrameRows(i)
      BY DEF BlockFrames
    <3>2. PICK s \in {1, -1} : \E k \in Seen(i, s) : r = CallRow(i, k, s)
      BY <3>1, FrameRowSet
    <3>3. PICK k \in Seen(i, s) : r = CallRow(i, k, s)
      BY <3>2
    <3>4. k \in Moving(txs[i])
      BY DEF Seen
    <3>5. s * r.wei > 0 /\ r.wei \in Int
      BY <3>3, <3>4, CallRowType
    <3>6. sgn * r.wei > 0 /\ r.address = a
      OBVIOUS
    <3>7. s = sgn
      BY <3>2, <3>5, <3>6
    <3>8. Party(txs[i], k, sgn) = a
      BY <3>3, <3>6, <3>7 DEF CallRow
    <3>9. QED BY <3>3, <3>4, <3>7, <3>8
  <2>3. QED BY <2>1, <2>2
<1>3. ASSUME NEW i \in D
      PROVE  /\ IsFiniteSet(P[i]) /\ g[i] = Sum(n, P[i])
             /\ \A r \in P[i] : n[r] \in Int
  <2> DEFINE h == [k \in K(i) |-> CallRow(i, k, sgn)]
             f == [k \in {1, 2} |-> Frames(txs[i])[k].value]
  <2>1. IsFiniteSet({1, 2}) /\ K(i) \in SUBSET {1, 2} /\ txs[i] \in Txs
    BY WorldTxs, FrameType, TwoCalls
  <2>2. IsFiniteSet(K(i))
    BY <2>1, FS_Subset
  <2>3. P[i] = {h[k] : k \in K(i)}
    OBVIOUS
  <2>4. \A k \in K(i) : f[k] \in Int /\ n[h[k]] = f[k]
    <3> TAKE k \in K(i)
    <3>1. h[k] \in F
      BY <1>2, <2>3
    <3>2. QED BY <2>1, <3>1, CallRowType
  <2>5. \A k, l \in K(i) : h[k] = h[l] => k = l
    BY DEF CallRow
  <2>6. \A k \in {1, 2} : f[k] = Frames(txs[i])[k].value
    OBVIOUS
  <2>7. g[i] = CallsOf(txs[i], a, sgn)
    OBVIOUS
  <2> HIDE DEF h, f, n, P, g
  <2>8. Sum(f, K(i)) = g[i]
    BY <2>1, <2>6, <2>7, CallsAddUp
  <2> HIDE DEF K
  <2>9. Sum(n, {h[k] : k \in K(i)}) = Sum(f, K(i))
    BY <2>2, <2>4, <2>5, SumImage
  <2>10. IsFiniteSet({h[k] : k \in K(i)})
    BY <2>2, FiniteImage
  <2>11. QED BY <2>3, <2>4, <2>8, <2>9, <2>10
<1>4. \A i, j \in D : i # j => P[i] \cap P[j] = {}
  BY DEF CallRow
<1>5. DOMAIN n = F /\ DOMAIN g = D
  OBVIOUS
<1>6. Total(BlockFrames, a, sgn) = SumFunction(n)
  BY Zenon DEF Total
<1>7. SumFunction(g) = IF sgn = 1 THEN Into(a) ELSE OutOf(a)
  <2>1. CASE sgn = 1
    BY <2>1 DEF Into, CallsOf
  <2>2. CASE sgn = -1
    BY <2>2 DEF OutOf, CallsOf
  <2>3. QED BY <2>1, <2>2
<1> HIDE DEF D, P, F, n, g
<1>8. \A i \in D : \A r \in P[i] : n[r] \in Int
  BY <1>3
<1>9. Sum(n, UNION {P[i] : i \in D}) = Sum(g, D)
  BY <1>1, <1>3, <1>4, <1>8, SumFamily
<1>10. SumFunction(n) = SumFunction(g)
  BY <1>2, <1>5, <1>9, SumOfFunction, Zenon
<1>11. QED BY <1>6, <1>7, <1>10, Zenon

-----------------------------------------------------------------------------
\* What the credits show of what the code makes of the block: never more, and all of
\* it if it is in range.

Shows(s, y) == s \in Nat /\ y \in Nat /\ s <= y /\ (y <= I128Max => s = y)

LEMMA ShowsPlus ==
    ASSUME NEW s, NEW y, Shows(s, y), NEW u, NEW z, Shows(u, z)
    PROVE  Shows(s + u, y + z)
<1>1. I128Max \in Nat
  BY AccountingAssumption
<1>2. QED BY <1>1 DEF Shows

LEMMA ShowsClamped ==
    ASSUME NEW x \in Nat
    PROVE  Shows(Clamp(x), x)
<1>1. I128Max \in Nat
  BY AccountingAssumption
<1>2. QED BY <1>1 DEF Shows, Clamp

LEMMA ShowsNothing == Shows(0, 0)
BY DEF Shows

LEMMA ShowsSum ==
    ASSUME NEW f, NEW g, NEW S, IsFiniteSet(S), \A x \in S : Shows(f[x], g[x])
    PROVE  Shows(Sum(f, S), Sum(g, S))
<1>1. \A x \in S : /\ f[x] \in Nat /\ g[x] \in Nat /\ f[x] \in Int /\ g[x] \in Int
                   /\ f[x] <= g[x]
  BY DEF Shows
<1>2. Sum(f, S) \in Nat /\ Sum(g, S) \in Nat
  BY <1>1, SumNat
<1>3. Sum(f, S) <= Sum(g, S)
  BY <1>1, SumAtMost
<1>4. ASSUME Sum(g, S) <= I128Max
      PROVE  Sum(f, S) = Sum(g, S)
  <2>1. \A x \in S : g[x] <= Sum(g, S)
    BY <1>1, SumHasPart
  <2>2. \A b, c, d \in Int : b <= c /\ c <= d => b <= d
    OBVIOUS
  <2>3. I128Max \in Int /\ Sum(g, S) \in Int
    BY <1>2, AccountingAssumption
  <2>4. \A x \in S : g[x] <= I128Max
    BY <1>1, <1>4, <2>1, <2>2, <2>3, Zenon
  <2>5. \A x \in S : f[x] = g[x]
    BY <1>4, <2>4 DEF Shows
  <2>6. QED BY <1>1, <2>5, SumSame
<1>5. QED BY <1>2, <1>3, <1>4 DEF Shows

LEMMA NettedAt ==
    ASSUME NEW source, NEW x, NEW total \in Nat, NEW a \in Watched
    PROVE  /\ IsFiniteSet(At(Netted(source, x, total), a))
           /\ Wei(At(Netted(source, x, total), a)) = IF a = x THEN Clamp(total) ELSE 0
           /\ \A c \in Netted(source, x, total) :
                c.source = <<source, 0>> /\ c.wei \in Nat /\ c.address \in Watched
<1> DEFINE c == [source |-> <<source, 0>>, address |-> x, wei |-> Clamp(total)]
           N == At(Netted(source, x, total), a)
           f == [r \in N |-> r.wei]
<1>1. Clamp(total) \in Nat
  BY AccountingAssumption DEF Clamp
<1>2. N = IF total = 0 \/ a # x THEN {} ELSE {c}
  <2>1. c.address = x
    OBVIOUS
  <2> HIDE DEF c
  <2>2. Netted(source, x, total) = IF total = 0 \/ x \notin Watched THEN {} ELSE {c}
    BY DEF Netted, c
  <2>3. QED BY <2>1, <2>2 DEF At
<1>3. total = 0 => Clamp(total) = 0
  BY AccountingAssumption DEF Clamp
<1>5. DOMAIN f = N /\ (N = {c} => f[c] = Clamp(total)) /\ Wei(N) = SumFunction(f)
  BY DEF Wei
<1>6. \A d \in Netted(source, x, total) :
        d.source = <<source, 0>> /\ d.wei \in Nat /\ d.address \in Watched
  BY <1>1 DEF Netted
<1> HIDE DEF N, c, f
<1>7. CASE total = 0 \/ a # x
  <2>1. N = {}
    BY <1>2, <1>7
  <2>2. Wei(N) = 0
    BY <1>5, <2>1, SumOfFunction, SumEmpty, Zenon
  <2>3. QED BY <1>3, <1>6, <1>7, <2>1, <2>2, FS_EmptySet DEF N
<1>8. CASE ~ (total = 0 \/ a # x)
  <2>0. N = {c}
    BY <1>2, <1>8
  <2>1. f[c] = Clamp(total) /\ f[c] \in Int
    BY <1>1, <1>5, <2>0
  <2>2. Sum(f, {c}) = f[c]
    BY <2>1, SumSingle
  <2>3. Wei(N) = Clamp(total)
    BY <1>5, <2>0, <2>1, <2>2, SumOfFunction, Zenon
  <2>4. IsFiniteSet(N)
    BY <2>0, FS_Singleton
  <2>5. QED BY <1>6, <1>8, <2>3, <2>4 DEF N
<1>9. QED BY <1>7, <1>8

\* f is what some transactions pay x, g what all pay a, as the code sees it.
Pays(f, g, x, a) ==
    /\ DOMAIN f \subseteq DOMAIN txs
    /\ \A i \in DOMAIN f : f[i] \in Nat
    /\ a # x => \A i \in DOMAIN txs : g[i] = 0
    /\ a = x => /\ \A i \in DOMAIN f : f[i] = g[i]
                /\ \A i \in DOMAIN txs \ DOMAIN f : g[i] = 0

LEMMA NettedShows ==
    ASSUME World, NEW source, NEW x, NEW a \in Watched, NEW f, NEW g, Pays(f, g, x, a)
    PROVE  /\ Shows(Wei(At(Netted(source, x, SumFunction(f)), a)), Sum(g, DOMAIN txs))
           /\ SumFunction(f) \in Nat
<1> DEFINE p == DOMAIN f
<1>0. /\ p \in SUBSET DOMAIN txs
      /\ \A i \in p : f[i] \in Nat
      /\ a # x => \A i \in DOMAIN txs : g[i] = 0
      /\ a = x => /\ \A i \in p : f[i] = g[i]
                  /\ \A i \in DOMAIN txs \ p : g[i] = 0
      /\ p = DOMAIN f
  BY DEF Pays
<1> HIDE DEF p
<1>1. IsFiniteSet(DOMAIN txs) /\ IsFiniteSet(p)
  BY <1>0, WorldTxs, FS_Subset
<1>2. SumFunction(f) = Sum(f, p) /\ Sum(f, p) \in Nat
  BY <1>0, <1>1, SumOfFunction, SumNat
<1>3. Wei(At(Netted(source, x, SumFunction(f)), a)) = IF a = x THEN Clamp(Sum(f, p)) ELSE 0
  BY <1>2, NettedAt
<1>4. CASE a # x
  <2>1. Sum(g, DOMAIN txs) = 0
    BY <1>0, <1>1, <1>4, SumZero
  <2>2. QED BY <1>2, <1>3, <1>4, <2>1, ShowsNothing
<1>5. CASE a = x
  <2>1. \A i \in p : f[i] \in Int /\ g[i] \in Int /\ f[i] = g[i]
    <3> TAKE i \in p
    <3>1. f[i] \in Nat
      BY <1>0
    <3>2. f[i] = g[i]
      BY <1>0, <1>5, Zenon
    <3>3. QED BY <3>1, <3>2
  <2>2. Sum(g, DOMAIN txs) = Sum(g, p)
    <3>1. \A i \in DOMAIN txs \ p : g[i] = 0
      BY <1>0, <1>5
    <3>2. QED BY <1>0, <1>1, <2>1, <3>1, SumSupport
  <2>3. Sum(g, p) = Sum(f, p)
    BY <1>1, <2>1, SumSame
  <2>4. Shows(Clamp(Sum(f, p)), Sum(f, p))
    BY <1>2, ShowsClamped
  <2>5. QED BY <1>2, <1>3, <1>5, <2>2, <2>3, <2>4
<1>6. QED BY <1>4, <1>5

\* The fees of a transaction, as the code computes them.
LEMMA FeeTypes ==
    ASSUME World, NEW i \in DOMAIN txs
    PROVE  /\ PriorityFee(i) \in Nat
           /\ ~ txs[i].deposit => PriorityFee(i) = txs[i].gas * (txs[i].price - BaseFee)
           /\ BaseFee * GasUsed(i) = txs[i].gas * BaseFee /\ BaseFee * GasUsed(i) \in Nat
<1> DEFINE t == txs[i]
<1>1. t \in Txs /\ GasUsed(i) = t.gas
  BY WorldTxs
<1>2. t.gas \in Nat /\ t.price \in Nat /\ BaseFee \in Nat
  BY <1>1, TxType, AccountingAssumption
<1>3. \A b, c \in Nat : b * c \in Nat /\ b * c = c * b
  OBVIOUS
<1>4. PriorityFee(i) = (IF t.price > BaseFee THEN t.price - BaseFee ELSE 0) * t.gas
  BY <1>1 DEF PriorityFee
<1>5. PriorityFee(i) \in Nat
  <2>1. (IF t.price > BaseFee THEN t.price - BaseFee ELSE 0) \in Nat
    BY <1>2
  <2>2. QED BY <1>2, <1>3, <1>4, <2>1
<1>6. ~ t.deposit => PriorityFee(i) = t.gas * (t.price - BaseFee)
  <2>1. ~ t.deposit => t.price - BaseFee \in Nat
                       /\ (IF t.price > BaseFee THEN t.price - BaseFee ELSE 0)
                            = t.price - BaseFee
    BY <1>1, <1>2, TxType
  <2>2. QED BY <1>2, <1>3, <1>4, <2>1
<1>7. BaseFee * GasUsed(i) = t.gas * BaseFee /\ BaseFee * GasUsed(i) \in Nat
  BY <1>1, <1>2, <1>3
<1>8. QED BY <1>5, <1>6, <1>7

\* What the code takes the protocol to have credited.
ClaimedOf(i, a) ==
    IF txs[i].deposit THEN (IF a = txs[i].to THEN txs[i].mint ELSE 0)
    ELSE   (IF a = Coinbase THEN txs[i].gas * (txs[i].price - BaseFee) ELSE 0)
         + (IF optimism /\ a = BaseVault THEN txs[i].gas * BaseFee ELSE 0)
         + (IF optimism /\ a = L1Vault THEN L1DataFee(i) ELSE 0)
Claimed(a) == SumFunction([i \in DOMAIN txs |-> ClaimedOf(i, a)]) + Withdrawn(a)

\* Ethereum: withdrawals, netted per recipient, and the priority fees.
LEMMA L1CreditsShow ==
    ASSUME World, ~ optimism, NEW a \in Watched
    PROVE  /\ IsFiniteSet(CreditsOf(a))
           /\ Shows(Wei(CreditsOf(a)), Claimed(a))
           /\ \A c \in CreditsOf(a) : c.wei \in Nat /\ c.address \in Watched
<1> DEFINE D == DOMAIN txs
           W(x) == SumFunction([i \in DOMAIN withdrawals |->
                     IF withdrawals[i].to = x THEN withdrawals[i].amount ELSE 0])
           f == [i \in D |-> PriorityFee(i)]
           g == [i \in D |-> ClaimedOf(i, a)]
           A == At(Netted("withdrawal", a, W(a)), a)
           B == At(Netted("block_reward", Coinbase, SumFunction(f)), a)
<1>1. CreditsOf(a) = A \cup B
  <2>1. SystemCredits = (UNION {Netted("withdrawal", x, W(x)) : x \in Watched})
                        \cup Netted("block_reward", Coinbase, SumFunction(f))
    BY DEF SystemCredits, L1SystemCredits
  <2>2. \A x \in Watched : \A c \in Netted("withdrawal", x, W(x)) : c.address = x
    BY DEF Netted
  <2> DEFINE N == [x \in Watched |-> Netted("withdrawal", x, W(x))]
             R == Netted("block_reward", Coinbase, SumFunction(f))
  <2>3. /\ SystemCredits = (UNION {N[x] : x \in Watched}) \cup R
        /\ \A x \in Watched : \A c \in N[x] : c.address = x
        /\ A = At(N[a], a) /\ B = At(R, a)
    BY <2>1, <2>2
  <2> HIDE DEF N, R, A, B
  <2>4. ASSUME NEW c
        PROVE  c \in CreditsOf(a) <=> c \in A \/ c \in B
    <3>1. c \in CreditsOf(a) <=> c \in SystemCredits /\ c.address = a
      BY DEF CreditsOf
    <3>2. c \in SystemCredits <=> (\E x \in Watched : c \in N[x]) \/ c \in R
      <4>1. SystemCredits = (UNION {N[x] : x \in Watched}) \cup R
        BY <2>3
      <4>2. QED BY ONLY <4>1
    <3>3. (\E x \in Watched : c \in N[x]) /\ c.address = a <=> c \in N[a] /\ c.address = a
      BY <2>3
    <3>4. (c \in A <=> c \in N[a] /\ c.address = a) /\ (c \in B <=> c \in R /\ c.address = a)
      BY <2>3 DEF At
    <3>5. QED BY <3>1, <3>2, <3>3, <3>4
  <2>5. QED BY <2>4
<1>2. W(a) = Withdrawn(a) /\ W(a) \in Nat
  <2>1. W(a) = Withdrawn(a)
    BY DEF Withdrawn
  <2>2. Withdrawn(a) \in Nat
    BY BookTypes DEF World
  <2>3. QED BY <2>1, <2>2
<1>4. Shows(Wei(B), Sum(g, D)) /\ SumFunction(f) \in Nat
  <2>1. ASSUME NEW i \in D
        PROVE  /\ f[i] \in Nat
               /\ a # Coinbase => g[i] = 0
               /\ a = Coinbase => f[i] = g[i]
    <3>1. ~ txs[i].deposit
      BY DEF World, ChainKind
    <3>2. ClaimedOf(i, a) = (IF a = Coinbase THEN txs[i].gas * (txs[i].price - BaseFee)
                             ELSE 0) + 0 + 0
      BY <3>1 DEF ClaimedOf
    <3>3. PriorityFee(i) \in Nat
          /\ PriorityFee(i) = txs[i].gas * (txs[i].price - BaseFee)
      BY <3>1, FeeTypes
    <3>4. QED BY <3>2, <3>3
  <2>2. DOMAIN f = D /\ D \in SUBSET DOMAIN txs
    OBVIOUS
  <2>3. a = Coinbase => /\ \A i \in D : f[i] = g[i]
                        /\ \A i \in DOMAIN txs \ D : g[i] = 0
    BY <2>1
  <2> HIDE DEF f, g
  <2>4. Pays(f, g, Coinbase, a)
    BY <2>1, <2>2, <2>3 DEF Pays
  <2>5. QED BY <2>4, NettedShows
<1>5. /\ IsFiniteSet(A) /\ IsFiniteSet(B) /\ A \cap B = {}
      /\ \A c \in A \cup B : c.wei \in Nat /\ c.wei \in Int /\ c.address \in Watched
  <2>1. /\ IsFiniteSet(A)
        /\ \A c \in A : c.source = <<"withdrawal", 0>> /\ c.wei \in Nat /\ c.address \in Watched
    BY <1>2, NettedAt DEF At
  <2>2. /\ IsFiniteSet(B)
        /\ \A c \in B : c.source = <<"block_reward", 0>> /\ c.wei \in Nat /\ c.address \in Watched
    <3>1. SumFunction(f) \in Nat
      BY <1>4
    <3> HIDE DEF f
    <3>2. QED BY <3>1, NettedAt DEF At
  <2> HIDE DEF A, B
  <2>3. QED BY <2>1, <2>2
<1>6. Shows(Wei(A), Withdrawn(a))
  <2>1. Wei(A) = Clamp(W(a))
    BY <1>2, NettedAt
  <2>2. QED BY <1>2, <2>1, ShowsClamped
<1>7. Wei(A \cup B) = Wei(A) + Wei(B)
  <2> HIDE DEF A, B
  <2>1. QED BY <1>5, WeiSplit
<1>8. IsFiniteSet(A \cup B)
  BY <1>5, FS_Union
<1>10. Claimed(a) = Sum(g, D) + Withdrawn(a)
  BY SumOfFunction DEF Claimed
<1> HIDE DEF A, B, f, g, W, D
<1>11. Shows(Wei(B) + Wei(A), Sum(g, D) + Withdrawn(a))
  BY <1>4, <1>6, ShowsPlus
<1>12. Wei(A) \in Nat /\ Wei(B) \in Nat
  BY <1>4, <1>6 DEF Shows
<1>13. \A b, c \in Nat : b + c = c + b
  OBVIOUS
<1>14. Wei(A \cup B) = Wei(B) + Wei(A)
  BY <1>7, <1>12, <1>13, Zenon
<1>15. Shows(Wei(CreditsOf(a)), Claimed(a))
  BY <1>1, <1>10, <1>11, <1>14, Zenon
<1>16. QED BY <1>1, <1>5, <1>8, <1>15

\* The OP stack: what deposits mint, one credit each, ...
MintTo(i, a) == IF txs[i].deposit /\ txs[i].to = a THEN txs[i].mint ELSE 0

LEMMA MintsShow ==
    ASSUME World, NEW a \in Watched, NEW g, \A i \in DOMAIN txs : g[i] = MintTo(i, a)
    PROVE  /\ IsFiniteSet(At(DepositMintCredits, a))
           /\ Shows(Wei(At(DepositMintCredits, a)), Sum(g, DOMAIN txs))
           /\ \A c \in At(DepositMintCredits, a) :
                c.source[1] = "deposit_mint" /\ c.wei \in Nat /\ c.address \in Watched
<1> DEFINE D == DOMAIN txs
           K == {i \in D : txs[i].mint > 0 /\ txs[i].to = a}
           h == [i \in K |-> [source |-> <<"deposit_mint", i>>, address |-> txs[i].to,
                              wei |-> Clamp(txs[i].mint)]]
           f == [i \in D |-> IF i \in K THEN Clamp(txs[i].mint) ELSE 0]
<1>1. IsFiniteSet(D) /\ K \in SUBSET D /\ IsFiniteSet(K)
  BY WorldTxs, FS_Subset
<1>2. At(DepositMintCredits, a) = {h[i] : i \in K}
  <2> DEFINE J == {j \in DOMAIN txs : txs[j].mint > 0 /\ txs[j].to \in Watched}
             m(i) == [source |-> <<"deposit_mint", i>>, address |-> txs[i].to,
                      wei |-> Clamp(txs[i].mint)]
  <2>1. DepositMintCredits = {m(i) : i \in J}
    BY DEF DepositMintCredits
  <2>2. {h[i] : i \in K} = {m(i) : i \in K}
    OBVIOUS
  <2>3. \A i \in J : m(i).address = txs[i].to
    OBVIOUS
  <2>4. \A i : i \in K <=> i \in J /\ txs[i].to = a
    OBVIOUS
  <2> HIDE DEF m, J, K, h
  <2>5. At({m(i) : i \in J}, a) = {m(i) : i \in K}
    BY <2>3, <2>4 DEF At
  <2>6. QED BY <2>1, <2>2, <2>5
<1>3. \A i \in D : /\ txs[i].mint \in Nat /\ Clamp(txs[i].mint) \in Nat
                   /\ (txs[i].mint > 0 => txs[i].deposit)
  <2> TAKE i \in D
  <2>1. txs[i].mint \in Nat /\ (~ txs[i].deposit => txs[i].mint = 0)
    BY WorldTxs, TxType
  <2>2. I128Max \in Nat
    BY AccountingAssumption
  <2>3. QED BY <2>1, <2>2 DEF Clamp
<1>4. /\ \A i, j \in K : h[i] = h[j] => i = j
      /\ \A i \in K : f[i] \in Int /\ h[i].wei = f[i]
      /\ \A i \in D \ K : f[i] = 0
      /\ \A i \in K : h[i].source[1] = "deposit_mint" /\ h[i].wei \in Nat
                      /\ h[i].address \in Watched
  BY <1>3
<1>5. ASSUME NEW i \in D
      PROVE  Shows(f[i], g[i])
  <2>1. CASE i \in K
    <3>1. f[i] = Clamp(txs[i].mint) /\ g[i] = txs[i].mint
      BY <1>3, <2>1 DEF MintTo
    <3>2. QED BY <1>3, <3>1, ShowsClamped
  <2>2. CASE i \notin K
    <3>1. f[i] = 0 /\ g[i] = 0
      BY <1>3, <2>2 DEF MintTo
    <3>2. QED BY <3>1, ShowsNothing
  <2>3. QED BY <2>1, <2>2
<1> HIDE DEF h, f, K
<1>6. Wei({h[i] : i \in K}) = Sum(f, K)
  BY <1>1, <1>4, WeiOfImage
<1>7. Sum(f, D) = Sum(f, K)
  BY <1>1, <1>4, SumSupport
<1>8. Shows(Sum(f, D), Sum(g, D))
  BY <1>1, <1>5, ShowsSum
<1>9. IsFiniteSet({h[i] : i \in K})
  BY <1>1, FiniteImage
<1>10. QED BY <1>2, <1>4, <1>6, <1>7, <1>8, <1>9

\* ... and the three fee vaults.
LEMMA VaultsShow ==
    ASSUME World, optimism, NEW a \in Watched,
           NEW g1, \A i \in DOMAIN txs : g1[i] = (IF ~ txs[i].deposit /\ a = Coinbase
                     THEN txs[i].gas * (txs[i].price - BaseFee) ELSE 0),
           NEW g2, \A i \in DOMAIN txs : g2[i] = (IF ~ txs[i].deposit /\ a = BaseVault
                     THEN txs[i].gas * BaseFee ELSE 0),
           NEW g3, \A i \in DOMAIN txs : g3[i] = (IF ~ txs[i].deposit /\ a = L1Vault
                     THEN L1DataFee(i) ELSE 0)
    PROVE  /\ IsFiniteSet(At(FeeVaultCredits, a))
           /\ Shows(Wei(At(FeeVaultCredits, a)),
                    (Sum(g1, DOMAIN txs) + Sum(g2, DOMAIN txs)) + Sum(g3, DOMAIN txs))
           /\ \A c \in At(FeeVaultCredits, a) :
                c.source[1] # "deposit_mint" /\ c.wei \in Nat /\ c.address \in Watched
<1> DEFINE D == DOMAIN txs
           p == {i \in D : ~ txs[i].deposit}
           f1 == [i \in p |-> PriorityFee(i)]
           f2 == [i \in p |-> BaseFee * GasUsed(i)]
           f3 == [i \in p |-> L1DataFee(i)]
           N1 == Netted("sequencer_fee_vault", Coinbase, SumFunction(f1))
           N2 == Netted("base_fee_vault", BaseVault, SumFunction(f2))
           N3 == Netted("l1_fee_vault", L1Vault, SumFunction(f3))
<1>1. FeeVaultCredits = N1 \cup N2 \cup N3
  BY DEF FeeVaultCredits
<1>2. /\ DOMAIN f1 = p /\ DOMAIN f2 = p /\ DOMAIN f3 = p /\ p \in SUBSET D
      /\ \A i \in p : f1[i] = PriorityFee(i)
      /\ \A i \in p : f2[i] = BaseFee * GasUsed(i)
      /\ \A i \in p : f3[i] = L1DataFee(i)
      /\ \A i \in D : i \in p <=> ~ txs[i].deposit
  OBVIOUS
<1> HIDE DEF p, f1, f2, f3
<1>3. Shows(Wei(At(N1, a)), Sum(g1, D)) /\ SumFunction(f1) \in Nat
  <2>1. \A i \in p : f1[i] \in Nat /\ (a = Coinbase => f1[i] = g1[i])
    BY <1>2, FeeTypes
  <2>2. a # Coinbase => \A i \in D : g1[i] = 0
    OBVIOUS
  <2>3. a = Coinbase => /\ \A i \in p : f1[i] = g1[i]
                        /\ \A i \in D \ p : g1[i] = 0
    BY <1>2, <2>1
  <2>4. Pays(f1, g1, Coinbase, a)
    BY <1>2, <2>1, <2>2, <2>3 DEF Pays
  <2>5. QED BY <2>4, NettedShows
<1>4. Shows(Wei(At(N2, a)), Sum(g2, D)) /\ SumFunction(f2) \in Nat
  <2>1. \A i \in p : f2[i] \in Nat /\ (a = BaseVault => f2[i] = g2[i])
    BY <1>2, FeeTypes
  <2>2. a # BaseVault => \A i \in D : g2[i] = 0
    OBVIOUS
  <2>3. a = BaseVault => /\ \A i \in p : f2[i] = g2[i]
                         /\ \A i \in D \ p : g2[i] = 0
    BY <1>2, <2>1
  <2>4. Pays(f2, g2, BaseVault, a)
    BY <1>2, <2>1, <2>2, <2>3 DEF Pays
  <2>5. QED BY <2>4, NettedShows
<1>5. Shows(Wei(At(N3, a)), Sum(g3, D)) /\ SumFunction(f3) \in Nat
  <2>1. \A i \in p : f3[i] \in Nat /\ (a = L1Vault => f3[i] = g3[i])
    BY <1>2, L1FeeType
  <2>2. a # L1Vault => \A i \in D : g3[i] = 0
    OBVIOUS
  <2>3. a = L1Vault => /\ \A i \in p : f3[i] = g3[i]
                       /\ \A i \in D \ p : g3[i] = 0
    BY <1>2, <2>1
  <2>4. Pays(f3, g3, L1Vault, a)
    BY <1>2, <2>1, <2>2, <2>3 DEF Pays
  <2>5. QED BY <2>4, NettedShows
<1>6. /\ IsFiniteSet(At(N1, a)) /\ IsFiniteSet(At(N2, a)) /\ IsFiniteSet(At(N3, a))
      /\ \A c \in N1 : c.source[1] = "sequencer_fee_vault" /\ c.wei \in Nat /\ c.address \in Watched
      /\ \A c \in N2 : c.source[1] = "base_fee_vault" /\ c.wei \in Nat /\ c.address \in Watched
      /\ \A c \in N3 : c.source[1] = "l1_fee_vault" /\ c.wei \in Nat /\ c.address \in Watched
  BY <1>3, <1>4, <1>5, NettedAt
<1> HIDE DEF N1, N2, N3
<1> DEFINE A1 == At(N1, a)
           A2 == At(N2, a)
           A3 == At(N3, a)
<1>7. At(FeeVaultCredits, a) = (A1 \cup A2) \cup A3
  BY <1>1 DEF At
<1>8. /\ A1 \cap A2 = {} /\ (A1 \cup A2) \cap A3 = {}
      /\ \A c \in (A1 \cup A2) \cup A3 :
           c.source[1] # "deposit_mint" /\ c.wei \in Nat /\ c.wei \in Int
           /\ c.address \in Watched
  BY <1>6 DEF At
<1>9. IsFiniteSet(A1) /\ IsFiniteSet(A2) /\ IsFiniteSet(A3)
  BY <1>6
<1>10. Shows(Wei(A1), Sum(g1, D)) /\ Shows(Wei(A2), Sum(g2, D)) /\ Shows(Wei(A3), Sum(g3, D))
  BY <1>3, <1>4, <1>5
<1> HIDE DEF A1, A2, A3, D
<1>11. IsFiniteSet(A1 \cup A2) /\ IsFiniteSet((A1 \cup A2) \cup A3)
  BY <1>9, FS_Union
<1>12. Wei(A1 \cup A2) = Wei(A1) + Wei(A2)
  BY <1>8, <1>9, WeiSplit
<1>13. Wei((A1 \cup A2) \cup A3) = Wei(A1 \cup A2) + Wei(A3)
  BY <1>8, <1>9, <1>11, WeiSplit
<1>14. Shows((Wei(A1) + Wei(A2)) + Wei(A3), (Sum(g1, D) + Sum(g2, D)) + Sum(g3, D))
  BY <1>10, ShowsPlus
<1>15. Shows(Wei((A1 \cup A2) \cup A3), (Sum(g1, D) + Sum(g2, D)) + Sum(g3, D))
  BY <1>12, <1>13, <1>14, Zenon
<1>16. QED BY <1>7, <1>8, <1>11, <1>15 DEF D

LEMMA OpCreditsShow ==
    ASSUME World, optimism, NEW a \in Watched
    PROVE  /\ IsFiniteSet(CreditsOf(a))
           /\ Shows(Wei(CreditsOf(a)), Claimed(a))
           /\ \A c \in CreditsOf(a) : c.wei \in Nat /\ c.address \in Watched
<1> DEFINE D == DOMAIN txs
           A == At(DepositMintCredits, a)
           B == At(FeeVaultCredits, a)
           m == [i \in D |-> MintTo(i, a)]
           g1 == [i \in D |-> IF ~ txs[i].deposit /\ a = Coinbase
                    THEN txs[i].gas * (txs[i].price - BaseFee) ELSE 0]
           g2 == [i \in D |-> IF ~ txs[i].deposit /\ a = BaseVault
                    THEN txs[i].gas * BaseFee ELSE 0]
           g3 == [i \in D |-> IF ~ txs[i].deposit /\ a = L1Vault THEN L1DataFee(i) ELSE 0]
           g12 == [i \in D |-> g1[i] + g2[i]]
           g123 == [i \in D |-> g12[i] + g3[i]]
           phi == [i \in D |-> ClaimedOf(i, a)]
<1>1. CreditsOf(a) = A \cup B
  BY DEF CreditsOf, SystemCredits, At
<1>2. /\ IsFiniteSet(A) /\ Shows(Wei(A), Sum(m, D))
      /\ \A c \in A : c.source[1] = "deposit_mint" /\ c.wei \in Nat /\ c.address \in Watched
  <2>1. \A i \in DOMAIN txs : m[i] = MintTo(i, a)
    OBVIOUS
  <2> HIDE DEF m
  <2>2. QED BY <2>1, MintsShow
<1>3. /\ IsFiniteSet(B) /\ Shows(Wei(B), (Sum(g1, D) + Sum(g2, D)) + Sum(g3, D))
      /\ \A c \in B : c.source[1] # "deposit_mint" /\ c.wei \in Nat /\ c.address \in Watched
  <2>1. \A i \in DOMAIN txs : g1[i] = (IF ~ txs[i].deposit /\ a = Coinbase
                     THEN txs[i].gas * (txs[i].price - BaseFee) ELSE 0)
    OBVIOUS
  <2>2. \A i \in DOMAIN txs : g2[i] = (IF ~ txs[i].deposit /\ a = BaseVault
                     THEN txs[i].gas * BaseFee ELSE 0)
    OBVIOUS
  <2>3. \A i \in DOMAIN txs : g3[i] = (IF ~ txs[i].deposit /\ a = L1Vault
                     THEN L1DataFee(i) ELSE 0)
    OBVIOUS
  <2> HIDE DEF g1, g2, g3
  <2>4. QED BY <2>1, <2>2, <2>3, VaultsShow
<1>4. ASSUME NEW i \in D
      PROVE  /\ m[i] \in Nat /\ g1[i] \in Nat /\ g2[i] \in Nat /\ g3[i] \in Nat
             /\ phi[i] = m[i] + g123[i]
  <2> DEFINE t == txs[i]
             c == t.gas * (t.price - BaseFee)
             b == t.gas * BaseFee
             l == L1DataFee(i)
  <2>1. t \in Txs
    BY WorldTxs
  <2>2. ~ t.deposit => c \in Nat
    BY FeeTypes
  <2>3. b \in Nat
    BY FeeTypes
  <2>4. t.mint \in Nat /\ l \in Nat
    BY <2>1, TxType, L1FeeType
  <2>5. ClaimedOf(i, a) = IF t.deposit THEN (IF a = t.to THEN t.mint ELSE 0)
                          ELSE (IF a = Coinbase THEN c ELSE 0)
                               + (IF a = BaseVault THEN b ELSE 0)
                               + (IF a = L1Vault THEN l ELSE 0)
    BY DEF ClaimedOf
  <2>6. /\ m[i] = IF t.deposit /\ t.to = a THEN t.mint ELSE 0
        /\ g1[i] = IF ~ t.deposit /\ a = Coinbase THEN c ELSE 0
        /\ g2[i] = IF ~ t.deposit /\ a = BaseVault THEN b ELSE 0
        /\ g3[i] = IF ~ t.deposit /\ a = L1Vault THEN l ELSE 0
        /\ g123[i] = (g1[i] + g2[i]) + g3[i]
        /\ phi[i] = ClaimedOf(i, a)
    BY DEF MintTo
  <2> HIDE DEF t, c, b, l, m, g1, g2, g3, g12, g123, phi
  <2>7. CASE t.deposit
    BY <2>4, <2>5, <2>6, <2>7
  <2>8. CASE ~ t.deposit
    BY <2>2, <2>3, <2>4, <2>5, <2>6, <2>8
  <2>9. QED BY <2>7, <2>8
<1>5. IsFiniteSet(D)
  BY WorldTxs
<1>7. \A i \in D : g12[i] = g1[i] + g2[i] /\ g123[i] = g12[i] + g3[i]
  OBVIOUS
<1> HIDE DEF A, B, D, m, g1, g2, g3, g12, g123, phi
<1>8. \A i \in D : /\ m[i] \in Int /\ g1[i] \in Int /\ g2[i] \in Int /\ g3[i] \in Int
                   /\ g12[i] \in Int /\ g123[i] \in Int
  BY <1>4, <1>7
<1>9. Sum(g12, D) = Sum(g1, D) + Sum(g2, D)
  BY <1>5, <1>7, <1>8, SumPlus
<1>10. Sum(g123, D) = Sum(g12, D) + Sum(g3, D)
  BY <1>5, <1>7, <1>8, SumPlus
<1>11. Sum(phi, D) = Sum(m, D) + Sum(g123, D)
  BY <1>4, <1>5, <1>8, SumPlus
<1>12. Claimed(a) = Sum(phi, D)
  <2>1. Claimed(a) = Sum(phi, D) + Withdrawn(a)
    <3>1. Claimed(a) = SumFunction(phi) + Withdrawn(a) /\ DOMAIN phi = D
      BY DEF Claimed, phi, D
    <3>2. QED BY <3>1, SumOfFunction, Zenon
  <2>2. Sum(phi, D) \in Int
    <3>1. \A i \in D : phi[i] \in Int
      BY <1>4, <1>8
    <3>2. QED BY <1>5, <3>1, SumType
  <2>3. Withdrawn(a) = 0
    <3> DEFINE f == [i \in DOMAIN withdrawals |->
                       IF withdrawals[i].to = a THEN withdrawals[i].amount ELSE 0]
    <3>1. DOMAIN f = {}
      BY DEF World, ChainKind
    <3>2. Withdrawn(a) = SumFunction(f)
      BY DEF Withdrawn
    <3> HIDE DEF f
    <3>3. QED BY <3>1, <3>2, SumOfFunction, SumEmpty, Zenon
  <2>4. \A b \in Int : b + 0 = b
    OBVIOUS
  <2>5. QED BY <2>1, <2>2, <2>3, <2>4, Zenon
<1>13. Wei(A \cup B) = Wei(A) + Wei(B)
  <2>1. A \cap B = {} /\ \A c \in A \cup B : c.wei \in Int
    BY <1>2, <1>3
  <2>2. QED BY <1>2, <1>3, <2>1, WeiSplit
<1>14. Shows(Wei(A) + Wei(B), Sum(m, D) + ((Sum(g1, D) + Sum(g2, D)) + Sum(g3, D)))
  BY <1>2, <1>3, ShowsPlus
<1>15. Shows(Wei(A \cup B), Claimed(a))
  BY <1>9, <1>10, <1>11, <1>12, <1>13, <1>14, Zenon
<1>16. IsFiniteSet(A \cup B)
  BY <1>2, <1>3, FS_Union
<1>17. QED BY <1>1, <1>2, <1>3, <1>15, <1>16

LEMMA CreditsShow ==
    ASSUME World, NEW a \in Watched
    PROVE  /\ IsFiniteSet(CreditsOf(a))
           /\ Shows(Wei(CreditsOf(a)), Claimed(a))
           /\ \A c \in CreditsOf(a) : c.wei \in Nat /\ c.address \in Watched
BY L1CreditsShow, OpCreditsShow

\* What the code takes for credited was credited, if every credit is recognised.
LEMMA ClaimedIsCredited ==
    ASSUME World, NEW a \in Watched
    PROVE  CreditsRecognised => Claimed(a) = credited[a]
<1> SUFFICES ASSUME CreditsRecognised PROVE Claimed(a) = credited[a]
  OBVIOUS
<1> DEFINE D == DOMAIN txs
           f == [i \in D |-> FeeCredit(txs[i], a)]
           g == [i \in D |-> ClaimedOf(i, a)]
<1>1. ASSUME NEW i \in D
      PROVE  f[i] \in Int /\ g[i] = f[i]
  <2> DEFINE t == txs[i]
             c == t.gas * (t.price - BaseFee)
             b == t.gas * BaseFee
  <2>1. t \in Txs /\ t \in ToSet(txs)
    BY WorldTxs DEF ToSet
  <2>2. /\ t.mint \in Nat /\ t.l1 \in Nat /\ t.extra \in Nat
        /\ FeeCredit(t, a) \in Nat /\ b \in Nat /\ (~ t.deposit => c \in Nat)
    BY <2>1, TxType, TxAmounts, FeeTypes
  <2>3. t.mint > 0 => t.mintTo = t.to
    BY <2>1 DEF CreditsRecognised
  <2>4. t.extra > 0 => ~ optimism \/ a # OperatorVault
    BY <2>1 DEF CreditsRecognised
  <2>5. L1DataFee(i) = t.l1
    BY L1FeeType
  <2>6. f[i] = IF t.deposit THEN (IF a = t.mintTo THEN t.mint ELSE 0)
               ELSE (IF a = Coinbase THEN c ELSE 0)
                    + (IF optimism /\ a = BaseVault THEN b ELSE 0)
                    + (IF optimism /\ a = L1Vault THEN t.l1 ELSE 0)
                    + (IF optimism /\ a = OperatorVault THEN t.extra ELSE 0)
    BY DEF FeeCredit
  <2>7. g[i] = IF t.deposit THEN (IF a = t.to THEN t.mint ELSE 0)
               ELSE (IF a = Coinbase THEN c ELSE 0)
                    + (IF optimism /\ a = BaseVault THEN b ELSE 0)
                    + (IF optimism /\ a = L1Vault THEN t.l1 ELSE 0)
    BY <2>5 DEF ClaimedOf
  <2>8. f[i] \in Int
    BY <2>2
  <2> HIDE DEF t, c, b, f, g
  <2>9. CASE t.deposit
    BY <2>2, <2>3, <2>6, <2>7, <2>8, <2>9
  <2>10. CASE ~ t.deposit
    BY <2>2, <2>4, <2>6, <2>7, <2>8, <2>10
  <2>11. QED BY <2>9, <2>10
<1>2. Claimed(a) = SumFunction(g) + Withdrawn(a) /\ FeesTo(a) = SumFunction(f)
  BY DEF Claimed, FeesTo
<1>3. DOMAIN f = D /\ DOMAIN g = D /\ IsFiniteSet(D)
  BY WorldTxs
<1> HIDE DEF f, g, D
<1>4. SumFunction(g) = SumFunction(f)
  <2>1. Sum(g, D) = Sum(f, D)
    BY <1>1, <1>3, SumSame
  <2>2. QED BY <1>3, <2>1, SumOfFunction, Zenon
<1>5. credited[a] = FeesTo(a) + Withdrawn(a)
  BY AccountingAssumption DEF World, Books
<1>6. QED BY <1>2, <1>4, <1>5

-----------------------------------------------------------------------------
\* One row per primary key.

LEMMA OneCreditPerSource ==
    /\ \A c, d \in SystemCredits : c.source = d.source /\ c.address = d.address => c = d
    /\ \A c \in SystemCredits : c.address \in Watched
<1>1. /\ \A c, d \in L1SystemCredits : c.source = d.source /\ c.address = d.address => c = d
      /\ \A c \in L1SystemCredits : c.address \in Watched
  <2> DEFINE W(x) == SumFunction([i \in DOMAIN withdrawals |->
                       IF withdrawals[i].to = x THEN withdrawals[i].amount ELSE 0])
             N == [x \in Watched |-> Netted("withdrawal", x, W(x))]
             R == Netted("block_reward", Coinbase, SumFunction([i \in DOMAIN txs |-> PriorityFee(i)]))
  <2>1. L1SystemCredits = (UNION {N[x] : x \in Watched}) \cup R
    BY DEF L1SystemCredits
  <2>2. \A x \in Watched : \A c \in N[x] :
          c.source = <<"withdrawal", 0>> /\ c.address = x
          /\ \A d \in N[x] : c = d
    BY DEF Netted
  <2>3. \A c \in R : c.source = <<"block_reward", 0>> /\ c.address \in Watched
                    /\ \A d \in R : c = d
    BY DEF Netted
  <2> HIDE DEF W, N, R
  <2>4. \A c \in L1SystemCredits : c \in R \/ \E x \in Watched : c \in N[x]
    BY <2>1
  <2>5. QED BY <2>2, <2>3, <2>4
<1>2. /\ \A c, d \in DepositMintCredits : c.source = d.source => c = d
      /\ \A c \in DepositMintCredits : c.source[1] = "deposit_mint" /\ c.address \in Watched
  BY DEF DepositMintCredits
<1>3. /\ \A c, d \in FeeVaultCredits : c.source = d.source => c = d
      /\ \A c \in FeeVaultCredits : c.source[1] # "deposit_mint" /\ c.address \in Watched
  BY DEF FeeVaultCredits, Netted
<1>4. QED BY <1>1, <1>2, <1>3 DEF SystemCredits

OneRowPerKey(R) == \A r, s \in R : r.key = s.key => r = s

LEMMA StoredOnce ==
    ASSUME NEW R, OneRowPerKey(R)
    PROVE  Stored(R) = R
BY DEF Stored, OneRowPerKey

SystemRow(c) == [key |-> <<"eth", 0, <<c.source, c.address>>>>, address |-> c.address,
                 wei |-> c.wei]

LEMMA RowKeys ==
    ASSUME World
    PROVE  /\ \A r \in GasRows : r.key[1] = "gas"
           /\ \A r \in SystemRows : r.key[1] = "eth" /\ r.key[2] = 0
           /\ \A r \in BlockFrames : r.key[1] = "eth" /\ r.key[2] # 0
           /\ OneRowPerKey(GasRows) /\ OneRowPerKey(SystemRows) /\ OneRowPerKey(BlockFrames)
<1>1. \A r \in GasRows : r.key[1] = "gas"
  BY DEF GasRows
<1>2. \A r \in SystemRows : r.key[1] = "eth" /\ r.key[2] = 0
  BY DEF SystemRows
<1>3. ASSUME NEW r \in BlockFrames
      PROVE  \E i \in DOMAIN txs : \E sgn \in {1, -1} : \E k \in Moving(txs[i]) :
               r = CallRow(i, k, sgn)
  <2>1. PICK i \in DOMAIN txs : r \in FrameRows(i)
    BY DEF BlockFrames
  <2>2. QED BY <2>1, FrameRowSet DEF Seen
<1>4. \A r \in BlockFrames : r.key[1] = "eth" /\ r.key[2] # 0
  BY <1>3, WorldTxs DEF CallRow
<1>5. OneRowPerKey(GasRows)
  BY DEF OneRowPerKey, GasRows
<1>6. OneRowPerKey(SystemRows)
  <2>1. \A c, d \in SystemCredits : SystemRow(c).key = SystemRow(d).key => c = d
    BY OneCreditPerSource DEF SystemRow
  <2>2. SystemRows = {SystemRow(c) : c \in SystemCredits}
    BY DEF SystemRows, SystemRow
  <2>3. QED BY <2>1, <2>2 DEF OneRowPerKey
<1>7. OneRowPerKey(BlockFrames)
  <2> SUFFICES ASSUME NEW r \in BlockFrames, NEW s \in BlockFrames, r.key = s.key
               PROVE  r = s
    BY DEF OneRowPerKey
  <2>1. PICK i \in DOMAIN txs, sr \in {1, -1} : \E k \in Moving(txs[i]) : r = CallRow(i, k, sr)
    BY <1>3
  <2>2. PICK k \in Moving(txs[i]) : r = CallRow(i, k, sr)
    BY <2>1
  <2>3. PICK j \in DOMAIN txs, ss \in {1, -1} : \E l \in Moving(txs[j]) : s = CallRow(j, l, ss)
    BY <1>3
  <2>4. PICK l \in Moving(txs[j]) : s = CallRow(j, l, ss)
    BY <2>3
  <2>5. i = j /\ k = l /\ Side(sr) = Side(ss)
    BY <2>2, <2>4 DEF CallRow
  <2>6. sr = ss
    BY <2>5 DEF Side
  <2>7. QED BY <2>2, <2>4, <2>5, <2>6
<1>8. QED BY <1>1, <1>2, <1>4, <1>5, <1>6, <1>7

\* INSERT OR REPLACE replaces nothing.
LEMMA NothingReplaced ==
    ASSUME World
    PROVE  /\ Stored(GasRows \cup SystemRows) = GasRows \cup SystemRows
           /\ Stored(GasRows \cup SystemRows \cup BlockFrames)
                = (GasRows \cup SystemRows) \cup BlockFrames
<1>1. OneRowPerKey(GasRows \cup SystemRows)
  BY RowKeys DEF OneRowPerKey
<1>2. OneRowPerKey((GasRows \cup SystemRows) \cup BlockFrames)
  BY RowKeys DEF OneRowPerKey
<1>3. QED BY <1>1, <1>2, StoredOnce

LEMMA SystemRowsShow ==
    ASSUME World, NEW a \in Watched
    PROVE  /\ IsFiniteSet(At(SystemRows, a))
           /\ Wei(At(SystemRows, a)) = Wei(CreditsOf(a))
           /\ \A r \in At(SystemRows, a) : r.wei \in Int
<1> DEFINE C == CreditsOf(a)
           h == [c \in C |-> SystemRow(c)]
           f == [c \in C |-> c.wei]
<1>1. At(SystemRows, a) = {h[c] : c \in C}
  <2>1. SystemRows = {SystemRow(c) : c \in SystemCredits}
    BY DEF SystemRows, SystemRow
  <2>2. \A c : SystemRow(c).address = c.address
    BY DEF SystemRow
  <2>3. {h[c] : c \in C} = {SystemRow(c) : c \in C}
    OBVIOUS
  <2> HIDE DEF h, C
  <2>4. \A c : c \in C <=> c \in SystemCredits /\ c.address = a
    BY DEF CreditsOf, C
  <2>5. At(SystemRows, a) = {SystemRow(c) : c \in C}
    BY <2>1, <2>2, <2>4 DEF At
  <2>6. QED BY <2>3, <2>5
<1>2. IsFiniteSet(C) /\ \A c \in C : c.wei \in Nat
  BY CreditsShow
<1>3. \A c, d \in C : h[c] = h[d] => c = d
  BY OneCreditPerSource DEF SystemRow, CreditsOf
<1>4. \A c \in C : f[c] \in Int /\ h[c].wei = f[c]
  BY <1>2 DEF SystemRow
<1>5. DOMAIN f = C /\ Wei(C) = SumFunction(f)
  BY DEF Wei
<1> HIDE DEF C, h, f
<1>6. Wei({h[c] : c \in C}) = Sum(f, C)
  BY <1>2, <1>3, <1>4, WeiOfImage
<1>7. IsFiniteSet({h[c] : c \in C})
  BY <1>2, FiniteImage
<1>8. Wei({h[c] : c \in C}) = Wei(C)
  BY <1>5, <1>6, SumOfFunction, Zenon
<1>9. QED BY <1>1, <1>4, <1>7, <1>8 DEF C

-----------------------------------------------------------------------------
\* i128.

LEMMA Remainder == \A y \in Int : \A n \in Nat \ {0} : y % n \in 0..(n - 1)
OBVIOUS

LEMMA SmallRemainder == \A y \in Nat : \A n \in Nat \ {0} : y < n => y % n = y
OBVIOUS

LEMMA WrapFits ==
    ASSUME NEW x \in Int
    PROVE  Wrap(x) \in Int /\ Wrap(x) <= I128Max
<1>1. I128Max \in Nat
  BY AccountingAssumption
<1>2. (x + I128Max + 1) % (2 * (I128Max + 1)) \in 0..(2 * (I128Max + 1) - 1)
  BY <1>1, Remainder
<1>3. QED BY <1>1, <1>2 DEF Wrap

LEMMA WrapKeeps ==
    ASSUME NEW x \in Nat, x <= I128Max
    PROVE  Wrap(x) = x
<1>1. I128Max \in Nat
  BY AccountingAssumption
<1>2. (x + I128Max + 1) % (2 * (I128Max + 1)) = x + I128Max + 1
  BY <1>1, SmallRemainder
<1>3. QED BY <1>1, <1>2 DEF Wrap

-----------------------------------------------------------------------------
\* The properties of a block.

LEMMA AccountBooks ==
    ASSUME World, NEW a \in Watched
    PROVE  /\ opening[a] \in Nat /\ balance[a] \in Nat
           /\ credited[a] \in Nat /\ gross[a] \in Nat
           /\ Into(a) \in Nat /\ OutOf(a) \in Nat /\ Paid(a) \in Nat
           /\ gross[a] = opening[a] + credited[a] + Into(a)
           /\ balance[a] = gross[a] - OutOf(a) - Paid(a)
<1>1. a \in Accounts
  BY AccountingAssumption
<1>2. QED BY <1>1, BookTypes DEF World, WorldType, Books

LEMMA SignedCredits ==
    ASSUME World, NEW a \in Watched
    PROVE  /\ Wei(CreditsOf(a)) \in Nat
           /\ CreditsRecognised => Wei(CreditsOf(a)) <= credited[a]
           /\ CreditsRecognised /\ credited[a] <= I128Max => Wei(CreditsOf(a)) = credited[a]
           /\ CreditsFit(a) <=> Wei(CreditsOf(a)) <= I128Max
           /\ SystemSigned(a) = Wrap(Wei(CreditsOf(a)))
           /\ SystemSigned(a) \in Int /\ SystemSigned(a) <= I128Max
           /\ Wei(CreditsOf(a)) <= I128Max => SystemSigned(a) = Wei(CreditsOf(a))
<1>1. SystemSigned(a) = Wrap(Wei(CreditsOf(a)))
  BY DEF SystemSigned, Wei
<1>2. Shows(Wei(CreditsOf(a)), Claimed(a)) /\ (CreditsRecognised => Claimed(a) = credited[a])
  BY CreditsShow, ClaimedIsCredited
<1>3. Wei(CreditsOf(a)) \in Nat
  BY <1>2 DEF Shows
<1>4. SystemSigned(a) \in Int /\ SystemSigned(a) <= I128Max
  BY <1>1, <1>3, WrapFits
<1>5. Wei(CreditsOf(a)) <= I128Max => SystemSigned(a) = Wei(CreditsOf(a))
  BY <1>1, <1>3, WrapKeeps
<1>6. CreditsFit(a) <=> Wei(CreditsOf(a)) <= I128Max
  BY DEF CreditsFit, Wei
<1>7. QED BY <1>1, <1>2, <1>4, <1>5, <1>6 DEF Shows

\* In range and with every credit recognised, the credits are those of the books.
LEMMA InRangeBooks ==
    ASSUME World, InRange, CreditsRecognised, NEW a \in Watched
    PROVE  /\ Wei(CreditsOf(a)) = credited[a] /\ SystemSigned(a) = credited[a]
           /\ credited[a] <= I128Max
<1>1. gross[a] <= I128Max /\ I128Max \in Nat
  BY AccountingAssumption DEF InRange
<1>2. credited[a] <= I128Max
  BY <1>1, AccountBooks
<1>3. QED BY <1>2, SignedCredits

\* So are the fees: a watched sender paid no other, and no other sender has a row.
LEMMA GasBooks ==
    ASSUME World, CreditsRecognised, NEW a \in Watched, FeesRecognised \/ a \notin Bundle
    PROVE  GasOf(a) = Paid(a)
<1>1. ASSUME NEW i \in DOMAIN txs, txs[i].from = a
      PROVE  txs[i].extra = 0
  <2>1. txs[i] \in ToSet(txs)
    BY DEF ToSet
  <2>2. a \in Bundle
    BY <1>1, <2>1 DEF Bundle, Senders
  <2>3. QED BY <1>1, <2>1, <2>2 DEF FeesRecognised
<1>2. QED BY <1>1, GasIsPaid

LEMMA VerdictIs ==
    ASSUME World, AnyWatchedChanged, NEW a \in Watched
    PROVE  Verdict(a) = ReconcileAccount(balance[a] - opening[a], Into(a), OutOf(a), GasOf(a),
                                         SystemSigned(a))
<1>1. Total(BlockFrames, a, 1) = Into(a) /\ Total(BlockFrames, a, -1) = OutOf(a)
  <2>1. 1 \in {1, -1} /\ -1 \in {1, -1} /\ -1 # 1
    OBVIOUS
  <2>2. QED BY <2>1, FrameTotals
<1>2. Total(GasRows, a, -1) = GasOf(a)
  BY GasTotals
<1>3. QED BY <1>1, <1>2 DEF Verdict

LEMMA InRangeBalances ==
    ASSUME World, AnyWatchedChanged, InRange, CreditsRecognised, FeesRecognised,
           NEW a \in Watched
    PROVE  Verdict(a) = "balanced"
<1> DEFINE o == opening[a]
           b == balance[a]
           c == credited[a]
           g == gross[a]
           in == Into(a)
           out == OutOf(a)
           paid == Paid(a)
           M == I128Max
<1>1. /\ o \in Nat /\ b \in Nat /\ c \in Nat /\ g \in Nat
      /\ in \in Nat /\ out \in Nat /\ paid \in Nat
      /\ g = o + c + in /\ b = g - out - paid
  BY AccountBooks
<1>2. g <= M /\ M \in Nat
  BY AccountingAssumption DEF InRange
<1>3. Verdict(a) = ReconcileAccount(b - o, in, out, paid, c)
  BY VerdictIs, InRangeBooks, GasBooks
<1> HIDE DEF o, b, c, g, in, out, paid, M
<1>4. in <= M /\ out <= M /\ paid <= M /\ b - o = in - out - paid + c
  BY <1>1, <1>2
<1>5. /\ -M - 1 <= in - out - paid /\ in - out - paid <= M
      /\ -M - 1 <= in - out - paid + c /\ in - out - paid + c <= M
      /\ (b - o) - (in - out - paid + c) = 0
  BY <1>1, <1>2, <1>4
<1>6. Fits(in - out - paid) /\ Fits(in - out - paid + c) /\ Fits((b - o) - (in - out - paid + c))
  BY <1>2, <1>5 DEF Fits, M
<1>7. ~ \E u \in {in, out, paid} : u > M
  BY <1>1, <1>2, <1>4
<1>8. QED BY <1>3, <1>4, <1>6, <1>7 DEF ReconcileAccount, M

LEMMA ReconcilesIfChanged ==
    ASSUME World, Explained
    PROVE  ChangedBlockReconciles
<1> SUFFICES ASSUME InRange, CreditsRecognised, FeesRecognised, AnyWatchedChanged
             PROVE  outcome.kind \notin {"residual", "overflow", "decode"}
  BY DEF ChangedBlockReconciles
<1>1. \A a \in Bundle : a \in Watched
  BY DEF Bundle
<1>2. ~ Undecodable
  <2>1. ASSUME NEW a \in Watched
        PROVE  ~ (opening[a] > I128Max \/ balance[a] > I128Max)
    <3>1. gross[a] <= I128Max /\ I128Max \in Nat
      BY AccountingAssumption DEF InRange
    <3>2. opening[a] <= gross[a] /\ balance[a] <= gross[a]
      BY AccountBooks
    <3>3. QED BY <3>1, <3>2, AccountBooks
  <2>2. QED BY <1>1, <2>1 DEF Undecodable
<1>3. \A a \in Bundle : Verdict(a) = "balanced"
  BY <1>1, InRangeBalances
<1>4. outcome = Pending \/ outcome = PartialBatch \/ outcome = FullBatch
  BY <1>2, <1>3 DEF Explained, Pending
<1>5. QED BY <1>4 DEF Pending, PartialBatch, FullBatch

\* What the rows of a full batch add up to, account by account.
LEMMA FullBatchAddsUp ==
    ASSUME World, AnyWatchedChanged, NEW a \in Watched
    PROVE  Wei(At(FullBatch.rows, a)) = Into(a) - OutOf(a) - GasOf(a) + Wei(CreditsOf(a))
<1> DEFINE G == At(GasRows, a)
           S == At(SystemRows, a)
           F == At(BlockFrames, a)
<1>1. FullBatch.rows = (GasRows \cup SystemRows) \cup BlockFrames
  BY NothingReplaced DEF FullBatch
<1>2. At(FullBatch.rows, a) = (G \cup S) \cup F
  BY <1>1 DEF At
<1>3. IsFiniteSet(G) /\ \A r \in G : r.wei \in Int
  BY GasRowSet, FS_Subset DEF At
<1>4. IsFiniteSet(F) /\ \A r \in F : r.wei \in Int
  BY FrameRowsType, FS_Subset DEF At
<1>5. IsFiniteSet(S) /\ \A r \in S : r.wei \in Int
  BY SystemRowsShow
<1>6. G \cap S = {} /\ (G \cup S) \cap F = {}
  BY RowKeys DEF At
<1>7. /\ Wei(G) = -GasOf(a) /\ Wei(S) = Wei(CreditsOf(a))
      /\ Wei(F) = Into(a) - OutOf(a)
  <2>1. Wei(F) = Total(BlockFrames, a, 1) - Total(BlockFrames, a, -1)
    BY FrameRowsType, TotalsNet
  <2>2. 1 \in {1, -1} /\ -1 \in {1, -1} /\ -1 # 1
    OBVIOUS
  <2>3. Total(BlockFrames, a, 1) = Into(a) /\ Total(BlockFrames, a, -1) = OutOf(a)
    BY <2>2, FrameTotals
  <2>4. QED BY <2>1, <2>3, GasTotals, SystemRowsShow
<1> HIDE DEF G, S, F
<1>8. IsFiniteSet(G \cup S)
  BY <1>3, <1>5, FS_Union
<1>9. Wei(G \cup S) = Wei(G) + Wei(S)
  BY <1>3, <1>5, <1>6, WeiSplit
<1>10. Wei((G \cup S) \cup F) = Wei(G \cup S) + Wei(F)
  BY <1>3, <1>4, <1>5, <1>6, <1>8, WeiSplit
<1>11. Wei(At(FullBatch.rows, a)) = (-GasOf(a) + Wei(CreditsOf(a))) + (Into(a) - OutOf(a))
  BY <1>2, <1>7, <1>9, <1>10, Zenon
<1>12. GasOf(a) \in Nat /\ Into(a) \in Nat /\ OutOf(a) \in Nat /\ Wei(CreditsOf(a)) \in Nat
  BY GasIsPaid, AccountBooks, SignedCredits
<1>13. QED
  <2> DEFINE g == GasOf(a)
             s == Wei(CreditsOf(a))
             in == Into(a)
             out == OutOf(a)
  <2>1. g \in Nat /\ s \in Nat /\ in \in Nat /\ out \in Nat
    BY <1>12
  <2> HIDE DEF g, s, in, out
  <2>2. (-g + s) + (in - out) = in - out - g + s
    BY <2>1
  <2>3. QED BY <1>11, <2>2 DEF g, s, in, out

LEMMA FullIsFullBatch ==
    ASSUME Explained, outcome.kind = "full"
    PROVE  outcome = FullBatch /\ \A a \in Bundle : Verdict(a) = "balanced"
BY VerdictKinds DEF Explained, Pending, PartialBatch

LEMMA RowsAddUp ==
    ASSUME World, Explained
    PROVE  StoredRowsAddUp
<1> SUFFICES ASSUME outcome.kind = "full", AnyWatchedChanged, NEW a \in Watched,
                    \/ InRange /\ CreditsRecognised
                    \/ a \in Bundle /\ (CreditsFit(a) \/ (CreditsRecognised /\ FeesRecognised))
             PROVE  SumFunction([r \in RowsOf(a) |-> r.wei]) = Delta(a)
  BY DEF StoredRowsAddUp
<1> DEFINE s == Wei(CreditsOf(a))
           signed == SystemSigned(a)
           o == opening[a]
           b == balance[a]
           c == credited[a]
           g == gross[a]
           in == Into(a)
           out == OutOf(a)
           paid == Paid(a)
           gas == GasOf(a)
           M == I128Max
<1>1. SumFunction([r \in RowsOf(a) |-> r.wei]) = in - out - gas + s
  <2>1. SumFunction([r \in RowsOf(a) |-> r.wei]) = Wei(At(FullBatch.rows, a))
    BY FullIsFullBatch DEF RowsOf, Wei, At
  <2>2. QED BY <2>1, FullBatchAddsUp
<1>2. /\ o \in Nat /\ b \in Nat /\ c \in Nat /\ g \in Nat
      /\ in \in Nat /\ out \in Nat /\ paid \in Nat
      /\ g = o + c + in /\ b = g - out - paid
  BY AccountBooks
<1>3. /\ s \in Nat /\ signed \in Int /\ signed <= M
      /\ CreditsRecognised => s <= c
      /\ s <= M => signed = s
      /\ CreditsFit(a) <=> s <= M
  BY SignedCredits
<1>4. /\ gas \in Nat
      /\ CreditsRecognised /\ (FeesRecognised \/ a \notin Bundle) => gas = paid
  BY GasIsPaid, GasBooks
<1>5. M \in Nat
  BY AccountingAssumption
<1>6. InRange /\ CreditsRecognised => s = c /\ c <= M
  BY InRangeBooks
<1>7. a \in Bundle => b - o = in - out - gas + signed
  <2>1. a \in Bundle => ReconcileAccount(b - o, in, out, gas, signed) = "balanced"
    BY FullIsFullBatch, VerdictIs
  <2>2. QED BY <2>1 DEF ReconcileAccount
<1> HIDE DEF s, signed, o, b, c, g, in, out, paid, gas, M
<1>8. CASE a \notin Bundle
  <2>1. in - out - gas + s = b - o
    BY <1>2, <1>4, <1>6, <1>8
  <2>2. QED BY <1>1, <2>1 DEF Delta, b, o
<1>9. CASE a \in Bundle /\ s <= M
  <2>1. in - out - gas + s = b - o
    BY <1>3, <1>7, <1>9
  <2>2. QED BY <1>1, <2>1 DEF Delta, b, o
\* A wrapped sum would fall short of what was credited.
<1>10. CASE a \in Bundle /\ ~ (s <= M)
  <2>1. CreditsRecognised /\ FeesRecognised
    BY <1>3, <1>6, <1>10
  <2>2. gas = paid /\ s <= c
    BY <1>3, <1>4, <2>1
  <2>3. c = signed
    BY <1>2, <1>3, <1>7, <1>10, <2>2
  <2>4. QED BY <1>2, <1>3, <1>5, <1>10, <2>2, <2>3
<1>11. QED BY <1>8, <1>9, <1>10

LEMMA MarkersAreTheGap ==
    ASSUME World, Explained
    PROVE  MarkersCoverTheGap
<1> SUFFICES ASSUME InRange, CreditsRecognised, outcome.kind = "partial", NEW a \in Watched,
                    Hidden(a) > 0 \/ credited[a] = 0
             PROVE  outcome.marks[a] = Magnitude(Hidden(a))
  BY DEF MarkersCoverTheGap
<1> DEFINE d == balance[a] - opening[a]
           c == credited[a]
<1>1. outcome = PartialBatch
  BY VerdictKinds DEF Explained, Pending, FullBatch
<1>2. outcome.marks[a] = SkipResidual(d, c)
  BY <1>1, InRangeBooks DEF PartialBatch
<1>3. d \in Int /\ c \in Nat
  BY AccountBooks
<1>4. Hidden(a) = d - c
  BY DEF Hidden, Delta
<1> HIDE DEF d, c
<1>5. d - c > 0 \/ c = 0
  BY <1>4 DEF c
<1>6. ~ (d * c < 0)
  <2>1. CASE c = 0
    BY <1>3, <2>1
  <2>2. CASE d - c > 0
    <3>1. d \in Nat
      BY <1>3, <2>2
    <3>2. d * c \in Nat
      BY <1>3, <3>1, NatTimes
    <3>3. QED BY <3>2
  <2>3. QED BY <1>5, <2>1, <2>2
<1>7. Magnitude(d) - Magnitude(c) = Magnitude(d - c) /\ Magnitude(d - c) \in Nat
  BY <1>3, <1>5 DEF Magnitude
<1>8. SkipResidual(d, c) = Magnitude(d - c)
  BY <1>6, <1>7 DEF SkipResidual
<1>9. QED BY <1>2, <1>4, <1>8

-----------------------------------------------------------------------------
\* The token rows.

LEMMA LogType ==
    ASSUME World
    PROVE  /\ IsFiniteSet(BlockLogs)
           /\ \A l \in BlockLogs : l = <<l[1], l[2]>> /\ LogAt(l) \in Log /\ LogIndex(l) \in Int
           /\ \A l, m \in BlockLogs : l[1] = m[1] /\ LogIndex(l) = LogIndex(m) => l = m
<1> DEFINE D == DOMAIN txs
           P == [i \in D |-> {<<i, k>> : k \in DOMAIN Emitted(txs[i])}]
           Before(i) == SumFunction([j \in 1..(i - 1) |-> Len(Emitted(txs[j]))])
<1>1. \A i \in D : Emitted(txs[i]) \in Seq(Log)
  BY WorldTxs, TxType DEF Emitted
<1>2. ASSUME NEW i \in D
      PROVE  IsFiniteSet(P[i])
  <2> DEFINE S == DOMAIN Emitted(txs[i])
             h == [k \in S |-> <<i, k>>]
  <2>1. Len(Emitted(txs[i])) \in Nat /\ S = 1..Len(Emitted(txs[i]))
    BY <1>1
  <2>2. IsFiniteSet(S)
    BY <2>1, FS_Interval
  <2>3. P[i] = {h[k] : k \in S}
    OBVIOUS
  <2> HIDE DEF S, h
  <2>4. QED BY <2>2, <2>3, FiniteImage
<1>3. BlockLogs = UNION {P[i] : i \in D}
  BY DEF BlockLogs
<1>4. IsFiniteSet(BlockLogs)
  <2> HIDE DEF P
  <2>1. QED BY <1>2, <1>3, WorldTxs, FiniteFamily
<1>5. \A l \in BlockLogs : \E i \in D : \E k \in DOMAIN Emitted(txs[i]) : l = <<i, k>>
  BY <1>3
<1>6. ASSUME NEW i \in D
      PROVE  Before(i) \in Int
  <2> DEFINE f == [j \in 1..(i - 1) |-> Len(Emitted(txs[j]))]
  <2>1. i \in Nat /\ \A j \in 1..(i - 1) : j \in D
    BY DEF World, WorldType
  <2>2. IsFiniteSet(1..(i - 1))
    BY <2>1, FS_Interval
  <2>3. DOMAIN f = 1..(i - 1) /\ \A j \in 1..(i - 1) : f[j] \in Nat
    BY <1>1, <2>1
  <2> HIDE DEF f
  <2>4. SumFunction(f) \in Nat
    BY <2>2, <2>3, SumNat, SumOfFunction
  <2>5. SumFunction(f) \in Int
    BY <2>4
  <2>6. QED BY <2>5 DEF f
<1>7. \A l : LogIndex(l) = Before(l[1]) + l[2] - 1
  BY DEF LogIndex
<1> HIDE DEF Before, P
<1>8. \A l \in BlockLogs : /\ l = <<l[1], l[2]>> /\ l[1] \in D /\ l[2] \in Int
                           /\ l[2] \in DOMAIN Emitted(txs[l[1]])
  BY <1>1, <1>5
<1>9. \A l \in BlockLogs : LogAt(l) \in Log
  BY <1>1, <1>8 DEF LogAt
<1>10. \A l \in BlockLogs : LogIndex(l) \in Int
  BY <1>6, <1>7, <1>8
<1>11. ASSUME NEW l \in BlockLogs, NEW m \in BlockLogs, l[1] = m[1], LogIndex(l) = LogIndex(m)
       PROVE  l = m
  <2> DEFINE b == Before(l[1])
  <2>1. b \in Int /\ l[2] \in Int /\ m[2] \in Int
    BY <1>6, <1>8
  <2>2. b + l[2] - 1 = b + m[2] - 1
    BY <1>7, <1>11
  <2> HIDE DEF b
  <2>3. l[2] = m[2]
    BY <2>1, <2>2
  <2>4. QED BY <1>8, <1>11, <2>3
<1>12. QED BY <1>4, <1>8, <1>9, <1>10, <1>11

TokenRow(l, match) ==
    [key |-> Erc20Key(l, match.address), turn |-> 2 * LogIndex(l) + match.turn,
     address |-> match.address, amount |-> match.amount]
AllTokenRows == UNION {{TokenRow(l, match) : match \in Matched(LogAt(l))} : l \in BlockLogs}

LEMMA TokenRowSet ==
    /\ Erc20Rows = LastOfKey(AllTokenRows)
    /\ \A r : r \in AllTokenRows <=>
         \E l \in BlockLogs : \E match \in Matched(LogAt(l)) : r = TokenRow(l, match)
<1>1. Erc20Rows = LastOfKey(AllTokenRows)
  BY DEF Erc20Rows, AllTokenRows, TokenRow
<1>2. QED BY <1>1 DEF AllTokenRows

LEMMA MatchType ==
    ASSUME NEW log \in Log, NEW match \in Matched(log)
    PROVE  /\ match.address \in Watched /\ match.amount \in Int /\ match.turn \in Int
           /\ log.transfer
           /\ \/ match = [turn |-> 0, address |-> log.to, amount |-> log.amount]
              \/ match = [turn |-> 1, address |-> log.from, amount |-> -log.amount]
BY DEF Matched, Log

LEMMA TokenRowType ==
    ASSUME World, NEW r \in Erc20Rows
    PROVE  r.address \in Watched /\ r.amount \in Int
<1>1. PICK l \in BlockLogs : \E match \in Matched(LogAt(l)) : r = TokenRow(l, match)
  BY TokenRowSet DEF LastOfKey
<1>2. PICK match \in Matched(LogAt(l)) : r = TokenRow(l, match)
  BY <1>1
<1>3. r.address = match.address /\ r.amount = match.amount
  BY <1>2 DEF TokenRow
<1>4. QED BY <1>3, LogType, MatchType

\* The rows of an account that does not pay itself have a key each, and so stay.
LEMMA KeptTokens ==
    ASSUME World, NEW a \in Watched, ~ PaysItself(a)
    PROVE  SumFunction([r \in {s \in Erc20Rows : s.address = a} |-> r.amount]) = TokenNet(a)
<1> DEFINE L == {l \in BlockLogs : /\ LogAt(l).transfer
                                   /\ LogAt(l).to = a \/ LogAt(l).from = a}
           Of(l) == IF LogAt(l).to = a
                    THEN [turn |-> 0, address |-> LogAt(l).to, amount |-> LogAt(l).amount]
                    ELSE [turn |-> 1, address |-> LogAt(l).from, amount |-> -LogAt(l).amount]
           h == [l \in L |-> TokenRow(l, Of(l))]
           f == [l \in BlockLogs |-> Moves(LogAt(l), a)]
           K == {s \in Erc20Rows : s.address = a}
           g == [r \in K |-> r.amount]
<1>1. L \in SUBSET BlockLogs /\ IsFiniteSet(BlockLogs) /\ IsFiniteSet(L)
  BY LogType, FS_Subset
<1>2. ASSUME NEW l \in BlockLogs
      PROVE  /\ LogAt(l).to \in Accounts /\ LogAt(l).from \in Accounts
             /\ LogAt(l).amount \in Nat /\ LogAt(l).transfer \in BOOLEAN
             /\ LogAt(l).transfer => ~ (LogAt(l).to = a /\ LogAt(l).from = a)
  BY LogType DEF Log, PaysItself
<1>3. ASSUME NEW l \in L
      PROVE  /\ Of(l) \in Matched(LogAt(l)) /\ Of(l).address = a
             /\ Of(l).amount = Moves(LogAt(l), a) /\ Of(l).amount \in Int
             /\ \A match \in Matched(LogAt(l)) : match.address = a => match = Of(l)
  <2> DEFINE log == LogAt(l)
  <2>1. /\ log.transfer /\ log.amount \in Nat /\ log \in Log
        /\ \/ log.to = a /\ log.from # a
           \/ log.to # a /\ log.from = a
    BY <1>2, LogType
  <2>2. Of(l) = IF log.to = a THEN [turn |-> 0, address |-> log.to, amount |-> log.amount]
                ELSE [turn |-> 1, address |-> log.from, amount |-> -log.amount]
    OBVIOUS
  <2> HIDE DEF log, Of
  <2>3. CASE log.to = a /\ log.from # a
    BY <2>1, <2>2, <2>3 DEF Matched, Moves, log
  <2>4. CASE log.to # a /\ log.from = a
    BY <2>1, <2>2, <2>4 DEF Matched, Moves, log
  <2>5. QED BY <2>1, <2>3, <2>4
<1>4. \A l \in BlockLogs \ L : f[l] = 0
  BY <1>2 DEF Moves
<1>5. ASSUME NEW l \in L, NEW r \in AllTokenRows, r.key = TokenRow(l, Of(l)).key
      PROVE  r = TokenRow(l, Of(l))
  <2>1. PICK m \in BlockLogs : \E match \in Matched(LogAt(m)) : r = TokenRow(m, match)
    BY TokenRowSet
  <2>2. PICK match \in Matched(LogAt(m)) : r = TokenRow(m, match)
    BY <2>1
  <2>3. m[1] = l[1] /\ LogIndex(m) = LogIndex(l) /\ match.address = Of(l).address
    <3> HIDE DEF Of
    <3>1. QED BY <1>5, <2>2 DEF TokenRow, Erc20Key
  <2>4. m = l
    BY <2>3, LogType
  <2>5. QED BY <1>3, <2>2, <2>3, <2>4
<1>6. K = {h[l] : l \in L}
  <2>1. ASSUME NEW l \in L
        PROVE  h[l] \in K
    <3>1. h[l] = TokenRow(l, Of(l))
      OBVIOUS
    <3>2. h[l] \in AllTokenRows
      BY <1>1, <1>3, <3>1, TokenRowSet
    <3>3. h[l].address = a /\ h[l].turn \in Int
      BY <1>1, <1>3, <3>1, LogType, MatchType DEF TokenRow
    <3>4. \A s \in AllTokenRows : s.key = h[l].key => s.turn <= h[l].turn
      BY <1>5, <3>1, <3>3
    <3>5. h[l] \in Erc20Rows
      BY <3>2, <3>4, TokenRowSet DEF LastOfKey
    <3>6. QED BY <3>3, <3>5
  <2>2. ASSUME NEW r \in K
        PROVE  \E l \in L : r = h[l]
    <3>1. PICK l \in BlockLogs : \E match \in Matched(LogAt(l)) : r = TokenRow(l, match)
      BY TokenRowSet DEF LastOfKey
    <3>2. PICK match \in Matched(LogAt(l)) : r = TokenRow(l, match)
      BY <3>1
    <3>3. match.address = a
      BY <3>2 DEF TokenRow
    <3>4. l \in L
      BY <3>3, LogType, MatchType
    <3>5. match = Of(l)
      BY <1>3, <3>3, <3>4
    <3>6. QED BY <3>2, <3>4, <3>5
  <2> HIDE DEF K, h, L
  <2>3. QED BY <2>1, <2>2
<1>7. /\ \A l, m \in L : h[l] = h[m] => l = m
      /\ \A l \in L : f[l] \in Int /\ g[h[l]] = f[l]
  <2>1. ASSUME NEW l \in L, NEW m \in L, h[l] = h[m]
        PROVE  l = m
    <3>1. TokenRow(l, Of(l)).key = TokenRow(m, Of(m)).key
      BY <2>1
    <3>2. l[1] = m[1] /\ LogIndex(l) = LogIndex(m)
      <4> HIDE DEF Of
      <4>1. QED BY <3>1 DEF TokenRow, Erc20Key
    <3>3. QED BY <1>1, <3>2, LogType
  <2>2. ASSUME NEW l \in L
        PROVE  f[l] \in Int /\ g[h[l]] = f[l]
    <3>1. h[l] \in K
      BY <1>6
    <3>2. g[h[l]] = TokenRow(l, Of(l)).amount
      BY <3>1
    <3>3. TokenRow(l, Of(l)).amount = Of(l).amount
      BY DEF TokenRow
    <3>4. f[l] = Moves(LogAt(l), a)
      BY <1>1
    <3>5. QED BY <1>3, <3>2, <3>3, <3>4
  <2>3. QED BY <2>1, <2>2
<1>8. DOMAIN g = K /\ DOMAIN f = BlockLogs /\ TokenNet(a) = SumFunction(f)
  BY DEF TokenNet
<1> HIDE DEF L, Of, h, f, K, g
<1>9. Sum(g, {h[l] : l \in L}) = Sum(f, L)
  BY <1>1, <1>7, SumImage
<1>10. Sum(f, BlockLogs) = Sum(f, L)
  BY <1>1, <1>4, <1>7, SumSupport
<1>11. SumFunction(g) = TokenNet(a)
  BY <1>6, <1>8, <1>9, <1>10, SumOfFunction, Zenon
<1>12. QED BY <1>11 DEF g, K

LEMMA TokensAddUp ==
    ASSUME World, Explained
    PROVE  PartiesKeepTheirRows
<1> SUFFICES ASSUME outcome.kind \in {"full", "partial"}, NEW a \in Watched, ~ PaysItself(a)
             PROVE  TokensKept(a) = TokenNet(a)
  BY DEF PartiesKeepTheirRows
<1>1. outcome = PartialBatch \/ outcome = FullBatch
  BY VerdictKinds DEF Explained, Pending
<1>2. outcome.tokens = Erc20Rows
  BY <1>1 DEF PartialBatch, FullBatch
<1>3. QED BY <1>2, KeptTokens DEF TokensKept

-----------------------------------------------------------------------------
\* Types.

LEMMA RowType ==
    ASSUME World
    PROVE  \A r \in (GasRows \cup SystemRows) \cup BlockFrames :
             r.address \in Watched /\ r.wei \in Int
<1>1. \A r \in SystemRows : r.address \in Watched
  BY OneCreditPerSource DEF SystemRows
<1>2. \A r \in SystemRows : r \in At(SystemRows, r.address)
  BY DEF At
<1>3. \A r \in SystemRows : r.wei \in Int
  BY <1>1, <1>2, SystemRowsShow
<1>4. QED BY <1>1, <1>3, GasRowSet, FrameRowsType

LEMMA MarkType ==
    ASSUME World, NEW a \in Watched
    PROVE  SkipResidual(balance[a] - opening[a], SystemSigned(a)) \in Nat
<1> DEFINE d == balance[a] - opening[a]
           c == SystemSigned(a)
<1>1. d \in Int /\ c \in Int
  BY AccountBooks, SignedCredits
<1> HIDE DEF d, c
<1>2. Magnitude(d) \in Nat /\ Magnitude(c) \in Nat
  BY <1>1 DEF Magnitude
<1>3. SkipResidual(d, c) \in Nat
  BY <1>2 DEF SkipResidual
<1>4. QED BY <1>3 DEF d, c

LEMMA OutcomeType ==
    ASSUME World, Explained
    PROVE  /\ outcome.kind \in Kinds
           /\ outcome.marks \in [Watched -> Nat]
           /\ \A r \in outcome.rows : r.address \in Watched /\ r.wei \in Int
           /\ \A r \in outcome.tokens : r.address \in Watched /\ r.amount \in Int
<1>1. CASE outcome = PartialBatch
  <2>1. outcome.rows = GasRows \cup SystemRows /\ outcome.tokens = Erc20Rows
    BY <1>1, NothingReplaced DEF PartialBatch
  <2>2. outcome.marks \in [Watched -> Nat]
    BY <1>1, MarkType DEF PartialBatch
  <2>3. outcome.kind = "partial"
    BY <1>1 DEF PartialBatch
  <2>4. QED BY <2>1, <2>2, <2>3, RowType, TokenRowType DEF Kinds
<1>2. CASE outcome = FullBatch
  <2>1. /\ outcome.rows = (GasRows \cup SystemRows) \cup BlockFrames
        /\ outcome.tokens = Erc20Rows
    BY <1>2, NothingReplaced DEF FullBatch
  <2>2. outcome.marks \in [Watched -> Nat] /\ outcome.kind = "full"
    BY <1>2 DEF FullBatch, Pending
  <2>3. QED BY <2>1, <2>2, RowType, TokenRowType DEF Kinds
<1>3. CASE outcome = Pending \/ \E k \in Kinds : outcome = [Pending EXCEPT !.kind = k]
  BY <1>3 DEF Pending, Kinds
<1>4. QED BY <1>1, <1>2, <1>3, VerdictKinds DEF Explained, Kinds

-----------------------------------------------------------------------------
\* The theorems.

\* Balances, credits and the rows, tokens and markers of a batch have their types;
\* no balance is ever negative, however the calls and fees of a block fall out.
THEOREM TypeCorrect == Spec => []TypeOK
<1>1. BlockInv => TypeOK
  <2> SUFFICES ASSUME BlockInv PROVE TypeOK
    OBVIOUS
  <2>1. World /\ Explained
    BY DEF BlockInv
  <2>2. {opening, balance, credited, gross} \subseteq [Accounts -> Nat]
    BY <2>1 DEF World, WorldType
  <2>3. QED BY <2>1, <2>2, OutcomeType DEF TypeOK, World, WorldType
<1>2. QED BY <1>1, BlockInvariant, PTL

\* process_committed_block stalls on a block that changed a watched balance or nonce
\* only if an inflow leaves the i128 range, or the block has a credit or fee the code
\* does not recognise: an L1 data fee it misses or mistakes, a mint that went to the
\* sender, a blob or operator fee.
THEOREM ChangedBlocksReconcile == Spec => []ChangedBlockReconciles
<1>1. BlockInv => ChangedBlockReconciles
  BY ReconcilesIfChanged DEF BlockInv
<1>2. QED BY <1>1, BlockInvariant, PTL

\* The rows of a full batch, as INSERT OR REPLACE leaves them, add up to every
\* watched balance change: no two rows share a key, a wrapped sum never
\* passes reconcile_account for balanced if all is recognised, and an unrecognised
\* credit or fee does not if no sum wraps.
THEOREM StoredRowsExplainBalances == Spec => []StoredRowsAddUp
<1>1. BlockInv => StoredRowsAddUp
  BY RowsAddUp DEF BlockInv
<1>2. QED BY <1>1, BlockInvariant, PTL

\* The residual markers of build_partial_batch_skip_frames are exactly what the
\* missing frames and the gas did to an account whose calls brought in more than
\* went out, or that received no credit, in a block whose credits are recognised,
\* so that every deposit's mint went to the recipient.
THEOREM MarkersAreExact == Spec => []MarkersCoverTheGap
<1>1. BlockInv => MarkersCoverTheGap
  BY MarkersAreTheGap DEF BlockInv
<1>2. QED BY <1>1, BlockInvariant, PTL

\* The token rows decode_transfer yields, under the primary key of erc20_transfers,
\* add up to the token movements of every account that does not pay itself.
THEOREM BothPartiesKeepTheirRows == Spec => []PartiesKeepTheirRows
<1>1. BlockInv => PartiesKeepTheirRows
  BY TokensAddUp DEF BlockInv
<1>2. QED BY <1>1, BlockInvariant, PTL
=============================================================================
