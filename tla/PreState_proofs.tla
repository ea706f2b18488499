--------------------------- MODULE PreState_proofs ---------------------------
(***************************************************************************)
(* Proofs about PreState: for any accounts, slots, codes and balances, and *)
(* however many blocks the chain has, the overlay is the state a block was *)
(* executed on, save for what the chain destroyed.                         *)
(***************************************************************************)
EXTENDS PreState, TLAPS

\* The bundle against the world, account by account: untouched accounts are the
\* parent's, the info of a touched one is current, and a slot is the bundle's,
\* or the parent's, or was wiped.
AccountInv(a) ==
    /\ a \notin touched => now.info[a] = parent.info[a]
    /\ a \in touched => now.info[a] = info[a]
    /\ a \in touched /\ info[a] = None => a \in destroyed
SlotInv(a, s) ==
    /\ written[a][s] # None => now.storage[a][s] = written[a][s]
    /\ written[a][s] = None /\ a \notin destroyed =>
         now.storage[a][s] = parent.storage[a][s]

\* Every code the world runs is in bundle.contracts or in the parent state,
\* whether or not the bundle's info carries it.
CodeInv ==
    \A a \in Addresses : HasCode(now, a) => now.info[a].code \in contracts \cup ParentCodes

IInv ==
    /\ TypeOK
    /\ \A a \in Addresses : AccountInv(a) /\ \A s \in Slots : SlotInv(a, s)
    /\ CodeInv

LEMMA InitInv ==
  ASSUME PreStateAssumption, Init PROVE IInv
<1>1. parent \in Worlds /\ now = parent
  BY DEF Init
<1>2. TypeOK
  BY <1>1 DEF Init, TypeOK
<1>3. \A a \in Addresses : AccountInv(a) /\ \A s \in Slots : SlotInv(a, s)
  BY <1>1 DEF Init, AccountInv, SlotInv
<1>4. CodeInv
  BY <1>1 DEF CodeInv, ParentCodes
<1> QED BY <1>2, <1>3, <1>4 DEF IInv

\* What the three changes that leave an account in place have in common.
LEMMA BecomeKeeps ==
  ASSUME PreStateAssumption, IInv, NEW a \in Addresses, NEW i \in Infos,
         Become(a, i), now'.info = [now.info EXCEPT ![a] = i], now' \in Worlds,
         contracts \subseteq contracts', contracts' \subseteq Codes,
         i.code = NoCode \/ i.code \in contracts' \cup ParentCodes,
         UNCHANGED destroyed
  PROVE  /\ \A b \in Addresses : AccountInv(b)'
         /\ CodeInv'
         /\ parent' = parent /\ info' \in [Addresses -> Infos \cup {None}]
         /\ touched' \subseteq Addresses /\ attached' \subseteq touched'
         /\ destroyed' \subseteq touched'
<1>1. /\ parent' = parent /\ info' = [info EXCEPT ![a] = i]
      /\ touched' = touched \cup {a}
      /\ attached' \in {attached \ {a}, attached \cup {a}}
  BY DEF Become
<1>2. /\ parent \in Worlds /\ now \in Worlds
      /\ info \in [Addresses -> Infos \cup {None}]
      /\ touched \subseteq Addresses /\ attached \subseteq touched
      /\ destroyed \subseteq touched
  BY DEF IInv, TypeOK
<1>3. now.info \in [Addresses -> Infos \cup {None}]
  BY <1>2 DEF Worlds
<1>4. \A b \in Addresses : now'.info[b] = IF b = a THEN i ELSE now.info[b]
  BY <1>3
<1>5. \A b \in Addresses : info'[b] = IF b = a THEN i ELSE info[b]
  BY <1>1, <1>2
<1>6. i # None
  BY DEF PreStateAssumption
<1>7. \A b \in Addresses : AccountInv(b)'
  <2> TAKE b \in Addresses
  <2>1. AccountInv(b)
    BY DEF IInv
  <2> QED BY <1>1, <1>4, <1>5, <1>6, <2>1 DEF AccountInv
<1>8. CodeInv'
  <2> SUFFICES ASSUME NEW b \in Addresses, now'.info[b] # None, now'.info[b].code # NoCode
               PROVE  now'.info[b].code \in contracts' \cup ParentCodes
    BY <1>1 DEF CodeInv, HasCode, ParentCodes
  <2>1. CASE b = a
    BY <1>4, <2>1
  <2>2. CASE b # a
    BY <1>4, <2>2 DEF IInv, CodeInv, HasCode
  <2> QED BY <2>1, <2>2
<1> QED BY <1>1, <1>2, <1>7, <1>8

LEMMA PayKeeps ==
  ASSUME PreStateAssumption, IInv, NEW a \in Addresses, NEW balance \in Balances,
         Pay(a, balance)
  PROVE  IInv'
<1> DEFINE code == IF now.info[a] = None THEN NoCode ELSE now.info[a].code
           i == [balance |-> balance, code |-> code]
<1>1. /\ now \in Worlds /\ now.info \in [Addresses -> Infos \cup {None}]
      /\ now.storage \in [Addresses -> [Slots -> Values]]
  BY DEF IInv, TypeOK, Worlds
<1>2. /\ Become(a, i) /\ now' = [now EXCEPT !.info[a] = i]
      /\ UNCHANGED <<written, contracts, destroyed>>
  BY DEF Pay
<1>3. now.info[a] # None => now.info[a] \in Infos
  BY <1>1
<1>4. code \in Codes \cup {NoCode}
  BY <1>3 DEF Infos
<1>5. i \in Infos
  BY <1>4 DEF Infos
<1>6. code = NoCode \/ code \in contracts \cup ParentCodes
  BY DEF IInv, CodeInv, HasCode
<1>7. i.code = code
  OBVIOUS
<1> HIDE DEF i, code
<1>8. now'.info = [now.info EXCEPT ![a] = i] /\ now'.storage = now.storage
  BY <1>1, <1>2 DEF Worlds
<1>9. now' \in Worlds
  BY <1>1, <1>2, <1>5 DEF Worlds
<1>10. contracts \subseteq Codes
  BY DEF IInv, TypeOK
<1>11. /\ \A b \in Addresses : AccountInv(b)'
       /\ CodeInv'
       /\ parent' = parent /\ info' \in [Addresses -> Infos \cup {None}]
       /\ touched' \subseteq Addresses /\ attached' \subseteq touched'
       /\ destroyed' \subseteq touched'
  BY <1>2, <1>5, <1>6, <1>7, <1>8, <1>9, <1>10, BecomeKeeps
<1>12. \A b \in Addresses, s \in Slots : SlotInv(b, s)'
  BY <1>2, <1>8, <1>11 DEF IInv, SlotInv
<1>13. TypeOK'
  BY <1>2, <1>9, <1>11 DEF IInv, TypeOK
<1> QED BY <1>11, <1>12, <1>13 DEF IInv

LEMMA DeployKeeps ==
  ASSUME PreStateAssumption, IInv, NEW a \in Addresses, NEW balance \in Balances,
         NEW code \in Codes, Deploy(a, balance, code)
  PROVE  IInv'
<1> DEFINE i == [balance |-> balance, code |-> code]
<1>1. /\ now \in Worlds /\ now.info \in [Addresses -> Infos \cup {None}]
      /\ now.storage \in [Addresses -> [Slots -> Values]]
  BY DEF IInv, TypeOK, Worlds
<1>2. /\ Become(a, i) /\ now' = [now EXCEPT !.info[a] = i]
      /\ contracts' = contracts \cup {code}
      /\ UNCHANGED <<written, destroyed>>
  BY DEF Deploy
<1>3. i \in Infos /\ i.code = code
  BY DEF Infos
<1> HIDE DEF i
<1>4. now'.info = [now.info EXCEPT ![a] = i] /\ now'.storage = now.storage
  BY <1>1, <1>2 DEF Worlds
<1>5. now' \in Worlds
  BY <1>1, <1>2, <1>3 DEF Worlds
<1>6. contracts \subseteq contracts' /\ contracts' \subseteq Codes /\ code \in contracts'
  BY <1>2 DEF IInv, TypeOK
<1>7. /\ \A b \in Addresses : AccountInv(b)'
      /\ CodeInv'
      /\ parent' = parent /\ info' \in [Addresses -> Infos \cup {None}]
      /\ touched' \subseteq Addresses /\ attached' \subseteq touched'
      /\ destroyed' \subseteq touched'
  BY <1>2, <1>3, <1>4, <1>5, <1>6, BecomeKeeps
<1>8. \A b \in Addresses, s \in Slots : SlotInv(b, s)'
  BY <1>2, <1>4, <1>7 DEF IInv, SlotInv
<1>9. TypeOK'
  BY <1>2, <1>5, <1>6, <1>7 DEF IInv, TypeOK
<1> QED BY <1>7, <1>8, <1>9 DEF IInv

LEMMA StoreKeeps ==
  ASSUME PreStateAssumption, IInv, NEW a \in Addresses, NEW s \in Slots,
         NEW v \in Values, Store(a, s, v)
  PROVE  IInv'
<1> DEFINE i == now.info[a]
<1>1. /\ now \in Worlds /\ now.info \in [Addresses -> Infos \cup {None}]
      /\ now.storage \in [Addresses -> [Slots -> Values]]
      /\ written \in [Addresses -> [Slots -> Values \cup {None}]]
  BY DEF IInv, TypeOK, Worlds
<1>2. /\ HasCode(now, a) /\ Become(a, i)
      /\ now' = [now EXCEPT !.storage[a][s] = v]
      /\ written' = [written EXCEPT ![a][s] = v]
      /\ UNCHANGED <<contracts, destroyed>>
  BY DEF Store
<1>3. i \in Infos /\ i.code \in contracts \cup ParentCodes
  BY <1>1, <1>2 DEF HasCode, IInv, CodeInv
<1>4. now'.info = [now.info EXCEPT ![a] = i]
  BY <1>1, <1>2 DEF Worlds
<1> HIDE DEF i
<1>5. now'.storage = [now.storage EXCEPT ![a][s] = v]
  BY <1>1, <1>2 DEF Worlds
<1>6. now' \in Worlds
  BY <1>1, <1>2 DEF Worlds
<1>7. contracts \subseteq Codes
  BY DEF IInv, TypeOK
<1>8. /\ \A b \in Addresses : AccountInv(b)'
      /\ CodeInv'
      /\ parent' = parent /\ info' \in [Addresses -> Infos \cup {None}]
      /\ touched' \subseteq Addresses /\ attached' \subseteq touched'
      /\ destroyed' \subseteq touched'
  BY <1>2, <1>3, <1>4, <1>6, <1>7, BecomeKeeps
<1>9. \A b \in Addresses, t \in Slots :
        /\ now'.storage[b][t] = IF b = a /\ t = s THEN v ELSE now.storage[b][t]
        /\ written'[b][t] = IF b = a /\ t = s THEN v ELSE written[b][t]
  BY <1>1, <1>2, <1>5
<1>10. \A b \in Addresses, t \in Slots : SlotInv(b, t)'
  <2> TAKE b \in Addresses, t \in Slots
  <2>1. SlotInv(b, t)
    BY DEF IInv
  <2>2. v # None
    BY DEF PreStateAssumption
  <2> QED BY <1>2, <1>8, <1>9, <2>1, <2>2 DEF SlotInv
<1>11. written' \in [Addresses -> [Slots -> Values \cup {None}]]
  BY <1>1, <1>2
<1>12. TypeOK'
  BY <1>2, <1>6, <1>7, <1>8, <1>11 DEF IInv, TypeOK
<1> QED BY <1>8, <1>10, <1>12 DEF IInv

LEMMA DestroyKeeps ==
  ASSUME PreStateAssumption, IInv, NEW a \in Addresses, Destroy(a)
  PROVE  IInv'
<1>1. /\ now \in Worlds /\ now.info \in [Addresses -> Infos \cup {None}]
      /\ now.storage \in [Addresses -> [Slots -> Values]]
      /\ info \in [Addresses -> Infos \cup {None}]
      /\ written \in [Addresses -> [Slots -> Values \cup {None}]]
      /\ touched \subseteq Addresses /\ attached \subseteq touched
      /\ destroyed \subseteq touched
  BY DEF IInv, TypeOK, Worlds
<1>2. /\ now' = [now EXCEPT !.info[a] = None, !.storage[a] = NoSlots]
      /\ info' = [info EXCEPT ![a] = None]
      /\ written' = [written EXCEPT ![a] = [s \in Slots |-> None]]
      /\ touched' = touched \cup {a} /\ attached' = attached \ {a}
      /\ destroyed' = destroyed \cup {a}
      /\ parent' = parent /\ contracts' = contracts
  BY DEF Destroy
<1>3. NoSlots \in [Slots -> Values]
  BY DEF NoSlots, PreStateAssumption
<1> HIDE DEF NoSlots
<1>4. /\ now'.info = [now.info EXCEPT ![a] = None]
      /\ now'.storage = [now.storage EXCEPT ![a] = NoSlots]
  BY <1>1, <1>2 DEF Worlds
<1>5. now' \in Worlds
  BY <1>1, <1>2, <1>3 DEF Worlds
<1>6. TypeOK'
  BY <1>1, <1>2, <1>5 DEF IInv, TypeOK
<1>7. \A b \in Addresses : AccountInv(b)'
  <2> TAKE b \in Addresses
  <2>1. AccountInv(b)
    BY DEF IInv
  <2> QED BY <1>1, <1>2, <1>4, <2>1 DEF AccountInv
<1>8. \A b \in Addresses, t \in Slots : SlotInv(b, t)'
  <2> TAKE b \in Addresses, t \in Slots
  <2>1. SlotInv(b, t)
    BY DEF IInv
  <2>2. CASE b = a
    BY <1>1, <1>2, <2>2 DEF SlotInv
  <2>3. CASE b # a
    BY <1>1, <1>2, <1>4, <2>1, <2>3 DEF SlotInv
  <2> QED BY <2>2, <2>3
<1>9. CodeInv'
  <2> SUFFICES ASSUME NEW b \in Addresses, now'.info[b] # None, now'.info[b].code # NoCode
               PROVE  now'.info[b].code \in contracts \cup ParentCodes
    BY <1>2 DEF CodeInv, HasCode, ParentCodes
  <2>1. b # a /\ now'.info[b] = now.info[b]
    BY <1>1, <1>4
  <2> QED BY <2>1 DEF IInv, CodeInv, HasCode
<1> QED BY <1>6, <1>7, <1>8, <1>9 DEF IInv

THEOREM Inductive ==
  ASSUME PreStateAssumption PROVE Spec => []IInv
<1>1. Init => IInv
  BY InitInv
<1>2. IInv /\ [Next]_vars => IInv'
  <2> SUFFICES ASSUME IInv, [Next]_vars PROVE IInv'
    OBVIOUS
  <2>1. ASSUME NEW a \in Addresses, NEW balance \in Balances, Pay(a, balance)
        PROVE  IInv'
    BY <2>1, PayKeeps
  <2>2. ASSUME NEW a \in Addresses, NEW s \in Slots, NEW v \in Values, Store(a, s, v)
        PROVE  IInv'
    BY <2>2, StoreKeeps
  <2>3. ASSUME NEW a \in Addresses, NEW balance \in Balances, NEW code \in Codes,
               Deploy(a, balance, code)
        PROVE  IInv'
    BY <2>3, DeployKeeps
  <2>4. ASSUME NEW a \in Addresses, Destroy(a) PROVE IInv'
    BY <2>4, DestroyKeeps
  <2>5. CASE UNCHANGED vars
    BY <2>5 DEF vars, bundleVars, IInv, TypeOK, AccountInv, SlotInv, CodeInv, HasCode,
                ParentCodes
  <2> QED BY <2>1, <2>2, <2>3, <2>4, <2>5 DEF Next
<1> QED BY <1>1, <1>2, PTL DEF Spec

\* Type correctness of the world, the bundle and the overlay.
THEOREM TypeCorrect ==
  ASSUME PreStateAssumption PROVE Spec => []TypeOK
<1>1. IInv => TypeOK
  BY DEF IInv
<1> QED BY <1>1, Inductive, PTL

\* A block is executed again on the state it was executed on, for every account
\* its chain has not destroyed.
THEOREM OverlayIsTrue ==
  ASSUME PreStateAssumption PROVE Spec => []PreStateIsTrue
<1>1. IInv => PreStateIsTrue
  <2> SUFFICES ASSUME IInv, NEW a \in Addresses, a \notin destroyed
               PROVE  /\ ReadInfo(a) = now.info[a]
                      /\ CodeIsFound(a)
                      /\ \A s \in Slots : ReadSlot(a, s) = now.storage[a][s]
    BY DEF PreStateIsTrue
  <2>1. AccountInv(a) /\ \A s \in Slots : SlotInv(a, s)
    BY DEF IInv
  <2>2. ReadInfo(a) = now.info[a]
    BY <2>1 DEF AccountInv, ReadInfo, Cached
  <2>3. \A s \in Slots : ReadSlot(a, s) = now.storage[a][s]
    BY <2>1 DEF SlotInv, ReadSlot
  <2>4. CodeIsFound(a)
    <3>1. HasCode(now, a) => now.info[a].code \in contracts \cup ParentCodes
      BY DEF IInv, CodeInv
    <3>2. CASE Cached(a)
      BY <2>2, <3>1, <3>2 DEF CodeIsFound, CodeIsAttached, HasCode, ReadInfo
    <3>3. CASE ~ Cached(a)
      BY <2>2, <3>3 DEF CodeIsFound, ParentCodes, HasCode, ReadInfo
    <3> QED BY <3>2, <3>3
  <2> QED BY <2>2, <2>3, <2>4
<1> QED BY <1>1, Inductive, PTL

\* Of a destroyed account the overlay gets wrong what the parent state had, and
\* nothing else.
THEOREM StaleIsParents ==
  ASSUME PreStateAssumption PROVE Spec => []StaleOnlyWhereParentHad
<1>1. IInv => StaleOnlyWhereParentHad
  <2> SUFFICES ASSUME IInv, NEW a \in Addresses, a \in destroyed
               PROVE  /\ now.info[a] = None => ReadInfo(a) = parent.info[a]
                      /\ now.info[a] # None => ReadInfo(a) = now.info[a] /\ CodeIsFound(a)
                      /\ \A s \in Slots : ReadSlot(a, s) # now.storage[a][s] =>
                           ReadSlot(a, s) = parent.storage[a][s]
    BY DEF StaleOnlyWhereParentHad, IInv, TypeOK
  <2>1. AccountInv(a) /\ (\A s \in Slots : SlotInv(a, s)) /\ a \in touched
    BY DEF IInv, TypeOK
  <2>2. now.info[a] = None => ReadInfo(a) = parent.info[a]
    BY <2>1 DEF AccountInv, ReadInfo, Cached
  <2>3. \A s \in Slots : ReadSlot(a, s) # now.storage[a][s] =>
          ReadSlot(a, s) = parent.storage[a][s]
    BY <2>1 DEF SlotInv, ReadSlot
  <2>4. ASSUME now.info[a] # None PROVE ReadInfo(a) = now.info[a] /\ CodeIsFound(a)
    <3>1. Cached(a) /\ info[a] = now.info[a] /\ ReadInfo(a) = now.info[a]
      BY <2>1, <2>4 DEF AccountInv, Cached, ReadInfo
    <3>2. HasCode(now, a) => now.info[a].code \in contracts \cup ParentCodes
      BY DEF IInv, CodeInv
    <3> QED BY <2>4, <3>1, <3>2 DEF CodeIsFound, CodeIsAttached, HasCode
  <2> QED BY <2>2, <2>3, <2>4
<1> QED BY <1>1, Inductive, PTL
=============================================================================
