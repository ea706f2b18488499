------------------------------ MODULE PreState ------------------------------
(***************************************************************************)
(* The state a block of a notification is executed again on                *)
(* (build_prestate_cache, reexec.rs): the provider's state at the parent   *)
(* of the chain, with the bundle of the chain's earlier blocks laid over   *)
(* it.  Accounts are created, paid, written to, destroyed and created      *)
(* again by those blocks; the bundle keeps what they changed, cumulated.   *)
(*                                                                         *)
(* Each step is one change some earlier block makes, so every state is one *)
(* the next block may start from.  The world, the provider and the bundle  *)
(* are the node's; the overlay and what is read through it are modelled    *)
(* from reexec.rs.                                                         *)
(***************************************************************************)
EXTENDS Naturals

CONSTANTS
    Addresses, Slots,
    Codes,     \* bytecodes, named by their hashes
    NoCode,    \* KECCAK_EMPTY
    Values,    \* what a slot may hold
    Balances,  \* balances, each standing for a balance and a nonce
    None

Infos == [balance : Balances, code : Codes \cup {NoCode}]

ASSUME PreStateAssumption ==
    /\ 0 \in Values
    /\ NoCode \notin Codes
    /\ None \notin Infos
    /\ None \notin Values

Worlds == [info : [Addresses -> Infos \cup {None}],
           storage : [Addresses -> [Slots -> Values]]]

VARIABLES
    parent,     \* the state after the parent of the chain
    now,        \* the state after the chain's blocks so far
    info,       \* bundle.state[a].info, None: destroyed
    touched,    \* the accounts in bundle.state
    attached,   \* those whose info carries its code
    written,    \* bundle.state[a].storage, None: slot not in it
    contracts,  \* bundle.contracts
    destroyed   \* auxiliary: accounts the chain has destroyed

bundleVars == <<info, touched, attached, written, contracts>>
vars == <<parent, now, bundleVars, destroyed>>

TypeOK ==
    /\ parent \in Worlds /\ now \in Worlds
    /\ info \in [Addresses -> Infos \cup {None}]
    /\ touched \subseteq Addresses /\ attached \subseteq touched
    /\ written \in [Addresses -> [Slots -> Values \cup {None}]]
    /\ contracts \subseteq Codes
    /\ destroyed \subseteq touched

HasCode(world, a) == world.info[a] # None /\ world.info[a].code # NoCode
NoSlots == [s \in Slots |-> 0]

\* Only contracts have storage.
Init ==
    /\ parent \in {w \in Worlds :
                     \A a \in Addresses : ~ HasCode(w, a) => w.storage[a] = NoSlots}
    /\ now = parent
    /\ info = [a \in Addresses |-> None]
    /\ touched = {} /\ attached = {}
    /\ written = [a \in Addresses |-> [s \in Slots |-> None]]
    /\ contracts = {}
    /\ destroyed = {}

-----------------------------------------------------------------------------
\* The earlier blocks of the chain.

\* The account's info changes to i; the bundle has it with its code or without.
Become(a, i) ==
    /\ info' = [info EXCEPT ![a] = i]
    /\ touched' = touched \cup {a}
    /\ attached' \in {attached \ {a}, attached \cup {a}}
    /\ UNCHANGED parent

\* A payment, or the first one of a new account.
Pay(a, balance) ==
    LET code == IF now.info[a] = None THEN NoCode ELSE now.info[a].code
        i    == [balance |-> balance, code |-> code]
    IN  /\ i # now.info[a]
        /\ Become(a, i)
        /\ now' = [now EXCEPT !.info[a] = i]
        /\ UNCHANGED <<written, contracts, destroyed>>

\* A contract stores a value; the bundle has its info, too.
Store(a, s, v) ==
    /\ HasCode(now, a)
    /\ Become(a, now.info[a])
    /\ now' = [now EXCEPT !.storage[a][s] = v]
    /\ written' = [written EXCEPT ![a][s] = v]
    /\ UNCHANGED <<contracts, destroyed>>

\* A contract is created, where nothing or a balance was.
Deploy(a, balance, code) ==
    LET i == [balance |-> balance, code |-> code]
    IN  /\ ~ HasCode(now, a)
        /\ Become(a, i)
        /\ now' = [now EXCEPT !.info[a] = i]
        /\ contracts' = contracts \cup {code}
        /\ UNCHANGED <<written, destroyed>>

\* Mutant: the bundle forgets the account.
DestroyForgotten(a) ==
    /\ now.info[a] # None
    /\ now' = [now EXCEPT !.info[a] = None, !.storage[a] = NoSlots]
    /\ info' = [info EXCEPT ![a] = None]
    /\ written' = [written EXCEPT ![a] = [s \in Slots |-> None]]
    /\ touched' = touched \ {a}
    /\ attached' = attached \ {a}
    /\ destroyed' = destroyed \cup {a}
    /\ UNCHANGED <<parent, contracts>>
\* An account goes: a contract that destroys itself, or a balance at an address
\* where one transaction creates and destroys a contract (the only case since
\* EIP-6780).  Its slots go with it.
Destroy(a) ==
    /\ now.info[a] # None
    /\ now' = [now EXCEPT !.info[a] = None, !.storage[a] = NoSlots]
    /\ info' = [info EXCEPT ![a] = None]
    /\ written' = [written EXCEPT ![a] = [s \in Slots |-> None]]
    /\ touched' = touched \cup {a}
    /\ attached' = attached \ {a}
    /\ destroyed' = destroyed \cup {a}
    /\ UNCHANGED <<parent, contracts>>

Next ==
    \E a \in Addresses :
        \/ \E balance \in Balances : Pay(a, balance)
        \/ \E s \in Slots, v \in Values : Store(a, s, v)
        \/ \E balance \in Balances, code \in Codes : Deploy(a, balance, code)
        \/ Destroy(a)

Spec == Init /\ [][Next]_vars

-----------------------------------------------------------------------------
\* The overlay.

\* cache.insert_account_info, for the accounts of the bundle that have an info.
Cached(a) == a \in touched /\ info[a] # None

\* Mutant: an account in the cache is complete, what it lacks is zero.
CachedSlotOrZero(a, s) ==
    IF written[a][s] # None THEN written[a][s]
    ELSE IF Cached(a) THEN 0 ELSE parent.storage[a][s]
\* cache.insert_account_storage; any other slot is read from the parent state.
ReadSlot(a, s) ==
    IF written[a][s] # None THEN written[a][s] ELSE parent.storage[a][s]

ReadInfo(a) == IF Cached(a) THEN info[a] ELSE parent.info[a]

\* Mutant: no code is taken from bundle.contracts.
CodeIsAttachedNever(a) == a \in attached
\* The code comes with the info, or is found in bundle.contracts.
CodeIsAttached(a) == a \in attached \/ info[a].code \in contracts

\* What code_by_hash of the parent state finds.
ParentCodes == {parent.info[a].code : a \in {b \in Addresses : HasCode(parent, b)}}

CodeIsFound(a) ==
    LET i == ReadInfo(a)
    IN  \/ i = None \/ i.code = NoCode
        \/ Cached(a) /\ CodeIsAttached(a)
        \/ i.code \in ParentCodes

-----------------------------------------------------------------------------
\* A block is executed again on the state it was executed on: for every account
\* that was not destroyed by an earlier block of its chain, the overlay reads
\* the balance, the nonce, the code and each slot the real execution read -
\* whether the chain changed it, created it, or never touched it.
PreStateIsTrue ==
    \A a \in Addresses \ destroyed :
        /\ ReadInfo(a) = now.info[a]
        /\ CodeIsFound(a)
        /\ \A s \in Slots : ReadSlot(a, s) = now.storage[a][s]

\* What the overlay gets wrong of a destroyed account, and nothing else: as long
\* as it is gone it is what the parent state had, and once it is back its info
\* and code are right and a slot is wrong only where the parent state had one.
StaleOnlyWhereParentHad ==
    \A a \in destroyed :
        /\ now.info[a] = None => ReadInfo(a) = parent.info[a]
        /\ now.info[a] # None => ReadInfo(a) = now.info[a] /\ CodeIsFound(a)
        /\ \A s \in Slots :
             ReadSlot(a, s) # now.storage[a][s] => ReadSlot(a, s) = parent.storage[a][s]
=============================================================================
