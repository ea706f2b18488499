------------------------------ MODULE LedgerOpen ------------------------------
(***************************************************************************)
(* Ledger::open (ledger/mod.rs) and the schema it installs or migrates     *)
(* (ledger/schema.rs), with a crash possible before and after every        *)
(* statement.  Statements outside a transaction commit one by one; those   *)
(* of a migration's transaction are only staged until its COMMIT.          *)
(***************************************************************************)
EXTENDS Integers

CONSTANTS
    Chains,      \* chain ids a node may be configured with
    Statements,  \* DDL statements of SCHEMA; the first creates meta
    None         \* a key meta does not have

Versions == {"1", "2", "3", "4"}

ASSUME OpenAssumption ==
    /\ Statements \in Nat \ {0}
    /\ None \notin Chains \cup Versions

VARIABLES
    created,     \* SCHEMA statements the file has seen
    shape,       \* the layout of the tables: "wide" is the v2 erc20 key,
                 \* "cause" the v3 column
    version,     \* meta.schema_version
    bound,       \* meta.chain_id
    rows,        \* the chains the ledger holds rows of
    staged,      \* what the open transaction did so far, or None
    pc,          \* where Ledger::open is; "closed" while no process runs
    configured   \* the chain this process runs

fileVars == <<created, shape, version, bound, rows>>
vars == <<fileVars, staged, pc, configured>>

Shapes == SUBSET {"wide", "cause"}
PCs == {"closed", "probe", "create", "version", "bind", "migrate", "check", "open"}

TypeOK ==
    /\ created \in 0..Statements
    /\ shape \in Shapes
    /\ version \in Versions \cup {None}
    /\ bound \in Chains \cup {None}
    /\ rows \subseteq Chains
    /\ staged \in [shape : Shapes, version : Versions] \cup {None}
    /\ pc \in PCs
    /\ configured \in Chains \cup {None}

\* The layout a release with schema version v wrote; "4" is a later release's.
ShapeOf(v) == CASE v = "1" -> {} [] v = "2" -> {"wide"} [] OTHER -> {"wide", "cause"}

\* There is no file yet, or one an earlier (or later) release left.
Init ==
    /\ \/ created = 0 /\ shape = {} /\ version = None /\ bound = None /\ rows = {}
       \/ /\ created = Statements
          /\ version \in Versions
          /\ shape = ShapeOf(version)
          /\ bound \in Chains
          /\ rows = {bound}
    /\ staged = None /\ pc = "closed" /\ configured = None

-----------------------------------------------------------------------------
\* The process goes away; SQLite rolls an open transaction back.
Crash ==
    /\ pc # "closed"
    /\ pc' = "closed"
    /\ staged' = None /\ configured' = None
    /\ UNCHANGED fileVars

Start(chain) ==
    /\ pc = "closed"
    /\ pc' = "probe"
    /\ configured' = chain
    /\ UNCHANGED <<fileVars, staged>>

\* SELECT count(*) FROM sqlite_master WHERE name = 'meta'
Probe ==
    /\ pc = "probe"
    /\ pc' = IF created = 0 THEN "create" ELSE "migrate"
    /\ UNCHANGED <<fileVars, staged, configured>>

\* Mutant: the batch goes on after its last statement.
CreateOneMore ==
    /\ pc = "create"
    /\ created' = created + 1
    /\ IF created = Statements THEN pc' = "version" /\ shape' = ShapeOf("3")
       ELSE UNCHANGED <<pc, shape>>
    /\ UNCHANGED <<version, bound, rows, staged, configured>>

\* execute_batch(SCHEMA), statement by statement.
Create ==
    /\ pc = "create"
    /\ created' = created + 1
    /\ IF created' = Statements THEN pc' = "version" /\ shape' = ShapeOf("3")
       ELSE UNCHANGED <<pc, shape>>
    /\ UNCHANGED <<version, bound, rows, staged, configured>>

InsertVersion ==
    /\ pc = "version"
    /\ version' = "3"
    /\ pc' = "bind"
    /\ UNCHANGED <<created, shape, bound, rows, staged, configured>>

InsertChain ==
    /\ pc = "bind"
    /\ bound' = configured
    /\ pc' = "open"
    /\ UNCHANGED <<created, shape, version, rows, staged, configured>>

\* Mutant: the migration's DDL commits on its own.
MigrateDdlUnwrapped(v, added, next) ==
    /\ pc = "migrate" /\ staged = None
    /\ version = v
    /\ shape' = shape \cup {added}
    /\ staged' = [shape |-> shape \cup {added}, version |-> next]
    /\ UNCHANGED <<created, version, bound, rows, pc, configured>>

\* A migration: the DDL and the version bump, staged, then committed as one.
MigrateDdl(v, added, next) ==
    /\ pc = "migrate" /\ staged = None
    /\ version = v
    /\ staged' = [shape |-> shape \cup {added}, version |-> next]
    /\ UNCHANGED <<fileVars, pc, configured>>
MigrateCommit ==
    /\ staged # None
    /\ shape' = staged.shape
    /\ version' = staged.version
    /\ staged' = None
    /\ UNCHANGED <<created, bound, rows, pc, configured>>

\* Mutant: any version this far is good enough.
MigratedUnchecked ==
    /\ pc = "migrate" /\ staged = None
    /\ version \notin {"1", "2"}
    /\ pc' = IF version # None THEN "check" ELSE "closed"
    /\ configured' = IF version # None THEN configured ELSE None
    /\ UNCHANGED <<fileVars, staged>>

\* Nothing (more) to migrate: the version must be this release's.  A meta
\* table without one makes the query fail; both abort the start.
Migrated ==
    /\ pc = "migrate" /\ staged = None
    /\ version \notin {"1", "2"}
    /\ pc' = IF version = "3" THEN "check" ELSE "closed"
    /\ configured' = IF version = "3" THEN configured ELSE None
    /\ UNCHANGED <<fileVars, staged>>

\* Mutants: the chain-id guard is missing; the file is bound to the new chain.
CheckChainSkipped ==
    /\ pc = "check"
    /\ pc' = "open"
    /\ UNCHANGED <<fileVars, staged, configured>>
CheckChainRebinds ==
    /\ pc = "check"
    /\ pc' = "open"
    /\ bound' = configured
    /\ UNCHANGED <<created, shape, version, rows, staged, configured>>

\* The chain-id guard.
CheckChain ==
    /\ pc = "check"
    /\ pc' = IF bound = configured THEN "open" ELSE "closed"
    /\ configured' = IF bound = configured THEN configured ELSE None
    /\ UNCHANGED <<fileVars, staged>>

\* The ExEx runs: rows of the chain it is configured with.
Write ==
    /\ pc = "open"
    /\ rows' = rows \cup {configured}
    /\ UNCHANGED <<created, shape, version, bound, staged, pc, configured>>

Next ==
    \/ Crash
    \/ \E chain \in Chains : Start(chain)
    \/ Probe
    \/ Create
    \/ InsertVersion
    \/ InsertChain
    \/ MigrateDdl("1", "wide", "2")
    \/ MigrateDdl("2", "cause", "3")
    \/ MigrateCommit
    \/ Migrated
    \/ CheckChain
    \/ Write

Spec == Init /\ [][Next]_vars

-----------------------------------------------------------------------------
\* An interrupted upgrade never leaves a half-migrated file: whenever the file
\* says which version it is, its tables have that version's layout.
VersionTellsShape ==
    version # None => created = Statements /\ shape = ShapeOf(version)

\* A ledger that is open is complete, current, and this chain's - whatever
\* file was found and however earlier opens ended.
OpenIsCurrent ==
    pc = "open" =>
        /\ created = Statements
        /\ version = "3" /\ shape = ShapeOf("3")
        /\ bound = configured

\* No sequence of restarts, with whatever --chain, mixes two chains in a file.
OneChain == \A c, d \in rows : c = d

\* What a file is bound to and the rows it has survive everything, and its
\* version only grows.
NothingIsTakenBack ==
    [][/\ bound # None => bound' = bound
       /\ rows \subseteq rows'
       /\ version = "2" => version' \in {"2", "3"}
       /\ version \in {"3", "4"} => version' = version]_vars

\* ledger/mod.rs: open creates the file if it is absent; so whatever a process
\* leaves behind is absent, or complete enough to be opened again.
AbsentOrComplete ==
    pc = "closed" => created = 0 \/ (version # None /\ bound # None)
=============================================================================
