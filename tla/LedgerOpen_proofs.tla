-------------------------- MODULE LedgerOpen_proofs --------------------------
(***************************************************************************)
(* Ledger::open is safe to interrupt: for any chains, any number of schema *)
(* statements and any sequence of crashes, an open ledger is current and   *)
(* holds the rows of one chain.                                            *)
(***************************************************************************)
EXTENDS LedgerOpen, TLAPS

\* Where open is says what it has established so far.
PcInv ==
    /\ pc # "closed" => configured \in Chains
    /\ pc = "create" => created < Statements /\ version = None
    /\ pc = "version" => created = Statements /\ shape = ShapeOf("3") /\ version = None
    /\ pc = "bind" => version = "3" /\ bound = None
    /\ pc = "check" => version = "3"
    /\ pc = "open" => version = "3" /\ bound = configured

\* A transaction is only ever open in a migration, and what it staged is the
\* next version's layout.
StagedInv ==
    staged # None =>
        /\ pc = "migrate"
        /\ version \in {"1", "2"}
        /\ version = "2" => staged.version = "3"
        /\ staged.version \in {"2", "3"}
        /\ staged.shape = ShapeOf(staged.version)

\* The chain is bound after the version is known, and before the first row.
BoundInv ==
    /\ bound # None => version # None
    /\ \A c \in rows : c = bound

OpenInv == TypeOK /\ VersionTellsShape /\ PcInv /\ StagedInv /\ BoundInv

-----------------------------------------------------------------------------
LEMMA InitOpenInv == Init => OpenInv
<1> SUFFICES ASSUME Init PROVE OpenInv
  OBVIOUS
<1>1. TypeOK
  BY OpenAssumption DEF Init, TypeOK, ShapeOf, Shapes, PCs, Versions
<1>2. VersionTellsShape /\ PcInv /\ StagedInv /\ BoundInv
  BY OpenAssumption DEF Init, VersionTellsShape, PcInv, StagedInv, BoundInv, Versions
<1>3. QED BY <1>1, <1>2 DEF OpenInv

\* The layouts of the versions this release migrates through.
LEMMA Layouts ==
    /\ ShapeOf("1") \cup {"wide"} = ShapeOf("2")
    /\ ShapeOf("2") \cup {"cause"} = ShapeOf("3")
    /\ \A v \in Versions : ShapeOf(v) \in Shapes
    /\ None \notin Versions
  BY OpenAssumption DEF ShapeOf, Shapes, Versions

LEMMA StepOpenInv == OpenInv /\ [Next]_vars => OpenInv'
<1> SUFFICES ASSUME OpenInv, [Next]_vars PROVE OpenInv'
  OBVIOUS
<1> USE OpenAssumption, Layouts
<1>1. CASE Crash
  BY <1>1 DEF Crash, fileVars, OpenInv, TypeOK, VersionTellsShape, PcInv, StagedInv,
              BoundInv, PCs
<1>2. ASSUME NEW chain \in Chains, Start(chain) PROVE OpenInv'
  BY <1>2 DEF Start, fileVars, OpenInv, TypeOK, VersionTellsShape, PcInv, StagedInv,
              BoundInv, PCs
<1>3. CASE Probe
  BY <1>3 DEF Probe, fileVars, OpenInv, TypeOK, VersionTellsShape, PcInv, StagedInv,
              BoundInv, PCs
<1>4. CASE Create
  <2>1. /\ created < Statements /\ created' = created + 1
        /\ version = None /\ version' = None /\ staged = None /\ staged' = None
        /\ bound' = bound /\ rows' = rows /\ configured' = configured
    BY <1>4 DEF Create, OpenInv, PcInv, StagedInv
  <2>2. \/ pc' = "create" /\ shape' = shape /\ created' # Statements
        \/ pc' = "version" /\ shape' = ShapeOf("3") /\ created' = Statements
    BY <1>4 DEF Create
  <2>3. TypeOK'
    BY <2>1, <2>2 DEF OpenInv, TypeOK, PCs, Versions
  <2>4. PcInv'
    BY <1>4, <2>1, <2>2, <2>3 DEF Create, OpenInv, PcInv, TypeOK
  <2>5. VersionTellsShape' /\ StagedInv' /\ BoundInv'
    BY <2>1 DEF OpenInv, VersionTellsShape, StagedInv, BoundInv
  <2>6. QED BY <2>3, <2>4, <2>5 DEF OpenInv
<1>5. CASE InsertVersion
  BY <1>5 DEF InsertVersion, OpenInv, TypeOK, VersionTellsShape, PcInv, StagedInv,
              BoundInv, PCs, Versions
<1>6. CASE InsertChain
  BY <1>6 DEF InsertChain, OpenInv, TypeOK, VersionTellsShape, PcInv, StagedInv,
              BoundInv, PCs, Versions
<1>7. ASSUME NEW v \in {"1", "2"}, NEW added, NEW next \in {"2", "3"},
             ShapeOf(v) \cup {added} = ShapeOf(next), v = "2" => next = "3",
             MigrateDdl(v, added, next)
      PROVE  OpenInv'
  <2>1. /\ pc = "migrate" /\ pc' = pc /\ version = v /\ configured' = configured
        /\ created' = created /\ shape' = shape /\ version' = version
        /\ bound' = bound /\ rows' = rows
        /\ staged' = [shape |-> shape \cup {added}, version |-> next]
    BY <1>7 DEF MigrateDdl, fileVars
  <2>2. shape = ShapeOf(v)
    BY <2>1 DEF OpenInv, VersionTellsShape, Versions
  <2>3. staged' = [shape |-> ShapeOf(next), version |-> next]
    BY <2>1, <2>2, <1>7
  <2>4. TypeOK'
    BY <2>1, <2>3 DEF OpenInv, TypeOK, Versions
  <2>5. StagedInv'
    BY <2>1, <2>3, <1>7 DEF StagedInv
  <2>6. VersionTellsShape' /\ PcInv' /\ BoundInv'
    BY <2>1 DEF OpenInv, VersionTellsShape, PcInv, BoundInv
  <2>7. QED BY <2>4, <2>5, <2>6 DEF OpenInv
<1>8. CASE MigrateCommit
  <2>1. /\ pc = "migrate" /\ pc' = pc /\ configured' = configured
        /\ version \in {"1", "2"} /\ version' \in {"2", "3"}
        /\ shape' = ShapeOf(version') /\ staged' = None
        /\ created' = created /\ bound' = bound /\ rows' = rows
    BY <1>8 DEF MigrateCommit, OpenInv, StagedInv
  <2>2. created = Statements
    BY <2>1 DEF OpenInv, VersionTellsShape, Versions
  <2>3. QED BY <2>1, <2>2 DEF OpenInv, TypeOK, VersionTellsShape, PcInv, StagedInv,
                              BoundInv, Versions
<1>9. CASE Migrated
  BY <1>9 DEF Migrated, fileVars, OpenInv, TypeOK, VersionTellsShape, PcInv, StagedInv,
              BoundInv, PCs
<1>10. CASE CheckChain
  BY <1>10 DEF CheckChain, fileVars, OpenInv, TypeOK, VersionTellsShape, PcInv, StagedInv,
               BoundInv, PCs
<1>11. CASE Write
  BY <1>11 DEF Write, OpenInv, TypeOK, VersionTellsShape, PcInv, StagedInv, BoundInv
<1>12. CASE UNCHANGED vars
  BY <1>12 DEF vars, fileVars, OpenInv, TypeOK, VersionTellsShape, PcInv, StagedInv, BoundInv
<1>13. CASE MigrateDdl("1", "wide", "2")
  BY <1>7, <1>13
<1>14. CASE MigrateDdl("2", "cause", "3")
  BY <1>7, <1>14
<1>15. QED BY <1>1, <1>2, <1>3, <1>4, <1>5, <1>6, <1>8, <1>9, <1>10, <1>11, <1>12,
              <1>13, <1>14 DEF Next

THEOREM OpenInvariant == Spec => []OpenInv
BY InitOpenInv, StepOpenInv, PTL DEF Spec

\* mod.rs 45-52: whenever the file names its version, its tables have that
\* version's layout, wherever an upgrade was interrupted.
THEOREM NeverHalfMigrated == Spec => []VersionTellsShape
<1>1. OpenInv => VersionTellsShape
  BY DEF OpenInv
<1>2. QED BY <1>1, OpenInvariant, PTL

\* Ledger::open returns a ledger that is complete, current and this chain's.
THEOREM OpenLedgerIsCurrent == Spec => []OpenIsCurrent
<1>1. OpenInv => OpenIsCurrent
  BY OpenAssumption DEF OpenInv, VersionTellsShape, PcInv, OpenIsCurrent, Versions
<1>2. QED BY <1>1, OpenInvariant, PTL

\* The chain-id guard: a ledger never holds rows of two chains.
THEOREM ChainsNeverMix == Spec => []OneChain
<1>1. OpenInv => OneChain
  BY DEF OpenInv, BoundInv, OneChain
<1>2. QED BY <1>1, OpenInvariant, PTL

\* Type correctness, with what open has staged and where it is.
THEOREM TypeCorrect == Spec => []TypeOK
<1>1. OpenInv => TypeOK
  BY DEF OpenInv
<1>2. QED BY <1>1, OpenInvariant, PTL

\* What one step may do to what the file already says.
Kept ==
    /\ bound # None => bound' = bound
    /\ rows \subseteq rows'
    /\ version = "2" => version' \in {"2", "3"}
    /\ version \in {"3", "4"} => version' = version

\* InsertVersion and InsertChain only run where nothing is written yet, and a
\* commit only takes the file one version up.
LEMMA StepKeeps == OpenInv /\ [Next]_vars => Kept
<1> SUFFICES ASSUME OpenInv, [Next]_vars PROVE Kept
  OBVIOUS
<1>0. None \notin Versions
  BY OpenAssumption
<1>1. CASE UNCHANGED fileVars
  BY <1>1 DEF fileVars, Kept
<1>2. CASE Create
  BY <1>2 DEF Create, Kept
<1>3. CASE InsertVersion
  BY <1>0, <1>3 DEF InsertVersion, Kept, OpenInv, PcInv, Versions
<1>4. CASE InsertChain
  BY <1>4 DEF InsertChain, Kept, OpenInv, PcInv
<1>5. CASE MigrateCommit
  BY <1>0, <1>5 DEF MigrateCommit, Kept, OpenInv, StagedInv
<1>6. CASE Write
  BY <1>6 DEF Write, Kept
<1>7. \/ UNCHANGED fileVars \/ Create \/ InsertVersion \/ InsertChain
      \/ MigrateCommit \/ Write
  BY DEF Next, vars, fileVars, Crash, Start, Probe, MigrateDdl, Migrated, CheckChain
<1>8. QED BY <1>1, <1>2, <1>3, <1>4, <1>5, <1>6, <1>7

\* Ledger::open and the writer never rebind a file, never drop rows and never
\* take its version back.
THEOREM FileOnlyGrows == Spec => NothingIsTakenBack
<1>1. OpenInv /\ [Next]_vars => [Kept]_vars
  BY StepKeeps
<1>2. NothingIsTakenBack <=> [][Kept]_vars
  BY DEF NothingIsTakenBack, Kept
<1>3. QED BY <1>1, <1>2, OpenInvariant, PTL DEF Spec
=============================================================================
