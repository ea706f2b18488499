------------------------------- MODULE Ledger -------------------------------
(***************************************************************************)
(* The SQLite ledger and the four transactions of ledger/writer.rs.        *)
(*                                                                         *)
(* A row is abstracted to its group in the BlockBatch it came in.  All     *)
(* carry the block hash, so rows[b] is the set of groups stored for b.     *)
(* unattributed_deltas has the key (chain_id, block_hash, address): one    *)
(* cause per block and address.  last stands for the meta pair last_block  *)
(* / last_block_hash, always written together.                             *)
(* Each operation is one SQLite transaction, hence one step.               *)
(***************************************************************************)
EXTENDS BlockPipeline

VARIABLES
    rows,   \* Blocks -> SUBSET RowGroups
    marks,  \* Blocks -> Watched -> Causes \cup {None}: unattributed_deltas
    last    \* meta.last_block / last_block_hash

ledgerVars == <<rows, marks, last>>

\* Mutant: the enum as it was before gap markers had a cause of their own.
CausesBeforeGapFill == {"parent_state_unavailable", "unexplained_residual"}

\* UnattributedDeltaCause
Causes == {"parent_state_unavailable", "unexplained_residual",
           "block_not_delivered"}

ASSUME CauseAssumption == None \notin Causes

LedgerTypeOK ==
    /\ rows  \in [Blocks -> SUBSET RowGroups]
    /\ marks \in [Blocks -> [Watched -> Causes \cup {None}]]
    /\ last  \in Blocks \cup {None}

LedgerInit ==
    /\ rows  = [b \in Blocks |-> {}]
    /\ marks = [b \in Blocks |-> [a \in Watched |-> None]]
    /\ last  = None

\* unattributed_deltas after INSERT OR REPLACE of `cause` for block b and every
\* address of S.
Flag(b, S, cause) ==
    [marks EXCEPT ![b] = [a \in Watched |-> IF a \in S THEN cause ELSE @[a]]]

\* write_block: INSERT OR REPLACE of the batch's rows and skip markers, then
\* the meta pair.  Nothing already stored for b is removed.
WriteBlock(b, groups, skipped) ==
    /\ rows'  = [rows EXCEPT ![b] = @ \cup groups]
    /\ marks' = Flag(b, skipped, "parent_state_unavailable")
    /\ last'  = b

\* write_unattributed: the diagnostic row of a stall; meta stays.
WriteUnattributed(b, a) ==
    /\ marks' = Flag(b, {a}, "unexplained_residual")
    /\ UNCHANGED <<rows, last>>

\* write_gap_block_marker: one marker per watched address, then the meta pair.
WriteGapBlockMarker(b) ==
    /\ marks' = Flag(b, Watched, "block_not_delivered")
    /\ last'  = b
    /\ UNCHANGED rows

\* Mutant: the DELETE on unattributed_deltas is forgotten.
DeleteBlocksKeepingMarks(S) ==
    /\ rows' = [b \in Blocks |-> IF b \in S THEN {} ELSE rows[b]]
    /\ UNCHANGED <<marks, last>>

\* delete_blocks: the rows of all four tables for these hashes; meta stays.
DeleteBlocks(S) ==
    /\ rows'  = [b \in Blocks |-> IF b \in S THEN {} ELSE rows[b]]
    /\ marks' = [b \in Blocks |-> IF b \in S THEN [a \in Watched |-> None]
                                  ELSE marks[b]]
    /\ UNCHANGED last

\* resume_head, restricted to its height.
ResumeHeight == IF last = None THEN None ELSE Number[last]

-----------------------------------------------------------------------------
\* The ledger on its own: any sequence of the four transactions.
LedgerNext ==
    \/ \E b \in Blocks, groups \in SUBSET RowGroups, skipped \in SUBSET Watched :
         WriteBlock(b, groups, skipped)
    \/ \E b \in Blocks, a \in Watched : WriteUnattributed(b, a)
    \/ \E b \in Blocks : WriteGapBlockMarker(b)
    \/ \E S \in SUBSET Blocks : DeleteBlocks(S)

LedgerSpec == LedgerInit /\ [][LedgerNext]_ledgerVars
=============================================================================
