----------------------------- MODULE CaptureLog -----------------------------
(***************************************************************************)
(* What run_passbook promises its operator, with everything else removed:  *)
(* a forward-only log of heights.  A height is made durable (captured or   *)
(* marked) next to or below the current one - never further ahead - and    *)
(* only a durable height is released to the pruner.                        *)
(***************************************************************************)
EXTENDS Integers

CONSTANTS Heights, None

VARIABLES
    durable,   \* heights ever made durable
    current,   \* the resume point
    released   \* the height last released to the pruner

logVars == <<durable, current, released>>

LogInit == durable = {} /\ current = None /\ released = None

Record(n) ==
    /\ current # None => n <= current + 1
    /\ durable' = durable \cup {n}
    /\ current' = n
    /\ UNCHANGED released

Release(n) ==
    /\ n \in durable
    /\ released' = n
    /\ UNCHANGED <<durable, current>>

LogNext == \E n \in Heights : Record(n) \/ Release(n)

LogSpec == LogInit /\ [][LogNext]_logVars
=============================================================================
