--------------------------- MODULE MCTransferPages ---------------------------
(***************************************************************************)
(* Instances of TransferPages for TLC: what one block may be written as,   *)
(* against page targets from zero to beyond the cap.                       *)
(***************************************************************************)
EXTENDS TransferPages

CONSTANTS
    Limits   \* page targets

Batch(eth, erc20, gas, unattributed) ==
    [c \in Categories |-> CASE c = 0 -> eth [] c = 1 -> erc20
                            [] c = 2 -> gas [] c = 3 -> unattributed]
\* No row of the address; the block in full; a skip; a gap marker.
MCBatches == {Batch(0, 0, 0, 0), Batch(2, 0, 1, 0), Batch(0, 0, 1, 1), Batch(0, 0, 0, 1)}

MCQueries ==
    [from : {0}, to : {MaxBlock}, kind : {AnyKind}, limit : Limits]
      \cup [from : {2}, to : {MaxBlock}, kind : {AnyKind}, limit : {0}]
      \cup [from : {0}, to : {MaxBlock - 1}, kind : {0}, limit : {0}]
      \cup [from : {0}, to : {MaxBlock}, kind : {UnknownKind}, limit : {0}]
=============================================================================
