------------------------ MODULE MCLedgerTransactions ------------------------
(***************************************************************************)
(* Two blocks, one above the other, for model-checking LedgerTransactions. *)
(* What the blocks did does not matter to the ledger.                      *)
(***************************************************************************)
EXTENDS LedgerTransactions

MCBlocks == {"b1", "b2"}
MCNumber == [b \in MCBlocks |-> IF b = "b1" THEN 1 ELSE 2]
MCParent == [b \in MCBlocks |-> IF b = "b1" THEN None ELSE "b1"]
MCAccount == [b \in MCBlocks \cup {None} |->
                [a \in Watched |-> [balance |-> 0, nonce |-> 0]]]
MCActivity == [b \in MCBlocks |->
                [a \in Watched |-> [in |-> 0, out |-> 0, gas |-> 0, credit |-> 0,
                                   writes |-> FALSE]]]
=============================================================================
