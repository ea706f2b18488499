--------------------------- MODULE MCPassbookExEx ---------------------------
(***************************************************************************)
(* Instances of PassbookExEx for TLC.  A block is <<height, branch>>: a    *)
(* trunk "a" and a fork "b" that leaves it after height 1.                 *)
(***************************************************************************)
EXTENDS PassbookExEx, FiniteSets

CONSTANTS
    TrunkHeight,  \* height of the trunk
    ForkHeight,   \* height of the fork (1: no fork)
    MaxCommit,    \* longest committed chain of one notification
    MaxRevert     \* longest reverted chain of one notification

MCBlocks == {<<n, "a">> : n \in 1..TrunkHeight}
              \cup {<<n, "b">> : n \in 2..ForkHeight}
MCNumber == [b \in MCBlocks |-> b[1]]
MCParent == [b \in MCBlocks |->
               IF b[1] = 1 THEN None
               ELSE IF b = <<2, "b">> THEN <<1, "a">>
               ELSE <<b[1] - 1, b[2]>>]

\* The watched accounts are contracts: value moves, the nonce stays.  1a passes
\* value through; 2a brings a frame and a credit the first release misses; 3a
\* takes the balance back against a credit; 4a undoes 3a's balance change with
\* a frame; 2b is 2a's sibling on the fork; 3b brings a credit and spends it,
\* writing storage.
Idle == [in |-> 0, out |-> 0, gas |-> 0, credit |-> 0, writes |-> FALSE]
ActivityAt(b) ==
    CASE b = <<1, "a">> -> [Idle EXCEPT !.in = 1, !.out = 1]
      [] b = <<2, "a">> -> [Idle EXCEPT !.in = 1, !.credit = 1]
      [] b = <<3, "a">> -> [Idle EXCEPT !.out = 4, !.credit = 2]
      [] b = <<4, "a">> -> [Idle EXCEPT !.in = 2]
      [] b = <<2, "b">> -> [Idle EXCEPT !.in = 1]
      [] b = <<3, "b">> -> [Idle EXCEPT !.out = 1, !.credit = 1, !.writes = TRUE]
      [] OTHER -> Idle
MCActivity == [b \in MCBlocks |-> [a \in Watched |-> ActivityAt(b)]]

Balance[b \in MCBlocks \cup {None}] ==
    IF b = None THEN 5
    ELSE LET act == ActivityAt(b)
         IN  Balance[MCParent[b]] + act.in - act.out - act.gas + act.credit
MCAccount == [b \in MCBlocks \cup {None} |->
                [a \in Watched |-> [balance |-> Balance[b], nonce |-> 0]]]

\* Only 2a moves value: where the question is the driver's position, this keeps
\* skips and stalls and saves most of the ledger's contents.
QuietActivity == [b \in MCBlocks |-> [a \in Watched |->
                   IF b = <<2, "a">> THEN [Idle EXCEPT !.in = 1] ELSE Idle]]
QuietAccount == [b \in MCBlocks \cup {None} |-> [a \in Watched |->
                   [balance |-> IF b # None /\ b[1] > 1 /\ b[2] = "a" THEN 6 ELSE 5,
                    nonce |-> 0]]]
MCUnexplained == {<<2, "a">>}
NoneUnexplained == {}

MCNotifications == {n \in AllNotifications :
                      Len(n.com) <= MaxCommit /\ Len(n.rev) <= MaxRevert}
=============================================================================
