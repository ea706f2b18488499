----------------------------- MODULE BlockTree -----------------------------
(***************************************************************************)
(* The tree of block headers the node can see.  Passbook itself keeps no   *)
(* tree: it reads number, hash and parent hash off the blocks of a         *)
(* notification, and every row it writes is keyed by block hash.  A block  *)
(* here IS its hash; Number and Parent are the two header fields the code  *)
(* reads.                                                                  *)
(***************************************************************************)
EXTENDS Integers, Sequences

CONSTANTS
    Blocks,   \* every block (header) of every branch
    Number,   \* Number[b]: height of b
    Parent,   \* Parent[b]: parent of b, or None for the block above genesis
    None      \* the Option::None of the code

ASSUME TreeAssumption ==
    /\ None \notin Blocks
    /\ None \notin Nat
    /\ Number \in [Blocks -> Nat \ {0}]
    /\ Parent \in [Blocks -> Blocks \cup {None}]
    /\ \A b \in Blocks :
         Number[b] = IF Parent[b] = None THEN 1 ELSE Number[Parent[b]] + 1

\* The ancestors of b from the first block up to b itself; because numbers
\* start at 1 and are consecutive, Lineage[b][n] is b's ancestor of height n.
Lineage[b \in Blocks] ==
    IF Parent[b] = None THEN <<b>> ELSE Append(Lineage[Parent[b]], b)

HeightOf(b) == IF b = None THEN 0 ELSE Number[b]

\* The blocks after height h up to b, oldest first: the shape of a reth Chain.
PathAbove(h, b) == SubSeq(Lineage[b], h + 1, Number[b])

IsAncestor(x, b) ==
    \/ x = None
    \/ b # None /\ Number[x] <= Number[b] /\ Lineage[b][Number[x]] = x

\* Height of the last block x and y have in common (0: none).
CommonHeight(x, y) ==
    IF x = None \/ y = None THEN 0
    ELSE LET shared == {n \in 1..Number[x] :
                          n <= Number[y] /\ Lineage[x][n] = Lineage[y][n]}
         IN  IF shared = {} THEN 0
             ELSE CHOOSE n \in shared : \A m \in shared : m <= n

AncestorAt(n, b) == Lineage[b][n]

\* An ExExNotification: the reverted chain and the committed chain, each
\* possibly absent (ChainCommitted, ChainReverted, ChainReorged).
Note(rev, com) == [rev |-> rev, com |-> com]

\* Every notification a node following this tree can produce: a segment of one
\* branch, or two segments that leave the same block on different branches.
AllNotifications ==
    LET Segments(b) == {PathAbove(h, b) : h \in 0..(Number[b] - 1)}
        Chains      == UNION {Segments(b) : b \in Blocks}
    IN  {Note(<<>>, c) : c \in Chains}
          \cup {Note(r, <<>>) : r \in Chains}
          \cup {n \in {Note(r, c) : r \in Chains, c \in Chains} :
                  /\ Parent[n.rev[1]] = Parent[n.com[1]]
                  /\ n.rev[1] # n.com[1]}
============================================================================
