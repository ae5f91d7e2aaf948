--------------------------- MODULE MCBlockFetcher ---------------------------
EXTENDS BlockFetcher

\* a2 is an empty block on a1.  b1 competes with a1 and has the same body.  The peer q
\* announces all blocks with wrong numbers, one of them with none.
MCHash == {"a1", "a2", "b1"}
MCParent == [a1 |-> "g", a2 |-> "a1", b1 |-> "g"]
MCNumber == [g |-> 0, a1 |-> 1, a2 |-> 2, b1 |-> 1]
MCAnnouncedNumber == [p |-> [a1 |-> 1, a2 |-> 2, b1 |-> 1], q |-> [a1 |-> 2, a2 |-> 0, b1 |-> 2]]
MCBody == [a1 |-> "t", a2 |-> "none", b1 |-> "t"]
=============================================================================
