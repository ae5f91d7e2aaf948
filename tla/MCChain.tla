------------------------------- MODULE MCChain -------------------------------
EXTENDS Chain

\* Difficulties 1 and 2 as Sonium's: two branches that overtake each other, are as heavy
\* as each other at different heights and include the same transaction, and a heavy
\* branch from a block that does not execute.
MCParent == [a1 |-> "g", a2 |-> "a1", a3 |-> "a2", b1 |-> "g", b2 |-> "b1",
             x2 |-> "b1", x3 |-> "x2"]
MCBlock == {"g", "a1", "a2", "a3", "b1", "b2", "x2", "x3"}
MCNumber == [g |-> 0, a1 |-> 1, a2 |-> 2, a3 |-> 3, b1 |-> 1, b2 |-> 2, x2 |-> 2, x3 |-> 3]
MCTD == [g |-> 1, a1 |-> 2, a2 |-> 3, a3 |-> 5, b1 |-> 3, b2 |-> 4, x2 |-> 5, x3 |-> 6]
MCAncestry ==
    [g |-> {"g"}, a1 |-> {"g", "a1"}, a2 |-> {"g", "a1", "a2"},
     a3 |-> {"g", "a1", "a2", "a3"}, b1 |-> {"g", "b1"}, b2 |-> {"g", "b1", "b2"},
     x2 |-> {"g", "b1", "x2"}, x3 |-> {"g", "b1", "x2", "x3"}]
MCTx == {"s", "t"}
MCTxs == [g |-> {}, a1 |-> {"s"}, a2 |-> {"t"}, a3 |-> {}, b1 |-> {"t"}, b2 |-> {},
          x2 |-> {}, x3 |-> {}]
=============================================================================
