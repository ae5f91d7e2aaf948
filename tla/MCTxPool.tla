------------------------------- MODULE MCTxPool -------------------------------
EXTENDS TxPool

\* A remote account r and an account l that may turn local.  Block a1 mines r0 and a2 its
\* successor r1; b1 is the other branch.
MCTx == {"r0", "r1", "r2", "rx", "l0"}
MCFrom == [r0 |-> "r", r1 |-> "r", r2 |-> "r", rx |-> "r", l0 |-> "l"]
MCNonce == [r0 |-> 0, r1 |-> 1, r2 |-> 2, rx |-> 1, l0 |-> 0]
MCPrice == [r0 |-> 2, r1 |-> 1, r2 |-> 3, rx |-> 3, l0 |-> 1]
MCArrivals == (MCTx \X {FALSE}) \cup {<<"l0", TRUE>>}
MCBlock == {"g", "a1", "a2", "b1"}
MCParent == [a1 |-> "g", a2 |-> "a1", b1 |-> "g"]
MCNumber == [g |-> 0, a1 |-> 1, a2 |-> 2, b1 |-> 1]
MCAncestry == [g |-> {"g"}, a1 |-> {"g", "a1"}, a2 |-> {"g", "a1", "a2"}, b1 |-> {"g", "b1"}]
MCTxs == [g |-> {}, a1 |-> {"r0"}, a2 |-> {"r1"}, b1 |-> {"l0"}]
MCStateNonce == [g |-> [r |-> 0, l |-> 0], a1 |-> [r |-> 1, l |-> 0],
                 a2 |-> [r |-> 2, l |-> 0], b1 |-> [r |-> 0, l |-> 1]]
MCPayable == [g |-> MCTx, a1 |-> MCTx, a2 |-> MCTx, b1 |-> MCTx \ {"r1"}]
=============================================================================
