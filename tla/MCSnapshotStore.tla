--------------------------- MODULE MCSnapshotStore ---------------------------
EXTENDS SnapshotStore, TLC

MCHeader(number, hash, parentHash, signer, difficulty, validators) ==
    [number |-> number, hash |-> hash, parentHash |-> parentHash, signer |-> signer,
     difficulty |-> difficulty, validators |-> validators]

\* Two branches that part after block 1, with epochs at heights 2 and 4 that grow,
\* shrink and replace the validator set.
MCTree ==
    [g  |-> MCHeader(0, "g", "none", 0, 1, {1, 2, 3}),
     a1 |-> MCHeader(1, "a1", "g", 1, 1, {}),
     a2 |-> MCHeader(2, "a2", "a1", 2, 1, {1, 2, 3, 4}),
     a3 |-> MCHeader(3, "a3", "a2", 3, 1, {}),
     a4 |-> MCHeader(4, "a4", "a3", 1, 2, {2, 3}),
     b2 |-> MCHeader(2, "b2", "a1", 3, 2, {1, 3})]

\* A node with the whole chain that serves one call at a time and trusts an epoch block
\* soon, and one that starts at the checkpoint 2 and serves two calls at once.
MCNodes == {[firstHeader |-> 1, immutability |-> 1, calls |-> 1],
            [firstHeader |-> 2, immutability |-> 5, calls |-> 2]}

\* Callers are interchangeable.
MCSymmetry == Permutations(Callers)

MCAddr == 1 .. 4
=============================================================================
