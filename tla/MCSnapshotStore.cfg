SPECIFICATION StoreSpec
CONSTANTS
    Addr <- MCAddr
    Tree <- MCTree
    Genesis = "g"
    Callers = {c1, c2}
    Epoch = 2
    Word = 65536
    CheckpointInterval = 4
    InMemorySnapshots = 2
    Nodes <- MCNodes
SYMMETRY MCSymmetry
INVARIANTS
    SnapshotsSound
    BranchKept
    TrustWearsOff
