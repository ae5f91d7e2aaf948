SPECIFICATION Spec
CONSTANTS
    Block <- MCBlock
    Genesis = "g"
    NoBlock = "none"
    Parent <- MCParent
    Number <- MCNumber
    TD <- MCTD
    Ancestry <- MCAncestry
    Tx <- MCTx
    Txs <- MCTxs
    Bad = {"x2"}
    TriesInMemory = 1
    MaxOutages = 1
    MaxRewinds = 1
INVARIANTS
    IndexFollowsHead
    TxsIndexed
PROPERTY IsLedger
