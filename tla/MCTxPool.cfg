SPECIFICATION Spec
CONSTANTS
    Account = {"r", "l"}
    NoAccount = "none"
    Tx <- MCTx
    From <- MCFrom
    Nonce <- MCNonce
    Price <- MCPrice
    Block <- MCBlock
    Genesis = "g"
    NoBlock = "none"
    Parent <- MCParent
    Number <- MCNumber
    Ancestry <- MCAncestry
    Txs <- MCTxs
    StateNonce <- MCStateNonce
    Payable <- MCPayable
    PriceLimit = 1
    Prices = {2}
    AccountSlots = 1
    GlobalSlots = 2
    AccountQueue = 1
    GlobalQueue = 1
    PriceBump = 10
    ReorgDepth = 1
    MaxHeads = 2
    MaxCallers = 1
    Arrivals <- MCArrivals
INVARIANTS
    IndexesAgree
    PendingExecutable
    PendingAnnounced
    NoneStranded
