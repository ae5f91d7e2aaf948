SPECIFICATION FairSpec
CONSTANTS
    ResubmitAdjustChanSize = 3
    ChainHeadChanSize = 1
    MaxTxs = 1
PROPERTY CommitResubmits
CHECK_DEADLOCK FALSE
