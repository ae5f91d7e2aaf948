SPECIFICATION FairSpec
CONSTANTS
    ResubmitAdjustChanSize = 2
    ChainHeadChanSize = 1
    MaxTxs = 1
INVARIANT TimerKept
PROPERTIES
    HeadFollowed
    TxsResubmitted
CHECK_DEADLOCK FALSE
