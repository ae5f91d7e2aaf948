SPECIFICATION FinalizationSpec
CONSTANTS
    Addr <- MCAddr
    Epoch = 2
    Word = 65536
    Senders = {1}
    Prices = {1, 2}
    MinimalGasPrice = 2
    BlockReward = 5
    MaxValidatorNum = 3
    CandidateLists <- MCCandidateLists
    MaxTxs = 1
    MaxHeight = 3
INVARIANTS
    MadeIsAccepted
    RewardsConserved
    PaidOutAtEpoch
    SlashedJustly
