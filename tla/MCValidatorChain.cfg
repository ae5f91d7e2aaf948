SPECIFICATION Spec
CONSTANTS
    Addr <- MCAddr
    ValidatorSets <- MCValidatorSets
    Epoch = 3
    MaxNumber = 7
    Word = 65536
INVARIANTS
    RecentsComplete
    SignersRemain
    SpamProtection
    SealedIsAccepted
    OneInTurn
    AcceptedCanBeApplied
