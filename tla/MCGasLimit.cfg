SPECIFICATION GasFairSpec
CONSTANTS
    GasLimitBoundDivisor = 4
    MinGasLimit = 5
    MinGasTarget = 21
    MaxGasTarget = 30
    Targets <- MCTargets
INVARIANTS
    MinedIsAccepted
PROPERTIES
    BandKept
    BandReached
