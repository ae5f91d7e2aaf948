SPECIFICATION FairMinerSpec
CONSTANT MaxStarters = 2
INVARIANTS
    IntentKept
    NoMiningDuringSync
PROPERTIES
    MiningResumes
    UndisturbedAfterDone
    StopTerminates
