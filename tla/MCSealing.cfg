SPECIFICATION Spec
CONSTANTS
    Contents = {empty, full}
    ResultQueueSize = 1
    ChainHeadChanSize = 1
    StaleThreshold = 1
    Goroutine = {g1, g2, g3}
    Nobody = Nobody
    MaxHead = 1
SYMMETRY Symmetry
INVARIANTS
    OneSealing
    TaskKept
    WrittenOnce
