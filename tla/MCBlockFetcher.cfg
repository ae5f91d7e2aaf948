SPECIFICATION FetcherSpec
CHECK_DEADLOCK FALSE
CONSTANTS
    Peer = {"p", "q"}
    Nobody = "nobody"
    Hash <- MCHash
    Genesis = "g"
    Parent <- MCParent
    Number <- MCNumber
    AnnouncedNumber <- MCAnnouncedNumber
    Body <- MCBody
    Empty = {"a2"}
    Bad = {"b1"}
    HashLimit = 2
    BlockLimit = 1
    MaxUncleDist = 0
    MaxQueueDist = 1
    MaxMsgs = 3
INVARIANTS
    AllowanceKept
    ImportedOnce
    OnlyLossBlocks
PROPERTY
    AnnouncementsServed
