\* A chunk sent again while the upload is finalized.
SPECIFICATION SharesSpec
CONSTANTS
    None = None
    NoRec = NoRec
    Parts = {"resent"}
    PwMaxFails = 2
    PwWindowSec = 2
    PwLockSec = 1
    PwLockMaxSec = 2
    MaxTime = 3
    MaxViews = 1
    Chunks <- TwoChunks
    Puts <- TwoPuts
    Retries = FALSE
    Clients <- OneClient
    PendingSec = 2
    Ttl = 1
    GrantSec = 1
    MaxActiveGrants = 1
    MaxGrantsPerClient = 1
    MaxGrantExtensions = 0
    Kinds <- PlainDeletable
    MaxFaults = 1
PROPERTIES UndoneOnlyUnreferenced
CHECK_DEADLOCK FALSE
