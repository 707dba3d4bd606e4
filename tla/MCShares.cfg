\* File shares: uploads, downloads, passwords; the end of an account.
SPECIFICATION SharesSpec
CONSTANTS
    None = None
    NoRec = NoRec
    Parts = {"upload", "grants", "guarded", "resent", "end"}
    PwMaxFails = 2
    PwWindowSec = 2
    PwLockSec = 1
    PwLockMaxSec = 2
    MaxTime = 3
    MaxViews = 1
    Chunks <- TwoChunks
    Puts <- TwoPuts
    Retries = FALSE
    Clients <- OneClient
    PendingSec = 2
    Ttl = 1
    GrantSec = 1
    MaxActiveGrants = 1
    MaxGrantsPerClient = 1
    MaxGrantExtensions = 0
    Kinds <- PlainDeletable
    MaxFaults = 1
INVARIANTS FileKept AccountGone
PROPERTIES FileSafe AllEnd
CHECK_DEADLOCK FALSE
