\* A Drive, a receive link, its row in the index, and the upgrade of two Drives.
SPECIFICATION DrivesSpec
CONSTANTS
    None = None
    Root = Root
    Ids <- DriveIds
    MaxSize = 2
    Capacity = 3
    MaxDepth = 4
    Puts <- PutIds
    Shares <- ShareIds
    PendingSec = 1
    MaxTime = 2
    MaxFaults = 1
    Plans <- DrivePlans
    Parts = {"drive", "receive", "link", "upgrade"}
INVARIANTS DriveSafe 
PROPERTIES   LockoutKept AllEnd
CHECK_DEADLOCK FALSE
