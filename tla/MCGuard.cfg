\* One network: three requests, two failures, a limit of two; and a limit of three while its rows move.
SPECIFICATION GuardSpec
CONSTANTS
    Parts = {"network", "tags", "check"}
    Reqs = {r1, r2, r3}
    None = None
    Max = 2
    WindowSec = 2
    BlockSec = 3
    OwnerSecs = {1, 4}
    MaxTime = 4
    MaxFaults = 2
    MaxLifts = 1
INVARIANTS CountedBounded AlarmCovers 
PROPERTY AllEnd
CHECK_DEADLOCK FALSE
