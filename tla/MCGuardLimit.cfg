\* "exactly max attempts are evaluated per window": attempts at once, cut off and given back.
SPECIFICATION GuardSpec
CONSTANTS
    Parts = {"network"}
    Reqs = {r1, r2, r3}
    None = None
    Max = 2
    WindowSec = 2
    BlockSec = 3
    OwnerSecs = {}
    MaxTime = 0
    MaxFaults = 3
    MaxLifts = 1
INVARIANT MaxPerWindow
CHECK_DEADLOCK FALSE
