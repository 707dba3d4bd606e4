\* An undo of a root change whose owner's request ends, or is still to store its job, before the re-seal goes on.
SPECIFICATION KeysSpec
CONSTANTS
    None = None
    Subs = {m1, m2, m3}
    BackSec = 1
    MaxTime = 2
    MaxDate = 3
    MaxMade = 3
    Parts = {"ring"}
    RingPlans <- Hasty
INVARIANT Readable
CHECK_DEADLOCK FALSE
