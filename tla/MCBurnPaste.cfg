SPECIFICATION Spec
CONSTANTS
    PwMaxFails = 2
    PwWindowSec = 2
    PwLockSec = 1
    PwLockMaxSec = 2
    MaxTime = 5
    MaxViews = 3
    Ttls = {1, 3}
    Lag = 1
    NoRec = NoRec
INVARIANTS TypeOK ViewsConserved NothingLeftBehind
PROPERTIES LastViewEnds NeverEndsEarly PurgedWhenDue LockoutKept
