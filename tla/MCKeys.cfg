\* The timeline of the sub-MEKs, the keyring, its set-up, the kits and what they bring back.
SPECIFICATION KeysSpec
CONSTANTS
    None = None
    Subs = {m1, m2, m3}
    BackSec = 1
    MaxTime = 2
    MaxDate = 3
    MaxMade = 3
    Parts = {"timeline", "ring", "setup", "kits", "rescue"}
    RingPlans <- AllRings
INVARIANTS StaysValid PickIsCurrent 
PROPERTIES ImplementsCurrent SetupSafe  AllEnd
CHECK_DEADLOCK FALSE
