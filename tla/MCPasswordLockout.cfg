SPECIFICATION Spec
CONSTANTS
    PwMaxFails = 3
    PwWindowSec = 3
    PwLockSec = 2
    PwLockMaxSec = 5
    MaxTime = 16
INVARIANTS GuessesBounded LocksEscalate
 
