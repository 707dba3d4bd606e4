--------------------------- MODULE SharePassword ---------------------------
(***************************************************************************)
(* The lockout arithmetic of share passwords, src/src/lib/sharepw.js: pure *)
(* operators over the small state a store keeps for one share.  `since`    *)
(* and `until` are times in seconds, NoTime for the code's null.           *)
(***************************************************************************)
EXTENDS Integers

CONSTANTS
    PwMaxFails,   \* share.pwMaxFails: wrong passwords that lock
    PwWindowSec,  \* share.pwWindowSec: the window they are counted in
    PwLockSec,    \* share.pwLockSec: the first lock
    PwLockMaxSec  \* PW_LOCK_MAX_SEC: no lock is longer (unless PwLockSec is)

\* sharePwRule replaces anything that is not a positive integer by its default.
ASSUME PwRuleAssumption ==
    /\ PwMaxFails \in Nat \ {0}
    /\ PwWindowSec \in Nat \ {0}
    /\ PwLockSec \in Nat \ {0}
    /\ PwLockMaxSec \in Nat

NoTime == -1
Time == Nat

PwState == [n : Nat, since : Time \cup {NoTime}, until : Time \cup {NoTime}, strikes : Nat]

\* No state stored, as cleanState reads it.
NoFails == [n |-> 0, since |-> NoTime, until |-> NoTime, strikes |-> 0]

PwLocked(st, t) == st.until # NoTime /\ st.until > t

Least(a, b) == IF a <= b THEN a ELSE b
Most(a, b) == IF a >= b THEN a ELSE b

\* 2 ** min(max(0, strike - 1), log2(PW_LOCK_MAX_FACTOR)), PW_LOCK_MAX_FACTOR = 64.
LockFactor(strike) == <<1, 2, 4, 8, 16, 32, 64>>[Least(Most(0, strike - 1), 6) + 1]

LockSeconds(strike) == Least(PwLockSec * LockFactor(strike), Most(PwLockSec, PwLockMaxSec))

\* FailsAt had it counted what lies before the window.
FailsAtOutside(st, t) ==
    (IF st.since # NoTime /\ st.since < t - PwWindowSec THEN st.n ELSE 0) + 1

\* The failure count a wrong password at t makes: the window is fixed and opens at its first failure.
FailsAt(st, t) ==
    (IF st.since # NoTime /\ st.since > t - PwWindowSec THEN st.n ELSE 0) + 1

PwFailedShort(st, t) ==
    LET n == FailsAt(st, t)
    IN  IF n >= PwMaxFails
        THEN [n |-> 0, since |-> NoTime, until |-> t + LockSeconds(st.strikes), strikes |-> st.strikes + 1]
        ELSE [n |-> n, since |-> IF n = 1 THEN t ELSE st.since,
              until |-> st.until, strikes |-> st.strikes]

\* One wrong password at t, the password not being locked.
PwFailed(st, t) ==
    LET n == FailsAt(st, t)
        strike == st.strikes + 1
    IN  IF n >= PwMaxFails
        THEN [n |-> 0, since |-> NoTime, until |-> t + LockSeconds(strike), strikes |-> strike]
        ELSE [n |-> n, since |-> IF n = 1 THEN t ELSE st.since,
              until |-> st.until, strikes |-> st.strikes]
=============================================================================
