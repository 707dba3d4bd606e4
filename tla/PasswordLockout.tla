-------------------------- MODULE PasswordLockout --------------------------
(***************************************************************************)
(* What the password lockout of one share promises, whoever guesses and    *)
(* from however many networks: the key-proof step of BurnPaste, FileShare  *)
(* and (for KV notes) Directory.sharePasswordAttempt, each one             *)
(* synchronous step.  The modules of those stores implement this one.      *)
(***************************************************************************)
EXTENDS SharePassword

CONSTANT MaxTime   \* bound on the clock
ASSUME MaxTimeAssumption == MaxTime \in Nat

VARIABLES
    now,      \* the clock, unix seconds
    pw,       \* the stored state (NoFails: nothing stored)
    guesses,  \* history: wrong passwords evaluated since `born`
    born      \* history: when the count last started from nothing

lockoutVars == <<now, pw, guesses, born>>

Init ==
    /\ now \in 0 .. MaxTime
    /\ pw = NoFails
    /\ guesses = 0
    /\ born = now

\* Wrong had it been checked while the password is locked.
WrongUnlocked ==
    /\ pw' = PwFailed(pw, now)
    /\ guesses' = guesses + 1
    /\ UNCHANGED <<now, born>>

\* A wrong password, which is checked only while the password is not locked.
Wrong ==
    /\ ~PwLocked(pw, now)
    /\ pw' = PwFailed(pw, now)
    /\ guesses' = guesses + 1
    /\ UNCHANGED <<now, born>>

\* The right password, when it is accepted, clears the count; so does the end
\* of the share, whose purge deletes it.
Clear ==
    /\ pw' = NoFails
    /\ guesses' = 0
    /\ born' = now
    /\ UNCHANGED now

Tick ==
    /\ now' \in (now + 1) .. MaxTime
    /\ UNCHANGED <<pw, guesses, born>>

Next == Wrong \/ Clear \/ Tick

Spec == Init /\ [][Next]_lockoutVars

-----------------------------------------------------------------------------
\* The shortest time in which PwMaxFails guesses can be used up again.
Period == Least(PwWindowSec, PwLockSec)

\* The state is well-formed, what is counted has not filled the window, and no
\* history lies in the future.
TypeOK ==
    /\ now \in Time
    /\ pw \in PwState /\ pw.n < PwMaxFails
    /\ guesses \in Nat
    /\ born \in Time
    /\ born <= now

\* Guesses are bounded in time whatever networks they come from (the header of
\* lib/sharepw.js): PwMaxFails for every Period gone by, and PwMaxFails more.
GuessesBounded == guesses * Period <= PwMaxFails * (now - born + Period)

\* A lock runs its full time: until it ends only the right password (which is
\* not accepted meanwhile) or the end of the share could lift it, and no
\* failure is counted, so none can shorten it either.
LockRunsOut ==
    [][PwLocked(pw, now) => pw' = pw \/ (guesses' = 0 /\ born' = now)]_lockoutVars

\* The seconds the first `s` locks last together.
LockedTime[s \in Nat] == IF s = 0 THEN 0 ELSE LockedTime[s - 1] + LockSeconds(s)

\* Each lock of a share lasts its full, growing time before the next begins:
\* with k locks behind it the password has been refused, or will have been when
\* this one ends, for as long as k escalating locks take.
LocksEscalate == pw.until # NoTime => pw.until - born >= LockedTime[pw.strikes]
=============================================================================
