----------------------- MODULE PasswordLockoutProofs -----------------------
(***************************************************************************)
(* The guess bound of the password lockout for every rule.  Between two    *)
(* locks the failures counted so far (pw.n) all lie in one window, so what *)
(* was evaluated before that window, or before the last lock began, obeys  *)
(* the bound up to that instant: that is what IInv adds.  And the locks of *)
(* a share follow one another, which LocksAddUp says.                      *)
(***************************************************************************)
EXTENDS PasswordLockout, WellFoundedInduction, TLAPS

\* Every lock is at least the rule's, whatever the factor and the cap.
LEMMA LockSecondsBounds ==
    ASSUME NEW s \in Nat, s > 0
    PROVE  LockSeconds(s) \in Nat /\ LockSeconds(s) >= PwLockSec
<1>1. LockFactor(s) \in Nat /\ LockFactor(s) >= 1
  <2>1. Least(Most(0, s - 1), 6) + 1 \in 1 .. 7
    BY DEF Least, Most
  <2>2. LockFactor(s) = <<1, 2, 4, 8, 16, 32, 64>>[Least(Most(0, s - 1), 6) + 1]
    BY DEF LockFactor
  <2> QED
    BY <2>1, <2>2
<1>2. PwLockSec \in Nat /\ PwLockSec >= 1 /\ PwLockMaxSec \in Nat
  BY PwRuleAssumption
<1>3. \A f \in Nat : f >= 1 => PwLockSec * f \in Nat /\ PwLockSec * f >= PwLockSec
  BY <1>2
<1> QED
  BY <1>1, <1>2, <1>3 DEF LockSeconds, Least, Most

\* A period is positive and no longer than the window or any lock.
LEMMA PeriodBounds == Period \in Nat /\ Period >= 1 /\ Period <= PwWindowSec /\ Period <= PwLockSec
  BY PwRuleAssumption DEF Period, Least

\* Monotonicity and distributivity, the only non-linear steps below.
LEMMA Scale ==
    ASSUME NEW m \in Nat, NEW a \in Int, NEW b \in Int
    PROVE  /\ a <= b => m * a <= m * b
           /\ m * (a + b) = m * a + m * b
  OBVIOUS

-----------------------------------------------------------------------------
\* When the last lock began.
LockBegan == pw.until - LockSeconds(pw.strikes)

\* No failure is counted: all guesses were made by the time the last lock began.
NoneCounted ==
    /\ pw.n = 0
    /\ pw.until = NoTime => guesses = 0
    /\ pw.until # NoTime =>
         /\ pw.strikes > 0
         /\ LockBegan \in Int /\ LockBegan <= now
         /\ guesses * Period <= PwMaxFails * (LockBegan - born + Period)
         /\ born <= LockBegan

\* Some are: they lie in a window that is not full, the others came before it.
SomeCounted ==
    /\ pw.n > 0 /\ pw.n < PwMaxFails /\ pw.n <= guesses
    /\ pw.since \in Time /\ born <= pw.since /\ pw.since <= now
    /\ (guesses - pw.n) * Period <= PwMaxFails * (pw.since - born)

IInv == TypeOK /\ (NoneCounted \/ SomeCounted)

LEMMA IInvInit == Init => IInv
  BY MaxTimeAssumption, PwRuleAssumption DEF Init, IInv, TypeOK, NoneCounted, NoFails, PwState, Time, NoTime

\* IInv bounds the guesses.
LEMMA IInvBounds == IInv => GuessesBounded
<1> SUFFICES ASSUME IInv PROVE GuessesBounded
  OBVIOUS
<1> USE PwRuleAssumption, PeriodBounds
<1>1. /\ now \in Nat /\ born \in Nat /\ guesses \in Nat /\ pw.n \in Nat /\ born <= now
  BY DEF IInv, TypeOK, PwState, Time
<1>2. CASE NoneCounted
  <2>1. CASE pw.until = NoTime
    <3>1. guesses * Period = 0 /\ now - born + Period >= 0
      BY <1>1, <1>2, <2>1 DEF NoneCounted
    <3> QED
      BY <1>1, <3>1, Scale DEF GuessesBounded
  <2>2. CASE pw.until # NoTime
    <3>1. LockBegan \in Int /\ LockBegan - born + Period <= now - born + Period
      BY <1>1, <1>2, <2>2 DEF NoneCounted
    <3>2. PwMaxFails * (LockBegan - born + Period) <= PwMaxFails * (now - born + Period)
      BY <1>1, <3>1
    <3> QED
      BY <1>1, <1>2, <2>2, <3>1, <3>2 DEF NoneCounted, GuessesBounded
  <2> QED
    BY <2>1, <2>2
<1>3. CASE SomeCounted
  <2>1. pw.since \in Nat /\ pw.since - born <= now - born
    BY <1>1, <1>3 DEF SomeCounted, Time
  <2>2. PwMaxFails * (pw.since - born) <= PwMaxFails * (now - born)
    BY <1>1, <2>1
  <2>3. pw.n * Period <= PwMaxFails * Period
    BY <1>1, <1>3 DEF SomeCounted
  <2>4. guesses * Period = (guesses - pw.n) * Period + pw.n * Period
    BY <1>1
  <2>5. PwMaxFails * (now - born + Period) = PwMaxFails * (now - born) + PwMaxFails * Period
    BY <1>1
  <2> QED
    BY <1>1, <1>3, <2>1, <2>2, <2>3, <2>4, <2>5 DEF SomeCounted, GuessesBounded
<1> QED
  BY <1>2, <1>3 DEF IInv

\* A wrong password keeps IInv: it opens a window, counts in it, or fills it.
LEMMA IInvWrong == IInv /\ Wrong => IInv'
<1> SUFFICES ASSUME IInv, Wrong PROVE IInv'
  OBVIOUS
<1> USE PwRuleAssumption, PeriodBounds
<1>1. /\ now \in Nat /\ born \in Nat /\ guesses \in Nat /\ born <= now
      /\ pw \in PwState /\ pw.n \in Nat /\ pw.strikes \in Nat
  BY DEF IInv, TypeOK, PwState, Time
<1>2. /\ now' = now /\ born' = born /\ guesses' = guesses + 1
      /\ guesses' * Period = guesses * Period + Period
  BY <1>1 DEF Wrong
<1>3. FailsAt(pw, now) \in Nat /\ FailsAt(pw, now) >= 1
  BY <1>1 DEF FailsAt
<1> DEFINE n == FailsAt(pw, now)
\* What was evaluated before this window obeys the bound up to its start.
<1>4. CASE n = 1
  <2>1. guesses * Period <= PwMaxFails * (now - born)
    <3>1. CASE NoneCounted
      <4>1. CASE pw.until = NoTime
        <5>1. guesses * Period = 0 /\ now - born >= 0
          BY <1>1, <3>1, <4>1 DEF NoneCounted
        <5> QED
          BY <1>1, <5>1
      <4>2. CASE pw.until # NoTime
        <5>1. pw.until \in Nat /\ pw.until <= now
          BY <1>1, <4>2 DEF Wrong, PwLocked, PwState, Time
        <5>2. LockSeconds(pw.strikes) \in Nat /\ LockSeconds(pw.strikes) >= Period
          BY <1>1, <3>1, <4>2, LockSecondsBounds DEF NoneCounted
        <5>3. LockBegan \in Int /\ LockBegan - born + Period <= now - born
          BY <1>1, <5>1, <5>2 DEF LockBegan
        <5>4. PwMaxFails * (LockBegan - born + Period) <= PwMaxFails * (now - born)
          BY <1>1, <5>3
        <5> QED
          BY <1>1, <3>1, <4>2, <5>3, <5>4 DEF NoneCounted
      <4> QED
        BY <4>1, <4>2
    <3>2. CASE SomeCounted
      <4>1. pw.since \in Nat /\ pw.since <= now - PwWindowSec
        BY <1>1, <1>4, <3>2 DEF SomeCounted, FailsAt, Time, NoTime
      <4>2. pw.n * Period <= PwMaxFails * Period
        BY <1>1, <3>2 DEF SomeCounted
      <4>3. guesses * Period = (guesses - pw.n) * Period + pw.n * Period
        BY <1>1
      <4>4. PwMaxFails * (pw.since - born) + PwMaxFails * Period = PwMaxFails * (pw.since - born + Period)
        BY <1>1, <4>1
      <4>5. PwMaxFails * (pw.since - born + Period) <= PwMaxFails * (now - born)
        BY <1>1, <4>1
      <4> QED
        BY <1>1, <3>2, <4>1, <4>2, <4>3, <4>4, <4>5 DEF SomeCounted
    <3> QED
      BY <3>1, <3>2 DEF IInv
  <2>2. CASE n >= PwMaxFails
    <3> DEFINE s == pw.strikes + 1
    <3>1. pw' = [n |-> 0, since |-> NoTime, until |-> now + LockSeconds(s), strikes |-> s]
      BY <2>2 DEF Wrong, PwFailed
    <3>2. s \in Nat /\ s > 0 /\ LockSeconds(s) \in Nat
      BY <1>1, LockSecondsBounds
    <3>3. LockBegan' = now
      BY <1>1, <1>2, <3>1, <3>2 DEF LockBegan
    <3>4. PwMaxFails * (now - born + Period) = PwMaxFails * (now - born) + PwMaxFails * Period
      BY <1>1
    <3>5. PwMaxFails * Period >= Period
      BY <1>1
    <3>6. guesses' * Period <= PwMaxFails * (now - born + Period)
      BY <1>1, <1>2, <2>1, <3>4, <3>5
    <3>7. TypeOK'
      BY <1>1, <1>2, <3>1, <3>2 DEF TypeOK, PwState, Time, NoTime
    <3>8. NoneCounted'
      <4>1. pw'.n = 0 /\ pw'.until # NoTime /\ pw'.strikes > 0
        BY <1>1, <3>1, <3>2 DEF NoTime
      <4>2. LockBegan' - born' + Period' = now - born + Period
        BY <1>2, <3>3 DEF Period
      <4>3. guesses' * Period' <= PwMaxFails * (LockBegan' - born' + Period')
        BY <3>6, <4>2 DEF Period
      <4> QED
        BY <1>1, <1>2, <3>3, <4>1, <4>3 DEF NoneCounted
    <3> QED
      BY <3>7, <3>8 DEF IInv
  <2>3. CASE n < PwMaxFails
    <3>1. pw' = [n |-> 1, since |-> now, until |-> pw.until, strikes |-> pw.strikes]
      BY <1>1, <1>3, <1>4, <2>3 DEF Wrong, PwFailed
    <3>2. pw'.n = 1 /\ pw'.since = now /\ pw' \in PwState
      BY <1>1, <3>1 DEF PwState, Time
    <3>3. (guesses' - pw'.n) * Period = guesses * Period
      BY <1>1, <1>2, <3>2
    <3>4. TypeOK'
      BY <1>1, <1>2, <1>4, <2>3, <3>2 DEF TypeOK, Time
    <3>5. SomeCounted'
      BY <1>1, <1>2, <1>4, <2>1, <2>3, <3>2, <3>3 DEF SomeCounted, Time, Period
    <3> QED
      BY <3>4, <3>5 DEF IInv
  <2> QED
    BY <1>3, <2>2, <2>3
\* Counted in the open window.
<1>5. CASE n # 1
  <2>1. n = pw.n + 1 /\ pw.n > 0 /\ SomeCounted
    BY <1>1, <1>3, <1>5 DEF FailsAt, IInv, NoneCounted
  <2>2. pw.since \in Nat /\ pw.since <= now /\ born <= pw.since
    BY <2>1 DEF SomeCounted, Time
  <2>3. CASE n >= PwMaxFails
    <3> DEFINE s == pw.strikes + 1
    <3>1. pw' = [n |-> 0, since |-> NoTime, until |-> now + LockSeconds(s), strikes |-> s]
      BY <2>3 DEF Wrong, PwFailed
    <3>2. s \in Nat /\ s > 0 /\ LockSeconds(s) \in Nat
      BY <1>1, LockSecondsBounds
    <3>3. LockBegan' = now
      BY <1>1, <1>2, <3>1, <3>2 DEF LockBegan
    <3>4. (pw.n + 1) * Period <= PwMaxFails * Period
      BY <1>1, <2>1 DEF SomeCounted
    <3>5. guesses' * Period = (guesses - pw.n) * Period + (pw.n + 1) * Period
      BY <1>1, <1>2
    <3>6. PwMaxFails * (pw.since - born) <= PwMaxFails * (now - born)
      BY <1>1, <2>2
    <3>7. PwMaxFails * (now - born + Period) = PwMaxFails * (now - born) + PwMaxFails * Period
      BY <1>1
    <3>8. guesses' * Period <= PwMaxFails * (now - born + Period)
      BY <1>1, <1>2, <2>1, <2>2, <3>4, <3>5, <3>6, <3>7 DEF SomeCounted
    <3>9. TypeOK'
      BY <1>1, <1>2, <3>1, <3>2 DEF TypeOK, PwState, Time, NoTime
    <3>10. NoneCounted'
      <4>1. pw'.n = 0 /\ pw'.until # NoTime /\ pw'.strikes > 0
        BY <1>1, <3>1, <3>2 DEF NoTime
      <4>2. LockBegan' - born' + Period' = now - born + Period
        BY <1>2, <3>3 DEF Period
      <4>3. guesses' * Period' <= PwMaxFails * (LockBegan' - born' + Period')
        BY <3>8, <4>2 DEF Period
      <4> QED
        BY <1>1, <1>2, <3>3, <4>1, <4>3 DEF NoneCounted
    <3> QED
      BY <3>9, <3>10 DEF IInv
  <2>4. CASE n < PwMaxFails
    <3>1. pw' = [n |-> n, since |-> pw.since, until |-> pw.until, strikes |-> pw.strikes]
      BY <1>1, <1>3, <1>5, <2>4 DEF Wrong, PwFailed
    <3>2. pw'.n = pw.n + 1 /\ pw'.since = pw.since /\ pw' \in PwState
      BY <1>1, <2>1, <3>1 DEF PwState, Time
    <3>3. guesses' - pw'.n = guesses - pw.n
      BY <1>1, <1>2, <3>2
    <3>4. TypeOK'
      BY <1>1, <1>2, <2>1, <2>4, <3>2 DEF TypeOK, Time
    <3>5. SomeCounted'
      BY <1>1, <1>2, <2>1, <2>2, <2>4, <3>2, <3>3 DEF SomeCounted, Time, Period
    <3> QED
      BY <3>4, <3>5 DEF IInv
  <2> QED
    BY <1>3, <2>3, <2>4
<1> QED
  BY <1>4, <1>5

\* A cleared count starts again; the passing of time only helps.
LEMMA IInvClear == IInv /\ Clear => IInv'
  BY PwRuleAssumption DEF IInv, Clear, TypeOK, NoneCounted, NoFails, PwState, Time, NoTime

LEMMA IInvTick == IInv /\ Tick => IInv'
<1> SUFFICES ASSUME IInv, Tick PROVE IInv'
  OBVIOUS
<1>1. now \in Nat /\ now' \in Nat /\ now' > now /\ UNCHANGED <<pw, guesses, born>>
  BY MaxTimeAssumption DEF IInv, TypeOK, Tick, Time
<1>2. TypeOK'
  BY <1>1 DEF IInv, TypeOK, Time
<1>3. NoneCounted => NoneCounted'
  BY <1>1 DEF NoneCounted, LockBegan, Period
<1>4. SomeCounted => SomeCounted'
  BY <1>1 DEF SomeCounted, Period, Time
<1> QED
  BY <1>2, <1>3, <1>4 DEF IInv

LEMMA IInvInductive == IInv /\ [Next]_lockoutVars => IInv'
<1> SUFFICES ASSUME IInv, [Next]_lockoutVars PROVE IInv'
  OBVIOUS
<1>1. CASE Wrong
  BY <1>1, IInvWrong
<1>2. CASE Clear
  BY <1>2, IInvClear
<1>3. CASE Tick
  BY <1>3, IInvTick
<1>4. CASE UNCHANGED lockoutVars
  BY <1>4 DEF IInv, TypeOK, NoneCounted, SomeCounted, LockBegan, Period, lockoutVars
<1> QED
  BY <1>1, <1>2, <1>3, <1>4 DEF Next

\* The state the lockout stores stays well-formed (cleanState reads it back as
\* it is).
THEOREM LockoutTypeOK == Spec => []TypeOK
<1>1. IInv => TypeOK
  BY DEF IInv
<1> QED
  BY <1>1, IInvInit, IInvInductive, PTL DEF Spec

\* For every rule, the wrong passwords evaluated for a share, from any number
\* of networks, never exceed PwMaxFails per Period plus PwMaxFails.
THEOREM LockoutBounded == Spec => []GuessesBounded
  BY IInvInit, IInvInductive, IInvBounds, PTL DEF Spec

\* A running lock is neither shortened nor lifted by a failure (action property
\* LockRunsOut, from the guards alone).
THEOREM LockoutRunsOut == Spec => LockRunsOut
<1>1. [Next]_lockoutVars =>
        [PwLocked(pw, now) => pw' = pw \/ (guesses' = 0 /\ born' = now)]_lockoutVars
  BY DEF Next, Wrong, Clear, Tick, lockoutVars
<1> QED
  BY <1>1, PTL DEF Spec, LockRunsOut

-----------------------------------------------------------------------------
(***************************************************************************)
(* The growth of the locks.  LockedTime is defined by recursion, so first  *)
(* that the definition is met by a function: the sums up to each number of *)
(* locks exist, agree with each other and make up the whole.  Induction is *)
(* over a set, as the least element of what is not in it.                  *)
(***************************************************************************)

\* A set of naturals that is not empty has a least one.
LEMMA SmallestOf ==
    ASSUME NEW S \in SUBSET Nat, S # {}
    PROVE  \E x \in S : \A y \in S : x <= y
<1> DEFINE R == OpToRel(<, Nat)
<1>1. IsWellFoundedOn(R, Nat)
  BY NatLessThanWellFounded
<1>2. \A m, n \in Nat : m < n => <<m, n>> \in R
  BY DEF OpToRel
<1> HIDE DEF R
<1>3. PICK x \in S : \A y \in S : ~(<<y, x>> \in R)
  BY <1>1, WFMin
<1>4. \A y \in S : ~(y < x)
  BY <1>2, <1>3
<1> QED
  BY <1>3, <1>4

\* A set with 0 and the successor of each of its naturals holds them all.
LEMMA InductionOn ==
    ASSUME NEW S, 0 \in S, \A n \in Nat : n \in S => n + 1 \in S
    PROVE  Nat \subseteq S
<1> SUFFICES ASSUME Nat \ S # {} PROVE FALSE
  OBVIOUS
<1>1. PICK x \in Nat \ S : \A y \in Nat \ S : x <= y
  BY SmallestOf
<1>2. x # 0 /\ x - 1 \in Nat /\ x - 1 \in S
  BY <1>1
<1>3. (x - 1) + 1 = x
  BY <1>1
<1> QED
  BY <1>1, <1>2, <1>3

\* The sums of the first locks, up to the n-th.
TimesUpTo(n) == {g \in [0 .. n -> Nat] : g[0] = 0 /\ \A k \in 1 .. n : g[k] = g[k - 1] + LockSeconds(k)}

\* Two of them have the same n-th sum.
LEMMA TimesAgree == \A n \in Nat : \A m \in Nat : \A g \in TimesUpTo(n), h \in TimesUpTo(m) : n <= m => g[n] = h[n]
<1> DEFINE S == {n \in Nat : \A m, l \in Nat : \A g \in TimesUpTo(l), h \in TimesUpTo(m) : n <= l /\ n <= m => g[n] = h[n]}
<1>1. 0 \in S
  BY DEF TimesUpTo
<1>2. ASSUME NEW n \in Nat, n \in S PROVE n + 1 \in S
  <2> SUFFICES ASSUME NEW m \in Nat, NEW l \in Nat, NEW g \in TimesUpTo(l), NEW h \in TimesUpTo(m), n + 1 <= l, n + 1 <= m
               PROVE  g[n + 1] = h[n + 1]
    OBVIOUS
  <2>1. g[n] = h[n]
    BY <1>2
  <2>2. n + 1 \in 1 .. l /\ n + 1 \in 1 .. m /\ (n + 1) - 1 = n
    OBVIOUS
  <2>3. g[n + 1] = g[n] + LockSeconds(n + 1)
    BY <2>2 DEF TimesUpTo
  <2>4. h[n + 1] = h[n] + LockSeconds(n + 1)
    BY <2>2 DEF TimesUpTo
  <2> QED
    BY <2>1, <2>3, <2>4
<1> HIDE DEF S
<1>3. Nat \subseteq S
  BY <1>1, <1>2, InductionOn
<1> QED
  BY <1>3 DEF S

\* There is one for each n.
LEMMA TimesExist == \A n \in Nat : TimesUpTo(n) # {}
<1> DEFINE S == {n \in Nat : TimesUpTo(n) # {}}
<1>1. 0 \in S
  <2>1. [k \in 0 .. 0 |-> 0] \in TimesUpTo(0)
    BY DEF TimesUpTo
  <2> QED
    BY <2>1
<1>2. ASSUME NEW n \in Nat, n \in S PROVE n + 1 \in S
  <2>1. PICK g \in TimesUpTo(n) : TRUE
    BY <1>2
  <2> DEFINE h == [k \in 0 .. n + 1 |-> IF k = n + 1 THEN g[n] + LockSeconds(n + 1) ELSE g[k]]
  <2>2. LockSeconds(n + 1) \in Nat
    BY LockSecondsBounds
  <2>3. g \in [0 .. n -> Nat] /\ g[0] = 0 /\ \A k \in 1 .. n : g[k] = g[k - 1] + LockSeconds(k)
    BY <2>1 DEF TimesUpTo
  <2>4. h \in [0 .. n + 1 -> Nat]
    BY <2>2, <2>3
  <2>5. h[0] = 0
    BY <2>3
  <2>6. ASSUME NEW k \in 1 .. n + 1 PROVE h[k] = h[k - 1] + LockSeconds(k)
    <3>1. CASE k = n + 1
      BY <3>1
    <3>2. CASE k # n + 1
      <4>1. k \in 1 .. n /\ k \in 0 .. n /\ k - 1 \in 0 .. n /\ k - 1 # n + 1
        BY <3>2
      <4> QED
        BY <2>3, <4>1
    <3> QED
      BY <3>1, <3>2
  <2> HIDE DEF h
  <2>7. h \in TimesUpTo(n + 1)
    BY <2>4, <2>5, <2>6 DEF TimesUpTo
  <2> QED
    BY <2>7
<1> HIDE DEF S
<1>3. Nat \subseteq S
  BY <1>1, <1>2, InductionOn
<1> QED
  BY <1>3 DEF S

\* LockedTime is the function its definition describes.
LEMMA LockedTimeDef ==
    /\ LockedTime \in [Nat -> Nat]
    /\ LockedTime[0] = 0
    /\ \A s \in Nat : LockedTime[s + 1] = LockedTime[s] + LockSeconds(s + 1)
<1> DEFINE pick(n) == CHOOSE g \in TimesUpTo(n) : TRUE
           f == [n \in Nat |-> pick(n)[n]]
<1>1. \A n \in Nat : pick(n) \in TimesUpTo(n)
  BY TimesExist
<1> HIDE DEF pick
<1>2. ASSUME NEW n \in Nat PROVE f[n] \in Nat /\ \A m \in Nat : n <= m => pick(m)[n] = f[n]
  <2>1. pick(n)[n] \in Nat
    BY <1>1 DEF TimesUpTo
  <2>2. ASSUME NEW m \in Nat, n <= m PROVE pick(m)[n] = pick(n)[n]
    BY <1>1, <2>2, TimesAgree
  <2> QED
    BY <2>1, <2>2
<1>3. f[0] = 0
  BY <1>1 DEF TimesUpTo
<1>4. ASSUME NEW n \in Nat, n # 0 PROVE f[n] = f[n - 1] + LockSeconds(n)
  <2>1. n \in 1 .. n /\ n - 1 \in Nat /\ n - 1 <= n
    BY <1>4
  <2>2. pick(n)[n] = pick(n)[n - 1] + LockSeconds(n)
    BY <1>1, <2>1 DEF TimesUpTo
  <2>3. pick(n)[n - 1] = f[n - 1]
    BY <1>2, <2>1
  <2> QED
    BY <2>2, <2>3
<1>5. f \in [Nat -> Nat]
  BY <1>2
<1>6. f = [s \in Nat |-> IF s = 0 THEN 0 ELSE f[s - 1] + LockSeconds(s)]
  <2> HIDE DEF f
  <2> QED
  BY <1>3, <1>4, <1>5
<1> HIDE DEF f
<1>7. LockedTime = [s \in Nat |-> IF s = 0 THEN 0 ELSE LockedTime[s - 1] + LockSeconds(s)]
  BY <1>6 DEF LockedTime
<1>8. LockedTime[0] = 0 /\ \A s \in Nat : LockedTime[s + 1] = LockedTime[s] + LockSeconds(s + 1)
  <2>1. ASSUME NEW s \in Nat PROVE LockedTime[s + 1] = LockedTime[s] + LockSeconds(s + 1)
    <3>1. s + 1 \in Nat /\ s + 1 # 0 /\ (s + 1) - 1 = s
      OBVIOUS
    <3> QED
      BY <1>7, <3>1
  <2>2. LockedTime[0] = 0
    BY <1>7
  <2> QED
    BY <2>1, <2>2
<1>9. \A s \in Nat : LockedTime[s] \in Nat
  <2> DEFINE S == {s \in Nat : LockedTime[s] \in Nat}
  <2>1. 0 \in S
    BY <1>8
  <2>2. \A s \in Nat : s \in S => s + 1 \in S
    BY <1>8, LockSecondsBounds
  <2> HIDE DEF S
  <2>3. Nat \subseteq S
    BY <2>1, <2>2, InductionOn
  <2> QED
    BY <2>3 DEF S
<1> QED
  BY <1>7, <1>8, <1>9

\* No lock has begun yet, or the locks so far add up.
LocksAddUp ==
    /\ pw.until = NoTime => pw.strikes = 0
    /\ LocksEscalate

\* LocksAddUp is inductive with IInv.  A wrong password is counted only when no lock is running, so the
\* lock it begins starts no sooner than the one before it ended.
LEMMA LocksAddUpInit == Init => LocksAddUp
  BY DEF Init, LocksAddUp, LocksEscalate, NoFails, NoTime

LEMMA LocksAddUpWrong == IInv /\ LocksAddUp /\ Wrong => LocksAddUp'
<1> SUFFICES ASSUME IInv, LocksAddUp, Wrong PROVE LocksAddUp'
  OBVIOUS
<1>1. /\ now \in Nat /\ born \in Nat /\ born <= now /\ pw.strikes \in Nat
      /\ pw.until \in Nat \cup {NoTime} /\ born' = born
  BY DEF IInv, TypeOK, PwState, Time, Wrong
<1> DEFINE s == pw.strikes + 1
<1>2. now - born >= LockedTime[pw.strikes]
  <2>1. CASE pw.until = NoTime
    BY <1>1, <2>1, LockedTimeDef DEF LocksAddUp
  <2>2. CASE pw.until # NoTime
    <3>1. pw.until \in Nat /\ pw.until <= now
      BY <1>1, <2>2 DEF Wrong, PwLocked
    <3> QED
      BY <1>1, <2>2, <3>1, LockedTimeDef DEF LocksAddUp, LocksEscalate
  <2> QED
    BY <2>1, <2>2
<1>3. CASE FailsAt(pw, now) >= PwMaxFails
  <2>1. pw' = [n |-> 0, since |-> NoTime, until |-> now + LockSeconds(s), strikes |-> s]
    BY <1>3 DEF Wrong, PwFailed
  <2>2. s \in Nat /\ LockSeconds(s) \in Nat
    BY <1>1, LockSecondsBounds
  <2>3. LockedTime[s] = LockedTime[pw.strikes] + LockSeconds(s) /\ LockedTime[pw.strikes] \in Nat
    BY <1>1, LockedTimeDef
  <2>4. pw'.until - born' >= LockedTime[s] /\ pw'.until # NoTime
    BY <1>1, <1>2, <2>1, <2>2, <2>3 DEF NoTime
  <2> QED
    BY <2>1, <2>4 DEF LocksAddUp, LocksEscalate
<1>4. CASE ~(FailsAt(pw, now) >= PwMaxFails)
  <2>1. pw'.until = pw.until /\ pw'.strikes = pw.strikes
    BY <1>4 DEF Wrong, PwFailed
  <2> QED
    BY <1>1, <2>1 DEF LocksAddUp, LocksEscalate
<1> QED
  BY <1>3, <1>4

LEMMA LocksAddUpInductive == IInv /\ LocksAddUp /\ [Next]_lockoutVars => LocksAddUp'
<1> SUFFICES ASSUME IInv, LocksAddUp, [Next]_lockoutVars PROVE LocksAddUp'
  OBVIOUS
<1>1. CASE Wrong
  BY <1>1, LocksAddUpWrong
<1>2. CASE Clear
  BY <1>2 DEF Clear, LocksAddUp, LocksEscalate, NoFails, NoTime
<1>3. CASE Tick
  BY <1>3 DEF Tick, LocksAddUp, LocksEscalate
<1>4. CASE UNCHANGED lockoutVars
  BY <1>4 DEF LocksAddUp, LocksEscalate, lockoutVars
<1> QED
  BY <1>1, <1>2, <1>3, <1>4 DEF Next

\* For every rule, k locks keep the password shut for as long as k escalating locks take: none is cut
\* short by the next (sharepw.js pwFailed, the strikes).
THEOREM LockoutEscalates == Spec => []LocksEscalate
<1>1. LocksAddUp => LocksEscalate
  BY DEF LocksAddUp
<1> QED
  BY <1>1, IInvInit, IInvInductive, LocksAddUpInit, LocksAddUpInductive, PTL DEF Spec
=============================================================================
