-------------------------- MODULE BurnPasteProofs --------------------------
(***************************************************************************)
(* BurnPaste for every view limit, lifetime and lockout rule: views are    *)
(* conserved, nothing outlives a purge, alarms keep the promised expiry,   *)
(* and every step is a step of PasswordLockout or leaves its state alone.  *)
(***************************************************************************)
EXTENDS BurnPaste, TLAPS

\* What the properties rest on: until its creation a note has released nothing,
\* and the alarm of a stored record is set for its exp, never before the
\* expiry the sender was told.
IInv ==
    /\ TypeOK
    /\ ViewsConserved
    /\ NothingLeftBehind
    /\ ~made => rec = NoRec /\ released = 0
    /\ rec # NoRec =>
         /\ alarm = rec.exp /\ rec.expires <= rec.exp
         /\ rec.left = Unlimited <=> rec.views = Unlimited

\* A wrong password makes a well-formed state of one.
LEMMA PwFailedType ==
    ASSUME NEW st \in PwState, NEW t \in Nat
    PROVE  PwFailed(st, t) \in PwState
<1>1. FailsAt(st, t) \in Nat /\ st.strikes + 1 \in Nat \ {0}
  BY DEF FailsAt, PwState
<1>2. \A s \in Nat \ {0} : LockFactor(s) \in Nat
  <2>1. \A s \in Nat \ {0} : Least(Most(0, s - 1), 6) + 1 \in 1 .. 7
    BY DEF Least, Most
  <2> QED
    BY <2>1 DEF LockFactor
<1>3. \A s \in Nat \ {0} : LockSeconds(s) \in Nat
  <2>1. \A f \in Nat : PwLockSec * f \in Nat
    BY PwRuleAssumption
  <2> QED
    BY <1>2, <2>1, PwRuleAssumption DEF LockSeconds, Least, Most
<1> QED
  BY <1>1, <1>3 DEF PwFailed, PwState, Time, NoTime

LEMMA IInvInit == Init => IInv
<1>1. NoFails \in PwState
  BY DEF NoFails, PwState, Time, NoTime
<1>2. 0 \in 0 .. MaxTime /\ 0 \in 0 .. 0 /\ 0 \in Nat
  BY MaxTimeAssumption
<1>3. Init => TypeOK
  <2>1. Init => now = 0 /\ pw \in PwState /\ made \in BOOLEAN /\ rec \in Rec \cup {NoRec}
                /\ alarm \in Nat \cup {NoTime}
    BY <1>1, Zenon DEF Init
  <2> QED
    BY <1>2, <2>1 DEF Init, TypeOK
<1> QED
  BY <1>3 DEF Init, IInv, ViewsConserved, NothingLeftBehind

\* A purge leaves nothing to be wrong about.
LEMMA IInvPurge ==
    ASSUME IInv, Purge, UNCHANGED <<now, made>>, released' \in Nat, rec # NoRec \/ released' = released
    PROVE  IInv'
  BY MaxTimeAssumption DEF IInv, Purge, NoCount, TypeOK, ViewsConserved, NothingLeftBehind,
     PwState, NoFails, Time, NoTime

LEMMA IInvLapse ==
    ASSUME IInv, Lapse, UNCHANGED <<now, made, released>>
    PROVE  IInv'
<1>1. CASE Expired
  BY <1>1, IInvPurge DEF Lapse, Expired, IInv, TypeOK
<1>2. CASE ~Expired
  BY <1>2 DEF Lapse, IInv, TypeOK, ViewsConserved, NothingLeftBehind
<1> QED
  BY <1>1, <1>2

\* The outcomes that do not release and do not delete.
LEMMA IInvRefused ==
    ASSUME IInv, NEW outcome, Refused(outcome), outcome = "bad_password" => rec # NoRec,
           UNCHANGED <<now, made, released>>
    PROVE  IInv'
<1>1. CASE outcome = "gone" /\ Lapse
  BY <1>1, IInvLapse
<1>2. CASE UNCHANGED <<rec, alarm, pw, guesses, born>>
  BY <1>2 DEF IInv, TypeOK, ViewsConserved, NothingLeftBehind
<1>3. CASE outcome = "bad_password" /\ CountFailure /\ UNCHANGED <<rec, alarm>>
  <2>1. pw' \in PwState /\ guesses' \in Nat /\ born' = born
    BY <1>3, PwFailedType DEF CountFailure, IInv, TypeOK
  <2> QED
    BY <1>3, <2>1 DEF IInv, TypeOK, ViewsConserved, NothingLeftBehind
<1> QED
  BY <1>1, <1>2, <1>3 DEF Refused

LEMMA IInvCreate ==
    ASSUME IInv, NEW ttl \in Ttls, NEW views \in Views, NEW late \in 0 .. Lag,
           NEW password \in BOOLEAN, NEW hc \in BOOLEAN, NEW deletable \in BOOLEAN,
           Create(ttl, views, late, password, hc, deletable)
    PROVE  IInv'
<1>1. /\ now \in Nat /\ ttl \in Nat /\ late \in Nat
      /\ Most(now - late, 0) \in Nat /\ Most(now - late, 0) <= now
  BY MaxTimeAssumption, TtlsAssumption, LagAssumption DEF IInv, TypeOK, Most
<1>2. /\ rec' \in Rec /\ rec' # NoRec
      /\ rec'.left = views /\ rec'.views = views
      /\ rec'.exp = now + ttl /\ rec'.expires = Most(now - late, 0) + ttl
  BY <1>1, NoRecAssumption DEF Create, Rec, Limit
<1>3. views \in Nat /\ views > 0 /\ views # Unlimited
  BY MaxViewsAssumption DEF Views, Unlimited
<1> QED
  BY <1>1, <1>2, <1>3 DEF Create, IInv, TypeOK, ViewsConserved, NothingLeftBehind, Time

\* The right password leaves a well-formed count.
LEMMA KeyAcceptedType ==
    ASSUME IInv, KeyAccepted, UNCHANGED now
    PROVE  pw' \in PwState /\ guesses' \in Nat /\ born' \in 0 .. now'
  BY MaxTimeAssumption DEF KeyAccepted, NoCount, IInv, TypeOK, PwState, NoFails, NoTime, Time

LEMMA IInvOpen ==
    ASSUME IInv, NEW link \in BOOLEAN, NEW key \in BOOLEAN, NEW human \in BOOLEAN,
           Open(link, key, human)
    PROVE  IInv'
<1>1. CASE Refused(Outcome(link, key, human)) /\ UNCHANGED released
  BY <1>1, IInvRefused DEF Open, Outcome, KeyProof, Live
<1>2. CASE Outcome(link, key, human) = "right" /\ Release
  <2>1. rec # NoRec /\ rec \in Rec /\ released \in Nat /\ UNCHANGED <<now, made>>
    BY <1>2 DEF Outcome, Live, IInv, TypeOK, Open
  <2>2. CASE rec.left = 1
    BY <1>2, <2>1, <2>2, IInvPurge DEF Release, LastView, IInv, TypeOK
  <2>3. CASE rec.left = Unlimited
    <3>1. rec' = rec /\ released' = released /\ KeyAccepted /\ UNCHANGED alarm
      BY <1>2, <2>1, <2>3 DEF Release, LastView, Unlimited, Rec
    <3> QED
      BY <2>1, <3>1, KeyAcceptedType DEF IInv, TypeOK, ViewsConserved, NothingLeftBehind
  <2>4. CASE rec.left # 1 /\ rec.left # Unlimited
    <3>1. rec.left \in Views /\ rec.left - 1 \in Views
      BY <2>1, <2>4, MaxViewsAssumption DEF Rec, Limit, Views
    <3>2. /\ rec' = [rec EXCEPT !.left = rec.left - 1] /\ released' = released + 1
          /\ KeyAccepted /\ UNCHANGED alarm
      BY <1>2, <2>1, <2>4 DEF Release, LastView
    <3>3. /\ rec' \in Rec /\ rec' # NoRec /\ rec'.left = rec.left - 1 /\ rec'.views = rec.views
          /\ rec'.exp = rec.exp /\ rec'.expires = rec.expires
      BY <2>1, <3>1, <3>2, NoRecAssumption DEF Rec, Limit
    <3>4. released' + rec'.left = rec'.views /\ rec'.left > 0 /\ rec'.left # Unlimited
      BY <2>1, <2>4, <3>1, <3>2, <3>3 DEF IInv, ViewsConserved, Views, Unlimited
    <3>5. rec'.views # Unlimited
      BY <2>1, <2>4, <3>3 DEF IInv
    <3> QED
      BY <2>1, <3>2, <3>3, <3>4, <3>5, KeyAcceptedType DEF IInv, TypeOK, ViewsConserved, NothingLeftBehind
  <2> QED
    BY <2>2, <2>3, <2>4
<1> QED
  BY <1>1, <1>2 DEF Open

LEMMA IInvExpireByOpener ==
    ASSUME IInv, NEW link \in BOOLEAN, NEW key \in BOOLEAN, NEW human \in BOOLEAN,
           ExpireByOpener(link, key, human)
    PROVE  IInv'
<1>1. CASE Refused(Outcome(link, key, human))
  BY <1>1, IInvRefused DEF ExpireByOpener, Outcome, KeyProof, Live
<1>2. CASE Purge
  BY <1>2, IInvPurge DEF ExpireByOpener, IInv, TypeOK
<1>3. CASE Outcome(link, key, human) = "right" /\ KeyAccepted /\ UNCHANGED <<rec, alarm>>
  <2>1. rec # NoRec /\ UNCHANGED <<now, made, released>>
    BY <1>3 DEF Outcome, Live, ExpireByOpener
  <2> QED
    BY <1>3, <2>1, KeyAcceptedType DEF IInv, TypeOK, ViewsConserved, NothingLeftBehind
<1> QED
  BY <1>1, <1>2, <1>3 DEF ExpireByOpener

LEMMA IInvExtend ==
    ASSUME IInv, NEW views \in Limit \cup {Keep}, NEW expires \in Nat \cup {Keep}, Extend(views, expires)
    PROVE  IInv'
<1>1. CASE ~Live \/ ~ViewsRaised(views) \/ ~ExpiryRaised(expires)
  BY <1>1, IInvLapse DEF Extend
<1>2. CASE Live /\ ViewsRaised(views) /\ ExpiryRaised(expires)
  <2> DEFINE left == LeftAfter(views)
             total == IF views = Keep THEN rec.views ELSE views
             exp == IF expires = Keep THEN rec.exp ELSE expires
             told == IF expires = Keep THEN rec.expires ELSE expires
  <2>1. rec # NoRec /\ rec \in Rec /\ released \in Nat
    BY <1>2 DEF Live, IInv, TypeOK
  <2>2. /\ rec' = [exp |-> exp, expires |-> told, views |-> total, left |-> left,
                   password |-> rec.password, hc |-> rec.hc, deletable |-> rec.deletable]
        /\ alarm' = (IF expires = Keep THEN alarm ELSE expires)
        /\ UNCHANGED <<pw, guesses, born, now, made, released>>
    BY <1>2, <2>1 DEF Extend, AlarmAfter, Rec
  <2>3. exp \in Nat /\ told \in Nat /\ told <= exp
    BY <2>1 DEF Rec, IInv
  <2>4. /\ total \in Limit /\ left \in Limit
        /\ left # Unlimited => left > 0 /\ released + left = total
    <3>1. /\ rec.views \in Limit /\ rec.left \in Limit
          /\ rec.left # Unlimited => rec.left > 0 /\ released + rec.left = rec.views
      BY <2>1 DEF Rec, IInv, ViewsConserved
    <3>2. CASE views = Keep \/ views = Unlimited
      BY <3>1, <3>2 DEF LeftAfter, Limit, Keep, Unlimited
    <3>3. CASE views # Keep /\ views # Unlimited
      <4>1. views \in Views /\ rec.views # Unlimited /\ rec.views \in Views /\ views > rec.views
        BY <1>2, <3>1, <3>3 DEF ViewsRaised, Limit
      <4>2. CASE rec.left = Unlimited
        BY <2>1, <4>1, <4>2 DEF IInv
      <4>3. CASE rec.left # Unlimited
        BY <2>1, <3>1, <3>3, <4>1, <4>3, MaxViewsAssumption DEF LeftAfter, Limit, Views
      <4> QED
        BY <4>2, <4>3
    <3> QED
      BY <3>2, <3>3
  <2>5. rec' \in Rec /\ rec' # NoRec /\ rec'.left = left /\ rec'.views = total /\ rec'.exp = exp /\ rec'.expires = told
    BY <2>1, <2>2, <2>3, <2>4, NoRecAssumption DEF Rec
  <2>6. alarm' = exp /\ (left = Unlimited <=> total = Unlimited)
    <3>1. alarm' = exp
      BY <2>1, <2>2 DEF IInv
    <3>2. CASE views = Keep \/ views = Unlimited
      BY <2>1, <3>1, <3>2 DEF LeftAfter, IInv, Keep, Unlimited
    <3>3. CASE views # Keep /\ views # Unlimited
      <4>1. left > 0 \/ left = Unlimited
        BY <2>4
      <4>2. rec.views # Unlimited /\ rec.left # Unlimited /\ views \in Views
        BY <1>2, <2>1, <3>3 DEF ViewsRaised, IInv, Limit
      <4>3. rec.left \in Views /\ rec.views \in Views /\ views > rec.views
        BY <1>2, <2>1, <3>3, <4>2 DEF Rec, Limit, ViewsRaised
      <4>4. released + rec.left = rec.views
        BY <2>1, <4>2 DEF IInv, ViewsConserved
      <4> QED
        BY <2>1, <3>1, <3>3, <4>2, <4>3, <4>4 DEF LeftAfter, Views, Unlimited
    <3> QED
      BY <3>1, <3>2, <3>3
  <2> QED
    BY <2>1, <2>2, <2>3, <2>4, <2>5, <2>6 DEF IInv, TypeOK, ViewsConserved, NothingLeftBehind
<1> QED
  BY <1>1, <1>2

LEMMA IInvNext == IInv /\ [Next]_vars => IInv'
<1> SUFFICES ASSUME IInv, [Next]_vars PROVE IInv'
  OBVIOUS
<1>1. ASSUME NEW ttl \in Ttls, NEW views \in Views, NEW late \in 0 .. Lag,
             NEW password \in BOOLEAN, NEW hc \in BOOLEAN, NEW deletable \in BOOLEAN,
             Create(ttl, views, late, password, hc, deletable)
      PROVE  IInv'
  BY <1>1, IInvCreate
<1>2. ASSUME NEW link \in BOOLEAN, NEW key \in BOOLEAN, NEW human \in BOOLEAN,
             Open(link, key, human) \/ ExpireByOpener(link, key, human)
      PROVE  IInv'
  BY <1>2, IInvOpen, IInvExpireByOpener
<1>3. ASSUME NEW views \in Limit \cup {Keep},
             NEW expires \in (Most(now - Lag, 0) + 1 .. MaxTime) \cup {Keep}, Extend(views, expires)
      PROVE  IInv'
  <2>1. now \in Nat /\ Lag \in Nat
    BY MaxTimeAssumption, LagAssumption DEF IInv, TypeOK
  <2>2. Most(now - Lag, 0) + 1 \in Nat
    BY <2>1 DEF Most
  <2>3. expires \in Nat \cup {Keep}
    BY <2>2, MaxTimeAssumption
  <2> QED
    BY <1>3, <2>3, IInvExtend
<1>4. ASSUME NEW token \in BOOLEAN, Remove(token)
      PROVE  IInv'
  BY <1>4, IInvPurge, IInvLapse DEF Remove, Live, IInv, TypeOK
<1>5. CASE Look
  BY <1>5, IInvLapse DEF Look
<1>6. CASE Revoke \/ Alarm
  BY <1>6, IInvPurge DEF Revoke, Alarm, IInv, TypeOK
<1>7. CASE Tick
  <2>1. now \in Nat /\ now' \in 0 .. MaxTime /\ born \in 0 .. now'
    BY <1>7, MaxTimeAssumption DEF Tick, IInv, TypeOK
  <2> QED
    BY <1>7, <2>1 DEF Tick, IInv, TypeOK, ViewsConserved, NothingLeftBehind
<1>8. CASE UNCHANGED vars
  BY <1>8 DEF vars, IInv, TypeOK, ViewsConserved, NothingLeftBehind
<1> QED
  BY <1>1, <1>2, <1>3, <1>4, <1>5, <1>6, <1>7, <1>8 DEF Next

LEMMA IInvAlways == Spec => []IInv
  BY IInvInit, IInvNext, PTL DEF Spec

-----------------------------------------------------------------------------
\* Every reachable state of a note is well-formed, for all bounds.
THEOREM BurnTypeOK == Spec => []TypeOK
<1>1. IInv => TypeOK
  BY DEF IInv
<1> QED
  BY <1>1, IInvAlways, PTL

\* Views are spent by releases and by nothing else, for every limit.
THEOREM BurnViewsConserved == Spec => []ViewsConserved
<1>1. IInv => ViewsConserved
  BY DEF IInv
<1> QED
  BY <1>1, IInvAlways, PTL

\* An ended note leaves neither a lockout state nor an alarm.
THEOREM BurnNothingLeftBehind == Spec => []NothingLeftBehind
<1>1. IInv => NothingLeftBehind
  BY DEF IInv
<1> QED
  BY <1>1, IInvAlways, PTL

\* The alarm never destroys a note before the expiry its sender was told,
\* however often it was extended.
THEOREM BurnNeverEndsEarly == Spec => NeverEndsEarly
<1>1. IInv /\ [Next]_vars => [Alarm => rec # NoRec /\ now >= rec.expires]_vars
  <2> SUFFICES ASSUME IInv, Alarm PROVE rec # NoRec /\ now >= rec.expires
    OBVIOUS
  <2>1. rec # NoRec
    BY DEF Alarm, IInv, NothingLeftBehind
  <2>2. rec \in Rec /\ now \in Nat /\ alarm = rec.exp /\ rec.expires <= rec.exp /\ now >= alarm
    BY <2>1, MaxTimeAssumption DEF Alarm, IInv, TypeOK
  <2> QED
    BY <2>1, <2>2 DEF Rec
<1> QED
  BY <1>1, IInvAlways, PTL DEF Spec, NeverEndsEarly

\* No release passes the limit, and exactly the last one ends the note.
THEOREM BurnLastViewEnds == Spec => LastViewEnds
<1>1. IInv /\ [Next]_vars =>
        [released' # released =>
           released' <= rec.views /\ (released' = rec.views <=> rec' = NoRec)]_vars
  <2> SUFFICES ASSUME IInv, Next, released' # released
               PROVE  released' <= rec.views /\ (released' = rec.views <=> rec' = NoRec)
    OBVIOUS
  <2>1. PICK link \in BOOLEAN, key \in BOOLEAN, human \in BOOLEAN :
          Outcome(link, key, human) = "right" /\ Release
    BY DEF Next, Create, Open, ExpireByOpener, Extend, Remove, Look, Revoke, Alarm, Tick
  <2>2. rec # NoRec /\ rec \in Rec /\ released \in Nat
    BY <2>1 DEF Outcome, Live, IInv, TypeOK
  <2>3. rec.left # Unlimited /\ released' = released + 1
    BY <2>1 DEF Release
  <2>4. rec.left \in Nat /\ rec.left > 0 /\ rec.views \in Nat /\ released + rec.left = rec.views
    BY <2>2, <2>3, MaxViewsAssumption DEF IInv, ViewsConserved, Rec, Limit, Views
  <2>5. CASE rec.left = 1
    BY <2>1, <2>2, <2>3, <2>4, <2>5 DEF Release, LastView, Purge
  <2>6. CASE rec.left # 1
    <3>1. rec' = [rec EXCEPT !.left = rec.left - 1]
      BY <2>1, <2>3, <2>6 DEF Release, LastView
    <3>2. rec.left - 1 \in Limit
      BY <2>2, <2>3, <2>4, <2>6, MaxViewsAssumption DEF Rec, Limit, Views
    <3>3. rec' # NoRec
      BY <2>2, <3>1, <3>2, NoRecAssumption DEF Rec
    <3> QED
      BY <2>2, <2>3, <2>4, <2>6, <3>3
  <2> QED
    BY <2>5, <2>6
<1> QED
  BY <1>1, IInvAlways, PTL DEF Spec, LastViewEnds

-----------------------------------------------------------------------------
\* The promise is stated over the same arithmetic.
LEMMA SameArithmetic ==
    /\ Lockout!NoFails = NoFails
    /\ \A st, t : Lockout!PwLocked(st, t) <=> PwLocked(st, t)
    /\ \A st, t : Lockout!PwFailed(st, t) = PwFailed(st, t)
<1>1. Lockout!NoFails = NoFails
  BY DEF NoFails, Lockout!NoFails, NoTime, Lockout!NoTime
<1>2. \A st, t : Lockout!PwLocked(st, t) <=> PwLocked(st, t)
  BY DEF PwLocked, Lockout!PwLocked, NoTime, Lockout!NoTime
<1>3. \A st, t : Lockout!FailsAt(st, t) = FailsAt(st, t)
  BY DEF FailsAt, Lockout!FailsAt, NoTime, Lockout!NoTime
<1>4. \A s : Lockout!LockSeconds(s) = LockSeconds(s)
  <2>1. \A s : Lockout!LockFactor(s) = LockFactor(s)
    BY DEF LockFactor, Lockout!LockFactor, Least, Lockout!Least, Most, Lockout!Most
  <2> QED
    BY <2>1 DEF LockSeconds, Lockout!LockSeconds, Least, Lockout!Least, Most, Lockout!Most
<1>5. \A st, t : Lockout!PwFailed(st, t) = PwFailed(st, t)
  BY <1>3, <1>4 DEF PwFailed, Lockout!PwFailed, NoTime, Lockout!NoTime
<1> QED
  BY <1>1, <1>2, <1>5

\* Every step of the note is a step of the lockout it promises: a wrong
\* password that is checked, a count cleared, the clock, or none.
LEMMA RefinesNext == IInv /\ [Next]_vars => [Lockout!Next]_(Lockout!lockoutVars)
<1> SUFFICES ASSUME IInv, [Next]_vars PROVE [Lockout!Next]_(Lockout!lockoutVars)
  OBVIOUS
<1>1. NoCount /\ UNCHANGED now => Lockout!Clear
  BY SameArithmetic DEF NoCount, Lockout!Clear
<1>2. Purge /\ UNCHANGED now => Lockout!Clear
  BY <1>1 DEF Purge
<1>3. Lapse /\ UNCHANGED now => Lockout!Clear \/ UNCHANGED Lockout!lockoutVars
  BY <1>2 DEF Lapse, Lockout!lockoutVars
<1>4. ASSUME NEW link \in BOOLEAN, NEW key \in BOOLEAN, NEW human \in BOOLEAN,
             Refused(Outcome(link, key, human)), UNCHANGED now
      PROVE  Lockout!Clear \/ Lockout!Wrong \/ UNCHANGED Lockout!lockoutVars
  <2>1. CASE Outcome(link, key, human) = "bad_password" /\ CountFailure
    <3>1. rec.password => ~PwLocked(pw, now)
      BY <2>1 DEF Outcome, KeyProof
    <3> QED
      BY <1>4, <2>1, <3>1, SameArithmetic DEF CountFailure, Lockout!Wrong, Lockout!lockoutVars
  <2>2. CASE UNCHANGED <<rec, alarm, pw, guesses, born>>
    BY <1>4, <2>2 DEF Lockout!lockoutVars
  <2> QED
    BY <1>3, <1>4, <2>1, <2>2 DEF Refused
<1>5. ASSUME NEW link \in BOOLEAN, NEW key \in BOOLEAN, NEW human \in BOOLEAN,
             Open(link, key, human) \/ ExpireByOpener(link, key, human)
      PROVE  [Lockout!Next]_(Lockout!lockoutVars)
  <2>1. KeyAccepted /\ UNCHANGED now => Lockout!Clear \/ UNCHANGED Lockout!lockoutVars
    BY <1>1 DEF KeyAccepted, Lockout!lockoutVars
  <2> QED
    BY <1>2, <1>4, <1>5, <2>1 DEF Open, ExpireByOpener, Release, Lockout!Next
<1>6. CASE Look \/ Revoke \/ Alarm \/ \E token \in BOOLEAN : Remove(token)
  BY <1>2, <1>3, <1>6 DEF Look, Revoke, Alarm, Remove, Lockout!Next
<1>7. ASSUME NEW views, NEW expires, Extend(views, expires)
      PROVE  [Lockout!Next]_(Lockout!lockoutVars)
  BY <1>3, <1>7 DEF Extend, Lockout!Next, Lockout!lockoutVars
<1>8. ASSUME NEW ttl, NEW views, NEW late, NEW password, NEW hc, NEW deletable,
             Create(ttl, views, late, password, hc, deletable)
      PROVE  [Lockout!Next]_(Lockout!lockoutVars)
  BY <1>8 DEF Create, Lockout!lockoutVars
<1>9. CASE Tick
  BY <1>9 DEF Tick, Lockout!Tick, Lockout!Next
<1>10. CASE UNCHANGED vars
  BY <1>10 DEF vars, Lockout!lockoutVars
<1> QED
  BY <1>5, <1>6, <1>7, <1>8, <1>9, <1>10 DEF Next

\* The lockout a note keeps is the one promised, for every rule: what
\* PasswordLockoutProofs shows of it holds of every note.
THEOREM BurnLockoutKept == Spec => LockoutKept
<1>1. Init => Lockout!Init
  BY SameArithmetic, MaxTimeAssumption DEF Init, Lockout!Init
<1> QED
  BY <1>1, IInvAlways, RefinesNext, PTL DEF Spec, LockoutKept, Lockout!Spec

LockoutTheory == INSTANCE PasswordLockoutProofs

\* The two instances of PasswordLockout are one: their arithmetic and their specifications agree.
LEMMA SameLockout ==
    /\ LockoutTheory!NoFails = Lockout!NoFails
    /\ \A st, t : LockoutTheory!PwLocked(st, t) <=> Lockout!PwLocked(st, t)
    /\ \A st, t : LockoutTheory!PwFailed(st, t) = Lockout!PwFailed(st, t)
    /\ \A s : LockoutTheory!LockSeconds(s) = Lockout!LockSeconds(s)
<1>1. LockoutTheory!NoFails = Lockout!NoFails /\ \A st, t : LockoutTheory!PwLocked(st, t) <=> Lockout!PwLocked(st, t)
  BY DEF Lockout!NoFails, LockoutTheory!NoFails, Lockout!NoTime, LockoutTheory!NoTime,
     Lockout!PwLocked, LockoutTheory!PwLocked
<1>2. \A s : LockoutTheory!LockFactor(s) = Lockout!LockFactor(s)
  BY DEF Lockout!LockFactor, LockoutTheory!LockFactor, Lockout!Least, LockoutTheory!Least,
     Lockout!Most, LockoutTheory!Most
<1>3. \A s : LockoutTheory!LockSeconds(s) = Lockout!LockSeconds(s)
  BY <1>2 DEF Lockout!LockSeconds, LockoutTheory!LockSeconds, Lockout!Least, LockoutTheory!Least,
     Lockout!Most, LockoutTheory!Most
<1>4. \A st, t : LockoutTheory!FailsAt(st, t) = Lockout!FailsAt(st, t)
  BY DEF Lockout!FailsAt, LockoutTheory!FailsAt, Lockout!NoTime, LockoutTheory!NoTime
<1>5. \A st, t : LockoutTheory!PwFailed(st, t) = Lockout!PwFailed(st, t)
  BY <1>3, <1>4 DEF Lockout!PwFailed, LockoutTheory!PwFailed, Lockout!NoTime, LockoutTheory!NoTime
<1> QED
  BY <1>1, <1>3, <1>5

LEMMA LockoutTheoryApplies == Spec => LockoutTheory!Spec
<1>1. Lockout!Init => LockoutTheory!Init
  BY SameLockout DEF Lockout!Init, LockoutTheory!Init
<1>2. [Lockout!Next]_(Lockout!lockoutVars) => [LockoutTheory!Next]_(LockoutTheory!lockoutVars)
  BY SameLockout DEF Lockout!Next, LockoutTheory!Next, Lockout!Wrong, LockoutTheory!Wrong,
     Lockout!Clear, LockoutTheory!Clear, Lockout!Tick, LockoutTheory!Tick,
     Lockout!lockoutVars, LockoutTheory!lockoutVars
<1> QED
  BY <1>1, <1>2, BurnLockoutKept, PTL DEF LockoutKept, Lockout!Spec, LockoutTheory!Spec

\* However often a note is opened, extended and guessed at, the wrong passwords
\* evaluated for it stay within the bound.
THEOREM BurnGuessesBounded == Spec => []Lockout!GuessesBounded
<1>1. LockoutTheory!GuessesBounded => Lockout!GuessesBounded
  BY DEF Lockout!GuessesBounded, LockoutTheory!GuessesBounded, Lockout!Period, LockoutTheory!Period,
     Lockout!Least, LockoutTheory!Least
<1>2. LockoutTheory!Spec => []LockoutTheory!GuessesBounded
  BY LockoutTheory!LockoutBounded, PwRuleAssumption, MaxTimeAssumption DEF LockoutTheory!LockoutBounded
<1> QED
  BY <1>1, <1>2, LockoutTheoryApplies, PTL

\* A lock of a note ends by its time, by the right password or with the note: no other open, extension or
\* guess shortens or lifts it (burn-do.js open, pwFailed).
THEOREM BurnLocksRunOut == Spec => Lockout!LockRunsOut
<1>1. [LockoutTheory!PwLocked(pw, now) => pw' = pw \/ (guesses' = 0 /\ born' = now)]_(LockoutTheory!lockoutVars)
        => [Lockout!PwLocked(pw, now) => pw' = pw \/ (guesses' = 0 /\ born' = now)]_(Lockout!lockoutVars)
  BY SameLockout DEF Lockout!lockoutVars, LockoutTheory!lockoutVars
<1>2. LockoutTheory!Spec => LockoutTheory!LockRunsOut
  BY LockoutTheory!LockoutRunsOut, PwRuleAssumption, MaxTimeAssumption DEF LockoutTheory!LockoutRunsOut
<1> QED
  BY <1>1, <1>2, LockoutTheoryApplies, PTL DEF Lockout!LockRunsOut, LockoutTheory!LockRunsOut

\* The locks of a note grow and none is cut short by the next.
THEOREM BurnLocksEscalate == Spec => []Lockout!LocksEscalate
<1>1. LockoutTheory!LockedTime = Lockout!LockedTime
  BY SameLockout DEF Lockout!LockedTime, LockoutTheory!LockedTime
<1>2. LockoutTheory!LocksEscalate => Lockout!LocksEscalate
  BY <1>1 DEF Lockout!LocksEscalate, LockoutTheory!LocksEscalate, Lockout!NoTime, LockoutTheory!NoTime
<1>3. LockoutTheory!Spec => []LockoutTheory!LocksEscalate
  BY LockoutTheory!LockoutEscalates, PwRuleAssumption, MaxTimeAssumption DEF LockoutTheory!LockoutEscalates
<1> QED
  BY <1>2, <1>3, LockoutTheoryApplies, PTL
=============================================================================
