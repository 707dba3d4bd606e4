----------------------------- MODULE BurnPaste -----------------------------
(***************************************************************************)
(* The BurnPaste Durable Object of one view-limited note: src/src/         *)
(* burn-do.js.  Every operation runs inside blockConcurrencyWhile (status  *)
(* reads only), so each is one action; what callers send is chosen with    *)
(* \E: whether the link proof, the key proof, the CAPTCHA grant and the    *)
(* delete token are right.                                                 *)
(***************************************************************************)
EXTENDS SharePassword

CONSTANTS
    MaxTime,   \* bound on the clock
    MaxViews,  \* bound on a view limit
    Ttls,      \* the lifetimes a note is created with (ttlSeconds, never 0)
    Lag,       \* seconds a Worker's clock reading may be old when the object acts on it
    NoRec      \* nothing stored under KEY

ASSUME MaxTimeAssumption == MaxTime \in Nat
ASSUME MaxViewsAssumption == MaxViews \in Nat \ {0}
ASSUME TtlsAssumption == Ttls \subseteq Nat \ {0}
ASSUME LagAssumption == Lag \in Nat

Unlimited == -1   \* null: raised to unlimited views
Keep == -2        \* undefined: a change that leaves the field alone

Views == 1 .. MaxViews
Limit == Views \cup {Unlimited}

\* The fields of the stored record that any step reads again: exp, paste.meta.expires
\* (what the sender was told), views, left, whether adata.kdf is PASSWORD_KDF, hc and
\* paste.meta.deletable.
Rec == [exp : Nat, expires : Nat, views : Limit, left : Limit,
        password : BOOLEAN, hc : BOOLEAN, deletable : BOOLEAN]

ASSUME NoRecAssumption == NoRec \notin Rec

VARIABLES
    now,      \* the clock, unix seconds
    rec,      \* the record, or NoRec
    pw,       \* the password lockout's state under PW_KEY (NoFails: none)
    alarm,    \* when the object's alarm is set for, or NoTime
    made,     \* genId has drawn this id: it is never drawn again
    released, \* history: releases of this note spent on a limit
    guesses,  \* history: wrong passwords evaluated since `born`
    born      \* history: when that count last started from nothing

vars == <<now, rec, pw, alarm, made, released, guesses, born>>

TypeOK ==
    /\ now \in 0 .. MaxTime
    /\ rec \in Rec \cup {NoRec}
    /\ pw \in PwState
    /\ alarm \in Nat \cup {NoTime}
    /\ made \in BOOLEAN
    /\ released \in Nat
    /\ guesses \in Nat
    /\ born \in 0 .. now

Init ==
    /\ now = 0 /\ rec = NoRec /\ pw = NoFails /\ alarm = NoTime /\ made = FALSE
    /\ released = 0 /\ guesses = 0 /\ born = 0

-----------------------------------------------------------------------------
Expired == rec # NoRec /\ now > rec.exp
Live == rec # NoRec /\ now <= rec.exp

NoCount == pw' = NoFails /\ guesses' = 0 /\ born' = now

\* (Key: had #purge deleted KEY and the alarm only.)
PurgeKey == rec' = NoRec /\ alarm' = NoTime /\ UNCHANGED <<pw, guesses, born>>

\* #purge: storage.deleteAll, the lockout's state with it, and the alarm.
Purge == rec' = NoRec /\ alarm' = NoTime /\ NoCount

\* #get of a record past its expiry purges it; nothing stored is left alone.
Lapse == IF Expired THEN Purge ELSE UNCHANGED <<rec, alarm, pw, guesses, born>>

\* createNote's Worker read its clock for meta.expires up to Lag seconds before
\* the object reads its own for exp.
Create(ttl, views, late, password, hc, deletable) ==
    /\ rec = NoRec /\ ~made
    /\ rec' = [exp |-> now + ttl, expires |-> Most(now - late, 0) + ttl, views |-> views, left |-> views,
               password |-> password, hc |-> hc, deletable |-> deletable]
    /\ alarm' = now + ttl
    /\ made' = TRUE
    /\ UNCHANGED <<now, pw, released, guesses, born>>

KeyProofUnlocked(key) == IF key THEN "right" ELSE "bad_password"
KeyProof(key) ==
    IF rec.password /\ PwLocked(pw, now) THEN "pw_locked" ELSE IF key THEN "right" ELSE "bad_password"

\* The checks of open and expireByOpener in their order.
Outcome(link, key, human) ==
    IF ~Live THEN "gone"
    ELSE IF rec.hc /\ ~human THEN "captcha"
    ELSE IF ~link THEN "bad_link"
    ELSE KeyProof(key)

\* #keyProof's writes: a wrong password is counted when there is a password to guess.
CountFailure ==
    IF rec.password
    THEN pw' = PwFailed(pw, now) /\ guesses' = guesses + 1 /\ UNCHANGED born
    ELSE UNCHANGED <<pw, guesses, born>>

\* The right password, where there is one, clears the count.
KeyAccepted == IF rec.password THEN NoCount ELSE UNCHANGED <<pw, guesses, born>>

\* Every outcome but "right", which open and expireByOpener share.
Refused(outcome) ==
    \/ outcome = "gone" /\ Lapse
    \/ outcome \in {"captcha", "bad_link", "pw_locked"} /\ UNCHANGED <<rec, alarm, pw, guesses, born>>
    \/ outcome = "bad_password" /\ CountFailure /\ UNCHANGED <<rec, alarm>>

\* (Late and Early: off by one.)
LastViewLate == rec.left = 0
LastViewEarly == rec.left \in {1, 2}
LastView == rec.left = 1

\* A view is spent; the last one purges the record.
Release ==
    /\ released' = IF rec.left = Unlimited THEN released ELSE released + 1
    /\ IF LastView
       THEN Purge
       ELSE /\ rec' = [rec EXCEPT !.left = IF @ = Unlimited THEN @ ELSE @ - 1]
            /\ KeyAccepted /\ UNCHANGED alarm

Open(link, key, human) ==
    /\ \/ Refused(Outcome(link, key, human)) /\ UNCHANGED released
       \/ Outcome(link, key, human) = "right" /\ Release
    /\ UNCHANGED <<now, made>>

\* "Delete now": the count is cleared by the right password even when the
\* sender did not allow the delete.
ExpireByOpener(link, key, human) ==
    /\ \/ Refused(Outcome(link, key, human))
       \/ /\ Outcome(link, key, human) = "right"
          /\ IF rec.deletable THEN Purge ELSE KeyAccepted /\ UNCHANGED <<rec, alarm>>
    /\ UNCHANGED <<now, made, released>>

\* head and status change nothing but the purge of an expired record.
Look == Lapse /\ UNCHANGED <<now, made, released>>

ViewsRaised(views) ==
    views \in {Keep, Unlimited} \/ (rec.views # Unlimited /\ views > rec.views)

ExpiryRaised(expires) == expires = Keep \/ expires > rec.expires

\* The views left once the limit is raised to `views`.  (Refilled: spent ones handed back.)
LeftRefilled(views) == IF views = Keep THEN rec.left ELSE views
LeftAfter(views) ==
    IF views = Keep THEN rec.left
    ELSE IF views = Unlimited THEN Unlimited ELSE views - (rec.views - rec.left)

\* The alarm follows the expiry.  (Stale: not moved; Dropped: lost with a change of the views.)
AlarmStale(expires) == alarm
AlarmDropped(expires) == IF expires = Keep THEN NoTime ELSE expires
AlarmAfter(expires) == IF expires = Keep THEN alarm ELSE expires

\* changeShare has checked that `expires` is in the future of the Worker's clock.
Extend(views, expires) ==
    /\ IF ~Live \/ ~ViewsRaised(views) \/ ~ExpiryRaised(expires)
       THEN Lapse
       ELSE /\ rec' = [rec EXCEPT
                !.views = IF views = Keep THEN @ ELSE views,
                !.left = LeftAfter(views),
                !.exp = IF expires = Keep THEN @ ELSE expires,
                !.expires = IF expires = Keep THEN @ ELSE expires]
            /\ alarm' = AlarmAfter(expires)
            /\ UNCHANGED <<pw, guesses, born>>
    /\ UNCHANGED <<now, made, released>>

\* The delete token; a wrong one changes nothing.
Remove(token) ==
    /\ IF Live /\ token THEN Purge ELSE Lapse
    /\ UNCHANGED <<now, made, released>>

\* The owner's revocation purges without reading the record.
Revoke == Purge /\ UNCHANGED <<now, made, released>>

\* The runtime delivers the alarm at its time or later, and drops one that was reset.
Alarm ==
    /\ alarm # NoTime /\ now >= alarm
    /\ Purge
    /\ UNCHANGED <<now, made, released>>

Tick ==
    /\ now' \in (now + 1) .. MaxTime
    /\ UNCHANGED <<rec, pw, alarm, made, released, guesses, born>>

Next ==
    \/ \E ttl \in Ttls, views \in Views, late \in 0 .. Lag, password, hc, deletable \in BOOLEAN :
         Create(ttl, views, late, password, hc, deletable)
    \/ \E link, key, human \in BOOLEAN : Open(link, key, human) \/ ExpireByOpener(link, key, human)
    \/ \E views \in Limit \cup {Keep}, expires \in (Most(now - Lag, 0) + 1 .. MaxTime) \cup {Keep} :
         Extend(views, expires)
    \/ \E token \in BOOLEAN : Remove(token)
    \/ Look \/ Revoke \/ Alarm \/ Tick

Spec == Init /\ [][Next]_vars /\ WF_vars(Alarm)

-----------------------------------------------------------------------------
\* A view is spent by a release and by nothing else (burn-do.js header: exactly
\* `views` openers get the ciphertext): not by a refused attempt, not by
\* "delete now" when the sender did not allow it, and raising the limit gives
\* none back that is spent.
ViewsConserved ==
    rec # NoRec /\ rec.left # Unlimited => rec.left > 0 /\ released + rec.left = rec.views

\* No release goes past the limit, and the one that reaches it ends the note.
LastViewEnds ==
    [][released' # released =>
         released' <= rec.views /\ (released' = rec.views <=> rec' = NoRec)]_vars

\* An alarm never destroys a note before the expiry its sender was told, and
\* an extended note's alarm is the extended one.
NeverEndsEarly == [][Alarm => rec # NoRec /\ now >= rec.expires]_vars

\* What a purge leaves: no lockout state and no alarm outlive the record.
NothingLeftBehind == rec = NoRec => pw = NoFails /\ alarm = NoTime

\* A note that is due is purged without anyone asking for it, unless its expiry is
\* moved in that very second.
PurgedWhenDue == (rec # NoRec /\ now >= rec.exp) ~> (rec = NoRec \/ now < rec.exp)

\* The lockout kept by this object is the one sharepw.js promises.
Lockout == INSTANCE PasswordLockout WITH now <- now, pw <- pw, guesses <- guesses, born <- born
LockoutKept == Lockout!Spec
=============================================================================
