----------------------------- MODULE FileShare -----------------------------
(***************************************************************************)
(* The FileShare Durable Object of one file share (src/src/fileshare-do.js)*)
(* with its R2 objects and the Worker's chunk uploads in flight            *)
(* (routes/private.js putChunk).  An operation of the object is one action;*)
(* an upload is three (authorizeChunk, the R2 write, commitChunk), and a   *)
(* purge is two: the R2 objects first, then the record.                    *)
(***************************************************************************)
EXTENDS SharePassword, FiniteSets

CONSTANTS
    MaxTime,            \* bound on the clock
    MaxViews,           \* bound on a view limit
    Chunks,             \* the chunk indices of the padded stream
    Puts,               \* upload requests a Worker may have in flight
    Retries,            \* may a chunk that is stored or in flight be sent again?
    Clients,            \* tracking keys (an IP, or an IPv6 /64)
    PendingSec,         \* the upload deadline
    Ttl,                \* the lifetime from finalize on
    GrantSec,           \* the download window of the role
    MaxActiveGrants,    \* MAX_ACTIVE_GRANTS
    MaxGrantsPerClient, \* MAX_GRANTS_PER_CLIENT
    MaxGrantExtensions, \* MAX_GRANT_EXTENSIONS
    Kinds,              \* the kinds of share made: a password, a CAPTCHA, deletable by openers?
    MaxFaults,          \* bound on failing R2 deletes and abandoned uploads
    NoRec               \* nothing stored under KEY

ASSUME SizesAssumption ==
    /\ MaxTime \in Nat
    /\ Chunks # {}
    /\ MaxViews \in Nat \ {0} /\ PendingSec \in Nat \ {0} /\ Ttl \in Nat \ {0} /\ GrantSec \in Nat \ {0}
    /\ MaxActiveGrants \in Nat \ {0} /\ MaxGrantsPerClient \in Nat \ {0} /\ MaxGrantExtensions \in Nat
    /\ MaxFaults \in Nat
ASSUME KindsAssumption ==
    /\ Retries \in BOOLEAN
    /\ Kinds \subseteq [password : BOOLEAN, hc : BOOLEAN, deletable : BOOLEAN]

Unlimited == -1  \* null views
Keep == -2       \* undefined: a change that leaves the field alone
Limit == 1 .. MaxViews \cup {Unlimited}

\* The record: `refs` for a Drive share (its objects are the Drive's), `stored` the
\* chunks whose size commitChunk has written.
Rec == [state : {"pending", "active", "closed"}, refs : BOOLEAN, stored : SUBSET Chunks,
        deadline : Time, expires : Time, purgeAt : Time, views : Limit, left : Limit \cup {0},
        password : BOOLEAN, hc : BOOLEAN, deletable : BOOLEAN]

ASSUME NoRecAssumption == NoRec \notin Rec

\* A hash is drawn for each grant; here the least number that no other grant has.
\* f: the end of the first window; n: the extensions used.
Hashes == 1 .. MaxActiveGrants
Grant == [h : Hashes, c : Clients, exp : Time, f : Time, n : 0 .. MaxGrantExtensions]

VARIABLES
    now,     \* the clock, unix seconds
    rec,     \* the record, or NoRec
    grants,  \* the grants under GRANTS_KEY
    pw,      \* the password lockout's state
    alarm,   \* when the alarm is set for, or NoTime
    made,    \* genId has drawn this id: it is never drawn again
    purge,   \* "no", "chunks" (deleting the R2 objects), "record" (they are deleted)
    r2,      \* the chunks R2 holds
    put,     \* the upload requests: put[q].at and the chunk put[q].i it carries
    opened,  \* history: opens spent on a limit
    guesses, \* history: wrong passwords evaluated since `born`
    born,    \* history: when that count last started from nothing
    lost,    \* history: chunks whose upload was abandoned after its write
    faults   \* history: failures so far

recVars == <<rec, grants, alarm, pw, guesses, born>>
vars == <<now, rec, grants, pw, alarm, made, purge, r2, put, opened, guesses, born, lost, faults>>

Idle == [at |-> "idle", i |-> CHOOSE i \in Chunks : TRUE]

TypeOK ==
    /\ now \in 0 .. MaxTime
    /\ rec \in Rec \cup {NoRec}
    /\ grants \subseteq Grant
    /\ pw \in PwState
    /\ alarm \in Time \cup {NoTime}
    /\ made \in BOOLEAN
    /\ purge \in {"no", "chunks", "record"}
    /\ r2 \subseteq Chunks /\ lost \subseteq Chunks
    /\ put \in [Puts -> [at : {"idle", "authorized", "written", "undo"}, i : Chunks]]
    /\ opened \in Nat /\ guesses \in Nat /\ born \in 0 .. now
    /\ faults \in 0 .. MaxFaults

Init ==
    /\ now = 0 /\ rec = NoRec /\ grants = {} /\ pw = NoFails /\ alarm = NoTime /\ made = FALSE
    /\ purge = "no" /\ r2 = {} /\ put = [q \in Puts |-> Idle]
    /\ opened = 0 /\ guesses = 0 /\ born = 0 /\ lost = {} /\ faults = 0

-----------------------------------------------------------------------------
\* #live's test of the record at `now`.
Dead ==
    /\ rec # NoRec
    /\ \/ rec.state = "pending" /\ now >= rec.deadline
       \/ rec.state # "pending" /\ now >= rec.expires
       \/ rec.state = "closed" /\ now >= rec.purgeAt

LiveIn(states) == rec # NoRec /\ ~Dead /\ rec.state \in states
AnyState == {"pending", "active", "closed"}

\* The object answers one operation at a time.  A purge begun outside
\* blockConcurrencyWhile (alarm, head, status, chunk access) lets others in, but each
\* of them finds the record dead and only repeats the purge, so none is taken then.
Serving == purge = "no"

\* #purge, first half: the R2 objects are about to be deleted.
StartPurge == purge' = "chunks" /\ UNCHANGED recVars

\* #live of a dead record purges it; otherwise nothing changes.
Lapse == IF Dead THEN StartPurge ELSE UNCHANGED <<recVars, purge>>

\* Every chunk of an uploaded share is deleted; a Drive share has none of its own.
PurgeChunks ==
    /\ purge = "chunks"
    /\ r2' = IF rec.refs THEN r2 ELSE {}
    /\ purge' = "record"
    /\ UNCHANGED <<now, recVars, made, put, opened, lost, faults>>

\* The alarm of a purge that failed: one already delivered is retried.  (Lost: had the
\* handler swallowed the failure.)
LostAlarm == alarm
RetriedAlarm == IF alarm = NoTime THEN now ELSE alarm

\* A delete fails, some of its batch done: #purge throws, the record stays and an
\* alarm that was running is retried.
PurgeFails ==
    /\ purge = "chunks" /\ ~rec.refs /\ faults < MaxFaults
    /\ r2' \in SUBSET r2
    /\ purge' = "no"
    /\ alarm' = RetriedAlarm
    /\ faults' = faults + 1
    /\ UNCHANGED <<now, rec, grants, pw, guesses, born, made, put, opened, lost>>

\* #purge, second half: deleteAll and deleteAlarm.
PurgeRecord ==
    /\ purge = "record"
    /\ rec' = NoRec /\ grants' = {} /\ alarm' = NoTime
    /\ pw' = NoFails /\ guesses' = 0 /\ born' = now
    /\ purge' = "no"
    /\ UNCHANGED <<now, made, r2, put, opened, lost, faults>>

-----------------------------------------------------------------------------
\* init: an upload begins.
InitUpload(views, kind) ==
    /\ Serving /\ rec = NoRec /\ ~made
    /\ rec' = [state |-> "pending", refs |-> FALSE, stored |-> {}, deadline |-> now + PendingSec,
               expires |-> 0, purgeAt |-> 0, views |-> views, left |-> views,
               password |-> kind.password, hc |-> kind.hc, deletable |-> kind.deletable]
    /\ alarm' = now + PendingSec
    /\ made' = TRUE
    /\ UNCHANGED <<now, grants, pw, purge, r2, put, opened, guesses, born, lost, faults>>

\* A Drive share is active at once.
InitRefs(views, kind) ==
    /\ Serving /\ rec = NoRec /\ ~made
    /\ rec' = [state |-> "active", refs |-> TRUE, stored |-> {}, deadline |-> 0,
               expires |-> now + Ttl, purgeAt |-> 0, views |-> views, left |-> views,
               password |-> kind.password, hc |-> kind.hc, deletable |-> kind.deletable]
    /\ alarm' = now + Ttl
    /\ made' = TRUE
    /\ UNCHANGED <<now, grants, pw, purge, r2, put, opened, guesses, born, lost, faults>>

\* The uploader sends chunk i again only when uploads are retried.
MaySend(i) == Retries \/ (i \notin rec.stored /\ \A q \in Puts : put[q].at # "idle" => put[q].i # i)

AuthorizeChunk(q, i) ==
    /\ Serving /\ put[q].at = "idle" /\ rec # NoRec /\ MaySend(i)
    /\ IF LiveIn({"pending"})
       THEN put' = [put EXCEPT ![q] = [at |-> "authorized", i |-> i]] /\ UNCHANGED <<recVars, purge>>
       ELSE Lapse /\ UNCHANGED put
    /\ UNCHANGED <<now, made, r2, opened, lost, faults>>

\* files.put by the Worker, which does not pass through the object.
WriteChunk(q) ==
    /\ put[q].at = "authorized"
    /\ r2' = r2 \cup {put[q].i}
    /\ put' = [put EXCEPT ![q].at = "written"]
    /\ UNCHANGED <<now, recVars, made, purge, opened, lost, faults>>

CommitChunk(q) ==
    /\ Serving /\ put[q].at = "written"
    /\ IF LiveIn({"pending"})
       THEN /\ rec' = [rec EXCEPT !.stored = @ \cup {put[q].i}]
            /\ put' = [put EXCEPT ![q] = Idle]
            /\ UNCHANGED <<grants, alarm, pw, guesses, born, purge>>
       ELSE Lapse /\ put' = [put EXCEPT ![q].at = "undo"]
    /\ UNCHANGED <<now, made, r2, opened, lost, faults>>

\* The commit was refused: the Worker deletes the chunk it wrote.
UndoChunk(q) ==
    /\ put[q].at = "undo"
    /\ r2' = r2 \ {put[q].i}
    /\ put' = [put EXCEPT ![q] = Idle]
    /\ UNCHANGED <<now, recVars, made, purge, opened, lost, faults>>

\* The Worker's request ends early (the client is gone, the runtime stops it).
AbandonPut(q) ==
    /\ put[q].at # "idle" /\ faults < MaxFaults
    /\ put' = [put EXCEPT ![q] = Idle]
    /\ lost' = IF put[q].at = "authorized" THEN lost ELSE lost \cup {put[q].i}
    /\ faults' = faults + 1
    /\ UNCHANGED <<now, recVars, made, purge, r2, opened>>

AllStored == rec.stored = Chunks

\* finalize: refused while a chunk is missing (or the manifest does not match).
Finalize ==
    /\ Serving
    /\ IF LiveIn({"pending"}) /\ AllStored
       THEN /\ rec' = [rec EXCEPT !.state = "active", !.deadline = 0, !.expires = now + Ttl]
            /\ alarm' = now + Ttl
            /\ UNCHANGED <<grants, pw, guesses, born, purge>>
       ELSE Lapse
    /\ UNCHANGED <<now, made, r2, put, opened, lost, faults>>

-----------------------------------------------------------------------------
\* #grants: the stored grants that have not run out.
LiveGrants == {g \in grants : g.exp > now}

Mine(client) == {g \in LiveGrants : g.c = client}

PastFirstWindow == {g \in LiveGrants : g.f <= now}

MayGiveWay(client) ==
    IF Cardinality(Mine(client)) >= MaxGrantsPerClient THEN Mine(client)
    ELSE IF Cardinality(LiveGrants) >= MaxActiveGrants THEN PastFirstWindow ELSE {}

Busy(client) ==
    /\ Cardinality(Mine(client)) < MaxGrantsPerClient
    /\ Cardinality(LiveGrants) >= MaxActiveGrants
    /\ PastFirstWindow = {}

\* reduce((a, b) => b.exp < a.exp ? b : a): one of those that end earliest (the first in
\* storage order, which is left out).
EndFirst(S) == {g \in S : \A o \in S : g.exp <= o.exp}

\* What a new grant may find in the table.
Kept(client) ==
    IF MayGiveWay(client) = {} THEN {LiveGrants} ELSE {LiveGrants \ {g} : g \in EndFirst(MayGiveWay(client))}

NextHash(table, h) ==
    /\ \A g \in table : g.h # h
    /\ \A i \in 1 .. h - 1 : \E g \in table : g.h = i

\* #keyProof: while the password is locked the proof is not looked at.  (Unlocked: it is.)
KeyProofUnlocked(key) == IF key THEN "right" ELSE "bad_password"
KeyProof(key) ==
    IF rec.password /\ PwLocked(pw, now) THEN "pw_locked" ELSE IF key THEN "right" ELSE "bad_password"

\* The checks of open and expireByOpener in their order.
Outcome(link, key, human) ==
    IF ~LiveIn({"active"}) THEN "gone"
    ELSE IF rec.hc /\ ~human THEN "captcha"
    ELSE IF ~link THEN "bad_link"
    ELSE KeyProof(key)

\* Every outcome but "right": a wrong password is counted when there is one to guess.
Refused(outcome) ==
    \/ outcome = "gone" /\ Lapse
    \/ outcome \in {"captcha", "bad_link", "pw_locked"} /\ UNCHANGED <<recVars, purge>>
    \/ /\ outcome = "bad_password"
       /\ IF rec.password
          THEN pw' = PwFailed(pw, now) /\ guesses' = guesses + 1 /\ UNCHANGED born
          ELSE UNCHANGED <<pw, guesses, born>>
       /\ UNCHANGED <<rec, grants, alarm, purge>>

\* The right password clears the count, whatever comes of the request.
KeyAccepted ==
    IF rec.password THEN pw' = NoFails /\ guesses' = 0 /\ born' = now ELSE UNCHANGED <<pw, guesses, born>>

\* A view is spent and a grant written; the last view closes the share, which is
\* kept for as long as some grant.
Release(client) ==
    \E kept \in Kept(client), h \in Hashes :
        LET end == Least(now + GrantSec, rec.expires)
            table == kept \cup {[h |-> h, c |-> client, exp |-> end, f |-> end, n |-> 0]}
            ends == {g.exp : g \in table} \cup {now}
        IN  /\ NextHash(kept, h)
            /\ grants' = table
            /\ opened' = IF rec.left = Unlimited THEN opened ELSE opened + 1
            /\ IF rec.left = 1
               THEN \E purgeAt \in ends :
                      /\ \A t \in ends : t <= purgeAt
                      /\ rec' = [rec EXCEPT !.left = 0, !.state = "closed", !.purgeAt = purgeAt]
                      /\ alarm' = purgeAt
               ELSE /\ rec' = [rec EXCEPT !.left = IF @ = Unlimited THEN @ ELSE @ - 1]
                    /\ UNCHANGED alarm

Open(client, link, key, human) ==
    /\ Serving
    /\ \/ Refused(Outcome(link, key, human)) /\ UNCHANGED opened
       \/ /\ Outcome(link, key, human) = "right"
          /\ KeyAccepted /\ UNCHANGED purge
          /\ IF Busy(client) THEN UNCHANGED <<rec, grants, alarm, opened>> ELSE Release(client)
    /\ UNCHANGED <<now, made, r2, put, lost, faults>>

\* "Delete now", when the sender allowed it.
ExpireByOpener(link, key, human) ==
    /\ Serving
    /\ \/ Refused(Outcome(link, key, human))
       \/ /\ Outcome(link, key, human) = "right"
          /\ KeyAccepted
          /\ purge' = IF rec.deletable THEN "chunks" ELSE purge
          /\ UNCHANGED <<rec, grants, alarm>>
    /\ UNCHANGED <<now, made, r2, put, opened, lost, faults>>

Extendable(h, human) ==
    {g \in LiveGrants : LiveIn({"active", "closed"}) /\ (rec.hc => human) /\ g.h = h /\ g.n < MaxGrantExtensions}

ExtendedEnd(g) == Most(g.exp, Least(now + GrantSec, rec.expires))

Waits(end) == rec.state = "closed" /\ end > rec.purgeAt

\* The holder of a live grant keeps it open.
Prolong(g) ==
    LET end == ExtendedEnd(g)
    IN  /\ grants' = (LiveGrants \ {g}) \cup {[g EXCEPT !.exp = end, !.n = @ + 1]}
        /\ IF Waits(end)
           THEN rec' = [rec EXCEPT !.purgeAt = end] /\ alarm' = end
           ELSE UNCHANGED <<rec, alarm>>
        /\ UNCHANGED <<pw, guesses, born, purge>>

ExtendGrant(h, human) ==
    /\ Serving
    /\ IF Extendable(h, human) = {} THEN Lapse ELSE \E g \in Extendable(h, human) : Prolong(g)
    /\ UNCHANGED <<now, made, r2, put, opened, lost, faults>>

\* head, status and chunk access change nothing but the purge of a dead record.
Look == Serving /\ Lapse /\ UNCHANGED <<now, made, r2, put, opened, lost, faults>>

ViewsRaised(views) ==
    views \in {Keep, Unlimited} \/ (rec.views # Unlimited /\ views > rec.views)

\* The views left once the limit is raised to `views`.  (Refilled: spent ones handed back.)
LeftRefilled(views) == IF views = Keep THEN rec.left ELSE views
LeftAfter(views) ==
    IF views = Keep THEN rec.left
    ELSE IF views = Unlimited THEN Unlimited ELSE views - (rec.views - rec.left)

AlarmAfter(expires) == IF expires = Keep THEN alarm ELSE expires

Extend(views, expires) ==
    /\ Serving
    /\ IF /\ LiveIn({"active"}) /\ ViewsRaised(views)
          /\ (expires = Keep \/ expires > rec.expires)
       THEN /\ rec' = [rec EXCEPT
                  !.views = IF views = Keep THEN @ ELSE views,
                  !.left = LeftAfter(views),
                  !.expires = IF expires = Keep THEN @ ELSE expires]
            /\ alarm' = AlarmAfter(expires)
            /\ UNCHANGED <<grants, pw, guesses, born, purge>>
       ELSE Lapse
    /\ UNCHANGED <<now, made, r2, put, opened, lost, faults>>

\* The delete token; a wrong one changes nothing.
RemoveByToken(token) ==
    /\ Serving
    /\ IF LiveIn(AnyState) /\ token THEN StartPurge ELSE Lapse
    /\ UNCHANGED <<now, made, r2, put, opened, lost, faults>>

\* The owner's revocation, in any state.
Revoke ==
    /\ Serving /\ rec # NoRec
    /\ StartPurge
    /\ UNCHANGED <<now, made, r2, put, opened, lost, faults>>

Due == IF rec.state = "pending" THEN rec.deadline
       ELSE IF rec.state = "closed" THEN rec.purgeAt ELSE rec.expires

\* The alarm is spent when it is delivered: the handler purges or sets it again.
Alarm ==
    /\ Serving /\ alarm # NoTime /\ now >= alarm
    /\ IF now >= Due
       THEN purge' = "chunks" /\ alarm' = NoTime
       ELSE alarm' = Due /\ UNCHANGED purge
    /\ UNCHANGED <<now, rec, grants, pw, guesses, born, made, r2, put, opened, lost, faults>>

Tick ==
    /\ now' \in (now + 1) .. MaxTime
    /\ UNCHANGED <<recVars, made, purge, r2, put, opened, lost, faults>>

Next ==
    \/ \E views \in Limit, kind \in Kinds :
         InitUpload(views, kind) \/ InitRefs(views, kind)
    \/ \E q \in Puts, i \in Chunks : AuthorizeChunk(q, i)
    \/ \E q \in Puts : WriteChunk(q) \/ CommitChunk(q) \/ UndoChunk(q) \/ AbandonPut(q)
    \/ Finalize
    \/ \E client \in Clients, link, key, human \in BOOLEAN : Open(client, link, key, human)
    \/ \E link, key, human \in BOOLEAN : ExpireByOpener(link, key, human)
    \/ \E h \in Hashes, human \in BOOLEAN : ExtendGrant(h, human)
    \/ \E views \in Limit \cup {Keep}, expires \in (now + 1 .. MaxTime) \cup {Keep} : Extend(views, expires)
    \/ \E token \in BOOLEAN : RemoveByToken(token)
    \/ Look \/ Revoke \/ Alarm \/ PurgeChunks \/ PurgeFails \/ PurgeRecord \/ Tick

\* The runtime delivers alarms at least once and R2 calls return.
Fairness ==
    /\ WF_vars(Alarm) /\ WF_vars(PurgeChunks) /\ WF_vars(PurgeRecord)
    /\ \A q \in Puts : WF_vars(WriteChunk(q)) /\ WF_vars(CommitChunk(q)) /\ WF_vars(UndoChunk(q))

Spec == Init /\ [][Next]_vars /\ Fairness

-----------------------------------------------------------------------------
\* A view is spent by a release and by nothing else, a closed share has none left,
\* and raising the limit gives none back that is spent.
ViewsConserved ==
    rec # NoRec /\ rec.left # Unlimited =>
        /\ opened + rec.left = rec.views
        /\ rec.left = 0 <=> rec.state = "closed"

\* The grant table never outgrows its limits, whoever opens and extends
\* (fileshare-do.js: repeated opens must not wedge the share).
GrantsBounded ==
    /\ Cardinality(LiveGrants) <= MaxActiveGrants
    /\ \A c \in Clients : Cardinality(Mine(c)) <= MaxGrantsPerClient

\* Extensions keep a window open no longer than that many windows of the role, nor
\* past the end of the share.
GrantLifeBounded ==
    rec # NoRec => \A g \in grants : g.exp <= rec.expires /\ g.exp <= g.f + g.n * GrantSec

\* An open never cuts another client's download short in its first window.
FirstWindowKept ==
    \A c \in Clients :
         (\E link, key, human \in BOOLEAN : Open(c, link, key, human)) =>
            \A g \in LiveGrants : g.c # c /\ g.f > now => g \in grants'

\* Ending on its own, after the last view or at its expiry, a share waits for every
\* download already granted.
GrantsHonoured ==
    Alarm \/ Look => (purge' # purge => LiveGrants = {})

\* A stored record always has its alarm at the time it is due (or one that is being
\* retried): no end goes unnoticed.
AlarmCovers ==
    rec # NoRec /\ purge = "no" => alarm # NoTime /\ alarm <= Most(Due, now)

\* Whatever the order of uploads, finalize, revocation, expiry and failed deletes:
\* when the record is gone and no request is running, R2 holds nothing of the
\* share, but for writes whose Worker never came back.
NoOrphans ==
    made /\ rec = NoRec /\ (\A q \in Puts : put[q].at = "idle") => r2 \subseteq lost

\* A share that was finalized has all its chunks until a purge begins (unless one is
\* sent again meanwhile: UndoesOnlyUnreferenced).
FinalizedComplete ==
    ~Retries /\ rec # NoRec /\ rec.state # "pending" /\ ~rec.refs /\ purge = "no" /\ faults = 0 => r2 = Chunks

\* What a file share keeps, whatever uploads, opens, extensions, revocations, alarms and
\* failing deletes interleave (fileshare-do.js).
FileKept ==
    /\ TypeOK /\ ViewsConserved /\ GrantsBounded /\ GrantLifeBounded
    /\ AlarmCovers /\ NoOrphans /\ FinalizedComplete

\* What no step does to a download that was granted (fileshare-do.js open, alarm).
GrantsKept == FirstWindowKept /\ GrantsHonoured

\* putChunk deletes what it wrote only when nothing refers to it (its comment:
\* "rather than leave ciphertext in R2 that nothing refers to").
UndoesOnlyUnreferenced ==
    \A q \in Puts : UndoChunk(q) => rec = NoRec \/ purge # "no" \/ put[q].i \notin rec.stored

\* A share that is due: purged unasked, once R2 stops failing, unless it is extended or
\* its download prolonged meanwhile (or its upload is finalized).
Overdue == rec # NoRec /\ now >= Due

\* The lockout state is the record's own.
Lockout == INSTANCE PasswordLockout WITH now <- now, pw <- pw, guesses <- guesses, born <- born
=============================================================================
