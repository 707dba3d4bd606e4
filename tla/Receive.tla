------------------------------ MODULE Receive ------------------------------
(***************************************************************************)
(* One receive link (a "reverse share") in its owner's Drive: the upload   *)
(* sessions anonymous senders start on it, the files they reserve, send    *)
(* and finish, its password lockout, and what its owner does meanwhile     *)
(* (src/src/drive-do.js, the reverse* methods and the alarm, with the      *)
(* handlers of routes/reverse.js).                                         *)
(*                                                                         *)
(* As in Drive: SQL alone is one action, a chunk is sent, stored in R2 and *)
(* answered, a removal is chosen, its objects go, its rows go.  The sealed *)
(* fields, and the byte counters that follow the file counter, are left    *)
(* out; one chunk is one unit of capacity.                                 *)
(***************************************************************************)
EXTENDS Integers, FiniteSets, TLC

CONSTANTS
    Sess,       \* grants: each starts one session
    Nets,       \* networks of senders
    Ups,        \* ids senders draw for their files
    Dirs,       \* folders of the Drive
    Puts,       \* chunk requests that may be in flight
    Fins,       \* finalize requests that may be in flight
    MaxSize,    \* bound on a file's size, in chunks
    Capacity,   \* of the Drive, in chunks
    HoldMax,    \* RECEIVE_HOLD_MAX, in chunks
    MaxFiles,   \* the link's maxFiles
    MaxSessions, MaxPerNet,  \* open sessions of the link, and of one network on it
    PendingSec, \* the role's filePendingSec
    IdleSec,    \* SESSION_IDLE_SEC and RECEIVE_IDLE_SEC
    MaxSec,     \* RECEIVE_MAX_SEC
    PwMaxFails, PwWindowSec, PwLockSec,  \* PW_MAX_FAILS, PW_WINDOW_SEC, PW_LOCK_SEC
    MaxTime,    \* bound on the clock
    Plans,      \* what is tried together, chosen at the start
    None

ReceiveAssumption ==
    /\ {PwMaxFails, PwWindowSec, PwLockSec} \subseteq Nat \ {0}
    /\ {MaxSize, Capacity, HoldMax, MaxFiles, MaxSessions, MaxPerNet, PendingSec, IdleSec, MaxSec, MaxTime} \subseteq Nat
    /\ None \notin Int /\ None \notin Sess \cup Dirs

\* A plan: the uploads, sessions, networks, sizes and requests there are, the link's views and
\* expiry, the clock, faults; whether a chunk may be in flight twice, whether the owner's own use
\* changes, moves and deletes of the folder, pauses, the link's end, a password.
Plan == [ups : SUBSET Ups, sess : SUBSET Sess, nets : SUBSET Nets, sizes : SUBSET (0 .. MaxSize), puts : SUBSET Puts,
         fins : SUBSET Fins, views : 1 .. Cardinality(Sess), exps : SUBSET Nat, time : 0 .. MaxTime, faults : 0 .. 1,
         resend : BOOLEAN, owner : BOOLEAN, move : BOOLEAN, pause : BOOLEAN, end : BOOLEAN, pw : BOOLEAN]
PlansAssumption == Plans \subseteq Plan

Ever == MaxTime + PendingSec + IdleSec + MaxSec   \* past every deadline

Link == [st : {"active", "revoked"}, held : BOOLEAN, folder : Dirs, exp : 0 .. Ever, left : 0 .. Cardinality(Sess), files : 0 .. Cardinality(Ups)]
Session == [exp : 0 .. Ever, net : Nets, started : 0 .. MaxTime, files : 0 .. Cardinality(Ups)]
Upload == [st : {"pending", "ready", "taken"}, size : 0 .. MaxSize, rows : SUBSET (0 .. MaxSize - 1), created : 0 .. MaxTime,
           updated : 0 .. MaxTime, sess : Sess \cup {None}, parent : Dirs]
Null == -1
Lock == [fails : Nat, since : Nat \cup {Null}, until : Nat \cup {Null}]
NoLock == [fails |-> 0, since |-> Null, until |-> Null]
Removal == [why : {"end", "pause", "cancel", "alarm", "folder"}, ids : SUBSET Ups, by : Sess \cup Dirs \cup {None}, gone : BOOLEAN]

VARIABLES
    plan, now,
    link,    \* the row of `reverse`
    dirs,    \* the folders there are
    sess,    \* rsessions: a Session or None
    up,      \* the received rows of `nodes` (taken: rs is null)
    known,   \* rgone: the grants and upload tokens kept known
    own,     \* what the rest of the Drive uses
    r2,      \* the objects <<upload, i>>
    put,     \* chunk requests: [id, i, at]
    fin,     \* finalize requests: [id, by, at]
    block,   \* the Removal holding the object
    lapsing, \* a pause still to call #lapseSessions
    change,  \* the folder a change of the link the index may still refuse replaced, or None
    alarm, ring,
    pw,      \* the link's lockout: pwfails, pwsince, pwlock
    guesses, born, strikes,  \* history: as PasswordLockout keeps it
    drawn,   \* history: uploads and sessions there were
    ended,   \* history: uploads finished
    got,     \* history: files each session finished
    logged, back,  \* history: files logged, and quota given back, when each session ended
    cut,     \* history: sessions ended with the link, or while a finalize of theirs was awaited
    billed,  \* history: how often each upload's bytes are charged
    stray, lost, torn, spilt, faults  \* history: writes, removals and charges a restart cut off

worker == <<fin, change, billed>>
locks == <<pw, guesses, born, strikes>>
hist == <<drawn, ended, got, logged, back, cut>>
broken == <<stray, lost, torn, spilt>>
vars == <<plan, now, link, dirs, sess, up, known, own, r2, put, fin, block, lapsing, change, alarm, ring, pw, guesses, born, strikes,
          drawn, ended, got, logged, back, cut, billed, stray, lost, torn, spilt, faults>>

-----------------------------------------------------------------------------
Items == {u \in Ups : up[u] # None}
Pending == {u \in Items : up[u].st = "pending"}
Waiting == {u \in Items : up[u].st # "taken"}
ChunksOf(u) == 0 .. up[u].size - 1
Objects(ids) == {<<u, i>> \in Ups \X (0 .. MaxSize - 1) : u \in ids}

\* #reverseState.
LinkState ==
    CASE link.st # "active" -> "revoked"
      [] link.st = "active" /\ link.exp <= now -> "expired"
      [] link.st = "active" /\ link.exp > now /\ link.folder \notin dirs -> "revoked"
      [] OTHER -> IF link.held THEN "paused" ELSE "active"
Open == LinkState = "active"

\* #session.
Live(s) == sess[s] # None /\ sess[s].exp > now

\* What an item takes of the capacity (CHARGED): one that is still sent, what arrived of it.
Charged(u) == IF up[u].st = "pending" THEN Cardinality(up[u].rows) ELSE up[u].size
Used ==
    LET sum[S \in SUBSET Ups] == IF S = {} THEN own ELSE LET u == CHOOSE v \in S : TRUE IN Charged(u) + sum[S \ {u}]
    IN  sum[Items]

\* The uploads that hold up a chunk (HELD).
Holding == {u \in Pending : Cardinality(up[u].rows) < up[u].size}

Inflight(u) == \E p \in Puts : put[p] # None /\ put[p].id = u /\ put[p].at \in {"sent", "stored"}
Least(a, b) == IF a <= b THEN a ELSE b
Idle == Least(PendingSec, IdleSec)

Due(n, se) ==
    LET live == {v \in Ups : n[v] # None /\ n[v].st = "pending"}
    IN  {n[u].updated + Idle : u \in live} \cup {n[u].created + MaxSec : u \in live}
            \cup {se[s].exp : s \in {x \in Sess : se[x] # None}}
Scheduled(cur, n, se) ==
    LET times == Due(n, se) \cup (IF cur = None THEN {} ELSE {cur})
    IN  IF Due(n, se) = {} THEN cur ELSE CHOOSE t \in times : \A v \in times : t <= v

\* #touch: a session is never open past its link's expiry or MaxSec after it started.
Touched(se, s, ttl) ==
    IF se[s] = None THEN se
    ELSE [se EXCEPT ![s].exp = Least(Least(link.exp, se[s].started + MaxSec), now + ttl)]

\* #settle, with the uploads as they are now.
Settled(se, s, n) ==
    Touched(se, s, IF \E u \in Ups : n[u] # None /\ n[u].st = "pending" /\ n[u].sess = s THEN PendingSec ELSE Idle)

Free == block = None

TypeOK ==
    /\ plan \in Plans /\ now \in 0 .. MaxTime
    /\ link \in Link /\ dirs \subseteq Dirs
    /\ sess \in [Sess -> Session \cup {None}] /\ up \in [Ups -> Upload \cup {None}]
    /\ known \subseteq Sess \cup Ups /\ own \in 0 .. Capacity
    /\ r2 \cup stray \cup lost \subseteq Objects(Ups)
    /\ put \in [Puts -> [id : Ups, i : 0 .. MaxSize - 1, at : {"begun", "sent", "stored", "undo"}] \cup {None}]
    /\ fin \in [Fins -> [id : Ups, by : Sess, at : {"asked", "hash"}] \cup {None}]
    /\ block \in Removal \cup {None}
    /\ lapsing \in BOOLEAN /\ ring \in {"no", "rung", "lapsed"}
    /\ change \in Dirs \cup {None}
    /\ alarm \in 0 .. Ever \cup {None}
    /\ pw \in Lock /\ {guesses, born, strikes} \subseteq Nat
    /\ drawn \cup cut \subseteq Ups \cup Sess /\ ended \cup torn \cup spilt \subseteq Ups
    /\ billed \in [Ups -> Nat] /\ faults \in 0 .. 1
    /\ \A f \in {got, logged, back} : f \in [Sess -> Nat]

Init ==
    /\ plan \in Plans /\ now = 0
    /\ \E t \in plan.exps : link = [st |-> "active", held |-> FALSE, folder |-> CHOOSE d \in Dirs : TRUE,
                                   exp |-> Least(t, Ever), left |-> plan.views, files |-> 0]
    /\ dirs = Dirs /\ own = 0
    /\ sess = [s \in Sess |-> None] /\ up = [u \in Ups |-> None] /\ known = {}
    /\ r2 = {} /\ put = [p \in Puts |-> None] /\ fin = [f \in Fins |-> None]
    /\ block = None /\ lapsing = FALSE /\ change = None /\ alarm = None /\ ring = "no"
    /\ pw = NoLock /\ guesses = 0 /\ born = 0 /\ strikes = 0
    /\ drawn = {} /\ ended = {} /\ cut = {}
    /\ got = [s \in Sess |-> 0] /\ logged = got /\ back = got
    /\ billed = [u \in Ups |-> 0]
    /\ stray = {} /\ lost = {} /\ torn = {} /\ spilt = {} /\ faults = 0

-----------------------------------------------------------------------------
\* Sessions.

\* reverseBegin's password step: right, wrong and counted, or locked.
Locked == pw.until # Null /\ pw.until > now
FailsKept == pw.fails + 1
Fails == (IF pw.since # Null /\ pw.since > now - PwWindowSec THEN pw.fails ELSE 0) + 1

CountFailure ==
    /\ IF Fails >= PwMaxFails
       THEN pw' = [fails |-> 0, since |-> Null, until |-> now + PwLockSec] /\ strikes' = strikes + 1
       ELSE pw' = [pw EXCEPT !.fails = Fails, !.since = IF Fails = 1 THEN now ELSE @] /\ UNCHANGED strikes
    /\ guesses' = guesses + 1 /\ UNCHANGED born
Accepted ==
    IF pw = NoLock THEN UNCHANGED locks ELSE pw' = NoLock /\ strikes' = 0 /\ guesses' = 0 /\ born' = now

Admitted == Open /\ link.left > 0

BeginRefused ==
    /\ Free /\ plan.pw /\ Admitted
    /\ IF Locked THEN UNCHANGED locks ELSE CountFailure
    /\ UNCHANGED <<plan, now, link, dirs, sess, up, known, own, r2, put, worker, block, lapsing, alarm, ring, hist, broken, faults>>

\* Sessions that lapsed with nothing sent are forgotten as the next one begins, and their quota
\* is given back by the Worker.
LapsedAll == {s \in Sess : sess[s] # None /\ sess[s].exp <= now}
LapsedEmpty == {s \in LapsedAll : sess[s].files = 0}
Without(se, gone) == [s \in Sess |-> IF s \in gone THEN None ELSE se[s]]
GivenBack(gone) == [s \in Sess |-> IF s \in gone THEN back[s] + 1 ELSE back[s]]
Awaited(gone) == {s \in gone : \E f \in Fins : fin[f] # None /\ fin[f].by = s}

Begin(s, net) ==
    LET rest == Without(sess, LapsedEmpty)
        open == {x \in Sess : Live(x)}
        full == Cardinality(open) >= MaxSessions \/ Cardinality({x \in open : sess[x].net = net}) >= MaxPerNet
    IN  /\ Free /\ s \in plan.sess \ drawn /\ net \in plan.nets
        /\ Admitted
        /\ plan.pw => ~Locked
        /\ IF plan.pw THEN Accepted ELSE UNCHANGED locks
        /\ known' = known \cup LapsedEmpty
        /\ back' = GivenBack(LapsedEmpty)
        /\ cut' = cut \cup Awaited(LapsedEmpty)
        /\ IF full
           THEN sess' = rest /\ UNCHANGED <<link, alarm, drawn>>
           ELSE /\ sess' = [rest EXCEPT ![s] = [exp |-> Least(link.exp, now + Idle), net |-> net, started |-> now, files |-> 0]]
                /\ link' = [link EXCEPT !.left = @ - 1]
                /\ drawn' = drawn \cup {s}
                /\ alarm' = Scheduled(alarm, up, sess')
        /\ UNCHANGED <<plan, now, dirs, up, own, r2, put, worker, block, lapsing, ring, ended, got, logged, broken, faults>>

\* The sender is done: the session's files are logged, or its quota is given back.
Settling(gone) ==
    /\ sess' = Without(sess, gone)
    /\ known' = known \cup gone
    /\ logged' = [s \in Sess |-> IF s \in gone THEN logged[s] + sess[s].files ELSE logged[s]]
    /\ back' = GivenBack({s \in gone : sess[s].files = 0})
    /\ cut' = cut \cup Awaited(gone)

Done(s) ==
    /\ Free /\ Live(s)
    /\ Settling({s})
    /\ UNCHANGED <<plan, now, link, dirs, up, own, r2, put, worker, block, lapsing, alarm, ring, locks, drawn, ended, got, broken, faults>>

-----------------------------------------------------------------------------
\* Uploads.

\* reverseCreateFile.
Reserve(u, s, size) ==
    /\ Free
    /\ u \in plan.ups \ drawn /\ size \in plan.sizes
    /\ Open /\ Live(s)
    /\ link.files + 1 <= MaxFiles
    /\ Used + size <= Capacity
    /\ size > 0 => Cardinality(Holding) + 1 <= HoldMax
    /\ up' = [up EXCEPT ![u] = [st |-> "pending", size |-> size, rows |-> {}, created |-> now, updated |-> now,
                                sess |-> s, parent |-> link.folder]]
    /\ link' = [link EXCEPT !.files = @ + 1]
    /\ sess' = Touched(sess, s, PendingSec)
    /\ alarm' = Scheduled(alarm, up', sess')
    /\ drawn' = drawn \cup {u}
    /\ UNCHANGED <<plan, now, dirs, known, own, r2, put, worker, block, lapsing, ring, locks, ended, got, logged, back, cut, broken, faults>>

\* #chunkCheck.
MaySend(u, i) == Open /\ u \in Pending /\ i \in ChunksOf(u) /\ up[u].created + MaxSec > now /\ up[u].updated + Idle > now

\* reverseChunkStart: the upload is active before the body arrives.
StartChunk(p, u, i) ==
    /\ Free /\ p \in plan.puts /\ put[p] = None
    /\ MaySend(u, i)
    /\ ~plan.resend => \A q \in Puts : put[q] # None => <<put[q].id, put[q].i>> # <<u, i>>
    /\ up' = [up EXCEPT ![u].updated = now]
    /\ alarm' = Scheduled(alarm, up', sess)
    /\ put' = [put EXCEPT ![p] = [id |-> u, i |-> i, at |-> "begun"]]
    /\ UNCHANGED <<plan, now, link, dirs, sess, known, own, r2, worker, block, lapsing, ring, locks, hist, broken, faults>>

\* #chunkFull: a chunk sent again adds nothing.
Full(u, i) == i \notin up[u].rows /\ Used + 1 > Capacity

\* reversePutChunk up to its write, or refused.
SendChunk(p) ==
    /\ Free /\ put[p] # None /\ put[p].at = "begun"
    /\ IF MaySend(put[p].id, put[p].i) /\ ~Full(put[p].id, put[p].i)
       THEN /\ put' = [put EXCEPT ![p].at = "sent"]
            /\ up' = [up EXCEPT ![put[p].id].updated = now]
       ELSE put' = [put EXCEPT ![p] = None] /\ UNCHANGED up
    /\ UNCHANGED <<plan, now, link, dirs, sess, known, own, r2, worker, block, lapsing, alarm, ring, locks, hist, broken, faults>>

ChunkStored(p) ==
    /\ put[p] # None /\ put[p].at = "sent"
    /\ r2' = r2 \cup {<<put[p].id, put[p].i>>}
    /\ put' = [put EXCEPT ![p].at = "stored"]
    /\ UNCHANGED <<plan, now, link, dirs, sess, up, known, own, worker, block, lapsing, alarm, ring, locks, hist, broken, faults>>

\* Back in the object: recorded when the upload is still pending and there is room for it...
StillRoomEarlier(u, i) == TRUE
StillRoom(u, i) == ~Full(u, i)

ChunkRecorded(p) ==
    /\ Free /\ put[p] # None /\ put[p].at = "stored"
    /\ put[p].id \in Pending /\ StillRoom(put[p].id, put[p].i)
    /\ up' = [up EXCEPT ![put[p].id].rows = @ \cup {put[p].i}, ![put[p].id].updated = now]
    /\ sess' = IF Live(up[put[p].id].sess) THEN Touched(sess, up[put[p].id].sess, PendingSec) ELSE sess
    /\ alarm' = Scheduled(alarm, up', sess')
    /\ put' = [put EXCEPT ![p] = None]
    /\ UNCHANGED <<plan, now, link, dirs, known, own, r2, worker, block, lapsing, ring, locks, hist, broken, faults>>

ChunkRefused(p) ==
    /\ Free /\ put[p] # None /\ put[p].at = "stored"
    /\ put[p].id \in Pending => ~StillRoom(put[p].id, put[p].i)
    /\ put' = [put EXCEPT ![p].at = "undo"]
    /\ UNCHANGED <<plan, now, link, dirs, sess, up, known, own, r2, worker, block, lapsing, alarm, ring, locks, hist, broken, faults>>

ChunkUndone(p) ==
    /\ put[p] # None /\ put[p].at = "undo"
    /\ r2' = r2 \ {<<put[p].id, put[p].i>>}
    /\ put' = [put EXCEPT ![p] = None]
    /\ UNCHANGED <<plan, now, link, dirs, sess, up, known, own, worker, block, lapsing, alarm, ring, locks, hist, broken, faults>>

Complete(u) == u \in Pending /\ ~Inflight(u) /\ up[u].rows = ChunksOf(u)

\* reverseFinalize: the session, the link and the upload are asked, then the Directory is.
StartFinalize(f, u, s) ==
    /\ Free /\ f \in plan.fins /\ fin[f] = None
    /\ Live(s) /\ Complete(u) /\ up[u].sess = s /\ Open
    /\ fin' = [fin EXCEPT ![f] = [id |-> u, by |-> s, at |-> "asked"]]
    /\ UNCHANGED <<plan, now, link, dirs, sess, up, known, own, r2, put, block, lapsing, change, alarm, ring, locks, hist, billed, broken, faults>>

\* The Directory's answer: refused, or charged and given to finalize, which asks again.
FinalizeAnswered(f, ok) ==
    /\ Free /\ fin[f] # None /\ fin[f].at = "asked"
    /\ IF ok /\ Complete(fin[f].id)
       THEN fin' = [fin EXCEPT ![f].at = "hash"] /\ billed' = [billed EXCEPT ![fin[f].id] = @ + 1]
       ELSE fin' = [fin EXCEPT ![f] = None] /\ UNCHANGED billed
    /\ UNCHANGED <<plan, now, link, dirs, sess, up, known, own, r2, put, block, lapsing, change, alarm, ring, locks, hist, broken, faults>>

RefusedUncharged(u) == [billed EXCEPT ![u] = @ - 1]
EndFinalize(f) ==
    LET u == fin[f].id
        s == fin[f].by
    IN  /\ Free /\ fin[f] # None /\ fin[f].at = "hash"
        /\ fin' = [fin EXCEPT ![f] = None]
        /\ IF Complete(u)
           THEN /\ up' = [up EXCEPT ![u].st = "ready", ![u].rows = {}, ![u].sess = None, ![u].updated = now]
                /\ sess' = IF sess[s] = None THEN sess ELSE Settled([sess EXCEPT ![s].files = @ + 1], s, up')
                /\ ended' = ended \cup {u} /\ got' = [got EXCEPT ![s] = @ + 1]
                /\ UNCHANGED billed
           ELSE billed' = RefusedUncharged(u) /\ UNCHANGED <<up, sess, ended, got>>
        /\ UNCHANGED <<plan, now, link, dirs, known, own, r2, put, block, lapsing, change, alarm, ring, locks, drawn, logged, back, cut, broken, faults>>

\* acceptReceived: the item goes into the folder its link has now.
TakeIn(u, d) ==
    /\ Free
    /\ u \in Items /\ up[u].st = "ready"
    /\ d = link.folder
    /\ up' = [up EXCEPT ![u].st = "taken", ![u].parent = d]
    /\ UNCHANGED <<plan, now, link, dirs, sess, known, own, r2, put, worker, block, lapsing, alarm, ring, locks, hist, broken, faults>>

-----------------------------------------------------------------------------
\* Removals.  An unfinished upload that goes gives its reservation back, and its token stays known.

Start(why, ids, by) ==
    /\ Free
    /\ block' = [why |-> why, ids |-> ids, by |-> by, gone |-> FALSE]
    /\ UNCHANGED <<plan, now, link, dirs, sess, up, known, own, r2, put, worker, lapsing, locks, hist, broken, faults>>

StartEnd == plan.end /\ Start("end", Pending, None) /\ UNCHANGED <<alarm, ring>>
StartPause == plan.pause /\ Open /\ Start("pause", Pending, None) /\ UNCHANGED <<alarm, ring>>
StartCancel(u, s) == Live(s) /\ u \in Pending /\ up[u].sess = s /\ Start("cancel", {u}, s) /\ UNCHANGED <<alarm, ring>>

\* deleteNode of a folder, or of one item its user may delete.
StartFolder(d) ==
    plan.move /\ d \in dirs /\ Start("folder", {u \in Items : up[u].parent = d}, d) /\ UNCHANGED <<alarm, ring>>
StartItem(u) == plan.owner /\ u \in Items /\ Start("folder", {u}, None) /\ UNCHANGED <<alarm, ring>>

\* The alarm: uploads without a chunk for Idle, or MaxSec after they were reserved; not one whose
\* chunk is just being written.
StaleInflight == {u \in Pending : up[u].updated + Idle <= now \/ up[u].created + MaxSec <= now}
Stale == {u \in StaleInflight : ~Inflight(u) \/ up[u].created + MaxSec <= now}

AlarmRings ==
    /\ Free /\ ring = "no"
    /\ alarm # None /\ alarm <= now
    /\ alarm' = None /\ ring' = "rung"
    /\ block' = IF Stale = {} THEN None ELSE [why |-> "alarm", ids |-> Stale, by |-> None, gone |-> FALSE]
    /\ UNCHANGED <<plan, now, link, dirs, sess, up, known, own, r2, put, worker, lapsing, locks, hist, broken, faults>>

\* #lapseSessions, of the alarm and of a pause.
LapseAlarm ==
    /\ Free /\ ring = "rung"
    /\ Settling(LapsedAll)
    /\ ring' = "lapsed"
    /\ UNCHANGED <<plan, now, link, dirs, up, own, r2, put, worker, block, lapsing, alarm, locks, drawn, ended, got, broken, faults>>
LapsePaused ==
    /\ Free /\ lapsing
    /\ Settling(LapsedAll)
    /\ lapsing' = FALSE
    /\ UNCHANGED <<plan, now, link, dirs, up, own, r2, put, worker, block, alarm, ring, locks, drawn, ended, got, broken, faults>>

RescheduledNot == alarm
Rescheduled == Scheduled(alarm, up, sess)
AlarmEnds ==
    /\ Free /\ ring = "lapsed"
    /\ ring' = "no" /\ alarm' = Rescheduled
    /\ UNCHANGED <<plan, now, link, dirs, sess, up, known, own, r2, put, worker, block, lapsing, locks, hist, broken, faults>>

RemoveObjects ==
    /\ block # None /\ ~block.gone
    /\ r2' = r2 \ {o \in Objects(block.ids) : o[2] \in ChunksOf(o[1])}
    /\ block' = [block EXCEPT !.gone = TRUE]
    /\ UNCHANGED <<plan, now, link, dirs, sess, up, known, own, put, worker, lapsing, alarm, ring, locks, hist, broken, faults>>

Remaining(ids) == link.files - Cardinality(ids \cap Pending)
Dropped(ids) == ids \cap Pending
DropRows(ids) == up' = [u \in Ups |-> IF u \in ids THEN None ELSE up[u]]

ExpiredNow == [s \in Sess |-> IF Live(s) THEN [sess[s] EXCEPT !.exp = now] ELSE sess[s]]

RowsGo ==
    LET ids == block.ids
        ends == block.why = "end" \/ (block.why = "folder" /\ link.st = "active" /\ block.by = link.folder)
        open == {s \in Sess : sess[s] # None}
        rows == [link EXCEPT !.files = Remaining(ids), !.st = IF ends THEN "revoked" ELSE @,
                             !.held = IF block.why = "pause" THEN TRUE ELSE @]
    IN  /\ block # None /\ block.gone
        /\ block' = None
        /\ DropRows(ids)
        /\ link' = rows
        /\ known' = known \cup Dropped(ids) \cup (IF ends THEN open ELSE {})
        /\ cut' = IF ends THEN cut \cup open ELSE cut
        /\ sess' = IF ends THEN Without(sess, Sess)
                   ELSE CASE block.why = "pause" -> ExpiredNow
                          [] block.why = "cancel" -> IF Live(block.by) THEN Settled(sess, block.by, up') ELSE sess
                          [] OTHER -> sess
        /\ lapsing' = (lapsing \/ block.why = "pause")
        /\ dirs' = IF block.why = "folder" THEN dirs \ {block.by} ELSE dirs
        /\ UNCHANGED <<plan, now, own, r2, put, worker, alarm, ring, locks, drawn, ended, got, logged, back, broken, faults>>

-----------------------------------------------------------------------------
\* The owner.

Resume ==
    /\ Free /\ LinkState = "paused"
    /\ link' = [link EXCEPT !.held = FALSE]
    /\ UNCHANGED <<plan, now, dirs, sess, up, known, own, r2, put, worker, block, lapsing, alarm, ring, locks, hist, broken, faults>>

Extend ==
    /\ Free /\ plan.owner /\ LinkState \in {"active", "paused"}
    /\ link' = [link EXCEPT !.exp = Ever] /\ link' # link
    /\ UNCHANGED <<plan, now, dirs, sess, up, known, own, r2, put, worker, block, lapsing, alarm, ring, locks, hist, broken, faults>>

OwnerUses(n) ==
    /\ Free /\ plan.owner
    /\ \/ n = own + 1 /\ Used + 1 <= Capacity
       \/ n = own - 1
    /\ own' = n
    /\ UNCHANGED <<plan, now, link, dirs, sess, up, known, r2, put, worker, block, lapsing, alarm, ring, locks, hist, broken, faults>>

\* updateReverse with a folder: what waits to be taken in moves with the link.
Moved(d) == up' = [u \in Ups |-> IF u \in Waiting THEN [up[u] EXCEPT !.parent = d] ELSE up[u]]

ChangeFolder(d) ==
    /\ Free /\ plan.move /\ change = None
    /\ LinkState \in {"active", "paused"} /\ d \in dirs /\ d # link.folder
    /\ change' = link.folder
    /\ link' = [link EXCEPT !.folder = d]
    /\ Moved(d)
    /\ UNCHANGED <<plan, now, dirs, sess, known, own, r2, put, fin, billed, block, lapsing, alarm, ring, locks, hist, broken, faults>>

\* The index takes the change, or refuses it and restoreReverse undoes it: not to a folder that is gone.
ChangeKept ==
    /\ change # None
    /\ change' = None
    /\ UNCHANGED <<plan, now, link, dirs, sess, up, known, own, r2, put, fin, billed, block, lapsing, alarm, ring, locks, hist, broken, faults>>

Restorable(d) == d \in dirs

ChangeUndone ==
    /\ Free /\ change # None
    /\ change' = None
    /\ IF Restorable(change)
       THEN link' = [link EXCEPT !.folder = change] /\ Moved(change)
       ELSE UNCHANGED <<link, up>>
    /\ UNCHANGED <<plan, now, dirs, sess, known, own, r2, put, fin, billed, block, lapsing, alarm, ring, locks, hist, broken, faults>>

-----------------------------------------------------------------------------
\* R2 fails or the object starts over: what it had in memory is gone, the alarm is delivered again.
Restarted ==
    /\ stray' = stray \cup {<<put[p].id, put[p].i>> : p \in {q \in Puts : put[q] # None /\ put[q].at = "sent"}}
    /\ lost' = lost \cup {<<put[p].id, put[p].i>> : p \in {q \in Puts : put[q] # None /\ put[q].at \in {"stored", "undo"}}}
    /\ torn' = IF block = None THEN torn ELSE torn \cup block.ids
    /\ spilt' = spilt \cup {fin[f].id : f \in {g \in Fins : fin[g] # None}}
    /\ put' = [p \in Puts |-> None] /\ fin' = [f \in Fins |-> None]
    /\ block' = None /\ lapsing' = FALSE /\ ring' = "no"
    /\ alarm' = IF ring = "no" THEN alarm ELSE now
    /\ faults < plan.faults /\ faults' = faults + 1

RemoveFails ==
    /\ block # None /\ ~block.gone
    /\ \E some \in SUBSET Objects(block.ids) : r2' = r2 \ some
    /\ Restarted
    /\ UNCHANGED <<plan, now, link, dirs, sess, up, known, own, change, billed, locks, hist>>

Restart ==
    /\ Restarted
    /\ UNCHANGED <<plan, now, link, dirs, sess, up, known, own, r2, change, billed, locks, hist>>

StrayLands(o) ==
    /\ o \in stray
    /\ r2' = r2 \cup {o} /\ stray' = stray \ {o} /\ lost' = lost \cup {o}
    /\ UNCHANGED <<plan, now, link, dirs, sess, up, known, own, put, worker, block, lapsing, alarm, ring, locks, hist, torn, spilt, faults>>

Tick ==
    /\ now < plan.time /\ now' = now + 1
    /\ UNCHANGED <<plan, link, dirs, sess, up, known, own, r2, put, worker, block, lapsing, alarm, ring, locks, hist, broken, faults>>

-----------------------------------------------------------------------------
Clean == AlarmRings \/ LapseAlarm \/ LapsePaused \/ AlarmEnds \/ RemoveObjects \/ RowsGo

Next ==
    \/ BeginRefused
    \/ \E s \in Sess : Done(s) \/ \E net \in Nets : Begin(s, net)
    \/ \E u \in Ups, s \in Sess : \/ StartCancel(u, s)
                                  \/ \E size \in 0 .. MaxSize : Reserve(u, s, size)
                                  \/ \E f \in Fins : StartFinalize(f, u, s)
    \/ \E p \in Puts, u \in Ups, i \in 0 .. MaxSize - 1 : StartChunk(p, u, i)
    \/ \E p \in Puts : SendChunk(p) \/ ChunkStored(p) \/ ChunkRecorded(p) \/ ChunkRefused(p) \/ ChunkUndone(p)
    \/ \E f \in Fins : EndFinalize(f) \/ \E ok \in BOOLEAN : FinalizeAnswered(f, ok)
    \/ \E u \in Ups : StartItem(u) \/ \E d \in Dirs : TakeIn(u, d)
    \/ \E d \in Dirs : StartFolder(d) \/ ChangeFolder(d)
    \/ StartEnd \/ StartPause \/ Clean
    \/ Resume \/ Extend \/ ChangeKept \/ ChangeUndone
    \/ \E n \in 0 .. Capacity : OwnerUses(n)
    \/ RemoveFails \/ Restart \/ Tick
    \/ \E o \in stray : StrayLands(o)

\* The platform answers: R2, the alarm, the Directory, the clock.
Fairness ==
    /\ WF_vars(Clean) /\ WF_vars(Tick)
    /\ \A p \in Puts : WF_vars(ChunkStored(p)) /\ WF_vars(ChunkRecorded(p) \/ ChunkRefused(p)) /\ WF_vars(ChunkUndone(p))

Spec == Init /\ [][Next]_vars /\ Fairness

-----------------------------------------------------------------------------
\* Properties.

\* R2 holds nothing of the link but chunks of its files and of requests under way: what an upload
\* that ended, or did not fit, left there is deleted (drive-do.js:1827-1831).
NoOrphans ==
    r2 \subseteq Objects(Items) \cup lost \cup {<<put[p].id, put[p].i>> : p \in {q \in Puts : put[q] # None}}

\* A received file that is complete has every chunk in R2, unless a delete is taking it away or
\* failed half-way: no late write is removed from a finished file (drive-do.js:1756-1759).
ReadyComplete ==
    \A u \in (Items \ Pending) \ torn :
        (block = None \/ u \notin block.ids) => \A i \in ChunksOf(u) : <<u, i>> \in r2

\* Senders and owner together never take more than the capacity, although a reservation is
\* not charged and every chunk is checked before it is written (drive-do.js:1806-1807, 1822-1831).
CapacityKept == Used <= Capacity

\* The link's file counter counts what it ever finished and what it has reserved, whichever of
\* cancel, alarm, pause, end or delete removed an upload (drive-do.js:1255-1260).
FilesCounted == link.files = Cardinality(ended \cup Pending)

\* A session that is over was logged with every file it received, or gave its quota back once when
\* it received none; not known of those the link's end took, or that were over before the Directory
\* had answered their finalize (drive-do.js:1295-1313, 1919-1931).
SessionsSettled ==
    \A s \in (drawn \cap Sess) \ cut : sess[s] = None =>
        /\ logged[s] = got[s]
        /\ back[s] = (IF got[s] = 0 THEN 1 ELSE 0)

\* A finished file's bytes are charged exactly once, an unfinished one's only while a finalize of it
\* is under way, however many are sent (drive-do.js:1882-1896).
BilledOnce ==
    \A u \in Ups \ spilt :
        billed[u] = (IF u \in ended THEN 1 ELSE 0) + Cardinality({f \in Fins : fin[f] # None /\ fin[f].id = u /\ fin[f].at = "hash"})

\* Whatever ended a session or an upload, its grant or token stays known, so a late request is no
\* guess (drive-do.js:1234-1243, 1249-1253).
KnownGrants ==
    /\ \A s \in drawn \cap Sess : sess[s] # None \/ s \in known
    /\ \A u \in (drawn \cap Ups) \ ended : up[u] # None \/ u \in known

\* What waits to be taken in is in its link's folder, and that exists, whatever is moved, deleted
\* and undone in which order (drive-do.js:1480-1484, 1511-1533).
WaitingInFolder == \A u \in Waiting : up[u].parent = link.folder /\ link.folder \in dirs

\* A link that is paused or has ended has no unfinished upload and no open session: none slipped in
\* between the pause and the end of a request that had begun (drive-do.js:1535-1544).
QuietWhenClosed ==
    link.held \/ link.st = "revoked" => Pending = {} /\ \A s \in Sess : ~Live(s)

\* The alarm is due no later than any upload lapses and any session has to end, or its handler is
\* about to set it (drive-do.js:385-395).
AlarmCovers ==
    \A t \in {up[u].updated + Idle : u \in Pending} \cup {sess[s].started + MaxSec : s \in {x \in Sess : sess[x] # None}} :
        ring # "no" \/ (alarm # None /\ (alarm <= t \/ alarm <= now))

\* A session past MaxSec.
SessionDue(s) == sess[s] # None /\ sess[s].started + MaxSec <= now

\* The link's own lockout is a PasswordLockout whose locks all last the same: whoever guesses, from
\* however many networks, its promises hold (drive-do.js:1633-1645).
Lockout == INSTANCE PasswordLockout WITH
    PwMaxFails <- PwMaxFails, PwWindowSec <- PwWindowSec, PwLockSec <- PwLockSec, PwLockMaxSec <- 0,
    MaxTime <- MaxTime, now <- now, guesses <- guesses, born <- born,
    pw <- [n |-> pw.fails, since |-> pw.since, until |-> pw.until, strikes |-> strikes]
LockoutKept == Lockout!Spec
=============================================================================
