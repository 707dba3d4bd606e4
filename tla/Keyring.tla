------------------------------ MODULE Keyring ------------------------------
(***************************************************************************)
(* The keyring and what is sealed under it: the root MEK and the sub-MEKs  *)
(* in the Directory (src/src/directory-do.js), the items, link keys and    *)
(* received items in the Drives, the re-seal job the owner's browser       *)
(* drives one request at a time (routes/keys.js), requests that store      *)
(* something sealed meanwhile (routes/drive.js, routes/reverse.js), the    *)
(* records sealed under the root's record key, a lost keyring and the key  *)
(* kit that puts it back.                                                  *)
(*                                                                         *)
(* A sealed value is the keys it opens under.  Every call to a Drive or to *)
(* the Directory is a step of its own.  The dates of the sub-MEKs are      *)
(* KeyTimeline's: here one of them is current.  A page of a Drive holds    *)
(* all of it; every account has its salt.                                  *)
(***************************************************************************)
EXTENDS Integers, FiniteSets

CONSTANTS
    MaxRoots, MaxSubs,  \* bounds on the keys ever made
    MaxThings,          \* ids of things sealed
    MaxDrives,
    Home,               \* the Drive of each thing
    Steps,              \* requests of the re-seal job that may be in flight
    Reqs,               \* requests that store something sealed, in flight
    Plans,              \* what is tried together, chosen at the start
    None

Roots == 1 .. MaxRoots
SubKeys == 1 .. MaxSubs
Things == 1 .. MaxThings
Drives == 1 .. MaxDrives

KeyringAssumption ==
    /\ {MaxRoots, MaxSubs, MaxThings, MaxDrives} \subseteq Nat \ {0}
    /\ Home \in [Things -> Drives]
    /\ None \notin Nat

\* A plan: the kinds of things that are made, how many accounts, roots and sub-MEKs; the requests in
\* flight; renames and takings-in; whether sub-MEKs are re-sealed and removed; how often the owner
\* changes, undoes, drops; what is lost ("old": also while a root change runs); whether key changes wait for the
\* job's requests (calm) and requests for the job's checks (late: not).
Plan == [kinds : [Things -> {"item", "link", "recv", "none"}], users : Drives, roots : Roots, subs : SubKeys, steps : SUBSET Steps,
         reqs : SUBSET Reqs, edits : 0 .. 2, reseal : BOOLEAN, ops : 0 .. 9, undo : BOOLEAN, drop : BOOLEAN,
         loss : SUBSET {"root", "sub", "all", "changing"}, calm : BOOLEAN, late : BOOLEAN, dies : BOOLEAN, recs : BOOLEAN]
PlansAssumption == Plans \subseteq Plan

Key == Roots \cup {None}
Thing == [kind : {"item", "link", "recv"},
          mek : SubKeys \cup {None},   \* its sub-MEK
          a : Key,                  \* the root its name is under, or a link's key
          b : Key,                  \* the root the rest of it is under, or the field layer
          ks : Nat,                 \* its salt: new with every seal of the item
          v : Nat]                  \* which rename its name is of
JobNext == 0
Kept == [root : Key, old : Key, subs : SUBSET SubKeys, cur : SubKeys \cup {None}]
Job == [kind : {"root", "reseal"}, from : SubKeys \cup {None}, remove : BOOLEAN, n : Drives, u : 1 .. MaxDrives + 1,
        phase : {"items", "atrest", "verify", "verifyrest"}, skipped : BOOLEAN, failed : SUBSET (Things \cup {None}),
        pass : 1 .. 3, verify : BOOLEAN, finished : BOOLEAN]

VARIABLES
    plan,
    root,      \* mek.root
    old,       \* mek.rootOld: [key, origin], or None
    subs,      \* meks: the root each row is sealed under, or None
    cur,       \* the sub-MEK in effect
    made,      \* [roots, subs]: how many there ever were (mek.ever)
    check,     \* mek.rootCheck: [old, root, failed], or None
    job,       \* mek.job
    kept,      \* record_keys: the root each earlier root's record key is sealed under
    recs,      \* the record keys (roots) records are sealed under
    users,     \* accounts
    things,    \* what the Drives hold: a Thing or None
    step,      \* requests of the job: [job, at, page, keys, fk], page what was read
    req,       \* other requests: [op, id, mek, root, field, ks]
    asked,     \* the owner's request goes on: JobNext (a new job is still to be stored), or the sub-MEK
               \* it saw nothing sealed under and deletes next, or None
    kit,       \* the last key kit, a Kept, or None
    ops,       \* owner's requests so far
    lost,      \* history: the keys the Directory lost, [roots, subs]
    given,     \* history: the things an owner's drop gave up
    renamed    \* history: renames stored

hold == <<root, old, subs, cur, made, check, kept>>
owner == <<asked, kit, ops>>
hist == <<lost, given, renamed>>
vars == <<plan, root, old, subs, cur, made, check, job, kept, recs, users, things, step, req, asked, kit, ops, lost, given, renamed>>

-----------------------------------------------------------------------------
Rows == {m \in SubKeys : subs[m] # None}
Opened == {m \in Rows : subs[m] = root}
OldKey == IF old = None THEN None ELSE old.key
Ids == {t \in Things : things[t] # None}

\* Whether a thing opens with roots R and sub-MEKs S.
OpensWith(x, R, S) == /\ x.b \in R
                      /\ x.kind # "recv" => x.mek \in S /\ x.a \in R

\* What driveKeys and fieldKeys give.
Keys == [root |-> root, old |-> OldKey, subs |-> Opened, cur |-> cur]

\* #rewrapRecordKeys.
RewrappedOnly(target, add) ==
    [k \in Roots |-> IF k = target \/ kept[k] = None THEN None ELSE target]
Rewrapped(target, add) ==
    [k \in Roots |->
        CASE k = target -> None
          [] k # target /\ kept[k] # None -> IF kept[k] \in {root, OldKey, target} THEN target ELSE kept[k]
          [] OTHER -> IF k \in add THEN target ELSE None]
KeptOld == IF kept[old.key] # None THEN kept ELSE Rewrapped(root, {old.key})

TypeOK ==
    /\ plan \in Plans
    /\ root \in Key /\ old \in [key : Roots, origin : {"changed", "restored"}] \cup {None}
    /\ subs \in [SubKeys -> Key] /\ cur \in Rows \cup {None}
    /\ made \in [roots : 0 .. MaxRoots, subs : 0 .. MaxSubs]
    /\ check \in [old : Roots, root : Roots, failed : SUBSET Things] \cup {None}
    /\ job \in Job \cup {None}
    /\ kept \in [Roots -> Key] /\ recs \subseteq Roots
    /\ users \in Drives
    /\ things \in [Things -> Thing \cup {None}]
    /\ asked \in {JobNext} \cup SubKeys \cup {None}
    /\ kit \in Kept \cup {None} /\ ops \in Nat
    /\ given \subseteq Things /\ renamed \in [Things -> Nat]

Init ==
    /\ plan \in Plans
    /\ root = None /\ old = None /\ subs = [m \in SubKeys |-> None] /\ cur = None
    /\ made = [roots |-> 0, subs |-> 0] /\ check = None /\ job = None
    /\ kept = [k \in Roots |-> None] /\ recs = {}
    /\ users = 1 /\ things = [t \in Things |-> None]
    /\ step = [p \in Steps |-> None] /\ req = [q \in Reqs |-> None]
    /\ asked = None /\ kit = None /\ ops = 0
    /\ lost = [roots |-> {}, subs |-> {}] /\ given = {} /\ renamed = [t \in Things |-> 0]

-----------------------------------------------------------------------------
\* The owner's key changes (directory-do.js): each is one call that checks, after its awaits, what it read before.

\* ensureKeys: only when there is no keyring and never was one; a lost one is never replaced.
NoneNow == root = None /\ Rows = {}
NeverHad == NoneNow /\ made.roots = 0
EnsureKeys ==
    LET r == made.roots + 1
        m == made.subs + 1
    IN
    /\ NeverHad /\ r \in Roots /\ m \in SubKeys
    /\ root' = r /\ subs' = [subs EXCEPT ![m] = r] /\ cur' = m
    /\ made' = [roots |-> r, subs |-> m]
    /\ UNCHANGED <<plan, old, check, kept, job, recs, users, things, step, req, owner, hist>>

NewUser ==
    /\ users < plan.users /\ users' = users + 1
    /\ UNCHANGED <<plan, hold, job, recs, things, step, req, owner, hist>>

\* One request of the owner's more.
Asks == asked = None /\ ops < plan.ops /\ ops' = ops + 1

\* Keys change while no request of the job is in flight, unless the plan lets them.
Calm == plan.calm => \A p \in Steps : step[p] = None

\* mekAdd, for now or for later.
AddSub ==
    LET m == made.subs + 1
    IN  /\ Asks /\ Calm /\ root # None /\ m <= plan.subs
        /\ subs' = [subs EXCEPT ![m] = root]
        /\ cur' \in {m, cur} \ {None}
        /\ made' = [made EXCEPT !.subs = m]
        /\ UNCHANGED <<plan, root, old, check, kept, job, recs, users, things, step, req, asked, kit, hist>>

\* mekSetCurrent, mekEdit, and a sub-MEK whose time has come.
Switch(m) ==
    /\ Asks /\ Calm /\ m \in Rows \ {cur}
    /\ cur' = m
    /\ UNCHANGED <<plan, root, old, subs, made, check, kept, job, recs, users, things, step, req, asked, kit, hist>>

MayDelete(m) == m \in Rows \ {cur} /\ Cardinality(Rows) > 1

\* A request that read its keys is over before a check of its Drive, unless the plan lets it be late.
InTime(d) ==
    plan.late \/ \A q \in Reqs : req[q] # None => (Home[req[q].id] = d =>
        /\ req[q].root = root /\ (req[q].op \in {"item", "link", "take"} => req[q].mek = cur)
        /\ req[q].field \in {None, root})

UsedUnder(m) == {t \in Ids : things[t].mek = m}
UsedItems(m) == {t \in UsedUnder(m) : things[t].kind = "item"}

\* DELETE subs/:id: every Drive is counted, then the Directory deletes it.
CountSub(m) ==
    /\ Asks /\ plan.reseal /\ m \in Rows
    /\ \A d \in Drives : InTime(d)
    /\ asked' = IF UsedUnder(m) = {} THEN m ELSE None
    /\ UNCHANGED <<plan, hold, job, recs, users, things, step, req, kit, hist>>
DeleteSub ==
    /\ asked \in SubKeys /\ asked' = None
    /\ subs' = IF MayDelete(asked) THEN [subs EXCEPT ![asked] = None] ELSE subs
    /\ UNCHANGED <<plan, root, old, cur, made, check, kept, job, recs, users, things, step, req, kit, ops, hist>>

ResealedRows(r) == [m \in SubKeys |-> IF m \in Rows THEN r ELSE None]
ChangeRoot ==
    LET new == made.roots + 1
    IN  /\ Asks /\ Calm /\ new <= plan.roots
        /\ root # None /\ old = None /\ Opened = Rows
        /\ old' = [key |-> root, origin |-> "changed"] /\ root' = new
        /\ subs' = ResealedRows(new)
        /\ check' = None
        /\ kept' = Rewrapped(new, {root})
        /\ made' = [made EXCEPT !.roots = new]
        /\ asked' = JobNext
        /\ UNCHANGED <<plan, cur, job, recs, users, things, step, req, kit, hist>>

NewJob(kind, from, remove) ==
    [kind |-> kind, from |-> from, remove |-> remove, n |-> users, u |-> 1, phase |-> "items", skipped |-> FALSE,
     failed |-> {}, pass |-> 1, verify |-> FALSE, finished |-> FALSE]
StoreJob ==
    /\ asked = JobNext /\ asked' = None
    /\ job' = NewJob("root", None, FALSE)
    /\ UNCHANGED <<plan, hold, recs, users, things, step, req, kit, ops, hist>>
OwnerDies ==
    /\ plan.dies /\ asked # None /\ asked' = None
    /\ UNCHANGED <<plan, hold, job, recs, users, things, step, req, kit, ops, hist>>

NoJob == job # None => job.finished

\* POST jobs: the root change's again, or a sub-MEK's.
RerunJob ==
    /\ Asks /\ old # None /\ root # None /\ NoJob
    /\ job' = NewJob("root", None, FALSE)
    /\ UNCHANGED <<plan, hold, recs, users, things, step, req, asked, kit, hist>>
ResealJob(m, remove) ==
    /\ Asks /\ plan.reseal /\ m \in Rows \ {cur} /\ NoJob
    /\ job' = NewJob("reseal", m, remove)
    /\ UNCHANGED <<plan, hold, recs, users, things, step, req, asked, kit, hist>>
CancelJob ==
    /\ Asks /\ job # None /\ (job.kind = "root" => job.finished)
    /\ job' = None
    /\ UNCHANGED <<plan, hold, recs, users, things, step, req, asked, kit, hist>>

\* rootOpens: an item, a link's field layer or a link key opens under root k, with the sub-MEKs `here` and those given.
RootOpens(k, here) ==
    \E t \in Ids : LET x == things[t]
                   IN  \/ x.kind = "item" /\ x.mek \in here /\ x.a = k /\ x.b = k
                       \/ x.kind = "link" /\ x.b = k
                       \/ x.kind = "link" /\ x.mek \in here /\ x.a = k /\ root # None /\ x.b \in {root, OldKey}

\* mekRootSwap, after what the route asks of it.
SwapRoots ==
    /\ Asks /\ plan.undo /\ Calm
    /\ job # None => job.finished \/ job.kind = "root"
    /\ root # None /\ old # None /\ Opened = Rows
    /\ old.origin = "changed" \/ RootOpens(old.key, Opened)
    /\ root' = old.key /\ old' = [key |-> root, origin |-> "changed"]
    /\ subs' = ResealedRows(old.key)
    /\ check' = None
    /\ kept' = Rewrapped(old.key, {root})
    /\ asked' = JobNext
    /\ UNCHANGED <<plan, cur, made, job, recs, users, things, step, req, kit, hist>>

Checked == check # None /\ check.old = OldKey /\ check.root = root
DropOld ==
    /\ Asks /\ plan.drop /\ old # None /\ NoJob
    /\ Checked
    /\ old' = None /\ check' = None
    /\ kept' = KeptOld
    /\ given' = given \cup check.failed
    /\ UNCHANGED <<plan, root, subs, cur, made, job, recs, users, things, step, req, asked, kit, lost, renamed>>

-----------------------------------------------------------------------------
\* The re-seal job: one request is loaded, processes pages, and stores the job.

LoadJob(p) ==
    /\ p \in plan.steps /\ step[p] = None
    /\ job # None /\ ~job.finished
    /\ plan.calm => asked # JobNext
    /\ step' = [step EXCEPT ![p] = [job |-> job, at |-> "page", page |-> None, keys |-> None, fk |-> None]]
    /\ UNCHANGED <<plan, hold, job, recs, users, things, req, owner, hist>>

\* The next phase on the same Drive, then the next Drive.
NextPhase(j) ==
    CASE j.kind = "root" /\ j.phase = "items" -> [j EXCEPT !.phase = "atrest"]
      [] j.kind = "root" /\ j.phase = "verify" -> [j EXCEPT !.phase = "verifyrest"]
      [] OTHER -> [j EXCEPT !.phase = IF j.verify THEN "verify" ELSE "items", !.u = @ + 1]
Advanced(s, failed) ==
    [s EXCEPT !.job = NextPhase([@ EXCEPT !.failed = @ \cup failed]), !.at = "turn", !.page = None, !.keys = None, !.fk = None]

\* sealedPage and atRestPage.
SealedIn(d, j) == {t \in Ids : Home[t] = d /\ things[t].mek # None /\ (j.kind = "reseal" => things[t].mek = j.from)}
AtRestIn(d) == {t \in Ids : Home[t] = d /\ things[t].kind \in {"link", "recv"}}
ReadPage(p) ==
    LET s == step[p]
        page == IF s.job.phase \in {"items", "verify"} THEN SealedIn(s.job.u, s.job) ELSE AtRestIn(s.job.u)
    IN  /\ s # None /\ s.at = "page"
        /\ s.job.phase \in {"verify", "verifyrest"} => InTime(s.job.u)
        /\ step' = [step EXCEPT ![p] =
                        IF page = {} THEN Advanced(s, {})
                        ELSE [s EXCEPT !.page = [t \in page |-> things[t]],
                                       !.at = IF s.job.phase \in {"items", "verify"} THEN "keys" ELSE "field"]]
        /\ UNCHANGED <<plan, hold, job, recs, users, things, req, owner, hist>>

\* userKeys and fieldKeys; a Drive whose keys cannot be given counts as failed.
LinksOf(s) == {t \in DOMAIN s.page : s.page[t].kind = "link"}
ReadKeys(p) ==
    LET s == step[p]
        keyed == root # None /\ (s.job.kind = "reseal" => cur \in Opened)
    IN  /\ s # None /\ s.at = "keys"
        /\ step' = [step EXCEPT ![p] =
                        IF ~keyed THEN Advanced(s, {None})
                        ELSE [s EXCEPT !.keys = Keys, !.at = IF LinksOf(s) = {} THEN "seal" ELSE "field"]]
        /\ UNCHANGED <<plan, hold, job, recs, users, things, req, owner, hist>>
ReadFieldKeys(p) ==
    LET s == step[p]
    IN  /\ s # None /\ s.at = "field"
        /\ step' = [step EXCEPT ![p] = IF root = None THEN Advanced(s, {None}) ELSE [s EXCEPT !.fk = Keys, !.at = "seal"]]
        /\ UNCHANGED <<plan, hold, job, recs, users, things, req, owner, hist>>

\* sealStep and atRestStep: what a thing becomes, itself when nothing is to be done, None when it does not open.
Resealed(x, s) ==
    LET k == s.keys
        under == {k.root, k.old} \ {None}
        mek == IF s.job.kind = "root" THEN x.mek ELSE k.cur
    IN  CASE s.job.phase = "atrest" ->
               IF x.b = s.fk.root THEN x ELSE IF x.b = s.fk.old THEN [x EXCEPT !.b = s.fk.root] ELSE None
          [] s.job.phase = "items" /\ x.kind = "item" ->
               IF x.mek \notin k.subs THEN None
               ELSE IF s.job.kind = "root" /\ x.a = k.root /\ x.b = k.root THEN x
               ELSE IF {x.a, x.b} \subseteq under THEN [x EXCEPT !.mek = mek, !.a = k.root, !.b = k.root, !.ks = @ + 1]
               ELSE None
          [] OTHER ->
               IF x.mek \notin k.subs \/ x.b \notin {s.fk.root, s.fk.old} THEN None
               ELSE IF s.job.kind = "root" /\ x.a = k.root THEN x
               ELSE IF x.a \in under THEN [x EXCEPT !.mek = mek, !.a = k.root, !.b = s.fk.root]
               ELSE None

Verified(x, s) ==
    IF s.job.phase = "verifyrest" THEN x.b = s.fk.root
    ELSE /\ x.mek \in s.keys.subs /\ x.a = s.keys.root
         /\ x.b = IF x.kind = "link" THEN s.fk.root ELSE s.keys.root

AsRead(t, s) == things[t] = s.page[t]
SealPage(p) ==
    LET s == step[p]
        done(t) == Resealed(s.page[t], s)
        failed == {t \in DOMAIN s.page : done(t) = None}
        todo == {t \in DOMAIN s.page \ failed : done(t) # s.page[t]}
        missed == {t \in todo : ~AsRead(t, s)}
        next == [Advanced(s, failed) EXCEPT !.job.skipped = @ \/ (missed # {} /\ s.job.phase = "items")]
    IN  /\ s # None /\ s.at = "seal" /\ s.job.phase \in {"items", "atrest"}
        /\ things' = [t \in Things |-> IF t \in todo \ missed THEN done(t) ELSE things[t]]
        /\ step' = [step EXCEPT ![p] = next]
        /\ UNCHANGED <<plan, hold, job, recs, users, req, owner, hist>>
CheckPage(p) ==
    LET s == step[p]
    IN  /\ s # None /\ s.at = "seal" /\ s.job.phase \in {"verify", "verifyrest"}
        /\ step' = [step EXCEPT ![p] = Advanced(s, {t \in DOMAIN s.page : ~Verified(s.page[t], s)})]
        /\ UNCHANGED <<plan, hold, job, recs, users, things, req, owner, hist>>

\* Another page while there is time, or the pass is over: one more when something was missed, the
\* check of every Drive, or the end.
MorePages(p) ==
    LET s == step[p]
    IN  /\ s # None /\ s.at = "turn" /\ s.job.u <= s.job.n
        /\ step' = [step EXCEPT ![p].at = "page"]
        /\ UNCHANGED <<plan, hold, job, recs, users, things, req, owner, hist>>
CheckedNext(j) == [j EXCEPT !.verify = TRUE, !.n = users, !.u = 1, !.phase = "verify", !.failed = {}]
PassOver(j) ==
    IF ~j.verify /\ j.skipped /\ j.pass < 3 THEN [j EXCEPT !.u = 1, !.phase = "items", !.skipped = FALSE, !.pass = @ + 1]
    ELSE IF j.kind = "root" /\ ~j.verify THEN CheckedNext(j)
    ELSE [j EXCEPT !.finished = TRUE]
EndPages(p) ==
    LET s == step[p]
        j == IF s.job.u <= s.job.n THEN s.job ELSE PassOver(s.job)
    IN  /\ s # None /\ s.at = "turn"
        /\ step' = [step EXCEPT ![p] = [s EXCEPT !.job = j, !.at = IF j.finished THEN "finish" ELSE "save"]]
        /\ UNCHANGED <<plan, hold, job, recs, users, things, req, owner, hist>>

\* jobFinish of a root change: mekRootChecked, or mekRootDone; the record key of a root that came
\* from a kit is kept first.
FailedThings(j) == j.failed \ {None}
FinishRoot(p) ==
    LET s == step[p]
    IN  /\ s # None /\ s.at = "finish" /\ s.job.kind = "root"
        /\ IF s.job.failed # {}
           THEN /\ check' = IF old = None \/ root = None THEN check
                            ELSE [old |-> old.key, root |-> root, failed |-> FailedThings(s.job)]
                /\ step' = [step EXCEPT ![p].at = "save"]
                /\ UNCHANGED old
           ELSE IF old # None /\ root # None /\ kept[OldKey] = None
           THEN step' = [step EXCEPT ![p].at = "keep", ![p].keys = Keys] /\ UNCHANGED <<old, check>>
           ELSE /\ old' = None /\ check' = IF old = None THEN check ELSE None
                /\ step' = [step EXCEPT ![p].at = "save"]
        /\ UNCHANGED <<plan, root, subs, cur, made, kept, job, recs, users, things, req, owner, hist>>
KeepAndDrop(p) ==
    LET s == step[p]
    IN  /\ s # None /\ s.at = "keep"
        /\ kept' = Rewrapped(s.keys.root, {s.keys.old})
        /\ old' = None /\ check' = None
        /\ step' = [step EXCEPT ![p].at = "save"]
        /\ UNCHANGED <<plan, root, subs, cur, made, job, recs, users, things, req, owner, hist>>

\* jobFinish of a sub-MEK's: counted again, then deleted when that was asked for.
FinishReseal(p) ==
    LET s == step[p]
    IN  /\ s # None /\ s.at = "finish" /\ s.job.kind = "reseal"
        /\ \A d \in Drives : InTime(d)
        /\ step' = [step EXCEPT ![p].at = IF UsedUnder(s.job.from) = {} /\ s.job.remove THEN "delete" ELSE "save"]
        /\ UNCHANGED <<plan, hold, job, recs, users, things, req, owner, hist>>
FinishDelete(p) ==
    LET s == step[p]
    IN  /\ s # None /\ s.at = "delete"
        /\ subs' = IF MayDelete(s.job.from) THEN [subs EXCEPT ![s.job.from] = None] ELSE subs
        /\ step' = [step EXCEPT ![p].at = "save"]
        /\ UNCHANGED <<plan, root, old, cur, made, check, kept, job, recs, users, things, req, owner, hist>>

SaveJob(p) ==
    /\ step[p] # None /\ step[p].at = "save"
    /\ job' = step[p].job
    /\ step' = [step EXCEPT ![p] = None]
    /\ UNCHANGED <<plan, hold, recs, users, things, req, owner, hist>>
StepDies(p) ==
    /\ plan.dies /\ step[p] # None
    /\ step' = [step EXCEPT ![p] = None]
    /\ UNCHANGED <<plan, hold, job, recs, users, things, req, owner, hist>>

-----------------------------------------------------------------------------
\* Requests that store something sealed: the keys are read and what the browser sealed is checked
\* to open under the ones now (checkNewItem, checkLinkKey, checkField), then the Drive is called.

Request(op, t, mek, ks) == [op |-> op, id |-> t, mek |-> mek, root |-> root, field |-> None, ks |-> ks]
Unsent(t) == \A q \in Reqs : req[q] # None => req[q].id # t

CheckedUnder == root # None /\ cur \in Opened
StartNew(q, t) ==
    LET kind == plan.kinds[t]
    IN  /\ q \in plan.reqs /\ req[q] = None
        /\ kind # "none" /\ Home[t] <= users /\ things[t] = None /\ Unsent(t)
        /\ root # None
        /\ kind # "recv" => CheckedUnder
        /\ req' = [req EXCEPT ![q] = [Request(kind, t, IF kind = "recv" THEN None ELSE cur, 0)
                                       EXCEPT !.field = IF kind = "recv" THEN root ELSE None]]
        /\ UNCHANGED <<plan, hold, job, recs, users, things, step, owner, hist>>

\* A link key is sealed at rest too, under field keys read after.
ReadFieldKey(q) ==
    /\ req[q] # None /\ req[q].op = "link" /\ req[q].field = None /\ root # None
    /\ req' = [req EXCEPT ![q].field = root]
    /\ UNCHANGED <<plan, hold, job, recs, users, things, step, owner, hist>>

StoreNew(q) ==
    LET r == req[q]
    IN  /\ r # None /\ r.op \in {"item", "link", "recv"} /\ (r.op = "link" => r.field # None)
        /\ things' = [things EXCEPT ![r.id] = [kind |-> r.op, mek |-> r.mek, a |-> IF r.op = "recv" THEN None ELSE r.root,
                                               b |-> IF r.op = "item" THEN r.root ELSE r.field, ks |-> 0, v |-> 0]]
        /\ req' = [req EXCEPT ![q] = None]
        /\ UNCHANGED <<plan, hold, job, recs, users, step, owner, hist>>

\* A received item is taken in.
StartTake(q, t) ==
    /\ q \in plan.reqs /\ req[q] = None /\ plan.edits > 0
    /\ t \in Ids /\ things[t].kind = "recv" /\ Unsent(t) /\ CheckedUnder
    /\ req' = [req EXCEPT ![q] = Request("take", t, cur, 0)]
    /\ UNCHANGED <<plan, hold, job, recs, users, things, step, owner, hist>>
StoreTaken(q) ==
    LET r == req[q]
    IN  /\ r # None /\ r.op = "take"
        /\ things' = [things EXCEPT ![r.id] = [kind |-> "item", mek |-> r.mek, a |-> r.root, b |-> r.root, ks |-> 0, v |-> 0]]
        /\ req' = [req EXCEPT ![q] = None]
        /\ UNCHANGED <<plan, hold, job, recs, users, step, owner, hist>>

\* A rename: its new name is under the item's own sub-MEK and salt; the Drive refuses it when the
\* item was sealed again meanwhile.
StartRename(q, t) ==
    /\ q \in plan.reqs /\ req[q] = None
    /\ t \in Ids /\ things[t].kind = "item" /\ renamed[t] < plan.edits
    /\ root # None /\ things[t].mek \in Opened
    /\ req' = [req EXCEPT ![q] = Request("rename", t, things[t].mek, things[t].ks)]
    /\ UNCHANGED <<plan, hold, job, recs, users, things, step, owner, hist>>
SameSeal(x, r) == x.mek = r.mek /\ x.ks = r.ks
StoreRename(q) ==
    LET r == req[q]
    IN  /\ r # None /\ r.op = "rename"
        /\ IF SameSeal(things[r.id], r)
           THEN /\ things' = [things EXCEPT ![r.id].a = r.root, ![r.id].v = @ + 1]
                /\ renamed' = [renamed EXCEPT ![r.id] = @ + 1]
           ELSE UNCHANGED <<things, renamed>>
        /\ req' = [req EXCEPT ![q] = None]
        /\ UNCHANGED <<plan, hold, job, recs, users, step, owner, lost, given>>

\* The Drive refuses it, or it is never made.
RequestEnds(q) ==
    /\ req[q] # None /\ req' = [req EXCEPT ![q] = None]
    /\ UNCHANGED <<plan, hold, job, recs, users, things, step, owner, hist>>

-----------------------------------------------------------------------------
\* Records: written under the root's record key; the pass seals those of earlier keys again.
RecordOpens(k) == k \in {root, OldKey} \/ kept[k] \in {root, OldKey} \ {None}
WriteRecord ==
    /\ plan.recs /\ root # None /\ root \notin recs
    /\ recs' = recs \cup {root}
    /\ UNCHANGED <<plan, hold, job, users, things, step, req, owner, hist>>
RecordPass(k) ==
    /\ root # None /\ k \in recs \ {root} /\ RecordOpens(k)
    /\ recs' = (recs \ {k}) \cup {root}
    /\ UNCHANGED <<plan, hold, job, users, things, step, req, owner, hist>>

-----------------------------------------------------------------------------
\* The key kit, a loss, and a restore.

MakeKit ==
    /\ Asks /\ plan.loss # {} /\ root # None /\ Opened = Rows
    /\ kit' = Keys
    /\ UNCHANGED <<plan, hold, job, recs, users, things, step, req, asked, hist>>

\* The Directory's storage comes back without the root, a sub-MEK, or the whole keyring.
Lose(what, m) ==
    /\ what \in plan.loss /\ lost = [roots |-> {}, subs |-> {}]
    /\ "changing" \in plan.loss \/ old = None
    /\ root # None /\ m \in Rows
    /\ \A p \in Steps : step[p] = None
    /\ CASE what = "root" -> root' = None /\ lost' = [lost EXCEPT !.roots = {root}] /\ UNCHANGED <<old, subs, cur>>
         [] what = "sub" -> /\ subs' = [subs EXCEPT ![m] = None] /\ lost' = [lost EXCEPT !.subs = {m}]
                            /\ cur' \in IF Rows = {m} THEN {None} ELSE IF cur = m THEN Rows \ {m} ELSE {cur}
                            /\ UNCHANGED <<root, old>>
         [] what = "all" -> /\ root' = None /\ old' = None /\ subs' = [x \in SubKeys |-> None] /\ cur' = None
                            /\ lost' = [roots |-> {root, OldKey} \ {None}, subs |-> Rows]
    /\ UNCHANGED <<plan, made, check, kept, job, recs, users, things, step, req, owner, given, renamed>>

\* restoreChecks: the first thing under a sub-MEK opens with it, under the root here (else the kit's).
FirstUnder(m) ==
    LET d == CHOOSE x \in Drives : /\ \E t \in UsedUnder(m) : Home[t] = x
                                   /\ \A t \in UsedUnder(m) : x <= Home[t]
        here == {t \in UsedUnder(m) : Home[t] = d}
        items == here \cap UsedItems(m)
        first == IF items = {} THEN here ELSE items
    IN  CHOOSE t \in first : \A o \in first : t <= o
SubOpens(m) ==
    /\ UsedUnder(m) # {}
    /\ LET x == things[FirstUnder(m)]
           k == IF root = None THEN kit.root ELSE root
       IN  /\ x.a = k
           /\ x.b \in IF x.kind = "item" THEN {k} ELSE IF root = None THEN {} ELSE {root, OldKey}

\* keyRestore: the root when there is none or it opens none of the sub-MEKs and the kit's does.
RootBack == root = None \/ (Rows # {} /\ Opened = {} /\ kit.root # OldKey /\ \E m \in Rows : subs[m] = kit.root)
RestoredRoot == IF RootBack THEN kit.root ELSE root
RestoredOld ==
    IF /\ kit.old # None /\ RestoredRoot = kit.root /\ old = None /\ kit.old # RestoredRoot
       /\ RootOpens(kit.old, {m \in Rows : subs[m] = RestoredRoot} \cup (Rows \cap kit.subs))
    THEN [key |-> kit.old, origin |-> "restored"] ELSE old
RestoredSubs ==
    [m \in SubKeys |->
        IF m \in Rows
        THEN IF m \in kit.subs \/ subs[m] = RestoredRoot \/ (m \in Opened /\ RootBack) THEN RestoredRoot ELSE subs[m]
        ELSE IF m \in kit.subs /\ SubOpens(m) THEN RestoredRoot ELSE None]
RestoreChanges == RestoredRoot # root \/ RestoredOld # old \/ RestoredSubs # subs

\* It asks whether the key that opens nothing is really lost; the rows follow.
Restore ==
    /\ Asks /\ kit # None /\ RestoreChanges
    /\ root' = RestoredRoot /\ old' = RestoredOld /\ subs' = RestoredSubs
    /\ cur' \in IF cur # None THEN {cur} ELSE {m \in SubKeys : subs'[m] # None} \cup {x \in {None} : \A m \in SubKeys : subs'[m] = None}
    /\ check' = IF RestoredOld # old THEN None ELSE check
    /\ kept' = IF RootBack THEN Rewrapped(kit.root, {root, OldKey}) ELSE kept
    /\ lost' = [roots |-> lost.roots \ {root', IF old' = None THEN None ELSE old'.key}, subs |-> lost.subs \ {m \in SubKeys : subs'[m] # None}]
    /\ UNCHANGED <<plan, made, job, recs, users, things, step, req, asked, kit, given, renamed>>

-----------------------------------------------------------------------------
JobStep(p) ==
    \/ LoadJob(p) \/ ReadPage(p) \/ ReadKeys(p) \/ ReadFieldKeys(p) \/ SealPage(p) \/ CheckPage(p)
    \/ MorePages(p) \/ EndPages(p) \/ FinishRoot(p) \/ KeepAndDrop(p) \/ FinishReseal(p) \/ FinishDelete(p) \/ SaveJob(p)

ReqStep(q) == ReadFieldKey(q) \/ StoreNew(q) \/ StoreTaken(q) \/ StoreRename(q)

Next ==
    \/ EnsureKeys \/ NewUser \/ AddSub \/ DeleteSub
    \/ \E m \in SubKeys : Switch(m) \/ CountSub(m) \/ \E remove \in BOOLEAN : ResealJob(m, remove)
    \/ ChangeRoot \/ StoreJob \/ OwnerDies \/ RerunJob \/ CancelJob \/ SwapRoots \/ DropOld
    \/ \E p \in Steps : JobStep(p) \/ StepDies(p)
    \/ \E q \in Reqs : ReqStep(q) \/ RequestEnds(q) \/ \E t \in Things : StartNew(q, t) \/ StartTake(q, t) \/ StartRename(q, t)
    \/ WriteRecord \/ \E k \in Roots : RecordPass(k)
    \/ MakeKit \/ Restore \/ \E what \in {"root", "sub", "all"}, m \in SubKeys : Lose(what, m)

\* The browser keeps asking for the next step while its page is open, and requests end.
Fairness ==
    /\ \A p \in Steps : WF_vars(JobStep(p))
    /\ \A q \in Reqs : WF_vars(ReqStep(q) \/ RequestEnds(q))
    /\ WF_vars(StoreJob)

Spec == Init /\ [][Next]_vars /\ Fairness

-----------------------------------------------------------------------------
\* Properties.

HeldRoots == ({root, OldKey} \ {None}) \cup lost.roots
HeldSubs == Rows \cup lost.subs

\* Everything in every Drive opens with the keys there are, whatever was changed, undone, removed and
\* stored meanwhile; but for what the owner was told stays unreadable, and keys that were lost
\* (routes/keys.js:435-442, directory-do.js:3740-3764).
Readable == \A t \in Ids \ given : OpensWith(things[t], HeldRoots, HeldSubs)

\* Every sub-MEK opens under the root: none stays sealed under one that is going (directory-do.js:3718-3726).
SubsOpen == root # None => Opened = Rows

\* Records stay readable: the record key of every root they were written under is kept
\* (docs/DRIVE.md:146-150, directory-do.js:2509-2546).
RecordsReadable == \A k \in recs : RecordOpens(k) \/ k \in lost.roots \/ kept[k] \in lost.roots

\* A rename that was stored is never taken back by a re-seal (drive-do.js:607-614).
RenamesKept == \A t \in Ids : things[t].kind = "item" => things[t].v = renamed[t]

\* When nothing is being changed, a key kit that holds every key lost puts back what opens everything:
\* either it opens, or restoring the kit goes on (directory-do.js:3893-3925).
RestorePutsBack ==
    (kit # None /\ old = None /\ given = {} /\ lost.roots \subseteq {kit.root, kit.old} /\ lost.subs \subseteq kit.subs)
    => \/ RestoreChanges
       \/ \A t \in Ids : OpensWith(things[t], {root}, Rows)

\* A job that one page drives is over (routes/keys.js:461-498).  In the end it is.
Running == job # None /\ ~job.finished
JobOver == Cardinality(plan.steps) = 1 /\ ~plan.dies => ~Running
=============================================================================
