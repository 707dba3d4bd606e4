---------------------------- MODULE ReceiveLink ----------------------------
(***************************************************************************)
(* A receive link is kept twice: a row of the share index in the Directory *)
(* and a row in its owner's Drive.  It is claimed, confirmed, made in the  *)
(* Drive and opened; changed, paused and ended, each over several calls    *)
(* (src/src/directory-do.js claimReverse, activateReverse, releaseReverse, *)
(* updateShare; src/src/drive-do.js; src/src/routes/reverse.js).  A call   *)
(* to either object is one action.  The link's sessions and uploads are in *)
(* Receive.                                                                *)
(***************************************************************************)
EXTENDS Integers, FiniteSets, TLC

CONSTANTS
    Links,      \* ids a browser draws
    Reqs,       \* requests that may be in flight
    Changes,    \* what a change sets, a function from fields
    Cap,        \* the role's reverseMaxActive
    PendingSec, \* PENDING_REVERSE_SEC
    Never,      \* NO_EXPIRY, and unlimited views: past every number
    MaxTime,    \* bound on the clock
    Plans,      \* what is tried together, chosen at the start
    None

Fields == {"expires", "views", "captcha", "pw", "accept", "folder"}
InIndex == {"expires", "views", "captcha"}

LinkAssumption ==
    /\ {Cap, PendingSec, MaxTime} \subseteq Nat /\ Never \in Nat /\ Never > 2 * MaxTime + 2
    /\ \A c \in Changes : DOMAIN c \subseteq Fields /\ c # <<>>

\* A plan: the links and requests there are, what they do and set and for whom, which links are
\* there already, whether a Worker may die, changes do not overlap (calm), a change's two writes fall
\* in one second (prompt), the clock, what a claim asks for.
Plan == [links : SUBSET Links, reqs : SUBSET Reqs, does : SUBSET {"create", "change", "pause", "resume", "revoke", "folder", "lock"},
         sets : SUBSET Changes, by : SUBSET {"session", "key", "acting", "admin"}, there : SUBSET Links, die : BOOLEAN,
         calm : BOOLEAN, prompt : BOOLEAN, time : 0 .. MaxTime, lives : SUBSET Nat]
PlansAssumption == Plans \subseteq Plan

VARIABLES
    plan,
    index,      \* shares: the link's row, or none
    drive,      \* reverse: the link's row, or none
    tombs,      \* reverse_ids
    folder1,    \* is there a folder beside the top one
    logged,     \* the last values the index took or logged, of every link
    paid,       \* how often the quota is charged, less what is given back
    opened,     \* how often each link was opened
    req,        \* the requests in flight
    clock

vars == <<plan, index, drive, tombs, folder1, logged, paid, opened, req, clock>>

Vals == [expires : Nat, views : Nat, captcha : 0 .. 1, pw : 0 .. 2, accept : 0 .. 1, folder : 0 .. 1]
Row(st, v, now) == [st |-> st, expires |-> v.expires, views |-> v.views, captcha |-> v.captcha, locked |-> FALSE, created |-> now]
DriveRow(v) == [st |-> "active", held |-> FALSE, v |-> v]
Fresh(life) == [expires |-> IF life = Never THEN Never ELSE clock + life, views |-> 1, captcha |-> 1, pw |-> 1, accept |-> 0, folder |-> 1]
Unlogged == [v |-> Fresh(0), held |-> FALSE]
Idle == [does |-> "none"]

Init ==
    /\ plan \in Plans /\ clock = 0 /\ folder1 = TRUE /\ tombs = plan.there /\ req = [r \in Reqs |-> Idle]
    /\ paid = Cardinality(plan.there) /\ opened = [l \in Links |-> IF l \in plan.there THEN 1 ELSE 0]
    /\ \E life \in plan.lives :
         /\ index = [l \in Links |-> IF l \in plan.there THEN Row("active", Fresh(life), 0) ELSE None]
         /\ drive = [l \in Links |-> IF l \in plan.there THEN DriveRow(Fresh(life)) ELSE None]
         /\ logged = [l \in Links |-> IF l \in plan.there THEN [v |-> Fresh(life), held |-> FALSE] ELSE Unlogged]

Has(l) == index[l] # None
In(l, sts) == Has(l) /\ index[l].st \in sts
Locked(l) == Has(l) /\ index[l].locked
Runs(l) == In(l, {"active"}) /\ index[l].expires > clock
\* #reverseState: the row may say active past its expiry, or past its folder's end.
DriveIs(l) ==
    IF drive[l] = None THEN "gone"
    ELSE IF drive[l].st # "active" THEN drive[l].st
    ELSE IF drive[l].v.expires <= clock THEN "expired"
    ELSE IF drive[l].v.folder = 1 /\ ~folder1 THEN "revoked"
    ELSE IF drive[l].held THEN "paused" ELSE "active"
DriveHas(l) == DriveIs(l) \in {"active", "paused"}

At(r, does, at) == req[r].does = does /\ req[r].at = at
Go(r, at) == req' = [req EXCEPT ![r].at = at]
Done(r) == req' = [req EXCEPT ![r] = Idle]
Ended(l) == IF In(l, {"active"}) THEN [index EXCEPT ![l].st = "ended"] ELSE index
\* An edit and a pause of one link, of which a calm plan has one at a time.
Edits == {"change", "pause", "resume"}
MayAsk(r, does, l) ==
    /\ r \in plan.reqs /\ l \in plan.links /\ does \in plan.does /\ req[r] = Idle
    /\ (plan.calm /\ does \in Edits) => \A s \in Reqs : req[s].does \in Edits => req[s].link # l

(***************************************************************************)
(* A link is made                                                          *)
(***************************************************************************)
Lapsed(l) == In(l, {"pending"}) /\ index[l].created + PendingSec < clock
Kept == [l \in Links |-> IF Lapsed(l) THEN None ELSE index[l]]

\* claimReverse: one step, from the id it was given.
Free(l) == Kept[l] = None

Spent(l) == l \in tombs
Counted == {l \in Links : Kept[l] # None /\ (Kept[l].st = "pending" \/ (Kept[l].st = "active" /\ Kept[l].expires > clock))}
Claim(r, l, life) ==
    /\ MayAsk(r, "create", l) /\ life \in plan.lives /\ ~Spent(l)
    /\ clock + PendingSec < plan.time   \* its lapse falls within the bound
    /\ IF Cardinality(Counted) < Cap /\ Free(l)
       THEN /\ index' = [Kept EXCEPT ![l] = Row("pending", Fresh(life), clock)]
            /\ paid' = paid + 1
            /\ req' = [req EXCEPT ![r] = [does |-> "create", at |-> "claimed", link |-> l, life |-> life, made |-> 0]]
       ELSE index' = Kept /\ UNCHANGED <<paid, req>>
    /\ UNCHANGED <<plan, drive, tombs, folder1, logged, opened, clock>>

\* The user confirms, or does not; the link's key is checked, or the call fails.
Confirmed(r) ==
    /\ At(r, "create", "claimed") /\ \E at \in {"confirmed", "release"} : Go(r, at)
    /\ UNCHANGED <<plan, index, drive, tombs, folder1, logged, paid, opened, clock>>

MakeInDrive(r) ==
    /\ At(r, "create", "confirmed")
    /\ LET l == req[r].link
       IN IF drive[l] = None /\ folder1
          THEN /\ drive' = [drive EXCEPT ![l] = DriveRow(Fresh(req[r].life))]
               /\ req' = [req EXCEPT ![r].at = "made", ![r].made = clock]
          ELSE Go(r, "release") /\ UNCHANGED drive
    /\ UNCHANGED <<plan, index, tombs, folder1, logged, paid, opened, clock>>

\* activateReverse: the row the claim left, with the times the Drive gave it.
ExpiresAt(r) == IF req[r].life = Never THEN Never ELSE req[r].made + req[r].life
Open(l, e) ==
    /\ index' = [index EXCEPT ![l] = [@ EXCEPT !.st = "active", !.expires = e]]
    /\ tombs' = tombs \cup {l}
    /\ logged' = [logged EXCEPT ![l] = [v |-> [Fresh(0) EXCEPT !.expires = e], held |-> FALSE]]
    /\ opened' = [opened EXCEPT ![l] = @ + 1]
Activate(r) ==
    /\ At(r, "create", "made")
    /\ LET l == req[r].link
       IN IF In(l, {"pending"})
          THEN Open(l, ExpiresAt(r)) /\ Done(r)
          ELSE Go(r, "undo") /\ UNCHANGED <<index, tombs, logged, opened>>
    /\ UNCHANGED <<plan, drive, folder1, paid, clock>>
\* endReverse, then the quota back.
Undo(r) ==
    /\ At(r, "create", "undo")
    /\ LET l == req[r].link IN drive' = IF drive[l] = None THEN drive ELSE [drive EXCEPT ![l].st = "revoked"]
    /\ paid' = paid - 1 /\ Done(r)
    /\ UNCHANGED <<plan, index, tombs, folder1, logged, opened, clock>>
\* releaseReverse: only a row still pending goes, and only then the quota back.
Release(r) ==
    /\ At(r, "create", "release") /\ Done(r)
    /\ LET l == req[r].link
       IN IF In(l, {"pending"})
          THEN index' = [index EXCEPT ![l] = None] /\ paid' = paid - 1
          ELSE UNCHANGED <<index, paid>>
    /\ UNCHANGED <<plan, drive, tombs, folder1, logged, opened, clock>>

(***************************************************************************)
(* A link is changed                                                       *)
(***************************************************************************)
Weakens(f, old, new) ==
    CASE f \in {"expires", "views"} -> new = Never /\ old # Never
      [] f = "captcha" -> new < old
      [] f = "pw" -> old # 0
      [] f = "accept" -> new > old
      [] f = "folder" -> FALSE
WeakButPassword(set, v) == {f \in DOMAIN set \ {"pw"} : Weakens(f, v[f], set[f])}
Weak(set, v) == {f \in DOMAIN set : Weakens(f, v[f], set[f])}

\* changeReverse as it starts: the row, the lock, the Drive's state, the confirmation it takes.
Ask(r, l, set, by) ==
    /\ MayAsk(r, "change", l) /\ set \in plan.sets /\ by \in plan.by /\ In(l, {"active"})
    /\ by = "admin" => DOMAIN set \subseteq {"expires", "views"}
    /\ by # "admin" => ~Locked(l)
    /\ IF by # "admin" /\ ~DriveHas(l)
       THEN index' = Ended(l) /\ UNCHANGED req
       ELSE LET weak == by # "admin" /\ Weak(set, drive[l].v) # {}
            IN /\ ~(weak /\ by = "key")
               /\ req' = [req EXCEPT ![r] = [does |-> "change", at |-> IF weak /\ by = "session" THEN "confirm" ELSE "write", link |-> l,
                                             set |-> set, by |-> by, sure |-> weak \/ by \in {"acting", "admin"}, prev |-> set, did |-> clock]]
               /\ UNCHANGED index
    /\ UNCHANGED <<plan, drive, tombs, folder1, logged, paid, opened, clock>>

Sure(r) ==
    /\ req[r].does \in Edits /\ req[r].at = "confirm" /\ (Go(r, "write") \/ Done(r))
    /\ UNCHANGED <<plan, index, drive, tombs, folder1, logged, paid, opened, clock>>

\* updateReverse: all at once or nothing.
Merge(v, set) == [f \in DOMAIN v |-> IF f \in DOMAIN set THEN set[f] ELSE v[f]]
Part(v, set) == [f \in DOMAIN set |-> v[f]]
Fits(set, v) ==
    /\ "folder" \in DOMAIN set => set.folder = 0 \/ folder1
    /\ "expires" \in DOMAIN set => set.expires > clock /\ (v.expires # Never /\ set.expires # Never => set.expires >= v.expires)
Write(r) ==
    /\ At(r, "change", "write")
    /\ LET l == req[r].link
           set == req[r].set
       IN IF ~DriveHas(l) THEN index' = Ended(l) /\ Done(r) /\ UNCHANGED drive
          ELSE IF ~Fits(set, drive[l].v) THEN Done(r) /\ UNCHANGED <<index, drive>>
          ELSE /\ drive' = [drive EXCEPT ![l].v = Merge(@, set)]
               /\ req' = [req EXCEPT ![r].at = "index", ![r].prev = Part(drive[l].v, set), ![r].did = clock]
               /\ UNCHANGED index
    /\ UNCHANGED <<plan, tombs, folder1, logged, paid, opened, clock>>

\* updateShare: the lock is checked again, where it counts.
Refuses(r) == ~Has(req[r].link) \/ (Locked(req[r].link) /\ req[r].by # "admin")
Values(row, set) == [f \in DOMAIN row |-> IF f \in InIndex \cap DOMAIN set THEN set[f] ELSE row[f]]
Index(r) ==
    /\ At(r, "change", "index")
    /\ LET l == req[r].link
       IN IF Refuses(r) THEN Go(r, "restore") /\ UNCHANGED <<index, logged>>
          ELSE /\ index' = [index EXCEPT ![l] = Values(@, req[r].set)]
               /\ logged' = [logged EXCEPT ![l].v = Merge(@, req[r].set)]
               /\ Done(r)
    /\ UNCHANGED <<plan, drive, tombs, folder1, paid, opened, clock>>

\* restoreReverse: a folder that is gone is not written back, and the move is logged (reverseMoveKept).
Restore(r) ==
    /\ At(r, "change", "restore") /\ Done(r)
    /\ LET l == req[r].link
           prev == req[r].prev
           lost == "folder" \in DOMAIN prev /\ prev.folder = 1 /\ ~folder1
           put == [f \in DOMAIN prev \ (IF lost THEN {"folder"} ELSE {}) |-> prev[f]]
       IN /\ drive' = IF drive[l] = None THEN drive ELSE [drive EXCEPT ![l].v = Merge(@, put)]
          /\ logged' = IF lost /\ Has(l) /\ drive[l] # None THEN [logged EXCEPT ![l].v.folder = drive[l].v.folder] ELSE logged
    /\ UNCHANGED <<plan, index, tombs, folder1, paid, opened, clock>>

(***************************************************************************)
(* A link is paused and resumed                                            *)
(***************************************************************************)
\* pauseReverse of the route: what resuming takes, before it is asked of the Drive.
Pause(r, l, on, by) ==
    /\ MayAsk(r, IF on THEN "pause" ELSE "resume", l) /\ by \in plan.by \ {"admin"} /\ In(l, {"active"}) /\ ~Locked(l)
    /\ ~on /\ DriveHas(l) => drive[l].held /\ by # "key"
    /\ req' = [req EXCEPT ![r] = [does |-> IF on THEN "pause" ELSE "resume", link |-> l, by |-> by, sure |-> ~on /\ DriveHas(l),
                                  at |-> IF ~on /\ DriveHas(l) /\ by = "session" THEN "confirm" ELSE "write"]]
    /\ UNCHANGED <<plan, index, drive, tombs, folder1, logged, paid, opened, clock>>
Hold(r) ==
    /\ req[r].does \in {"pause", "resume"} /\ req[r].at = "write"
    /\ LET l == req[r].link
           on == req[r].does = "pause"
       IN IF ~DriveHas(l) THEN index' = Ended(l) /\ Done(r) /\ UNCHANGED drive
          ELSE IF drive[l].held = on THEN Done(r) /\ UNCHANGED <<index, drive>>
          ELSE drive' = [drive EXCEPT ![l].held = on] /\ Go(r, "index") /\ UNCHANGED index
    /\ UNCHANGED <<plan, tombs, folder1, logged, paid, opened, clock>>
HoldLogged(r) ==
    /\ req[r].does \in {"pause", "resume"} /\ req[r].at = "index"
    /\ IF Refuses(r) THEN Go(r, "back") /\ UNCHANGED logged
       ELSE logged' = [logged EXCEPT ![req[r].link].held = req[r].does = "pause"] /\ Done(r)
    /\ UNCHANGED <<plan, index, drive, tombs, folder1, paid, opened, clock>>
HoldBack(r) ==
    /\ req[r].does \in {"pause", "resume"} /\ req[r].at = "back" /\ Done(r)
    /\ drive' = IF DriveHas(req[r].link) THEN [drive EXCEPT ![req[r].link].held = req[r].does = "resume"] ELSE drive
    /\ UNCHANGED <<plan, index, tombs, folder1, logged, paid, opened, clock>>

(***************************************************************************)
(* A link ends; the administrator, the Worker, the clock                   *)
(***************************************************************************)
\* revokeShare: marked first (updateShare checks the lock), then ended in the Drive; again if that failed.
Revoke(r, l) ==
    /\ MayAsk(r, "revoke", l) /\ In(l, {"active", "ended", "revoked"}) /\ ~Locked(l)
    /\ index' = [index EXCEPT ![l].st = "revoked"]
    /\ req' = [req EXCEPT ![r] = [does |-> "revoke", at |-> "purge", link |-> l]]
    /\ UNCHANGED <<plan, drive, tombs, folder1, logged, paid, opened, clock>>
Purge(r) ==
    /\ At(r, "revoke", "purge") /\ Done(r)
    /\ LET l == req[r].link IN drive' = IF drive[l] = None THEN drive ELSE [drive EXCEPT ![l].st = "revoked"]
    /\ UNCHANGED <<plan, index, tombs, folder1, logged, paid, opened, clock>>

\* deleteNode: the links into the folder end with it, and then in the index (endDriveShares).
DeleteFolder(r) ==
    /\ r \in plan.reqs /\ "folder" \in plan.does /\ req[r] = Idle /\ folder1 /\ folder1' = FALSE
    /\ LET into == {l \in Links : drive[l] # None /\ drive[l].st = "active" /\ drive[l].v.folder = 1}
       IN /\ drive' = [l \in Links |-> IF l \in into THEN [drive[l] EXCEPT !.st = "revoked"] ELSE drive[l]]
          /\ req' = [req EXCEPT ![r] = [does |-> "folder", at |-> "report", into |-> into]]
    /\ UNCHANGED <<plan, index, tombs, logged, paid, opened, clock>>
Report(r) ==
    /\ At(r, "folder", "report") /\ Done(r)
    /\ index' = [l \in Links |-> IF l \in req[r].into /\ In(l, {"active"}) THEN [index[l] EXCEPT !.st = "revoked"] ELSE index[l]]
    /\ UNCHANGED <<plan, drive, tombs, folder1, logged, paid, opened, clock>>

SetLock(l, on) ==
    /\ "lock" \in plan.does /\ Has(l) /\ index[l].st # "pending" /\ index' = [index EXCEPT ![l].locked = on]
    /\ UNCHANGED <<plan, drive, tombs, folder1, logged, paid, opened, req, clock>>

Die(r) ==
    /\ plan.die /\ req[r] # Idle /\ Done(r)
    /\ UNCHANGED <<plan, index, drive, tombs, folder1, logged, paid, opened, clock>>

\* The Directory's alarm: what expired is marked, what ended long ago leaves, what lapsed leaves.
Alarm ==
    /\ index' = [l \in Links |->
          IF Lapsed(l) THEN None
          ELSE IF In(l, {"active"}) THEN (IF index[l].expires < clock THEN [index[l] EXCEPT !.st = "ended"] ELSE index[l])
          ELSE IF In(l, {"ended", "revoked"}) /\ ~Locked(l) /\ index[l].expires < clock THEN None
          ELSE index[l]]
    /\ UNCHANGED <<plan, drive, tombs, folder1, logged, paid, opened, req, clock>>
\* #dropEndedReverse, as the Drive makes or ends a link.
Forget(l) ==
    /\ drive[l] # None /\ DriveIs(l) \in {"revoked", "expired"} /\ drive[l].v.expires < clock
    /\ drive' = [drive EXCEPT ![l] = None]
    /\ UNCHANGED <<plan, index, tombs, folder1, logged, paid, opened, req, clock>>
Tick ==
    /\ clock < plan.time /\ clock' = clock + 1
    /\ plan.prompt => \A r \in Reqs : req[r].does = "change" => req[r].at # "index"
    /\ UNCHANGED <<plan, index, drive, tombs, folder1, logged, paid, opened, req>>

Next ==
    \/ \E r \in Reqs, l \in Links, life \in plan.lives : Claim(r, l, life)
    \/ \E r \in Reqs, l \in Links, set \in Changes, by \in plan.by : Ask(r, l, set, by)
    \/ \E r \in Reqs, l \in Links, by \in plan.by, on \in BOOLEAN : Pause(r, l, on, by)
    \/ \E r \in Reqs, l \in Links : Revoke(r, l)
    \/ \E r \in Reqs : \/ Confirmed(r) \/ MakeInDrive(r) \/ Activate(r) \/ Undo(r) \/ Release(r)
                       \/ Sure(r) \/ Write(r) \/ Index(r) \/ Restore(r)
                       \/ Hold(r) \/ HoldLogged(r) \/ HoldBack(r) \/ Purge(r) \/ DeleteFolder(r) \/ Report(r) \/ Die(r)
    \/ \E l \in Links : SetLock(l, TRUE) \/ SetLock(l, FALSE) \/ Forget(l)
    \/ Alarm \/ Tick

\* The alarm comes again, and time passes.
Spec == Init /\ [][Next]_vars /\ WF_vars(Alarm) /\ WF_vars(Tick)

(***************************************************************************)
(* Properties                                                              *)
(***************************************************************************)
\* The values kept of a link are of their types.
TypeOK ==
    /\ \A l \in Links : Has(l) => /\ index[l].st \in {"pending", "active", "ended", "revoked"} /\ index[l].locked \in BOOLEAN
                                  /\ index[l].captcha \in 0 .. 1 /\ {index[l].expires, index[l].views, index[l].created} \subseteq Nat
    /\ \A l \in Links : drive[l] # None => drive[l].st \in {"active", "revoked"} /\ drive[l].v \in Vals /\ drive[l].held \in BOOLEAN
    /\ \A l \in Links : logged[l].v \in Vals /\ opened[l] \in Nat
    /\ tombs \subseteq Links /\ paid \in Int /\ clock \in 0 .. MaxTime

\* An id that was ever a link is never one again, whatever rows of it were pruned on either side
\* ("an old link never opens a later share", claimReverse).
NeverAgain == \A l \in Links : opened[l] <= 1

\* Links taking uploads and links being made, together, are never more than the role allows, whatever
\* claims run at once, lapse or are undone, and whatever is extended meanwhile.
AtMostCap == Cardinality({l \in Links : In(l, {"pending"}) \/ Runs(l)}) <= Cap

\* A link that was opened is paid for: no claim undone, lapsed or overtaken gives back what another
\* one was charged.
Paid ==
    LET made == {l \in Links : opened[l] > 0}
        going == {r \in Reqs : req[r].does = "create"}
    IN paid >= Cardinality(made) /\ (going = {} /\ ~plan.die /\ clock <= PendingSec => paid = Cardinality(made))

\* With no change of it under way, a link that runs has in the Drive what the index and its log say:
\* a change refused by a lock, or overtaken by its folder's end, leaves the two as they were.
InStep ==
    \A l \in Links :
       In(l, {"active"}) /\ DriveHas(l) /\ ~plan.die /\ (\A r \in Reqs : req[r].does \in Edits => req[r].link # l)
       => /\ drive[l].v = logged[l].v /\ drive[l].held = logged[l].held
          /\ \A f \in InIndex : index[l][f] = drive[l].v[f]

\* What protects a link is given up only by a request that was confirmed, or that needs no confirmation;
\* the undoing of a refused change aside.
WeakerByConfirmation ==
    \A l \in Links : drive[l] # None /\ drive'[l] # None =>
         /\ drive[l].held /\ ~drive'[l].held =>
            \E r \in Reqs : /\ (req[r].does = "pause" /\ req[r].at = "back") \/ (req[r].does = "resume" /\ req[r].sure)
                            /\ req[r].link = l
         /\ \A f \in Fields : Weakens(f, drive[l].v[f], drive'[l].v[f]) /\ drive'[l].v[f] # drive[l].v[f] =>
            \E r \in Reqs : /\ req[r].does = "change" /\ req[r].link = l
                            /\ req[r].at = "restore" \/ (req[r].at = "write" /\ req[r].sure)

=============================================================================
