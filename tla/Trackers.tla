------------------------------ MODULE Trackers ------------------------------
(***************************************************************************)
(* Anonymous senders: the id a browser is given and keeps in several       *)
(* places, the row it gets when it first creates a share, and what a       *)
(* network may add of them, over a few tabs, an owner who blocks and       *)
(* forgets, idle ids and a full table (src/src/directory-do.js             *)
(* resolveTracker, trackerSubject, dropNewTracker, trackerUsed,            *)
(* adminTracker, alarm, src/src/routes/publicapi.js, src/public/js/        *)
(* tracker.js).                                                            *)
(***************************************************************************)
EXTENDS Integers, FiniteSets, FiniteSetsExt

CONSTANTS
    Tabs,
    Ids,        \* ids the server may issue, numbered as it issues them
    PerIp,      \* public.newTrackersPerIp, of the network all tabs are in
    Idle,       \* public.trackerIdleSec
    Window,     \* public.newTrackersWindowSec
    Plans,      \* what is tried together, chosen at the start
    None

TrackersAssumption == PerIp \in Nat /\ Idle \in Nat /\ Window \in Nat

\* A plan: the last second, rows that fit (MAX_TRACKERS), visits, creates, copies lost, things the owner does, requests that may stop, and whether a browser sends one
\* create at a time.
Plan == [last : Nat, rooms : Nat, visits : 1 .. 3, creates : 1 .. 3, losses : 0 .. 1, owner : 0 .. 2, deaths : 0 .. 1, single : BOOLEAN]
PlansAssumption == Plans \subseteq Plan

VARIABLES
    left,       \* what is left of the plan
    now, issued,\* time; when each id was issued
    copies,     \* the browser's copies: cookie, ETag, local storage, IndexedDB
    row,        \* "trackers"
    usage,      \* what each id's counters hold
    tab,        \* each tab: its visit or its create
    barred,     \* history: ids blocked, neither unblocked nor forgotten
    shared,     \* history: when the row of each id's first share was made
    taken       \* history: ids the owner unblocked, or whose row the owner, a full table or idleness took

vars == <<left, now, issued, copies, row, usage, tab, barred, shared, taken>>
Places == {"cookie", "etag", "ls", "idb"}
Nowhere == [at |-> "off", aid |-> None, fresh |-> FALSE]

Init ==
    /\ left \in Plans /\ now = 0 /\ issued = [i \in Ids |-> None] /\ copies = [p \in Places |-> None] /\ row = [i \in Ids |-> None]
    /\ usage = [i \in Ids |-> 0] /\ tab = [t \in Tabs |-> Nowhere] /\ barred = {} /\ shared = [i \in Ids |-> None] /\ taken = {}

Put(t, x) == tab' = [tab EXCEPT ![t] = x]
Rows == {i \in Ids : row[i] # None}
Seen(i) == IF row[i] # None THEN row[i].seen ELSE issued[i]
Valid(i) == Seen(i) >= now - Idle

(***************************************************************************)
(* A visit                                                                 *)
(***************************************************************************)
Votes(i) == Cardinality({p \in Places : copies[p] = i})
Voted == {i \in Ids : Votes(i) > 0 /\ Valid(i)}
Tied == {i \in Voted : \A j \in Voted : Votes(j) <= Votes(i)}
Conflict == Cardinality(Tied) > 1 /\ Cardinality(Tied \cap Rows) > 1
Winner == IF Cardinality(Tied) > 1 /\ Tied \cap Rows # {} THEN Min(Tied \cap Rows) ELSE Min(Tied)
\* resolveTracker; the copies as the request carries them.
Visit(t) ==
    /\ left.visits > 0 /\ left' = [left EXCEPT !.visits = @ - 1] /\ tab[t].at = "off"
    /\ \/ /\ Voted = {}
          /\ \E i \in Ids : issued[i] = None /\ (\A j \in Ids : j < i => issued[j] # None) /\ issued' = [issued EXCEPT ![i] = now] /\ Put(t, [at |-> "answer", aid |-> i, fresh |-> FALSE])
          /\ UNCHANGED <<row, barred>>
       \/ /\ Voted # {} /\ Conflict
          /\ row' = [i \in Ids |-> IF i \in Tied \cap Rows THEN [row[i] EXCEPT !.blocked = TRUE] ELSE row[i]] /\ barred' = barred \cup (Tied \cap Rows)
          /\ UNCHANGED <<issued, tab>>
       \/ /\ Voted # {} /\ ~Conflict /\ (row[Winner] # None => ~row[Winner].blocked)
          /\ row' = (IF row[Winner] # None THEN [row EXCEPT ![Winner].seen = now] ELSE row) /\ Put(t, [at |-> "answer", aid |-> Winner, fresh |-> FALSE])
          /\ UNCHANGED <<issued, barred>>
    /\ UNCHANGED <<now, copies, usage, shared, taken>>
\* The answer reaches the browser, which keeps the cookie and the ETag; then the page its two.
Arrive(t) ==
    /\ tab[t].at = "answer" /\ copies' = [copies EXCEPT !["cookie"] = tab[t].aid, !["etag"] = tab[t].aid] /\ Put(t, [tab[t] EXCEPT !.at = "store"])
    /\ UNCHANGED <<left, now, issued, row, usage, barred, shared, taken>>
Store(t) ==
    /\ tab[t].at = "store" /\ copies' = [copies EXCEPT !["ls"] = tab[t].aid, !["idb"] = tab[t].aid] /\ Put(t, [tab[t] EXCEPT !.at = "on"])
    /\ UNCHANGED <<left, now, issued, row, usage, barred, shared, taken>>
Lose(p) ==
    /\ left.losses > 0 /\ left' = [left EXCEPT !.losses = @ - 1] /\ copies[p] # None /\ copies' = [copies EXCEPT ![p] = None]
    /\ UNCHANGED <<now, issued, row, usage, tab, barred, shared, taken>>
Close(t) ==
    /\ tab[t].at = "on" /\ Put(t, Nowhere)
    /\ UNCHANGED <<left, now, issued, copies, row, usage, barred, shared, taken>>

(***************************************************************************)
(* A create                                                                *)
(***************************************************************************)
RecentSooner == Cardinality({i \in Rows : row[i].created > now - Window + 1})
Recent == Cardinality({i \in Rows : row[i].created > now - Window})
Unblocked == {i \in Rows : ~row[i].blocked}
Oldest == CHOOSE i \in Unblocked : \A j \in Unblocked : row[i].seen <= row[j].seen
\* trackerSubject: the cookie and the page's id agree; a new id gets a row, for which the least recently
\* seen one may go.
Subject(t) ==
    LET i == tab[t].aid IN
    /\ left.creates > 0 /\ left' = [left EXCEPT !.creates = @ - 1] /\ tab[t].at = "on" /\ copies["cookie"] = i /\ Valid(i)
    /\ left.single => \A u \in Tabs \ {t} : tab[u].at \notin {"charge", "create", "used", "drop"}
    /\ IF row[i] # None
       THEN /\ ~row[i].blocked /\ row' = [row EXCEPT ![i].seen = now] /\ Put(t, [tab[t] EXCEPT !.at = "charge", !.fresh = FALSE])
            /\ UNCHANGED <<usage, taken>>
       ELSE /\ Recent < PerIp /\ (Cardinality(Rows) >= left.rooms => Unblocked # {})
            /\ LET out == IF Cardinality(Rows) >= left.rooms THEN {Oldest} ELSE {}
               IN  /\ row' = [j \in Ids |-> IF j = i THEN [created |-> now, seen |-> now, uses |-> 0, blocked |-> FALSE] ELSE IF j \in out THEN None ELSE row[j]]
                   /\ usage' = [j \in Ids |-> IF j \in out THEN 0 ELSE usage[j]] /\ taken' = taken \cup out
            /\ Put(t, [tab[t] EXCEPT !.at = "charge", !.fresh = TRUE])
    /\ UNCHANGED <<now, issued, copies, barred, shared>>
\* The quotas, or a refusal (of any kind) before them.
Charge(t) ==
    /\ tab[t].at = "charge"
    /\ \/ usage' = [usage EXCEPT ![tab[t].aid] = @ + 1] /\ Put(t, [tab[t] EXCEPT !.at = "create"])
       \/ Put(t, [tab[t] EXCEPT !.at = "drop"]) /\ UNCHANGED usage
    /\ UNCHANGED <<left, now, issued, copies, row, barred, shared, taken>>
\* The share is stored, or that fails and the quotas are given back.
Create(t) ==
    /\ tab[t].at = "create"
    /\ \/ shared' = [shared EXCEPT ![tab[t].aid] = IF @ # None THEN @ ELSE IF row[tab[t].aid] # None THEN row[tab[t].aid].created ELSE now] /\ Put(t, [tab[t] EXCEPT !.at = "used"]) /\ UNCHANGED usage
       \/ usage' = [usage EXCEPT ![tab[t].aid] = IF @ > 0 THEN @ - 1 ELSE 0] /\ Put(t, [tab[t] EXCEPT !.at = "drop"]) /\ UNCHANGED shared
    /\ UNCHANGED <<left, now, issued, copies, row, barred, taken>>
Used(t) ==
    /\ tab[t].at = "used" /\ Put(t, [tab[t] EXCEPT !.at = "on", !.fresh = FALSE])
    /\ row' = IF row[tab[t].aid] # None THEN [row EXCEPT ![tab[t].aid].uses = 1] ELSE row
    /\ UNCHANGED <<left, now, issued, copies, usage, barred, shared, taken>>
Drops(i) == row[i] # None /\ row[i].uses = 0 /\ ~row[i].blocked /\ usage[i] = 0
Drop(t) ==
    /\ tab[t].at = "drop" /\ Put(t, [tab[t] EXCEPT !.at = "on", !.fresh = FALSE])
    /\ row' = IF tab[t].fresh /\ Drops(tab[t].aid) THEN [row EXCEPT ![tab[t].aid] = None] ELSE row
    /\ UNCHANGED <<left, now, issued, copies, usage, barred, shared, taken>>
\* A request is stopped between two calls.
Dies(t) ==
    /\ left.deaths > 0 /\ left' = [left EXCEPT !.deaths = @ - 1] /\ tab[t].at \in {"charge", "create", "used", "drop"}
    /\ Put(t, [tab[t] EXCEPT !.at = "on", !.fresh = FALSE])
    /\ UNCHANGED <<now, issued, copies, row, usage, barred, shared, taken>>

(***************************************************************************)
(* The owner, and time                                                     *)
(***************************************************************************)
Owner(i) ==
    /\ left.owner > 0 /\ left' = [left EXCEPT !.owner = @ - 1] /\ row[i] # None
    /\ \/ row' = [row EXCEPT ![i].blocked = TRUE] /\ barred' = barred \cup {i} /\ UNCHANGED <<usage, taken>>
       \/ row' = [row EXCEPT ![i].blocked = FALSE] /\ barred' = barred \ {i} /\ taken' = taken \cup {i} /\ UNCHANGED usage
       \/ row' = [row EXCEPT ![i] = None] /\ usage' = [usage EXCEPT ![i] = 0] /\ barred' = barred \ {i} /\ taken' = taken \cup {i}
    /\ UNCHANGED <<now, issued, copies, tab, shared>>
\* The alarm: idle ids, blocked ones too, with their counters.
Idled == {i \in Rows : row[i].seen < now - Idle}
Alarm ==
    /\ Idled # {}
    /\ row' = [i \in Ids |-> IF i \in Idled THEN None ELSE row[i]] /\ usage' = [i \in Ids |-> IF i \in Idled THEN 0 ELSE usage[i]]
    /\ taken' = taken \cup Idled
    /\ UNCHANGED <<left, now, issued, copies, tab, barred, shared>>
Tick ==
    /\ now < left.last /\ now' = now + 1
    /\ UNCHANGED <<left, issued, copies, row, usage, tab, barred, shared, taken>>

Next ==
    \/ \E t \in Tabs : Visit(t) \/ Arrive(t) \/ Store(t) \/ Close(t) \/ Subject(t) \/ Charge(t) \/ Create(t) \/ Used(t) \/ Drop(t) \/ Dies(t)
    \/ \E p \in Places : Lose(p)
    \/ \E i \in Ids : Owner(i)
    \/ Alarm \/ Tick

Spec == Init /\ [][Next]_vars

(***************************************************************************)
(* Properties                                                              *)
(***************************************************************************)
Creating(t) == tab[t].at \in {"charge", "create", "used", "drop"}
\* Types.
TypeOK ==
    /\ copies \in [Places -> Ids \cup {None}] /\ usage \in [Ids -> Nat] /\ Cardinality(Rows) <= left.rooms
    /\ \A i \in Rows : issued[i] # None /\ issued[i] <= row[i].created /\ row[i].created <= row[i].seen

\* trackerSubject, "never a blocked one, which must stay blocked": an id that was blocked, by the owner or
\* by a conflict, creates nothing more, not even once its row went to make room or as idle.
BlockedStays == \A t \in Tabs : ~Creating(t) /\ Creating(t)' => tab[t].aid \notin barred

\* trackerSubject, "at most public.newTrackersPerIp new ids per network per window": the ids that created
\* a share, by the time of their row, unless it was taken or unblocked since; creates of one id one after the other.
New == {i \in Ids \ taken : shared[i] # None /\ shared[i] > now - Window}
WithinAllowance == left.single => Cardinality(New) <= PerIp

\* dropNewTracker, "a row is kept only once its id has created a share": of requests that ended, one left a
\* row only with a share, or blocked, or when it was stopped.
NothingLeft == left.single /\ left.deaths = 0 /\ (\A t \in Tabs : ~Creating(t)) => \A i \in Rows \ taken : row[i].uses > 0 \/ row[i].blocked

\* resolveTracker, "re-seeds every missing or corrupt copy": a browser that has an id in most of the
\* copies it has left goes on with it.
Others(i) == {p \in Places : copies[p] \notin {i, None}}
SameId == \A t \in Tabs : tab[t].at = "off" /\ tab'[t].at = "answer" => \A i \in Ids : Votes(i) > Cardinality(Others(i)) /\ Valid(i) => tab'[t].aid = i
=============================================================================
