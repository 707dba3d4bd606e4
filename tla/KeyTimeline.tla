---------------------------- MODULE KeyTimeline ----------------------------
(***************************************************************************)
(* The dates of the sub-MEKs: each is in effect from `from` until `until`, *)
(* the open-ended one for good, the later start wins where two overlap     *)
(* (public/js/drivekeys.js; the mek* methods and keyRestore of             *)
(* src/directory-do.js).  What is sealed under them is Keyring's.          *)
(***************************************************************************)
EXTENDS Integers, FiniteSets

CONSTANTS
    Subs,       \* ids of sub-MEKs
    BackSec,    \* how far back a new one may start (300 s)
    MaxTime,    \* bound on the clock
    MaxDate,    \* bound on the dates given
    MaxMade,    \* bound on the sub-MEKs there ever are
    None        \* no end, no row

ASSUME TimelineAssumption ==
    /\ {BackSec, MaxMade} \subseteq Nat /\ MaxTime \in Nat /\ MaxDate \in Nat
    /\ None \notin Int /\ None \notin [from : Int, until : Int \cup {None}, made : Int]

Dates == 0 .. MaxDate
Row == [from : Dates, until : Dates \cup {None}, made : Nat]

VARIABLES
    now,
    rows,   \* the table `meks`: a Row or None
    made,   \* how many there ever were: the order of their `created`
    pick    \* history: the one the last step made current at once, or None

vars == <<now, rows, made, pick>>

-----------------------------------------------------------------------------
\* effectiveAt: the later start wins, then the later made.
Ids(r) == {m \in Subs : r[m] # None}
Covers(row, t) == row.from <= t /\ (row.until # None => t < row.until)
InEffect(r, t) == {m \in Ids(r) : Covers(r[m], t)}
OverEarlier(a, b) == a.from > b.from \/ (a.from = b.from /\ a.made < b.made)
Over(a, b) == a.from > b.from \/ (a.from = b.from /\ a.made > b.made)
EffectiveAt(r, t) ==
    IF InEffect(r, t) = {} THEN None
    ELSE CHOOSE m \in InEffect(r, t) : \A o \in InEffect(r, t) \ {m} : Over(r[m], r[o])

\* checkTimeline: one open-ended, one in effect now, and none ends without another in effect.
InOrder(r) == \A m \in Ids(r) : r[m].until # None => r[m].until >= r[m].from
OneOpen(r) == \E m \in Ids(r) : r[m].until = None /\ \A o \in Ids(r) : r[o].until = None => o = m
NoGap(r, t) == \A m \in Ids(r) : r[m].until # None => (r[m].until > t => InEffect(r, r[m].until) # {})
EndsUnchecked(r, t) == InOrder(r) /\ OneOpen(r) /\ InEffect(r, t) # {}
CheckTimeline(r, t) == InOrder(r) /\ OneOpen(r) /\ InEffect(r, t) # {} /\ NoGap(r, t)

Greater(a, b) == IF a >= b THEN a ELSE b
Smaller(a, b) == IF a <= b THEN a ELSE b

TypeOK ==
    /\ now \in 0 .. MaxTime
    /\ rows \in [Subs -> Row \cup {None}]
    /\ made \in Nat
    /\ pick \in Subs \cup {None}

Init ==
    /\ now = 0 /\ made = 0 /\ pick = None
    /\ rows = [m \in Subs |-> None]

-----------------------------------------------------------------------------
Create(m) ==
    /\ Ids(rows) = {} /\ made = 0
    /\ rows' = [rows EXCEPT ![m] = [from |-> now, until |-> None, made |-> 0]]
    /\ made' = 1 /\ pick' = m
    /\ UNCHANGED now

\* The open-ended one ends where the new one starts.
Closed(r, start) == [o \in Subs |-> IF r[o] = None THEN None ELSE IF r[o].until = None THEN [r[o] EXCEPT !.until = start] ELSE r[o]]

\* mekAdd, from `start` on.
MekAdd(m, start) ==
    LET next == [Closed(rows, start) EXCEPT ![m] = [from |-> start, until |-> None, made |-> made]]
    IN  /\ Ids(rows) # {} /\ rows[m] = None /\ made < MaxMade
        /\ start >= now - BackSec
        /\ \A o \in Ids(rows) : rows[o].until = None => start >= rows[o].from
        /\ CheckTimeline(next, now)
        /\ rows' = next /\ made' = made + 1
        /\ UNCHANGED now

Add(m, start) == MekAdd(m, start) /\ pick' = None
Rotate(m) == MekAdd(m, now) /\ pick' = m

\* mekEdit.
Edit(m, from, until) ==
    LET next == [rows EXCEPT ![m] = [from |-> from, until |-> until, made |-> @.made]]
    IN  /\ m \in Ids(rows)
        /\ CheckTimeline(next, now)
        /\ rows' = next /\ pick' = None
        /\ UNCHANGED <<now, made>>

\* mekSetCurrent: the others that still run, or were to, end.
Ended(row) == [row EXCEPT !.until = Greater(row.from, now)]
SetCurrent(m) ==
    LET next == [o \in Subs |->
                    CASE rows[o] = None -> None
                      [] o = m -> [rows[o] EXCEPT !.until = None, !.from = Smaller(@, now)]
                      [] OTHER -> IF rows[o].until = None THEN Ended(rows[o])
                                  ELSE IF rows[o].until > now THEN Ended(rows[o]) ELSE rows[o]]
    IN  /\ m \in Ids(rows)
        /\ CheckTimeline(next, now)
        /\ rows' = next /\ pick' = m
        /\ UNCHANGED <<now, made>>

\* mekDelete: not the current one; the one that started last is open-ended again when none is.
DeletableAny(m) == TRUE
Deletable(m) == EffectiveAt(rows, now) # m
Last(r) == {m \in Ids(r) : \A o \in Ids(r) \ {m} : r[m].from > r[o].from \/ (r[m].from = r[o].from /\ r[m].made < r[o].made)}
Reopened(r) ==
    IF \E o \in Ids(r) : r[o].until = None THEN r
    ELSE [o \in Subs |-> IF o \in Last(r) THEN [r[o] EXCEPT !.until = None] ELSE r[o]]
Delete(m) ==
    LET next == Reopened([rows EXCEPT ![m] = None])
    IN  /\ m \in Ids(rows) /\ Cardinality(Ids(rows)) > 1
        /\ Deletable(m)
        /\ CheckTimeline(next, now)
        /\ rows' = next /\ pick' = None
        /\ UNCHANGED <<now, made>>

\* keyRestore of one this server has not: with its dates when they fit, else ended, else closed.
Fits(m, row) == CheckTimeline([rows EXCEPT ![m] = row], now)
Adjusted(m, row) ==
    LET ended == [row EXCEPT !.until = Smaller(Greater(row.from, IF row.until = None THEN now ELSE row.until), now)]
        closed == [ended EXCEPT !.from = Smaller(@, now), !.until = Smaller(ended.from, now)]
    IN  CASE Ids(rows) = {} -> [row EXCEPT !.until = None]
          [] Ids(rows) # {} /\ Fits(m, row) -> row
          [] Ids(rows) # {} /\ ~Fits(m, row) /\ Fits(m, ended) -> ended
          [] OTHER -> closed
Restore(m, from, until) ==
    LET row == Adjusted(m, [from |-> from, until |-> until, made |-> made])
    IN  /\ rows[m] = None /\ made < MaxMade
        /\ Fits(m, row)
        /\ rows' = [rows EXCEPT ![m] = row]
        /\ made' = made + 1 /\ pick' = None
        /\ UNCHANGED now

Tick == now < MaxTime /\ now' = now + 1 /\ pick' = None /\ UNCHANGED <<rows, made>>

Next ==
    \/ \E m \in Subs : \/ Create(m) \/ Rotate(m) \/ SetCurrent(m) \/ Delete(m)
                       \/ \E from \in Dates : \/ Add(m, from)
                                              \/ \E until \in Dates \cup {None} : Edit(m, from, until) \/ Restore(m, from, until)
    \/ Tick

Spec == Init /\ [][Next]_vars

-----------------------------------------------------------------------------
\* Properties.

\* Valid when it was written, the timeline stays valid as time passes: one sub-MEK is open-ended, one
\* is in effect, and none will end without another (drivekeys.js:277-303).
StaysValid == Ids(rows) # {} => CheckTimeline(rows, now)

\* So at no time from now on is there no sub-MEK to seal under, whatever dates were edited, added,
\* removed and restored (drivekeys.js:255-263).
NeverWithout == Ids(rows) # {} => \A t \in now .. MaxDate + 1 : EffectiveAt(rows, t) \in Ids(rows)

\* A rotation, and the owner's choice of the current one, take effect at once, whatever other
\* sub-MEKs overlap (directory-do.js:3526-3560, 3584-3608).
PickIsCurrent == pick # None => EffectiveAt(rows, now) = pick

\* The timeline implements CurrentKey: the current sub-MEK is the one in effect.
Current == INSTANCE CurrentKey WITH Subs <- Subs, None <- None, keys <- Ids(rows), cur <- EffectiveAt(rows, now)
ImplementsCurrent == Current!Spec
=============================================================================
