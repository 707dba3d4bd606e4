------------------------- MODULE KeyTimelineProofs -------------------------
(***************************************************************************)
(* The timeline stays valid, a pick takes effect and the keyring's promise *)
(* is kept, for every set of sub-MEKs and every dates.  Every change       *)
(* checks the timeline it writes; what needs an argument is time passing:  *)
(* when the one in effect ends, NoGap at its end gives another.  A pick    *)
(* wins because what starts now starts latest of all in effect, and was    *)
(* made last.  And the one in effect is never the one that may be removed. *)
(***************************************************************************)
EXTENDS KeyTimeline, WellFoundedInduction, TLAPS

IntRow == [from : Int, until : Int \cup {None}, made : Int]

\* Dates are numbers, and every row was made before the next one will be.
Typed == /\ now \in Int /\ made \in Int
         /\ rows \in [Subs -> IntRow \cup {None}]
         /\ \A m \in Ids(rows) : rows[m].made < made

IInv == Typed /\ StaysValid /\ PickIsCurrent

LEMMA Constant == BackSec \in Nat /\ None \notin Int /\ None \notin IntRow /\ Dates \subseteq Int
  BY TimelineAssumption DEF IntRow, Dates

LEMMA InitHolds == Init => IInv
  <1> SUFFICES ASSUME Init PROVE IInv
    OBVIOUS
  <1>1. Ids(rows) = {}
    BY DEF Init, Ids
  <1>2. Typed
    BY <1>1 DEF Init, Typed
  <1>3. pick = None
    BY DEF Init
  <1> QED
    BY <1>1, <1>2, <1>3 DEF IInv, StaysValid, PickIsCurrent

\* The one that is over every other one in effect is the one effectiveAt gives.
LEMMA OverAll ==
    ASSUME NEW r \in [Subs -> IntRow \cup {None}], NEW t \in Int, NEW p \in InEffect(r, t),
           \A o \in InEffect(r, t) \ {p} : Over(r[p], r[o])
    PROVE  EffectiveAt(r, t) = p
  <1> DEFINE Best(m) == \A o \in InEffect(r, t) \ {m} : Over(r[m], r[o])
  <1>1. \A m \in InEffect(r, t) : r[m] \in IntRow
    BY DEF InEffect, Ids
  <1>2. ASSUME NEW m \in InEffect(r, t), Best(m), m # p PROVE FALSE
    <2>1. Over(r[m], r[p]) /\ Over(r[p], r[m])
      BY <1>2
    <2>2. r[m].from \in Int /\ r[p].from \in Int /\ r[m].made \in Int /\ r[p].made \in Int
      BY <1>1 DEF IntRow
    <2> QED
      BY <2>1, <2>2 DEF Over
  <1>3. Best(p)
    OBVIOUS
  <1>4. \A m \in InEffect(r, t) : Best(m) => m = p
    BY <1>2
  <1>5. (CHOOSE m \in InEffect(r, t) : Best(m)) = p
    BY <1>3, <1>4
  <1>6. InEffect(r, t) # {}
    OBVIOUS
  <1> QED
    BY <1>5, <1>6 DEF EffectiveAt

\* Whatever is alone in effect is the one in effect.
LEMMA Alone ==
    ASSUME NEW r \in [Subs -> IntRow \cup {None}], NEW t \in Int, NEW p \in InEffect(r, t),
           \A o \in InEffect(r, t) : o = p
    PROVE  EffectiveAt(r, t) = p
  BY OverAll

LEMMA CreateHolds == ASSUME NEW m \in Subs, Create(m), IInv PROVE IInv'
  <1> DEFINE row == [from |-> now, until |-> None, made |-> 0]
  <1>1. /\ rows \in [Subs -> IntRow \cup {None}] /\ now \in Int /\ Ids(rows) = {}
        /\ rows' = [rows EXCEPT ![m] = row] /\ made' = 1 /\ pick' = m /\ now' = now
    BY DEF Create, IInv, Typed
  <1>2. row \in IntRow /\ row # None
    BY <1>1, Constant DEF IntRow
  <1>3. rows' \in [Subs -> IntRow \cup {None}] /\ rows'[m] = row /\ \A o \in Subs \ {m} : rows'[o] = None
    BY <1>1, <1>2 DEF Ids
  <1>4. Ids(rows') = {m}
    BY <1>2, <1>3 DEF Ids
  <1>5. m \in InEffect(rows', now) /\ \A o \in InEffect(rows', now) : o = m
    <2>1. Covers(row, now)
      BY <1>1 DEF Covers
    <2>2. Covers(rows'[m], now)
      BY <1>3, <2>1
    <2> QED
      BY <1>4, <2>2 DEF InEffect
  <1>6. Typed'
    BY <1>1, <1>3, <1>4 DEF Typed, Ids
  <1>7. CheckTimeline(rows', now')
    BY <1>1, <1>3, <1>4, <1>5 DEF CheckTimeline, InOrder, OneOpen, NoGap
  <1>8. EffectiveAt(rows', now) = m
    BY <1>1, <1>3, <1>5, Alone
  <1> QED
    BY <1>1, <1>6, <1>7, <1>8 DEF IInv, StaysValid, PickIsCurrent

\* A row that is closed keeps its start, and is a row still.
LEMMA ClosedRows ==
    ASSUME NEW r \in [Subs -> IntRow \cup {None}], NEW s \in Int
    PROVE  /\ Closed(r, s) \in [Subs -> IntRow \cup {None}]
           /\ \A o \in Subs : /\ Closed(r, s)[o] = None <=> r[o] = None
                              /\ r[o] # None => /\ Closed(r, s)[o].from = r[o].from /\ Closed(r, s)[o].made = r[o].made
                                                /\ r[o].until = None => Closed(r, s)[o].until = s
                                                /\ r[o].until # None => Closed(r, s)[o].until = r[o].until
  <1>1. ASSUME NEW o \in Subs, r[o] # None, r[o].until = None
        PROVE  /\ Closed(r, s)[o] \in IntRow /\ Closed(r, s)[o] # None
               /\ Closed(r, s)[o].from = r[o].from /\ Closed(r, s)[o].made = r[o].made /\ Closed(r, s)[o].until = s
    <2>1. r[o] \in IntRow
      BY <1>1
    <2>2. Closed(r, s)[o] = [r[o] EXCEPT !.until = s]
      BY <1>1 DEF Closed
    <2> QED
      BY <2>1, <2>2, Constant DEF IntRow
  <1>2. ASSUME NEW o \in Subs, r[o] # None => r[o].until # None
        PROVE  Closed(r, s)[o] = r[o]
    BY <1>2 DEF Closed
  <1>3. Closed(r, s) = [o \in Subs |-> Closed(r, s)[o]]
    BY DEF Closed
  <1>4. \A o \in Subs : Closed(r, s)[o] \in IntRow \cup {None}
    BY <1>1, <1>2
  <1> QED
    BY <1>1, <1>2, <1>3, <1>4

\* Adding one keeps the types and checks the timeline.
LEMMA MekAddHolds ==
    ASSUME NEW m \in Subs, NEW start \in Int, MekAdd(m, start), IInv
    PROVE  /\ Typed' /\ StaysValid'
           /\ rows' = [Closed(rows, start) EXCEPT ![m] = [from |-> start, until |-> None, made |-> made]]
           /\ now' = now
  <1> DEFINE row == [from |-> start, until |-> None, made |-> made]
  <1>1. /\ rows \in [Subs -> IntRow \cup {None}] /\ now \in Int /\ made \in Int
        /\ \A o \in Ids(rows) : rows[o].made < made
        /\ rows' = [Closed(rows, start) EXCEPT ![m] = row] /\ made' = made + 1 /\ now' = now
        /\ CheckTimeline(rows', now)
    BY DEF MekAdd, IInv, Typed
  <1>2. row \in IntRow
    BY <1>1 DEF IntRow
  <1>3. /\ Closed(rows, start) \in [Subs -> IntRow \cup {None}]
        /\ \A o \in Subs : /\ Closed(rows, start)[o] = None <=> rows[o] = None
                           /\ rows[o] # None => Closed(rows, start)[o].made = rows[o].made
    BY <1>1, ClosedRows
  <1>4. rows' \in [Subs -> IntRow \cup {None}] /\ rows'[m] = row /\ \A o \in Subs \ {m} : rows'[o] = Closed(rows, start)[o]
    BY <1>1, <1>2, <1>3
  <1>5. \A o \in Ids(rows') : rows'[o].made < made'
    <2> SUFFICES ASSUME NEW o \in Ids(rows') PROVE rows'[o].made < made'
      OBVIOUS
    <2>1. CASE o = m
      BY <2>1, <1>1, <1>4
    <2>2. CASE o # m
      <3>1. o \in Ids(rows) /\ rows'[o].made = rows[o].made
        BY <2>2, <1>3, <1>4 DEF Ids
      <3>2. rows[o].made < made /\ rows[o].made \in Int
        BY <3>1, <1>1 DEF Ids, IntRow
      <3> QED
        BY <3>1, <3>2, <1>1
    <2> QED
      BY <2>1, <2>2
  <1>6. Typed'
    BY <1>1, <1>4, <1>5 DEF Typed, Ids
  <1>7. StaysValid'
    BY <1>1 DEF StaysValid
  <1> QED
    BY <1>1, <1>6, <1>7

LEMMA AddHolds == ASSUME NEW m \in Subs, NEW start \in Dates, Add(m, start), IInv PROVE IInv'
  <1>1. start \in Int
    BY Constant
  <1>2. Typed' /\ StaysValid'
    BY <1>1, MekAddHolds DEF Add
  <1> QED
    BY <1>2 DEF Add, IInv, PickIsCurrent

\* What starts now is over whatever else is in effect now.
LEMMA RotateHolds == ASSUME NEW m \in Subs, Rotate(m), IInv PROVE IInv'
  <1> DEFINE row == [from |-> now, until |-> None, made |-> made]
  <1>1. /\ rows \in [Subs -> IntRow \cup {None}] /\ now \in Int /\ made \in Int /\ MekAdd(m, now) /\ pick' = m
        /\ \A o \in Ids(rows) : rows[o].made < made
    BY DEF Rotate, IInv, Typed
  <1>2. Typed' /\ StaysValid' /\ rows' = [Closed(rows, now) EXCEPT ![m] = row] /\ now' = now
    BY <1>1, MekAddHolds
  <1>3. /\ rows' \in [Subs -> IntRow \cup {None}] /\ row \in IntRow /\ row # None
    BY <1>1, <1>2, Constant DEF Typed, IntRow
  <1>4. /\ Closed(rows, now) \in [Subs -> IntRow \cup {None}]
        /\ \A o \in Subs : /\ Closed(rows, now)[o] = None <=> rows[o] = None
                           /\ rows[o] # None => /\ Closed(rows, now)[o].from = rows[o].from /\ Closed(rows, now)[o].made = rows[o].made
    BY <1>1, ClosedRows
  <1>5. rows'[m] = row /\ \A o \in Subs \ {m} : rows'[o] = Closed(rows, now)[o]
    BY <1>2, <1>4
  <1>6. m \in InEffect(rows', now)
    BY <1>1, <1>3, <1>5 DEF InEffect, Ids, Covers
  <1>7. ASSUME NEW o \in InEffect(rows', now) \ {m} PROVE Over(rows'[m], rows'[o])
    <2>1. o \in Subs /\ rows'[o] # None /\ rows'[o].from <= now
      BY <1>7 DEF InEffect, Ids, Covers
    <2>2. rows[o] # None /\ rows'[o].from = rows[o].from /\ rows'[o].made = rows[o].made
      BY <2>1, <1>4, <1>5, <1>7
    <2>3. rows[o].made < made /\ rows[o].made \in Int /\ rows[o].from \in Int
      BY <2>1, <2>2, <1>1 DEF Ids, IntRow
    <2> QED
      BY <2>1, <2>2, <2>3, <1>1, <1>5 DEF Over
  <1>8. EffectiveAt(rows', now) = m
    BY <1>1, <1>3, <1>6, <1>7, OverAll
  <1> QED
    BY <1>1, <1>2, <1>8 DEF IInv, PickIsCurrent

LEMMA EditHolds ==
    ASSUME NEW m \in Subs, NEW from \in Dates, NEW until \in Dates \cup {None}, Edit(m, from, until), IInv
    PROVE  IInv'
  <1>1. /\ rows \in [Subs -> IntRow \cup {None}] /\ now \in Int /\ made \in Int /\ m \in Ids(rows)
        /\ \A o \in Ids(rows) : rows[o].made < made
        /\ rows' = [rows EXCEPT ![m] = [from |-> from, until |-> until, made |-> @.made]]
        /\ CheckTimeline(rows', now) /\ pick' = None /\ now' = now /\ made' = made
    BY DEF Edit, IInv, Typed
  <1>2. rows[m] \in IntRow
    BY <1>1 DEF Ids
  <1>3. [from |-> from, until |-> until, made |-> rows[m].made] \in IntRow
    BY <1>2, Constant DEF IntRow
  <1>4. rows' \in [Subs -> IntRow \cup {None}] /\ rows'[m].made = rows[m].made /\ \A o \in Subs \ {m} : rows'[o] = rows[o]
    BY <1>1, <1>3
  <1>5. \A o \in Ids(rows') : rows'[o].made < made'
    BY <1>1, <1>4 DEF Ids
  <1> QED
    BY <1>1, <1>4, <1>5 DEF IInv, Typed, StaysValid, PickIsCurrent

\* Whatever else still ran, or was to, has ended: the one chosen is alone in effect.
LEMMA SetCurrentHolds == ASSUME NEW m \in Subs, SetCurrent(m), IInv PROVE IInv'
  <1>1. /\ rows \in [Subs -> IntRow \cup {None}] /\ now \in Int /\ made \in Int /\ m \in Ids(rows)
        /\ \A o \in Ids(rows) : rows[o].made < made
        /\ CheckTimeline(rows', now) /\ pick' = m /\ now' = now /\ made' = made
    BY DEF SetCurrent, IInv, Typed
  <1>2. rows' = [o \in Subs |->
                    CASE rows[o] = None -> None
                      [] o = m -> [rows[o] EXCEPT !.until = None, !.from = Smaller(@, now)]
                      [] OTHER -> IF rows[o].until = None THEN Ended(rows[o])
                                  ELSE IF rows[o].until > now THEN Ended(rows[o]) ELSE rows[o]]
    BY DEF SetCurrent
  <1>3. \A o \in Ids(rows) : rows[o] \in IntRow /\ rows[o] # None
    BY <1>1 DEF Ids
  <1>4. /\ rows'[m] \in IntRow /\ rows'[m].made = rows[m].made
        /\ rows'[m].until = None /\ rows'[m].from <= now
    <2>1. rows'[m] = [rows[m] EXCEPT !.until = None, !.from = Smaller(@, now)]
      BY <1>1, <1>2, <1>3
    <2>2. rows[m].from \in Int /\ Smaller(rows[m].from, now) \in Int /\ Smaller(rows[m].from, now) <= now
      BY <1>1, <1>3 DEF IntRow, Smaller
    <2> QED
      BY <1>1, <1>3, <2>1, <2>2 DEF IntRow
  <1>5. ASSUME NEW o \in Ids(rows) \ {m}
        PROVE  rows'[o] \in IntRow /\ rows'[o].made = rows[o].made /\ ~Covers(rows'[o], now)
    <2>1. o \in Subs /\ rows[o] # None /\ rows[o] \in IntRow
      BY <1>3 DEF Ids
    <2>2. CASE rows[o].until = None \/ rows[o].until > now
      <3>1. rows'[o] = Ended(rows[o])
        BY <2>1, <2>2, <1>2, <1>5
      <3>2. Greater(rows[o].from, now) \in Int /\ Greater(rows[o].from, now) >= rows[o].from /\ rows[o].from \in Int
            /\ Greater(rows[o].from, now) \in {rows[o].from, now}
        BY <2>1, <1>1 DEF Greater, IntRow
      <3>3. /\ rows'[o] \in IntRow /\ rows'[o].made = rows[o].made
            /\ rows'[o].from = rows[o].from /\ rows'[o].until = Greater(rows[o].from, now)
        BY <2>1, <3>1, <3>2 DEF Ended, IntRow
      <3>4. Greater(rows[o].from, now) # None
        BY <3>2, Constant
      <3> QED
        BY <3>2, <3>3, <3>4, <1>1 DEF Covers
    <2>3. CASE ~(rows[o].until = None \/ rows[o].until > now)
      <3>1. rows'[o] = rows[o]
        BY <2>1, <2>3, <1>2, <1>5
      <3>2. rows[o].until \in Int
        BY <2>1, <2>3 DEF IntRow
      <3> QED
        BY <2>1, <2>3, <3>1, <3>2, <1>1 DEF Covers
    <2> QED
      BY <2>2, <2>3
  <1>6. ASSUME NEW o \in Subs \ Ids(rows) PROVE rows'[o] = None
    BY <1>1, <1>2, <1>6 DEF Ids
  <1>7. Ids(rows') = Ids(rows)
    <2>1. \A o \in Subs : rows'[o] # None <=> rows[o] # None
      BY <1>4, <1>5, <1>6, Constant DEF Ids
    <2> QED
      BY <2>1 DEF Ids
  <1>8. rows' \in [Subs -> IntRow \cup {None}]
    <2>1. \A o \in Subs : rows'[o] \in IntRow \cup {None}
      BY <1>4, <1>5, <1>6
    <2> QED
      BY <1>2, <2>1
  <1>9. \A o \in Ids(rows') : rows'[o].made < made'
    BY <1>1, <1>4, <1>5, <1>7
  <1>10. Typed'
    BY <1>1, <1>8, <1>9 DEF Typed, Ids
  <1>11. m \in InEffect(rows', now) /\ \A o \in InEffect(rows', now) : o = m
    <2>1. Covers(rows'[m], now)
      BY <1>1, <1>4 DEF Covers, IntRow
    <2> QED
      BY <1>1, <1>5, <1>7, <2>1 DEF InEffect
  <1>12. EffectiveAt(rows', now) = m
    BY <1>1, <1>8, <1>11, Alone
  <1> QED
    BY <1>1, <1>10, <1>12 DEF IInv, StaysValid, PickIsCurrent

LEMMA DeleteHolds == ASSUME NEW m \in Subs, Delete(m), IInv PROVE IInv'
  <1> DEFINE r == [rows EXCEPT ![m] = None]
  <1>1. /\ rows \in [Subs -> IntRow \cup {None}] /\ now \in Int /\ made \in Int
        /\ \A o \in Ids(rows) : rows[o].made < made
        /\ rows' = Reopened(r) /\ CheckTimeline(rows', now) /\ pick' = None /\ now' = now /\ made' = made
    BY DEF Delete, IInv, Typed
  <1>2. r \in [Subs -> IntRow \cup {None}] /\ \A o \in Ids(r) : r[o] \in IntRow /\ r[o].made < made
    BY <1>1 DEF Ids
  <1>3. ASSUME NEW o \in Subs
        PROVE  rows'[o] \in IntRow \cup {None} /\ (rows'[o] # None => rows'[o].made < made)
    <2>1. CASE rows' = r
      BY <2>1, <1>2 DEF Ids
    <2>2. CASE rows' # r
      <3>1. rows'[o] = IF o \in Last(r) THEN [r[o] EXCEPT !.until = None] ELSE r[o]
        BY <1>1, <2>2 DEF Reopened
      <3>2. CASE o \in Last(r)
        <4>1. o \in Ids(r)
          BY <3>2 DEF Last
        <4>2. rows'[o] = [r[o] EXCEPT !.until = None] /\ r[o] \in IntRow /\ r[o].made < made
          BY <3>1, <3>2, <4>1, <1>2
        <4> QED
          BY <4>2 DEF IntRow
      <3>3. CASE o \notin Last(r)
        BY <3>1, <3>3, <1>2 DEF Ids
      <3> QED
        BY <3>2, <3>3
    <2> QED
      BY <2>1, <2>2
  <1>4. rows' = [o \in Subs |-> rows'[o]]
    BY <1>1, <1>2 DEF Reopened
  <1>5. rows' \in [Subs -> IntRow \cup {None}]
    BY <1>3, <1>4
  <1>6. \A o \in Ids(rows') : rows'[o].made < made'
    BY <1>1, <1>3 DEF Ids
  <1>7. Typed'
    BY <1>1, <1>5, <1>6 DEF Typed, Ids
  <1> QED
    BY <1>1, <1>7 DEF IInv, StaysValid, PickIsCurrent

\* Dates that are adjusted are dates.
LEMMA AdjustedRow ==
    ASSUME NEW m \in Subs, NEW row \in IntRow, now \in Int
    PROVE  Adjusted(m, row) \in IntRow /\ Adjusted(m, row).made = row.made
  <1> DEFINE end == Smaller(Greater(row.from, IF row.until = None THEN now ELSE row.until), now)
  <1> DEFINE ended == [row EXCEPT !.until = end]
  <1> DEFINE closed == [ended EXCEPT !.from = Smaller(@, now), !.until = Smaller(ended.from, now)]
  <1>1. row.from \in Int /\ row.until \in Int \cup {None} /\ row.made \in Int
    BY DEF IntRow
  <1>2. end \in Int
    BY <1>1 DEF Smaller, Greater
  <1>3. ended \in IntRow /\ ended.made = row.made /\ ended.from = row.from
    BY <1>2 DEF IntRow
  <1>4. Smaller(ended.from, now) \in Int
    BY <1>1, <1>3 DEF Smaller
  <1>5. closed \in IntRow /\ closed.made = row.made
    BY <1>3, <1>4 DEF IntRow
  <1>6. [row EXCEPT !.until = None] \in IntRow /\ [row EXCEPT !.until = None].made = row.made
    BY DEF IntRow
  <1>7. Adjusted(m, row) \in {[row EXCEPT !.until = None], row, ended, closed}
    BY DEF Adjusted
  <1> QED
    BY <1>3, <1>5, <1>6, <1>7

LEMMA RestoreHolds ==
    ASSUME NEW m \in Subs, NEW from \in Dates, NEW until \in Dates \cup {None}, Restore(m, from, until), IInv
    PROVE  IInv'
  <1> DEFINE row == Adjusted(m, [from |-> from, until |-> until, made |-> made])
  <1>1. /\ rows \in [Subs -> IntRow \cup {None}] /\ now \in Int /\ made \in Int
        /\ \A o \in Ids(rows) : rows[o].made < made
        /\ rows' = [rows EXCEPT ![m] = row]
        /\ CheckTimeline(rows', now) /\ pick' = None /\ now' = now /\ made' = made + 1
    BY DEF Restore, Fits, IInv, Typed
  <1>2. [from |-> from, until |-> until, made |-> made] \in IntRow
    BY <1>1, Constant DEF IntRow
  <1>3. row \in IntRow /\ row.made = made
    BY <1>1, <1>2, AdjustedRow
  <1>4. rows' \in [Subs -> IntRow \cup {None}] /\ rows'[m] = row /\ \A o \in Subs \ {m} : rows'[o] = rows[o]
    BY <1>1, <1>3
  <1>5. ASSUME NEW o \in Ids(rows') PROVE rows'[o].made < made'
    <2>1. CASE o = m
      BY <2>1, <1>1, <1>3, <1>4
    <2>2. CASE o # m
      <3>1. o \in Ids(rows) /\ rows'[o] = rows[o] /\ rows[o] \in IntRow
        BY <2>2, <1>1, <1>4 DEF Ids
      <3>2. rows[o].made < made /\ rows[o].made \in Int
        BY <3>1, <1>1 DEF IntRow
      <3> QED
        BY <3>1, <3>2, <1>1
    <2> QED
      BY <2>1, <2>2
  <1>6. Typed'
    BY <1>1, <1>4, <1>5 DEF Typed, Ids
  <1> QED
    BY <1>1, <1>6 DEF IInv, StaysValid, PickIsCurrent

\* The one in effect runs on, or ends now: NoGap gives the next.
LEMMA TickHolds == ASSUME Tick, IInv PROVE IInv'
  <1>1. /\ rows \in [Subs -> IntRow \cup {None}] /\ now \in Int /\ made \in Int
        /\ \A o \in Ids(rows) : rows[o].made < made
        /\ now' = now + 1 /\ rows' = rows /\ made' = made /\ pick' = None
    BY DEF Tick, IInv, Typed
  <1>2. Typed'
    BY <1>1 DEF Typed, Ids
  <1>3. ASSUME Ids(rows) # {} PROVE CheckTimeline(rows, now + 1)
    <2>1. InOrder(rows) /\ OneOpen(rows) /\ InEffect(rows, now) # {} /\ NoGap(rows, now)
      BY <1>3 DEF IInv, StaysValid, CheckTimeline
    <2>2. \A o \in Ids(rows) : rows[o] \in IntRow
      BY <1>1 DEF Ids
    <2>3. NoGap(rows, now + 1)
      <3> SUFFICES ASSUME NEW o \in Ids(rows), rows[o].until # None, rows[o].until > now + 1
                   PROVE  InEffect(rows, rows[o].until) # {}
        BY DEF NoGap
      <3>1. rows[o].until \in Int
        BY <2>2 DEF IntRow
      <3>2. rows[o].until > now
        BY <3>1, <1>1
      <3> QED
        BY <2>1, <3>2 DEF NoGap
    <2>4. InEffect(rows, now + 1) # {}
      <3>1. PICK o \in Ids(rows) : Covers(rows[o], now)
        BY <2>1 DEF InEffect
      <3>2. rows[o].from \in Int /\ rows[o].until \in Int \cup {None}
        BY <2>2 DEF IntRow
      <3>3. CASE rows[o].until = now + 1
        <4>1. rows[o].until # None /\ rows[o].until > now
          BY <3>3, <1>1, Constant
        <4> QED
          BY <2>1, <3>3, <4>1 DEF NoGap
      <3>4. CASE rows[o].until # now + 1
        <4>1. Covers(rows[o], now + 1)
          BY <3>1, <3>2, <3>4, <1>1 DEF Covers
        <4> QED
          BY <4>1 DEF InEffect
      <3> QED
        BY <3>3, <3>4
    <2> QED
      BY <2>1, <2>3, <2>4 DEF CheckTimeline
  <1> QED
    BY <1>1, <1>2, <1>3 DEF IInv, StaysValid, PickIsCurrent

\* Every step keeps the invariant.
LEMMA NextHolds == ASSUME IInv, [Next]_vars PROVE IInv'
  <1>1. CASE Tick
    BY <1>1, TickHolds
  <1>2. ASSUME NEW m \in Subs, Create(m) \/ Rotate(m) \/ SetCurrent(m) \/ Delete(m) PROVE IInv'
    BY <1>2, CreateHolds, RotateHolds, SetCurrentHolds, DeleteHolds
  <1>3. ASSUME NEW m \in Subs, NEW from \in Dates, Add(m, from) PROVE IInv'
    BY <1>3, AddHolds
  <1>4. ASSUME NEW m \in Subs, NEW from \in Dates, NEW until \in Dates \cup {None},
               Edit(m, from, until) \/ Restore(m, from, until)
        PROVE  IInv'
    BY <1>4, EditHolds, RestoreHolds
  <1>5. CASE UNCHANGED vars
    BY <1>5 DEF vars, IInv, Typed, StaysValid, PickIsCurrent, Ids
  <1> QED
    BY <1>1, <1>2, <1>3, <1>4, <1>5 DEF Next

LEMMA Invariant == Spec => []IInv
  <1>1. IInv /\ [Next]_vars => IInv'
    BY NextHolds
  <1> QED
    BY InitHolds, <1>1, PTL DEF Spec

\* A timeline that was valid when it was written stays valid as time passes: checkTimeline holds at
\* every moment, for any number of sub-MEKs and any dates (drivekeys.js:288-303).
THEOREM TimelineStaysValid == Spec => []StaysValid
  <1>1. IInv => StaysValid
    BY DEF IInv
  <1> QED
    BY Invariant, <1>1, PTL

\* A rotation and the owner's choice are in effect at once (directory-do.js:3526-3560, 3584-3608).
THEOREM PickTakesEffect == Spec => []PickIsCurrent
  <1>1. IInv => PickIsCurrent
    BY DEF IInv
  <1> QED
    BY Invariant, <1>1, PTL

-----------------------------------------------------------------------------
(***************************************************************************)
(* The timeline implements CurrentKey.  That effectiveAt gives one of the  *)
(* sub-MEKs in effect whenever there is any needs that no two were made    *)
(* as the same: the later start wins, and of one start the later made, so  *)
(* one of them is over every other.                                        *)
(***************************************************************************)

\* No two sub-MEKs were made at the same place in the order of `created`.
Numbered == \A a, b \in Ids(rows) : rows[a].made = rows[b].made => a = b

\* A set of naturals that is not empty has a least one.
LEMMA SmallestOf ==
    ASSUME NEW S \in SUBSET Nat, S # {}
    PROVE  \E x \in S : \A y \in S : x <= y
  <1> DEFINE R == OpToRel(<, Nat)
  <1>1. IsWellFoundedOn(R, Nat)
    BY NatLessThanWellFounded
  <1>2. \A m, n \in Nat : m < n => <<m, n>> \in R
    BY DEF OpToRel
  <1> HIDE DEF R
  <1>3. PICK x \in S : \A y \in S : ~(<<y, x>> \in R)
    BY <1>1, WFMin
  <1>4. \A y \in S : ~(y < x)
    BY <1>2, <1>3
  <1> QED
    BY <1>3, <1>4

\* Of sub-MEKs whose numbers are bounded, one has the greatest.
LEMMA LargestAt ==
    ASSUME NEW E, E # {}, NEW f, NEW b \in Int, \A m \in E : f[m] \in Int /\ f[m] <= b
    PROVE  \E m \in E : \A o \in E : f[o] <= f[m]
  <1> DEFINE S == {b - f[m] : m \in E}
  <1>1. S \in SUBSET Nat /\ S # {}
    <2>1. \A m \in E : b - f[m] \in Nat
      OBVIOUS
    <2> QED
      BY <2>1
  <1>2. PICK x \in S : \A y \in S : x <= y
    BY <1>1, SmallestOf
  <1>3. PICK m \in E : x = b - f[m]
    BY <1>2
  <1>4. ASSUME NEW o \in E PROVE f[o] <= f[m]
    <2>1. b - f[o] \in S
      OBVIOUS
    <2>2. b - f[m] <= b - f[o]
      BY <2>1, <1>2, <1>3
    <2> QED
      BY <2>2
  <1> QED
    BY <1>4

\* effectiveAt gives one of those in effect, whenever there is any.
LEMMA OneTakesEffect ==
    ASSUME NEW r \in [Subs -> IntRow \cup {None}], NEW b \in Int, \A m \in Ids(r) : r[m].made < b,
           \A m, o \in Ids(r) : r[m].made = r[o].made => m = o,
           NEW t \in Int, InEffect(r, t) # {}
    PROVE  EffectiveAt(r, t) \in InEffect(r, t)
  <1> DEFINE E == InEffect(r, t)
  <1>1. \A m \in E : /\ m \in Ids(r) /\ r[m].from \in Int /\ r[m].made \in Int
                   /\ r[m].from <= t /\ r[m].made <= b
    <2> SUFFICES ASSUME NEW m \in E
                 PROVE  /\ m \in Ids(r) /\ r[m].from \in Int /\ r[m].made \in Int
                   /\ r[m].from <= t /\ r[m].made <= b
      OBVIOUS
    <2>1. m \in Ids(r) /\ r[m] \in IntRow /\ r[m].from <= t
      BY DEF InEffect, Covers, Ids
    <2>2. r[m].made \in Int /\ r[m].made < b /\ r[m].from \in Int
      BY <2>1 DEF IntRow
    <2> QED
      BY <2>1, <2>2
  <1>2. PICK a \in E : \A o \in E : r[o].from <= r[a].from
    <2> DEFINE f == [m \in E |-> r[m].from]
    <2>1. \A m \in E : f[m] \in Int /\ f[m] <= t
      BY <1>1
    <2>2. \E m \in E : \A o \in E : f[o] <= f[m]
      <3>1. E # {}
        OBVIOUS
      <3> HIDE DEF f, E
      <3> QED
        BY <2>1, <3>1, LargestAt
    <2> QED
      BY <2>2
  <1> DEFINE L == {m \in E : r[m].from = r[a].from}
  <1>3. PICK p \in L : \A o \in L : r[o].made <= r[p].made
    <2> DEFINE f == [m \in L |-> r[m].made]
    <2>1. \A m \in L : f[m] \in Int /\ f[m] <= b
      BY <1>1
    <2>2. \E m \in L : \A o \in L : f[o] <= f[m]
      <3>1. L # {}
        OBVIOUS
      <3> HIDE DEF f, L
      <3> QED
        BY <2>1, <3>1, <1>1, LargestAt
    <2> QED
      BY <2>2
  <1>4. ASSUME NEW o \in E \ {p} PROVE Over(r[p], r[o])
    <2>1. /\ r[o].from <= r[p].from /\ r[o].made # r[p].made
          /\ r[o].from = r[p].from => r[o].made <= r[p].made
      BY <1>1, <1>2, <1>3
    <2>2. /\ r[o].from \in Int /\ r[o].made \in Int
          /\ r[p].from \in Int /\ r[p].made \in Int
      BY <1>1
    <2> QED
      BY <2>1, <2>2 DEF Over
  <1>5. p \in InEffect(r, t)
    OBVIOUS
  <1>6. EffectiveAt(r, t) = p
    <2> HIDE DEF L, E
    <2>1. \A o \in InEffect(r, t) \ {p} : Over(r[p], r[o])
      BY <1>4 DEF E
    <2> QED
      BY <1>5, <2>1, OverAll
  <1> QED
    BY <1>5, <1>6

\* All but one keep their number, which is either kept too or the next one.
LEMMA StillNumbered ==
    ASSUME Typed, Numbered, NEW m \in Subs,
           \A o \in Ids(rows') \ {m} : o \in Ids(rows) /\ rows'[o].made = rows[o].made,
           m \in Ids(rows') => \/ rows'[m].made = made
                               \/ m \in Ids(rows) /\ rows'[m].made = rows[m].made
    PROVE  Numbered'
  <1>1. \A o \in Ids(rows) : rows[o].made < made /\ rows[o].made \in Int /\ made \in Int
    BY DEF Typed, IntRow, Ids
  <1>2. \A o \in Ids(rows) : rows[o].made # made
    BY <1>1
  <1> QED
    BY <1>2 DEF Numbered

LEMMA CreateStep ==
    ASSUME NEW m \in Subs, Create(m), IInv, Numbered
    PROVE  Numbered' /\ Ids(rows') = {m}
  <1> DEFINE row == [from |-> now, until |-> None, made |-> 0]
  <1>1. /\ rows \in [Subs -> IntRow \cup {None}] /\ now \in Int /\ Ids(rows) = {} /\ made = 0
        /\ rows' = [rows EXCEPT ![m] = row]
    BY DEF Create, IInv, Typed
  <1>2. row \in IntRow /\ row # None
    BY <1>1, Constant DEF IntRow
  <1>3. rows'[m] = row /\ \A o \in Subs \ {m} : rows'[o] = None
    BY <1>1, <1>2 DEF Ids
  <1>4. Ids(rows') = {m}
    BY <1>2, <1>3 DEF Ids
  <1>5. rows'[m].made = made
    BY <1>1, <1>3
  <1> QED
    BY <1>4, <1>5, StillNumbered DEF IInv

LEMMA MekAddStep ==
    ASSUME NEW m \in Subs, NEW start \in Int, MekAdd(m, start), IInv, Numbered
    PROVE  Numbered' /\ Ids(rows) # {} /\ m \notin Ids(rows) /\ Ids(rows') = Ids(rows) \cup {m}
  <1> DEFINE row == [from |-> start, until |-> None, made |-> made]
  <1>1. rows \in [Subs -> IntRow \cup {None}] /\ made \in Int /\ Ids(rows) # {} /\ m \notin Ids(rows)
    BY DEF IInv, Typed, MekAdd, Ids
  <1>2. rows' = [Closed(rows, start) EXCEPT ![m] = row]
    BY MekAddHolds
  <1>3. row \in IntRow /\ row # None
    BY <1>1, Constant DEF IntRow
  <1>4. /\ Closed(rows, start) \in [Subs -> IntRow \cup {None}]
        /\ \A o \in Subs : /\ Closed(rows, start)[o] = None <=> rows[o] = None
                           /\ rows[o] # None => Closed(rows, start)[o].made = rows[o].made
    BY <1>1, ClosedRows
  <1>5. rows'[m] = row /\ \A o \in Subs \ {m} : rows'[o] = Closed(rows, start)[o]
    BY <1>2, <1>4
  <1>6. Ids(rows') = Ids(rows) \cup {m}
    BY <1>3, <1>4, <1>5 DEF Ids
  <1>7. \A o \in Ids(rows') \ {m} : o \in Ids(rows) /\ rows'[o].made = rows[o].made
    BY <1>4, <1>5, <1>6 DEF Ids
  <1>8. rows'[m].made = made
    BY <1>5
  <1>9. Numbered'
    BY <1>7, <1>8, StillNumbered DEF IInv
  <1> QED
    BY <1>1, <1>6, <1>9

LEMMA EditStep ==
    ASSUME NEW m \in Subs, NEW from \in Dates, NEW until \in Dates \cup {None}, Edit(m, from, until), IInv, Numbered
    PROVE  Numbered' /\ Ids(rows) # {} /\ Ids(rows') = Ids(rows)
  <1> DEFINE row == [from |-> from, until |-> until, made |-> rows[m].made]
  <1>1. /\ rows \in [Subs -> IntRow \cup {None}] /\ m \in Ids(rows) /\ rows[m] \in IntRow
        /\ rows' = [rows EXCEPT ![m] = row]
    BY DEF Edit, IInv, Typed, Ids
  <1>2. row \in IntRow /\ row # None
    BY <1>1, Constant DEF IntRow
  <1>3. rows'[m] = row /\ \A o \in Subs \ {m} : rows'[o] = rows[o]
    BY <1>1
  <1>4. Ids(rows') = Ids(rows)
    BY <1>1, <1>2, <1>3 DEF Ids
  <1>5. \A o \in Ids(rows') : o \in Ids(rows) /\ rows'[o].made = rows[o].made
    BY <1>3, <1>4 DEF Ids
  <1>6. Numbered'
    BY <1>5, StillNumbered DEF IInv
  <1> QED
    BY <1>1, <1>4, <1>6

LEMMA SetCurrentStep ==
    ASSUME NEW m \in Subs, SetCurrent(m), IInv, Numbered
    PROVE  Numbered' /\ Ids(rows) # {} /\ Ids(rows') = Ids(rows)
  <1>1. /\ rows \in [Subs -> IntRow \cup {None}] /\ now \in Int /\ m \in Ids(rows)
        /\ rows' = [o \in Subs |->
                    CASE rows[o] = None -> None
                      [] o = m -> [rows[o] EXCEPT !.until = None, !.from = Smaller(@, now)]
                      [] OTHER -> IF rows[o].until = None THEN Ended(rows[o])
                                  ELSE IF rows[o].until > now THEN Ended(rows[o]) ELSE rows[o]]
    BY DEF SetCurrent, IInv, Typed
  <1>2. ASSUME NEW o \in Ids(rows) PROVE rows'[o] \in IntRow /\ rows'[o].made = rows[o].made
    <2>1. o \in Subs /\ rows[o] \in IntRow /\ rows[o] # None
      BY <1>1 DEF Ids
    <2>2. Smaller(rows[o].from, now) \in Int /\ Greater(rows[o].from, now) \in Int
      BY <2>1, <1>1 DEF IntRow, Smaller, Greater
    <2>3. rows'[o] \in {[rows[o] EXCEPT !.until = None, !.from = Smaller(@, now)], Ended(rows[o]), rows[o]}
      BY <2>1, <1>1
    <2>4. Ended(rows[o]) \in IntRow /\ Ended(rows[o]).made = rows[o].made
      BY <2>1, <2>2 DEF Ended, IntRow
    <2>5. /\ [rows[o] EXCEPT !.until = None, !.from = Smaller(@, now)] \in IntRow
          /\ [rows[o] EXCEPT !.until = None, !.from = Smaller(@, now)].made = rows[o].made
      BY <2>1, <2>2 DEF IntRow
    <2> QED
      BY <2>1, <2>3, <2>4, <2>5
  <1>3. ASSUME NEW o \in Subs \ Ids(rows) PROVE rows'[o] = None
    BY <1>1, <1>3 DEF Ids
  <1>4. Ids(rows') = Ids(rows)
    <2>1. \A o \in Subs : rows'[o] # None <=> rows[o] # None
      BY <1>2, <1>3, Constant DEF Ids
    <2> QED
      BY <2>1 DEF Ids
  <1>5. Numbered'
    BY <1>2, <1>4, StillNumbered DEF IInv
  <1> QED
    BY <1>1, <1>4, <1>5

LEMMA DeleteStep ==
    ASSUME NEW m \in Subs, Delete(m), IInv, Numbered
    PROVE  /\ Numbered' /\ m \in Ids(rows) /\ EffectiveAt(rows, now) # m
           /\ Ids(rows') = Ids(rows) \ {m} /\ Ids(rows') # {}
  <1> DEFINE r == [rows EXCEPT ![m] = None]
  <1>1. /\ rows \in [Subs -> IntRow \cup {None}] /\ m \in Ids(rows) /\ EffectiveAt(rows, now) # m
        /\ rows' = Reopened(r) /\ CheckTimeline(rows', now)
    BY DEF Delete, Deletable, IInv, Typed
  <1>2. /\ r \in [Subs -> IntRow \cup {None}] /\ Ids(r) = Ids(rows) \ {m}
        /\ \A o \in Ids(r) : r[o] = rows[o] /\ r[o] \in IntRow
    BY <1>1 DEF Ids
  <1>3. ASSUME NEW o \in Subs
        PROVE  /\ rows'[o] = None <=> r[o] = None
               /\ r[o] # None => rows'[o].made = r[o].made
    <2>1. rows'[o] = r[o] \/ (o \in Last(r) /\ rows'[o] = [r[o] EXCEPT !.until = None])
      <3> HIDE DEF r
      <3> QED
        BY <1>1 DEF Reopened
    <2>2. CASE o \in Last(r) /\ rows'[o] = [r[o] EXCEPT !.until = None]
      <3>1. o \in Ids(r) /\ r[o] \in IntRow
        BY <2>2, <1>2 DEF Last
      <3>2. rows'[o] \in IntRow /\ rows'[o].made = r[o].made
        BY <2>2, <3>1 DEF IntRow
      <3> QED
        BY <3>1, <3>2, Constant
    <2> QED
      BY <2>1, <2>2
  <1>4. Ids(rows') = Ids(rows) \ {m}
    BY <1>2, <1>3 DEF Ids
  <1>5. \A o \in Ids(rows') : o \in Ids(rows) /\ rows'[o].made = rows[o].made
    BY <1>2, <1>3, <1>4 DEF Ids
  <1>6. Numbered'
    BY <1>5, StillNumbered DEF IInv
  <1>7. Ids(rows') # {}
    BY <1>1 DEF CheckTimeline, InEffect
  <1> QED
    BY <1>1, <1>4, <1>6, <1>7

LEMMA RestoreStep ==
    ASSUME NEW m \in Subs, NEW from \in Dates, NEW until \in Dates \cup {None}, Restore(m, from, until), IInv, Numbered
    PROVE  Numbered' /\ m \notin Ids(rows) /\ Ids(rows') = Ids(rows) \cup {m}
  <1> DEFINE row == Adjusted(m, [from |-> from, until |-> until, made |-> made])
  <1>1. /\ rows \in [Subs -> IntRow \cup {None}] /\ now \in Int /\ made \in Int /\ m \notin Ids(rows)
        /\ rows' = [rows EXCEPT ![m] = row]
    BY DEF Restore, IInv, Typed, Ids
  <1>2. [from |-> from, until |-> until, made |-> made] \in IntRow
    BY <1>1, Constant DEF IntRow
  <1>3. row \in IntRow /\ row.made = made /\ row # None
    BY <1>1, <1>2, AdjustedRow, Constant
  <1>4. rows'[m] = row /\ \A o \in Subs \ {m} : rows'[o] = rows[o]
    BY <1>1
  <1>5. Ids(rows') = Ids(rows) \cup {m}
    <2> HIDE DEF row
    <2> QED
      BY <1>3, <1>4 DEF Ids
  <1>6. \A o \in Ids(rows') \ {m} : o \in Ids(rows) /\ rows'[o].made = rows[o].made
    BY <1>4, <1>5 DEF Ids
  <1>7. rows'[m].made = made
    BY <1>3, <1>4
  <1>8. Numbered'
    BY <1>6, <1>7, StillNumbered DEF IInv
  <1> QED
    BY <1>1, <1>5, <1>8

\* Every step keeps the numbers apart.
LEMMA NumberedHolds == ASSUME IInv, Numbered, [Next]_vars PROVE Numbered'
  <1>1. CASE Tick
    BY <1>1 DEF Tick, Numbered
  <1>2. ASSUME NEW m \in Subs, Create(m) \/ Rotate(m) \/ SetCurrent(m) \/ Delete(m) PROVE Numbered'
    <2>1. now \in Int
      BY DEF IInv, Typed
    <2> QED
      BY <1>2, <2>1, CreateStep, MekAddStep, SetCurrentStep, DeleteStep DEF Rotate
  <1>3. ASSUME NEW m \in Subs, NEW from \in Dates, Add(m, from) PROVE Numbered'
    <2>1. from \in Int
      BY Constant
    <2> QED
      BY <1>3, <2>1, MekAddStep DEF Add
  <1>4. ASSUME NEW m \in Subs, NEW from \in Dates, NEW until \in Dates \cup {None},
               Edit(m, from, until) \/ Restore(m, from, until)
        PROVE  Numbered'
    BY <1>4, EditStep, RestoreStep
  <1>5. CASE UNCHANGED vars
    BY <1>5 DEF vars, Numbered
  <1> QED
    BY <1>1, <1>2, <1>3, <1>4, <1>5 DEF Next

\* So the one in effect is one of the sub-MEKs, once there are any.
LEMMA OneIsCurrent ==
    ASSUME NEW r \in [Subs -> IntRow \cup {None}], NEW b \in Int, \A m \in Ids(r) : r[m].made < b,
           \A m, o \in Ids(r) : r[m].made = r[o].made => m = o,
           NEW t \in Int, CheckTimeline(r, t)
    PROVE  EffectiveAt(r, t) \in Ids(r)
  <1>1. EffectiveAt(r, t) \in InEffect(r, t)
    BY OneTakesEffect DEF CheckTimeline
  <1> QED
    BY <1>1 DEF InEffect

LEMMA CurrentIsOne ==
    ASSUME IInv, Numbered
    PROVE  /\ Ids(rows) # {} => EffectiveAt(rows, now) \in Ids(rows)
           /\ Ids(rows) = {} => EffectiveAt(rows, now) = None
  <1>1. ASSUME Ids(rows) # {} PROVE EffectiveAt(rows, now) \in Ids(rows)
    <2>1. /\ rows \in [Subs -> IntRow \cup {None}] /\ made \in Int /\ now \in Int
          /\ \A m \in Ids(rows) : rows[m].made < made
          /\ CheckTimeline(rows, now)
      BY <1>1 DEF IInv, Typed, StaysValid
    <2> QED
      BY <2>1, OneIsCurrent DEF Numbered
  <1>2. ASSUME Ids(rows) = {} PROVE EffectiveAt(rows, now) = None
    BY <1>2 DEF EffectiveAt, InEffect
  <1> QED
    BY <1>1, <1>2

LEMMA CurrentIsOneNext ==
    ASSUME IInv', Numbered', Ids(rows') # {}
    PROVE  EffectiveAt(rows', now') \in Ids(rows')
  <1>1. /\ rows' \in [Subs -> IntRow \cup {None}] /\ made' \in Int /\ now' \in Int
        /\ \A m \in Ids(rows') : rows'[m].made < made'
        /\ CheckTimeline(rows', now')
    BY DEF IInv, Typed, StaysValid, Ids
  <1>2. \A m, o \in Ids(rows') : rows'[m].made = rows'[o].made => m = o
    BY DEF Numbered, Ids
  <1> QED
    BY <1>1, <1>2, OneIsCurrent

\* Every step is a step of CurrentKey, or none.
LEMMA StepsImplement ==
    ASSUME IInv, Numbered, [Next]_vars, IInv', Numbered'
    PROVE  [Current!Next]_(<<Ids(rows), EffectiveAt(rows, now)>>)
  <1> DEFINE cur == EffectiveAt(rows, now)
             after == EffectiveAt(rows', now')
  <1>1. Ids(rows') # {} => after \in Ids(rows')
    BY CurrentIsOneNext
  <1>2. ASSUME NEW m \in Subs, Create(m) PROVE Current!First(m)
    <2>1. Ids(rows) = {} /\ Ids(rows') = {m}
      BY <1>2, CreateStep DEF Create
    <2>2. after = m
      BY <1>1, <2>1
    <2> QED
      BY <2>1, <2>2 DEF Current!First
  <1>3. ASSUME NEW m \in Subs, NEW start \in Int, MekAdd(m, start) PROVE Current!Add(m)
    <2>1. Ids(rows) # {} /\ m \notin Ids(rows) /\ Ids(rows') = Ids(rows) \cup {m}
      BY <1>3, MekAddStep
    <2> QED
      BY <1>1, <2>1 DEF Current!Add
  <1>4. ASSUME NEW m \in Subs, SetCurrent(m) PROVE Current!Switch
    <2>1. Ids(rows) # {} /\ Ids(rows') = Ids(rows)
      BY <1>4, SetCurrentStep
    <2> QED
      BY <1>1, <2>1 DEF Current!Switch
  <1>5. ASSUME NEW m \in Subs, NEW from \in Dates, NEW until \in Dates \cup {None}, Edit(m, from, until)
        PROVE  Current!Switch
    <2>1. Ids(rows) # {} /\ Ids(rows') = Ids(rows)
      BY <1>5, EditStep
    <2> QED
      BY <1>1, <2>1 DEF Current!Switch
  <1>6. ASSUME NEW m \in Subs, Delete(m) PROVE Current!Remove(m)
    <2>1. m \in Ids(rows) /\ cur # m /\ Ids(rows') = Ids(rows) \ {m} /\ Ids(rows') # {}
      BY <1>6, DeleteStep
    <2> QED
      BY <1>1, <2>1 DEF Current!Remove
  <1>7. ASSUME NEW m \in Subs, NEW from \in Dates, NEW until \in Dates \cup {None}, Restore(m, from, until)
        PROVE  Current!First(m) \/ Current!Add(m)
    <2>1. m \notin Ids(rows) /\ Ids(rows') = Ids(rows) \cup {m}
      BY <1>7, RestoreStep
    <2>2. CASE Ids(rows) = {}
      <3>1. after = m /\ Ids(rows') = {m}
        BY <1>1, <2>1, <2>2
      <3> QED
        BY <2>2, <3>1 DEF Current!First
    <2>3. CASE Ids(rows) # {}
      BY <1>1, <2>1, <2>3 DEF Current!Add
    <2> QED
      BY <2>2, <2>3
  <1>8. CASE Tick
    <2>1. rows' = rows
      BY <1>8 DEF Tick
    <2>2. CASE Ids(rows) = {}
      <3>1. InEffect(rows, now) = {} /\ InEffect(rows', now') = {}
        BY <2>1, <2>2 DEF InEffect
      <3>2. after = cur
        BY <3>1 DEF EffectiveAt
      <3> QED
        BY <2>1, <3>2
    <2>3. CASE Ids(rows) # {}
      BY <1>1, <2>1, <2>3 DEF Current!Switch, Current!Next
    <2> QED
      BY <2>2, <2>3
  <1>9. CASE UNCHANGED vars
    BY <1>9 DEF vars
  <1>10. ASSUME NEW m \in Subs, Create(m) \/ Rotate(m) \/ SetCurrent(m) \/ Delete(m) PROVE Current!Next
    <2>1. now \in Int
      BY DEF IInv, Typed
    <2> QED
      BY <1>10, <2>1, <1>2, <1>3, <1>4, <1>6 DEF Rotate, Current!Next
  <1>11. ASSUME NEW m \in Subs, NEW from \in Dates, Add(m, from) PROVE Current!Next
    <2>1. from \in Int
      BY Constant
    <2> QED
      BY <1>11, <2>1, <1>3 DEF Add, Current!Next
  <1>12. ASSUME NEW m \in Subs, NEW from \in Dates, NEW until \in Dates \cup {None},
                Edit(m, from, until) \/ Restore(m, from, until)
         PROVE  Current!Next
    BY <1>12, <1>5, <1>7 DEF Current!Next
  <1> QED
    BY <1>8, <1>9, <1>10, <1>11, <1>12 DEF Next

LEMMA InitImplements == Init => Numbered /\ Current!Init
  <1> SUFFICES ASSUME Init PROVE Numbered /\ Current!Init
    OBVIOUS
  <1>1. Ids(rows) = {}
    BY DEF Init, Ids
  <1>2. InEffect(rows, now) = {}
    BY <1>1 DEF InEffect
  <1>3. EffectiveAt(rows, now) = None
    BY <1>2 DEF EffectiveAt
  <1> QED
    BY <1>1, <1>3 DEF Numbered, Current!Init

\* The dates implement the keyring's promise: once there is a sub-MEK one is always current, it is one
\* of those there are, and the one removed is never the current one (drivekeys.js:255-303,
\* directory-do.js:3526-3700).
THEOREM TimelineImplements == Spec => ImplementsCurrent
  <1>1. Init => IInv /\ Numbered /\ Current!Init
    BY InitHolds, InitImplements
  <1>2. IInv /\ Numbered /\ [Next]_vars => IInv' /\ Numbered'
    BY NextHolds, NumberedHolds
  <1>3. IInv /\ Numbered /\ [Next]_vars /\ IInv' /\ Numbered'
            => [Current!Next]_(<<Ids(rows), EffectiveAt(rows, now)>>)
    BY StepsImplement
  <1> QED
    BY <1>1, <1>2, <1>3, PTL DEF Spec, ImplementsCurrent, Current!Spec

\* At every moment from now on one is in effect: the first moment without one would be the end of the
\* one before it, where NoGap gives another.
LEMMA AlwaysOne ==
    ASSUME NEW r \in [Subs -> IntRow \cup {None}], NEW n \in Int, CheckTimeline(r, n), NEW t \in Int, t >= n
    PROVE  InEffect(r, t) # {}
  <1> DEFINE Gaps == {d \in Nat : InEffect(r, n + d) = {}}
  <1>1. ASSUME Gaps # {} PROVE FALSE
    <2>1. PICK d \in Gaps : \A e \in Gaps : d <= e
      <3>1. Gaps \in SUBSET Nat
        OBVIOUS
      <3> HIDE DEF Gaps
      <3> QED
        BY <1>1, <3>1, SmallestOf
    <2>2. d \in Nat /\ InEffect(r, n + d) = {}
      OBVIOUS
    <2>3. d # 0
      <3>1. n + 0 = n
        OBVIOUS
      <3> QED
        BY <2>2, <3>1 DEF CheckTimeline
    <2>4. d - 1 \in Nat /\ d - 1 \notin Gaps
      <3>1. d - 1 \in Nat /\ ~(d <= d - 1)
        BY <2>2, <2>3
      <3> HIDE DEF Gaps
      <3> QED
        BY <2>1, <3>1
    <2>5. PICK o \in Ids(r) : Covers(r[o], n + (d - 1))
      BY <2>4 DEF InEffect
    <2>6. ~Covers(r[o], n + d)
      BY <2>2 DEF InEffect
    <2>7. r[o].from \in Int /\ r[o].until \in Int \cup {None}
      BY DEF Ids, IntRow
    <2>8. r[o].until # None /\ r[o].until = n + d /\ r[o].until > n
      BY <2>2, <2>3, <2>5, <2>6, <2>7 DEF Covers
    <2> QED
      BY <2>2, <2>8 DEF CheckTimeline, NoGap
  <1>2. t - n \in Nat /\ n + (t - n) = t
    OBVIOUS
  <1> QED
    BY <1>1, <1>2

\* There never comes a moment without a sub-MEK to seal under, whatever dates were edited, added,
\* removed and restored (drivekeys.js:255-263).
THEOREM TimelineNeverWithout == Spec => []NeverWithout
  <1>1. ASSUME IInv, Numbered PROVE NeverWithout
    <2> SUFFICES ASSUME Ids(rows) # {}, NEW t \in now .. MaxDate + 1
                 PROVE  EffectiveAt(rows, t) \in Ids(rows)
      BY DEF NeverWithout
    <2>1. /\ rows \in [Subs -> IntRow \cup {None}] /\ made \in Int /\ now \in Int
          /\ \A m \in Ids(rows) : rows[m].made < made
          /\ CheckTimeline(rows, now)
      BY <1>1 DEF IInv, Typed, StaysValid
    <2>2. t \in Int /\ t >= now
      BY <2>1, TimelineAssumption
    <2>3. InEffect(rows, t) # {}
      BY <2>1, <2>2, AlwaysOne
    <2>4. EffectiveAt(rows, t) \in InEffect(rows, t)
      BY <1>1, <2>1, <2>2, <2>3, OneTakesEffect DEF Numbered
    <2> QED
      BY <2>4 DEF InEffect
  <1>2. IInv /\ Numbered /\ [Next]_vars => IInv' /\ Numbered'
    BY NextHolds, NumberedHolds
  <1>3. Init => IInv /\ Numbered
    BY InitHolds, InitImplements
  <1> QED
    BY <1>1, <1>2, <1>3, PTL DEF Spec
=============================================================================
