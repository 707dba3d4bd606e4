---------------------------- MODULE GuardProofs ----------------------------
(***************************************************************************)
(* The Guard's bound on counted failures for every rule, and its alarm,    *)
(* whatever the requests, the owner and the alarm do and in what order.    *)
(*                                                                         *)
(* The bound alone is not inductive: a row holds failures that were paid   *)
(* for when its window opened, a block those that made it, when it began.  *)
(* SpendInv says up to which instant the failures so far are paid for.     *)
(***************************************************************************)
EXTENDS Guard, FiniteSetTheorems, TLAPS

\* `n` failures, with `l` lifts, are paid for by the periods up to `x`, but
\* for `c` that are still in the row.
Spent(n, l, x, c) == n * Period <= Max * (x + Period * l) + c * Period

\* A period is positive and no longer than the window or a block.
LEMMA PeriodBounds ==
    Period \in Nat /\ Period >= 1 /\ Period <= WindowSec /\ Period <= BlockSec
  BY GuardRuleAssumption DEF Period, Least

\* Multiplication is monotone and distributes: the only non-linear steps.
LEMMA Scale ==
    ASSUME NEW m \in Nat, NEW a \in Int, NEW b \in Int
    PROVE  /\ a <= b => m * a <= m * b
           /\ m * (a + b) = m * a + m * b
           /\ m * (a + 1) = m * a + m
           /\ m * (a - 1) = m * a - m
  OBVIOUS

\* What is paid for stays paid for later, with more lifts, or more in the row.
LEMMA SpentMore ==
    ASSUME NEW n \in Int, NEW l \in Nat, NEW k \in Nat, NEW x \in Int, NEW y \in Int,
           NEW c \in Nat, NEW d \in Nat,
           Spent(n, l, x, c), l <= k, x <= y, c <= d
    PROVE  Spent(n, k, y, d)
<1> USE PeriodBounds
<1>1. Period * l <= Period * k
  BY Scale
<1>2. Period * l \in Nat /\ Period * k \in Nat
  OBVIOUS
<1>3. x + Period * l <= y + Period * k
  BY <1>1, <1>2
<1>4. Max * (x + Period * l) <= Max * (y + Period * k)
  BY <1>2, <1>3, Scale, GuardRuleAssumption
<1>5. Period * c <= Period * d
  BY Scale
<1>6. /\ n * Period \in Int /\ c * Period \in Int /\ d * Period \in Int
      /\ Max * (x + Period * l) \in Int /\ Max * (y + Period * k) \in Int
      /\ c * Period <= d * Period
  BY <1>2, <1>5, GuardRuleAssumption
<1>7. n * Period <= Max * (x + Period * l) + c * Period
  BY DEF Spent
<1> HIDE PeriodBounds
<1>8. n * Period <= Max * (y + Period * k) + d * Period
  BY <1>4, <1>6, <1>7
<1> QED
  BY <1>8 DEF Spent

\* A failure counted in the row leaves the balance, one given back too, and one
\* given back that no row held improves it.
LEMMA SpentOne ==
    ASSUME NEW n \in Int, NEW l \in Nat, NEW x \in Int, NEW c \in Int,
           Spent(n, l, x, c)
    PROVE  Spent(n + 1, l, x, c + 1) /\ Spent(n - 1, l, x, c - 1) /\ Spent(n - 1, l, x, c)
<1>1. /\ (n + 1) * Period = n * Period + Period
      /\ (n - 1) * Period = n * Period - Period
      /\ (c + 1) * Period = c * Period + Period
      /\ (c - 1) * Period = c * Period - Period
  BY PeriodBounds, Scale
<1>2. n * Period \in Int /\ c * Period \in Int /\ Max * (x + Period * l) \in Int
  BY PeriodBounds, GuardRuleAssumption
<1>3. n * Period <= Max * (x + Period * l) + c * Period
  BY DEF Spent
<1>4. /\ (n + 1) * Period <= Max * (x + Period * l) + (c + 1) * Period
      /\ (n - 1) * Period <= Max * (x + Period * l) + (c - 1) * Period
      /\ (n - 1) * Period <= Max * (x + Period * l) + c * Period
  BY <1>1, <1>2, <1>3, PeriodBounds
<1> QED
  BY <1>4 DEF Spent

\* One more period, or one more lift, pays for a row, which holds at most the
\* limit.
LEMMA SpentFull ==
    ASSUME NEW n \in Int, NEW l \in Nat, NEW x \in Int, NEW c \in Nat,
           Spent(n, l, x, c), c <= Max
    PROVE  Spent(n, l, x + Period, 0) /\ Spent(n, l + 1, x, 0)
<1> DEFINE e == x + Period * l
<1>1. Period * l \in Nat /\ e \in Int /\ Period * (l + 1) = Period * l + Period
  BY PeriodBounds, Scale
<1>2. (x + Period) + Period * l = e + Period /\ x + Period * (l + 1) = e + Period
  BY <1>1, PeriodBounds
<1>3. Max * (e + Period) = Max * e + Max * Period
  BY <1>1, PeriodBounds, Scale, GuardRuleAssumption
<1>4. c * Period <= Max * Period
  BY PeriodBounds, Scale, GuardRuleAssumption
<1>5. n * Period <= Max * e + c * Period
  BY DEF Spent
<1>6. n * Period \in Int /\ c * Period \in Int /\ Max * e \in Int /\ Max * Period \in Int
  BY <1>1, PeriodBounds, GuardRuleAssumption
<1>7. n * Period <= Max * (e + Period) /\ 0 * Period = 0
  BY <1>3, <1>4, <1>5, <1>6, PeriodBounds
<1>8. Max * (e + Period) \in Int
  BY <1>3, <1>6
<1> HIDE DEF e
<1>9. n * Period <= Max * (e + Period) + 0 * Period
  BY <1>7, <1>8
<1> QED
  BY <1>2, <1>9 DEF Spent

\* A lift is worth a period.
LEMMA SpentLift ==
    ASSUME NEW n \in Int, NEW l \in Nat, NEW x \in Int, NEW c \in Int,
           Spent(n, l, x + Period, c)
    PROVE  Spent(n, l + 1, x, c)
<1>1. Period * (l + 1) = Period * l + Period /\ Period * l \in Nat
  BY PeriodBounds, Scale
<1>2. x + Period * (l + 1) = (x + Period) + Period * l
  BY <1>1, PeriodBounds
<1> QED
  BY <1>2 DEF Spent

-----------------------------------------------------------------------------
Lifts == lifts + pardons

\* Nothing is counted: all failures are paid for by now.
NothingCounted ==
    track = NoTrack /\ block = NoBlock => Spent(counted, Lifts, now, 0)

\* The row's failures lie in its window, the others are paid for by its start.
RowCounted ==
    track # NoTrack => Spent(counted, Lifts, track.start, track.count)

\* A block was paid for by its end, and within a period of its start.
BlockPaid ==
    track = NoTrack /\ block # NoBlock =>
        Spent(counted, Lifts, Least(block.until, block.since + Period), 0)

\* A block beside a row is either over or was set since the row opened.
BlockAfterRow ==
    track # NoTrack /\ block # NoBlock =>
        track.start <= block.since \/ block.until <= track.start

SpendInv == NothingCounted /\ RowCounted /\ BlockPaid /\ BlockAfterRow
IInv == TypeOK /\ AlarmCovers /\ SpendInv

LEMMA IInvInit == Init => IInv
<1> SUFFICES ASSUME Init PROVE IInv
  OBVIOUS
<1>1. TypeOK
  BY DEF Init, TypeOK, NoTrack, NoBlock, NoAlarm
<1>2. AlarmCovers
  BY DEF Init, AlarmCovers
<1>3. Spent(counted, Lifts, now, 0)
  BY PeriodBounds, GuardRuleAssumption DEF Init, Spent, Lifts
<1> QED
  BY <1>1, <1>2, <1>3 DEF Init, IInv, SpendInv, NothingCounted, RowCounted, BlockPaid, BlockAfterRow

\* What Count leaves: the failure is in the row, or it blocked.
LEMMA CountTyped ==
    ASSUME TypeOK, NEW by \in Reqs \cup {None}, Count(by)
    PROVE  /\ Counted \in [count : 1 .. Max, start : 0 .. now]
           /\ counted' = counted + 1
           /\ \/ /\ Counted.count < Max /\ track' = Counted /\ block' = block
                 /\ track' # NoTrack
                 /\ alarm' = Scheduled(Ends(Counted))
              \/ /\ Counted.count = Max /\ track' = NoTrack
                 /\ block' = [until |-> now + BlockSec, since |-> now, by |-> by]
                 /\ block' # NoBlock
                 /\ alarm' = Scheduled(now + BlockSec)
<1> USE GuardRuleAssumption
<1>1. Counted \in [count : 1 .. Max, start : 0 .. now]
  BY DEF TypeOK, Counted, NoTrack
<1>2. Counted # NoTrack
  BY <1>1 DEF NoTrack
<1>3. [until |-> now + BlockSec, since |-> now, by |-> by] # NoBlock
  <2>1. now # -1
    BY DEF TypeOK
  <2> QED
    BY <2>1 DEF NoBlock
<1>4. Counted.count \in 1 .. Max
  BY <1>1
<1>5. CASE Reaches(Counted)
  BY <1>1, <1>2, <1>3, <1>4, <1>5 DEF Count, Reaches
<1>6. CASE ~Reaches(Counted)
  BY <1>1, <1>2, <1>3, <1>4, <1>6 DEF Count, Reaches
<1> QED
  BY <1>5, <1>6

\* The alarm is set, no later than it was, and in time for the row it is for.
LEMMA ScheduledInTime ==
    ASSUME alarm \in Nat \cup {NoAlarm}, NEW t \in Nat
    PROVE  /\ Scheduled(t) \in Nat /\ Scheduled(t) # NoAlarm /\ Scheduled(t) <= t + 1
           /\ alarm # NoAlarm => Scheduled(t) <= alarm
  BY DEF Scheduled, NoAlarm

\* Counting keeps the rows well-formed and covered.
LEMMA CountKeeps ==
    ASSUME TypeOK, AlarmCovers, NEW by \in Reqs \cup {None}, Count(by), now' = now
    PROVE  /\ \/ track' = NoTrack
              \/ track' \in [count : 0 .. Max - 1, start : 0 .. now]
           /\ \/ block' = NoBlock
              \/ /\ block' \in [until : Nat, since : 0 .. now, by : Reqs \cup {None}]
                 /\ block'.since < block'.until
           /\ alarm' \in Nat \cup {NoAlarm}
           /\ counted' \in Int
           /\ AlarmCovers'
<1> USE GuardRuleAssumption
<1>1. now \in Nat /\ alarm \in Nat \cup {NoAlarm} /\ counted \in Int
  BY DEF TypeOK
<1>2. counted' \in Int
  BY <1>1, CountTyped
<1>3. CASE Counted.count < Max /\ track' = Counted /\ block' = block /\ alarm' = Scheduled(Ends(Counted))
  <2>1. Counted \in [count : 0 .. Max - 1, start : 0 .. now] /\ Ends(Counted) \in Nat
    BY <1>1, <1>3, CountTyped DEF Ends
  <2>2. alarm' \in Nat /\ alarm' # NoAlarm /\ alarm' <= Ends(Counted) + 1 /\ (alarm # NoAlarm => alarm' <= alarm)
    BY <1>1, <1>3, <2>1, ScheduledInTime
  <2>3. track' # NoTrack => alarm' # NoAlarm /\ alarm' <= Ends(track') + 1
    BY <1>3, <2>2
  <2>4. block' # NoBlock => alarm' # NoAlarm /\ alarm' <= block'.until + 1
    <3> SUFFICES ASSUME block # NoBlock PROVE alarm' <= block.until + 1
      BY <1>3, <2>2
    <3>1. block.until \in Nat /\ alarm # NoAlarm /\ alarm <= block.until + 1
      BY DEF TypeOK, AlarmCovers
    <3> QED
      BY <1>1, <2>2, <3>1
  <2>5. AlarmCovers'
    BY <2>3, <2>4 DEF AlarmCovers, Ends
  <2> QED
    BY <1>2, <1>3, <2>1, <2>2, <2>5 DEF TypeOK
<1>4. CASE /\ track' = NoTrack /\ block' = [until |-> now + BlockSec, since |-> now, by |-> by]
           /\ alarm' = Scheduled(now + BlockSec)
  <2>1. alarm' \in Nat /\ alarm' # NoAlarm /\ alarm' <= now + BlockSec + 1
    BY <1>1, <1>4, ScheduledInTime
  <2>2. AlarmCovers'
    BY <1>4, <2>1 DEF AlarmCovers
  <2> QED
    BY <1>1, <1>2, <1>4, <2>1, <2>2
<1> QED
  BY <1>3, <1>4, CountTyped

\* Every step keeps the rows well-formed and covered by the alarm.
LEMMA TypeStep == TypeOK /\ AlarmCovers /\ [Next]_vars => TypeOK' /\ AlarmCovers'
<1> SUFFICES ASSUME TypeOK, AlarmCovers, [Next]_vars PROVE TypeOK' /\ AlarmCovers'
  OBVIOUS
<1> USE GuardRuleAssumption
<1>1. ASSUME NEW r \in Reqs, Attempt(r) PROVE TypeOK' /\ AlarmCovers'
  BY <1>1, CountKeeps DEF Attempt, TypeOK
<1>2. ASSUME NEW r \in Reqs, Wrong(r) PROVE TypeOK' /\ AlarmCovers'
  BY <1>2 DEF Wrong, TypeOK, AlarmCovers, rows, Ends
<1>3. ASSUME NEW r \in Reqs, GiveBack(r) PROVE TypeOK' /\ AlarmCovers'
  <2> USE <1>3 DEF GiveBack, Returned
  <2>1. \/ track' = track
        \/ track # NoTrack /\ track.count > 0 /\ track' = [track EXCEPT !.count = @ - 1]
    BY DEF NoTrack
  <2>2. block' = block \/ block' = NoBlock
    OBVIOUS
  <2>3. track' = NoTrack \/ track' \in [count : 0 .. Max - 1, start : 0 .. now]
    BY <2>1 DEF TypeOK
  <2>4. TypeOK'
    BY <2>2, <2>3 DEF TypeOK
  <2>5. track' # NoTrack => track # NoTrack /\ track'.start = track.start
    BY <2>1, <2>3 DEF TypeOK
  <2>6. AlarmCovers'
    BY <2>2, <2>5 DEF AlarmCovers, Ends
  <2> QED
    BY <2>4, <2>6
<1>4. ASSUME NEW r \in Reqs, CutOff(r) PROVE TypeOK' /\ AlarmCovers'
  BY <1>4 DEF CutOff, TypeOK, AlarmCovers, rows, Ends
<1>5. ASSUME StepUpFails PROVE TypeOK' /\ AlarmCovers'
  BY <1>5, CountKeeps DEF StepUpFails, TypeOK
<1>6. ASSUME NEW sec \in OwnerSecs, OwnerBlocks(sec) PROVE TypeOK' /\ AlarmCovers'
  <2>1. sec \in Nat /\ sec >= 1 /\ now \in Nat /\ alarm \in Nat \cup {NoAlarm}
    BY DEF TypeOK
  <2>2. /\ alarm' \in Nat /\ alarm' # NoAlarm /\ alarm' <= now + sec + 1
        /\ alarm # NoAlarm => alarm' <= alarm
    BY <1>6, <2>1, ScheduledInTime DEF OwnerBlocks
  <2>3. TypeOK'
    BY <1>6, <2>1, <2>2 DEF OwnerBlocks, TypeOK
  <2>4. track # NoTrack => alarm' # NoAlarm /\ alarm' <= Ends(track) + 1
    <3> SUFFICES ASSUME track # NoTrack PROVE alarm' <= Ends(track) + 1
      BY <2>2
    <3>1. Ends(track) \in Nat /\ alarm # NoAlarm /\ alarm <= Ends(track) + 1
      BY DEF TypeOK, AlarmCovers, Ends
    <3> QED
      BY <2>1, <2>2, <3>1
  <2>5. AlarmCovers'
    BY <1>6, <2>2, <2>4 DEF OwnerBlocks, AlarmCovers, Ends
  <2> QED
    BY <2>3, <2>5
<1>7. ASSUME OwnerUnblocks PROVE TypeOK' /\ AlarmCovers'
  BY <1>7 DEF OwnerUnblocks, TypeOK, AlarmCovers
<1>8. ASSUME Alarm PROVE TypeOK' /\ AlarmCovers'
  <2> USE <1>8 DEF Alarm
  <2>1. track' = track \/ track' = NoTrack
    OBVIOUS
  <2>2. block' = block \/ block' = NoBlock
    OBVIOUS
  <2>3. /\ track' # NoTrack => Ends(track') \in Nat
        /\ block' # NoBlock => block'.until \in Nat
    BY <2>1, <2>2 DEF TypeOK, Ends
  <2>4. alarm' = NextAlarm(track', block')
    OBVIOUS
  <2>5. /\ alarm' \in Nat \cup {NoAlarm}
        /\ track' # NoTrack => alarm' # NoAlarm /\ alarm' <= Ends(track') + 1
        /\ block' # NoBlock => alarm' # NoAlarm /\ alarm' <= block'.until + 1
    BY <2>3, <2>4 DEF NextAlarm, NoAlarm
  <2>6. AlarmCovers'
    BY <2>5 DEF AlarmCovers, Ends
  <2>7. TypeOK'
    BY <2>1, <2>2, <2>5 DEF TypeOK, history
  <2> QED
    BY <2>6, <2>7
<1>9. ASSUME Tick PROVE TypeOK' /\ AlarmCovers'
  BY <1>9 DEF Tick, TypeOK, AlarmCovers, rows, history, Ends
<1>10. ASSUME UNCHANGED vars PROVE TypeOK' /\ AlarmCovers'
  BY <1>10 DEF vars, TypeOK, AlarmCovers, rows, history, Ends
<1> QED
  BY <1>1, <1>2, <1>3, <1>4, <1>5, <1>6, <1>7, <1>8, <1>9, <1>10 DEF Next

\* The ranges the balance is reckoned in.
LEMMA Ranges ==
    ASSUME TypeOK
    PROVE  /\ now \in Nat /\ counted \in Int /\ Lifts \in Nat
           /\ track # NoTrack => /\ track.count \in Nat /\ track.count <= Max
                                 /\ track.start \in Nat /\ track.start <= now
           /\ block # NoBlock => /\ block.until \in Nat /\ block.since \in Nat
                                 /\ block.since <= now /\ block.since < block.until
  BY GuardRuleAssumption DEF TypeOK, Lifts

\* While the network is not blocked, what is not in a row that still counts is
\* paid for by now.
LEMMA PaidByNow ==
    ASSUME TypeOK, SpendInv, ~Blocked, track = NoTrack \/ Ends(track) <= now
    PROVE  Spent(counted, Lifts, now, 0)
<1> USE PeriodBounds, GuardRuleAssumption
<1>1. CASE track # NoTrack
  <2>1. Spent(counted, Lifts, track.start, track.count)
    BY <1>1 DEF SpendInv, RowCounted
  <2>2. Spent(counted, Lifts, track.start + Period, 0)
    BY <1>1, <2>1, Ranges, SpentFull
  <2>3. track.start + Period <= now /\ track.start + Period \in Int
    BY <1>1, Ranges DEF Ends
  <2> QED
    BY <2>2, <2>3, Ranges, SpentMore
<1>2. CASE track = NoTrack /\ block # NoBlock
  <2>1. Spent(counted, Lifts, Least(block.until, block.since + Period), 0)
    BY <1>2 DEF SpendInv, BlockPaid
  <2>2. Least(block.until, block.since + Period) \in Int /\ Least(block.until, block.since + Period) <= now
    BY <1>2, Ranges DEF Least, Blocked
  <2> QED
    BY <2>1, <2>2, Ranges, SpentMore
<1>3. CASE track = NoTrack /\ block = NoBlock
  BY <1>3 DEF SpendInv, NothingCounted
<1> QED
  BY <1>1, <1>2, <1>3

\* One more failure: in an open row, in a new one, or as the one that blocks.
LEMMA SpendCount ==
    ASSUME TypeOK, SpendInv, NEW by \in Reqs \cup {None}, Count(by),
           now' = now, lifts' = lifts, pardons' = pardons
    PROVE  SpendInv'
<1> USE PeriodBounds, GuardRuleAssumption
<1>1. /\ now \in Nat /\ counted \in Int /\ Lifts \in Nat /\ Lifts' = Lifts
      /\ counted' = counted + 1 /\ Counted.count \in 1 .. Max /\ Counted.start \in 0 .. now
  BY Ranges, CountTyped DEF Lifts
<1>2. Spent(counted', Lifts, Counted.start, Counted.count)
  <2>1. CASE track # NoTrack /\ now < Ends(track)
    <3>1. Spent(counted, Lifts, track.start, track.count)
      BY <2>1 DEF SpendInv, RowCounted
    <3>2. track.start \in Nat /\ track.count \in Nat
      BY <2>1, Ranges
    <3>3. Counted.start = track.start /\ Counted.count = track.count + 1
      BY <2>1 DEF Counted, TypeOK
    <3>4. Spent(counted + 1, Lifts, track.start, track.count + 1)
      BY <1>1, <3>1, <3>2, SpentOne
    <3> QED
      BY <1>1, <3>3, <3>4
  <2>2. CASE ~(track # NoTrack /\ now < Ends(track))
    <3>1. track = NoTrack \/ Ends(track) <= now
      BY <2>2, Ranges DEF Ends
    <3>2. Spent(counted, Lifts, now, 0)
      BY <3>1, PaidByNow DEF Count, Admitted
    <3>3. Spent(counted + 1, Lifts, now, 0 + 1)
      BY <1>1, <3>2, SpentOne
    <3>4. Counted.start = now /\ Counted.count = 0 + 1
      BY <2>2 DEF Counted
    <3> QED
      BY <1>1, <3>3, <3>4
  <2> QED
    BY <2>1, <2>2
<1>3. CASE Counted.count < Max /\ track' = Counted /\ block' = block /\ track' # NoTrack
  <2>1. RowCounted'
    BY <1>1, <1>2, <1>3 DEF RowCounted, Spent
  <2>2. BlockAfterRow'
    <3> SUFFICES ASSUME block # NoBlock
                 PROVE  Counted.start <= block.since \/ block.until <= Counted.start
      BY <1>3 DEF BlockAfterRow
    <3>1. block.until <= now /\ block.until \in Nat
      BY <1>1, Ranges DEF Count, Admitted, Blocked
    <3>2. CASE track # NoTrack /\ now < Ends(track)
      <4>1. Counted.start = track.start
        BY <3>2 DEF Counted, TypeOK
      <4> QED
        BY <3>2, <4>1 DEF SpendInv, BlockAfterRow
    <3>3. CASE ~(track # NoTrack /\ now < Ends(track))
      <4>1. Counted.start = now
        BY <3>3 DEF Counted
      <4> QED
        BY <3>1, <4>1
    <3> QED
      BY <3>2, <3>3
  <2> QED
    BY <1>3, <2>1, <2>2 DEF SpendInv, NothingCounted, BlockPaid
<1>4. CASE /\ Counted.count = Max /\ track' = NoTrack
           /\ block' = [until |-> now + BlockSec, since |-> now, by |-> by] /\ block' # NoBlock
  <2>1. Spent(counted', Lifts, Counted.start + Period, 0)
    BY <1>1, <1>2, SpentFull
  <2>2. Least(now + BlockSec, now + Period) = now + Period /\ Counted.start + Period <= now + Period
    BY <1>1 DEF Least
  <2>3. Spent(counted', Lifts, now + Period, 0)
    BY <1>1, <2>1, <2>2, SpentMore
  <2>4. BlockPaid'
    BY <1>1, <1>4, <2>2, <2>3 DEF BlockPaid, Spent
  <2> QED
    BY <1>4, <2>4 DEF SpendInv, NothingCounted, RowCounted, BlockAfterRow
<1> QED
  BY <1>3, <1>4, CountTyped

\* A count given back, whatever row is there by then, with the block it lifts.
LEMMA SpendGiveBack ==
    ASSUME TypeOK, SpendInv, NEW r \in Reqs, GiveBack(r)
    PROVE  SpendInv'
<1> USE PeriodBounds, GuardRuleAssumption
<1>1. /\ now \in Nat /\ counted \in Int /\ Lifts \in Nat /\ now' = now
      /\ counted' = counted - 1 /\ counted' \in Int
  BY Ranges DEF GiveBack
<1>2. CASE reqs[r] = "last"
  <2>1. block' = NoBlock /\ track' = track /\ Lifts' = Lifts + 1
    BY <1>2 DEF GiveBack, Returned, Lifts, TypeOK
  <2>2. RowCounted'
    <3> SUFFICES ASSUME track # NoTrack
                 PROVE  Spent(counted - 1, Lifts + 1, track.start, track.count)
      BY <1>1, <2>1 DEF RowCounted, Spent
    <3>1. Spent(counted, Lifts, track.start, track.count) /\ track.start \in Nat /\ track.count \in Nat
      BY Ranges DEF SpendInv, RowCounted
    <3>2. Spent(counted - 1, Lifts, track.start, track.count)
      BY <1>1, <3>1, SpentOne
    <3> QED
      BY <1>1, <3>1, <3>2, SpentMore
  <2>3. NothingCounted'
    <3> SUFFICES ASSUME track = NoTrack PROVE Spent(counted - 1, Lifts + 1, now, 0)
      BY <1>1, <2>1 DEF NothingCounted, Spent
    <3>1. CASE block = NoBlock
      <4>1. Spent(counted - 1, Lifts, now, 0)
        BY <1>1, <3>1, SpentOne DEF SpendInv, NothingCounted
      <4> QED
        BY <1>1, <4>1, SpentMore
    <3>2. CASE block # NoBlock
      <4>1. Spent(counted, Lifts, Least(block.until, block.since + Period), 0)
        BY <3>2 DEF SpendInv, BlockPaid
      <4>2. /\ Least(block.until, block.since + Period) \in Int
            /\ Least(block.until, block.since + Period) <= now + Period
        BY <1>1, <3>2, Ranges DEF Least
      <4>3. Spent(counted, Lifts, now + Period, 0)
        BY <1>1, <4>1, <4>2, SpentMore
      <4>4. Spent(counted - 1, Lifts, now + Period, 0)
        BY <1>1, <4>3, SpentOne
      <4> QED
        BY <1>1, <4>4, SpentLift
    <3> QED
      BY <3>1, <3>2
  <2> QED
    BY <2>1, <2>2, <2>3 DEF SpendInv, BlockPaid, BlockAfterRow
<1>3. CASE reqs[r] # "last" /\ track # NoTrack /\ track.count > 0 /\ track' # track
  <2>1. /\ track' = [track EXCEPT !.count = @ - 1] /\ block' = block /\ Lifts' = Lifts
    BY <1>3 DEF GiveBack, Returned, Lifts
  <2>2. track'.count = track.count - 1 /\ track'.start = track.start /\ track' # NoTrack
    <3>1. track \in [count : 0 .. Max - 1, start : 0 .. now]
      BY <1>3 DEF TypeOK
    <3> QED
      BY <2>1, <3>1, <1>1 DEF NoTrack
  <2>3. Spent(counted - 1, Lifts, track.start, track.count - 1)
    <3>1. Spent(counted, Lifts, track.start, track.count)
      BY <1>3 DEF SpendInv, RowCounted
    <3>2. track.start \in Int /\ track.count \in Int
      BY <1>3, Ranges
    <3> QED
      BY <1>1, <3>1, <3>2, SpentOne
  <2>4. RowCounted'
    BY <1>1, <2>1, <2>2, <2>3 DEF RowCounted, Spent
  <2> QED
    BY <2>1, <2>2, <2>4, <1>3 DEF SpendInv, NothingCounted, BlockPaid, BlockAfterRow
<1>4. CASE reqs[r] # "last" /\ track' = track
  <2>1. block' = block /\ Lifts' = Lifts
    BY <1>4 DEF GiveBack, Returned, Lifts
  <2>2. RowCounted'
    <3> SUFFICES ASSUME track # NoTrack PROVE Spent(counted - 1, Lifts, track.start, track.count)
      BY <1>1, <1>4, <2>1 DEF RowCounted, Spent
    <3> QED
      BY <1>1, Ranges, SpentOne DEF SpendInv, RowCounted
  <2>3. NothingCounted'
    <3> SUFFICES ASSUME track = NoTrack, block = NoBlock PROVE Spent(counted - 1, Lifts, now, 0)
      BY <1>1, <1>4, <2>1 DEF NothingCounted, Spent
    <3> QED
      BY <1>1, SpentOne DEF SpendInv, NothingCounted
  <2>4. BlockPaid'
    <3> DEFINE x == Least(block.until, block.since + Period)
    <3> SUFFICES ASSUME track = NoTrack, block # NoBlock PROVE Spent(counted - 1, Lifts, x, 0)
      BY <1>1, <1>4, <2>1 DEF BlockPaid, Spent
    <3>1. x \in Int
      BY Ranges DEF Least
    <3>2. Spent(counted, Lifts, x, 0)
      BY DEF SpendInv, BlockPaid
    <3> HIDE DEF x
    <3> QED
      BY <1>1, <3>1, <3>2, SpentOne
  <2>5. BlockAfterRow'
    BY <1>4, <2>1 DEF SpendInv, BlockAfterRow
  <2> QED
    BY <2>2, <2>3, <2>4, <2>5 DEF SpendInv
<1>5. track' # track => track # NoTrack /\ track.count > 0
  BY DEF GiveBack, Returned, NoTrack
<1> QED
  <2>1. CASE reqs[r] = "last"
    BY <1>2, <2>1
  <2>2. CASE reqs[r] # "last" /\ track' = track
    BY <1>4, <2>2
  <2>3. CASE reqs[r] # "last" /\ track' # track
    BY <1>3, <1>5, <2>3
  <2> QED
    BY <2>1, <2>2, <2>3

\* The owner's block, over whatever is there.
LEMMA SpendOwnerBlocks ==
    ASSUME TypeOK, SpendInv, NEW sec \in OwnerSecs, OwnerBlocks(sec)
    PROVE  SpendInv'
<1> USE PeriodBounds, GuardRuleAssumption
<1> DEFINE x == Least(now + sec, now + Period)
<1>1. /\ sec \in Nat /\ sec >= 1 /\ now \in Nat /\ counted \in Int /\ Lifts \in Nat
      /\ counted' = counted /\ track' = track /\ now' = now
      /\ block' = [until |-> now + sec, since |-> now, by |-> None]
      /\ Lifts' = IF now + sec < block.until THEN Lifts + 1 ELSE Lifts
      /\ Lifts' \in Nat /\ Lifts <= Lifts'
      /\ x \in Nat /\ now <= x
  <2>1. now \in Nat /\ counted \in Int /\ Lifts \in Nat /\ lifts \in Nat /\ pardons \in Nat
    BY Ranges DEF TypeOK
  <2> QED
    BY <2>1 DEF OwnerBlocks, Lifts, Least
<1>2. block' # NoBlock
  BY <1>1 DEF NoBlock
<1>3. RowCounted'
  <2> SUFFICES ASSUME track # NoTrack PROVE Spent(counted, Lifts', track.start, track.count)
    BY <1>1 DEF RowCounted, Spent
  <2>1. Spent(counted, Lifts, track.start, track.count) /\ track.start \in Int /\ track.count \in Nat
    BY Ranges DEF SpendInv, RowCounted
  <2> QED
    BY <1>1, <2>1, SpentMore
<1>4. track = NoTrack => Spent(counted, Lifts', x, 0)
  <2>1. CASE track = NoTrack /\ block = NoBlock
    <3>1. Spent(counted, Lifts, now, 0)
      BY <2>1 DEF SpendInv, NothingCounted
    <3> HIDE DEF x
    <3> QED
      BY <1>1, <3>1, SpentMore
  <2>2. CASE track = NoTrack /\ block # NoBlock
    <3> DEFINE y == Least(block.until, block.since + Period)
    <3>1. Spent(counted, Lifts, y, 0)
      BY <2>2 DEF SpendInv, BlockPaid
    <3>2. y \in Int /\ y <= now + Period /\ y <= block.until /\ block.until \in Nat
      BY <1>1, <2>2, Ranges DEF Least
    <3>3. CASE now + sec < block.until
      <4> HIDE DEF x, y
      <4>1. Spent(counted, Lifts, now + Period, 0)
        BY <1>1, <3>1, <3>2, SpentMore
      <4>2. Spent(counted, Lifts + 1, now, 0)
        BY <1>1, <4>1, SpentLift
      <4>3. Lifts' = Lifts + 1
        BY <1>1, <3>3
      <4> QED
        BY <1>1, <4>2, <4>3, SpentMore
    <3>4. CASE ~(now + sec < block.until)
      <4>1. y <= x
        BY <1>1, <3>2, <3>4 DEF Least
      <4> HIDE DEF x, y
      <4> QED
        BY <1>1, <3>1, <3>2, <4>1, SpentMore
    <3> QED
      BY <3>3, <3>4
  <2> QED
    BY <2>1, <2>2
<1>5. BlockPaid'
  <2>1. Least(block'.until, block'.since + Period) = x
    BY <1>1
  <2> QED
    BY <1>1, <1>4, <2>1 DEF BlockPaid, Spent
<1>6. BlockAfterRow'
  BY <1>1, Ranges DEF BlockAfterRow
<1> QED
  BY <1>2, <1>3, <1>5, <1>6 DEF SpendInv, NothingCounted

\* The owner forgets the row and the block: a lift pays for both.
LEMMA SpendOwnerUnblocks ==
    ASSUME TypeOK, SpendInv, OwnerUnblocks
    PROVE  SpendInv'
<1> USE PeriodBounds, GuardRuleAssumption
<1>1. /\ now \in Nat /\ counted \in Int /\ Lifts \in Nat
      /\ counted' = counted /\ now' = now /\ track' = NoTrack /\ block' = NoBlock
  BY Ranges DEF OwnerUnblocks
<1>2. Lifts' = Lifts + 1
  BY DEF OwnerUnblocks, Lifts, TypeOK
<1>3. Spent(counted, Lifts + 1, now, 0)
  <2>1. CASE track # NoTrack
    <3>1. Spent(counted, Lifts, track.start, track.count)
      BY <2>1 DEF SpendInv, RowCounted
    <3>2. Spent(counted, Lifts + 1, track.start, 0)
      BY <1>1, <2>1, <3>1, Ranges, SpentFull
    <3> QED
      BY <1>1, <2>1, <3>2, Ranges, SpentMore
  <2>2. CASE track = NoTrack /\ block # NoBlock
    <3> DEFINE y == Least(block.until, block.since + Period)
    <3>1. Spent(counted, Lifts, y, 0)
      BY <2>2 DEF SpendInv, BlockPaid
    <3>2. y \in Int /\ y <= now + Period
      BY <1>1, <2>2, Ranges DEF Least
    <3> HIDE DEF y
    <3>3. Spent(counted, Lifts, now + Period, 0)
      BY <1>1, <3>1, <3>2, SpentMore
    <3> QED
      BY <1>1, <3>3, SpentLift
  <2>3. CASE track = NoTrack /\ block = NoBlock
    <3>1. Spent(counted, Lifts, now, 0)
      BY <2>3 DEF SpendInv, NothingCounted
    <3> QED
      BY <1>1, <3>1, SpentMore
  <2> QED
    BY <2>1, <2>2, <2>3
<1> QED
  BY <1>1, <1>2, <1>3 DEF SpendInv, NothingCounted, RowCounted, BlockPaid, BlockAfterRow, Spent

\* The alarm prunes only rows that have ended, which are paid for by now.
LEMMA SpendAlarm ==
    ASSUME TypeOK, SpendInv, Alarm
    PROVE  SpendInv'
<1> USE PeriodBounds, GuardRuleAssumption
<1>1. /\ now \in Nat /\ counted \in Int /\ Lifts \in Nat
      /\ counted' = counted /\ now' = now /\ Lifts' = Lifts
      /\ track' = track \/ (track' = NoTrack /\ track # NoTrack /\ Ends(track) <= now)
      /\ block' = block \/ (block' = NoBlock /\ block # NoBlock /\ block.until <= now)
      /\ block' # NoBlock => block' = block /\ block.until > now
  BY Ranges DEF Alarm, Lifts, history
<1>2. RowCounted'
  BY <1>1 DEF SpendInv, RowCounted, Spent
<1>3. BlockAfterRow'
  BY <1>1 DEF SpendInv, BlockAfterRow
<1>4. NothingCounted'
  <2> SUFFICES ASSUME track' = NoTrack, block' = NoBlock PROVE Spent(counted, Lifts, now, 0)
    BY <1>1 DEF NothingCounted, Spent
  <2>1. ~Blocked
    <3>1. CASE block = NoBlock
      BY <1>1, <3>1 DEF Blocked, NoBlock
    <3>2. CASE block # NoBlock
      BY <1>1, <3>2, Ranges DEF Blocked
    <3> QED
      BY <3>1, <3>2
  <2>2. track = NoTrack \/ Ends(track) <= now
    BY <1>1
  <2> QED
    BY <2>1, <2>2, PaidByNow
<1>5. BlockPaid'
  <2> DEFINE y == Least(block.until, block.since + Period)
  <2> SUFFICES ASSUME track' = NoTrack, block' # NoBlock PROVE Spent(counted, Lifts, y, 0)
    BY <1>1 DEF BlockPaid, Spent
  <2>1. block # NoBlock /\ block.until > now /\ block.until \in Nat /\ block.since \in Nat
    BY <1>1, Ranges
  <2>2. CASE track = NoTrack
    BY <2>1, <2>2 DEF SpendInv, BlockPaid
  <2>3. CASE track # NoTrack
    <3>1. /\ track.start \in Nat /\ track.count \in Nat /\ track.count <= Max
          /\ track.start <= now /\ track.start + WindowSec <= now
      BY <1>1, <2>3, Ranges DEF Ends
    <3>2. track.start <= block.since
      <4>1. track.start <= block.since \/ block.until <= track.start
        BY <2>1, <2>3 DEF SpendInv, BlockAfterRow
      <4> QED
        BY <1>1, <2>1, <3>1, <4>1
    <3>3. y \in Int /\ track.start + Period <= y
      BY <1>1, <2>1, <3>1, <3>2 DEF Least
    <3>4. Spent(counted, Lifts, track.start, track.count)
      BY <2>3 DEF SpendInv, RowCounted
    <3>5. Spent(counted, Lifts, track.start + Period, 0)
      BY <1>1, <3>1, <3>4, SpentFull
    <3> HIDE DEF y
    <3> QED
      BY <1>1, <3>1, <3>3, <3>5, SpentMore
  <2> QED
    BY <2>2, <2>3
<1> QED
  BY <1>2, <1>3, <1>4, <1>5 DEF SpendInv

\* Steps that touch neither the rows nor the counts, at any later time.
LEMMA SpendIdle ==
    ASSUME TypeOK, SpendInv, now' \in Nat, now <= now', UNCHANGED <<rows, counted, lifts, pardons>>
    PROVE  SpendInv'
<1>1. /\ track' = track /\ block' = block /\ counted' = counted /\ Lifts' = Lifts
  BY DEF rows, Lifts
<1>2. NothingCounted'
  <2> SUFFICES ASSUME track = NoTrack, block = NoBlock PROVE Spent(counted, Lifts, now', 0)
    BY <1>1 DEF NothingCounted, Spent
  <2> QED
    BY Ranges, SpentMore DEF SpendInv, NothingCounted
<1> QED
  BY <1>1, <1>2 DEF SpendInv, RowCounted, BlockPaid, BlockAfterRow, Spent

-----------------------------------------------------------------------------
LEMMA IInvStep == IInv /\ [Next]_vars => IInv'
<1> SUFFICES ASSUME IInv, [Next]_vars PROVE IInv'
  OBVIOUS
<1> USE DEF IInv
<1>0. TypeOK' /\ AlarmCovers'
  BY TypeStep
<1>1. now \in Nat
  BY DEF TypeOK
<1>2. ASSUME NEW r \in Reqs, Attempt(r) PROVE SpendInv'
  BY <1>2, SpendCount DEF Attempt
<1>3. ASSUME NEW r \in Reqs, Wrong(r) \/ CutOff(r) PROVE SpendInv'
  BY <1>1, <1>3, SpendIdle DEF Wrong, CutOff
<1>4. ASSUME NEW r \in Reqs, GiveBack(r) PROVE SpendInv'
  BY <1>4, SpendGiveBack
<1>5. ASSUME StepUpFails PROVE SpendInv'
  BY <1>5, SpendCount DEF StepUpFails
<1>6. ASSUME NEW sec \in OwnerSecs, OwnerBlocks(sec) PROVE SpendInv'
  BY <1>6, SpendOwnerBlocks
<1>7. ASSUME OwnerUnblocks PROVE SpendInv'
  BY <1>7, SpendOwnerUnblocks
<1>8. ASSUME Alarm PROVE SpendInv'
  BY <1>8, SpendAlarm
<1>9. ASSUME Tick PROVE SpendInv'
  BY <1>1, <1>9, SpendIdle DEF Tick, history
<1>10. ASSUME UNCHANGED vars PROVE SpendInv'
  BY <1>1, <1>10, SpendIdle DEF vars, history
<1> QED
  BY <1>0, <1>2, <1>3, <1>4, <1>5, <1>6, <1>7, <1>8, <1>9, <1>10 DEF Next

\* The balance bounds what is counted: a row holds no more than the limit, and
\* it opened, or the block began, no later than now.
LEMMA IInvBounds == IInv => CountedBounded
<1> SUFFICES ASSUME IInv PROVE CountedBounded
  OBVIOUS
<1> USE PeriodBounds, GuardRuleAssumption DEF IInv
<1>1. now \in Nat /\ counted \in Int /\ Lifts \in Nat
  BY Ranges
<1>2. Spent(counted, Lifts, now + Period, 0)
  <2>1. CASE track # NoTrack
    <3>1. Spent(counted, Lifts, track.start, track.count)
      BY <2>1 DEF SpendInv, RowCounted
    <3>2. Spent(counted, Lifts, track.start + Period, 0)
      BY <1>1, <2>1, <3>1, Ranges, SpentFull
    <3>3. track.start \in Nat /\ track.start <= now
      BY <2>1, Ranges
    <3> QED
      BY <1>1, <3>2, <3>3, SpentMore
  <2>2. CASE track = NoTrack /\ block # NoBlock
    <3> DEFINE y == Least(block.until, block.since + Period)
    <3>1. Spent(counted, Lifts, y, 0)
      BY <2>2 DEF SpendInv, BlockPaid
    <3>2. y \in Int /\ y <= now + Period
      BY <1>1, <2>2, Ranges DEF Least
    <3> HIDE DEF y
    <3> QED
      BY <1>1, <3>1, <3>2, SpentMore
  <2>3. CASE track = NoTrack /\ block = NoBlock
    <3>1. Spent(counted, Lifts, now, 0)
      BY <2>3 DEF SpendInv, NothingCounted
    <3> QED
      BY <1>1, <3>1, SpentMore
  <2> QED
    BY <2>1, <2>2, <2>3
<1>3. (now + Period) + Period * Lifts = now + Period * (1 + lifts + pardons)
  <2>1. Period * (Lifts + 1) = Period * Lifts + Period /\ Period * Lifts \in Nat
    BY <1>1, Scale
  <2>2. 1 + lifts + pardons = Lifts + 1
    BY DEF Lifts, TypeOK
  <2>3. (now + Period) + Period * Lifts = now + Period * (Lifts + 1)
    BY <1>1, <2>1
  <2> QED
    BY <2>2, <2>3
<1>4. Max * (now + Period * (1 + lifts + pardons)) \in Int /\ 0 * Period = 0
  <2>1. Period * (1 + lifts + pardons) \in Int
    BY DEF TypeOK
  <2> QED
    BY <1>1, <2>1
<1> QED
  BY <1>2, <1>3, <1>4 DEF Spent, CountedBounded

LEMMA GuardInvariant == Spec => []IInv
<1>1. Init => IInv
  BY IInvInit
<1>2. IInv /\ [Next]_vars => IInv'
  BY IInvStep
<1> QED
  BY <1>1, <1>2, PTL DEF Spec

\* For every rule the rows are well-formed and no row that counts has reached
\* the limit.
THEOREM GuardTypeOK == Spec => []TypeOK
<1>1. IInv => TypeOK
  BY DEF IInv
<1> QED
  BY <1>1, GuardInvariant, PTL

\* For every rule, what a network's attempts leave counted is bounded by the
\* time gone by and by the blocks lifted (Guard.attempt, Guard.refund).
THEOREM GuardCountedBounded == Spec => []CountedBounded
<1>1. IInv => CountedBounded
  BY IInvBounds
<1> QED
  BY <1>1, GuardInvariant, PTL

\* No row is ever left without an alarm in time (Guard.#schedule, Guard.alarm).
THEOREM GuardAlarmCovers == Spec => []AlarmCovers
<1>1. IInv => AlarmCovers
  BY DEF IInv
<1> QED
  BY <1>1, GuardInvariant, PTL

-----------------------------------------------------------------------------
\* The attempts whose failure is counted in the row.
CountedReqs == {r \in Reqs : reqs[r] = "counted"}

\* As long as no attempt was wrong or cut off, what the row counts is under way,
\* and so is the attempt that made the block.
HonestInv ==
    wrong + others = 0 =>
        /\ IsFiniteSet(CountedReqs)
        /\ track.count <= Cardinality(CountedReqs)
        /\ Blocked => block.by = None \/ (block.by \in Reqs /\ reqs[block.by] = "last")

\* Counts add up to nothing only when both are nothing.
LEMMA NoneOfEither ==
    ASSUME NEW m \in Nat, NEW n \in Nat, m + n = 0
    PROVE  m = 0 /\ n = 0
  OBVIOUS

LEMMA HonestInvInit == Init => HonestInv
<1> SUFFICES ASSUME Init PROVE HonestInv
  OBVIOUS
<1>1. CountedReqs = {}
  BY DEF Init, CountedReqs
<1>2. track.count = 0 /\ ~Blocked
  BY DEF Init, NoTrack, NoBlock, Blocked
<1> QED
  BY <1>1, <1>2, FS_EmptySet DEF HonestInv

\* A row of a failure more is the row's, or a new one's.
LEMMA CountedMore ==
    ASSUME TypeOK
    PROVE  track.count \in Nat /\ Counted.count <= track.count + 1
<1>1. track.count \in Nat /\ Counted.count \in {track.count + 1, 1}
  BY GuardRuleAssumption DEF TypeOK, Counted, NoTrack
<1> QED
  BY <1>1

\* Every step keeps what is counted under way, while nothing fails.
LEMMA HonestStep == TypeOK /\ TypeOK' /\ HonestInv /\ [Next]_vars => HonestInv'
<1> SUFFICES ASSUME TypeOK, TypeOK', HonestInv, [Next]_vars, wrong' + others' = 0
             PROVE  HonestInv'
  BY DEF HonestInv
<1> USE GuardRuleAssumption
<1>1. wrong \in Nat /\ others \in Nat /\ wrong' = 0 /\ others' = 0
  <2>1. wrong \in Nat /\ others \in Nat
    BY DEF TypeOK
  <2>2. wrong' \in Nat /\ others' \in Nat
    BY DEF TypeOK
  <2> QED
    BY <2>1, <2>2, NoneOfEither
<1>2. track.count \in Nat /\ track'.count \in Nat
  BY DEF TypeOK, NoTrack
<1> DEFINE C == CountedReqs
           Made(b) == b.by = None \/ (b.by \in Reqs /\ reqs[b.by] = "last")
<1>3. ASSUME wrong = 0, others = 0
      PROVE  IsFiniteSet(C) /\ track.count <= Cardinality(C) /\ Cardinality(C) \in Nat
             /\ (Blocked => Made(block))
  <2>1. wrong + others = 0
    BY <1>3
  <2> QED
    BY <2>1, FS_CardinalityType DEF HonestInv
\* Steps that leave the requests and add nothing to the rows but the owner's.
<1>4. ASSUME wrong = 0, others = 0, reqs' = reqs, track'.count <= track.count,
             Blocked' => (Blocked /\ block'.by = block.by) \/ block'.by = None
      PROVE  HonestInv'
  <2>1. C' = C
    BY <1>4 DEF CountedReqs
  <2>2. Blocked' => block'.by = None \/ (block'.by \in Reqs /\ reqs'[block'.by] = "last")
    BY <1>3, <1>4
  <2>3. IsFiniteSet(C) /\ track'.count <= Cardinality(C)
    BY <1>2, <1>3, <1>4
  <2> QED
    BY <2>1, <2>2, <2>3 DEF HonestInv
<1>5. ASSUME NEW r \in Reqs, Attempt(r) PROVE HonestInv'
  <2>1. /\ wrong = 0 /\ others = 0 /\ reqs[r] = "idle" /\ ~Blocked /\ Count(r) /\ now' = now
        /\ reqs' = [reqs EXCEPT ![r] = IF Reaches(Counted) THEN "last" ELSE "counted"]
        /\ reqs \in [Reqs -> {"idle", "counted", "last"}]
    BY <1>1, <1>5 DEF Attempt, Count, Admitted, TypeOK
  <2>2. CASE Reaches(Counted)
    <3>1. reqs'[r] = "last" /\ C' = C
      BY <2>1, <2>2 DEF CountedReqs
    <3>2. track' = NoTrack /\ block'.by = r
      BY <2>1, <2>2 DEF Count
    <3>3. track'.count <= Cardinality(C)
      BY <1>3, <2>1, <3>2 DEF NoTrack
    <3> QED
      BY <1>3, <2>1, <3>1, <3>2, <3>3 DEF HonestInv
  <2>3. CASE ~Reaches(Counted)
    <3>1. reqs'[r] = "counted" /\ C' = C \cup {r} /\ r \notin C
      BY <2>1, <2>3 DEF CountedReqs
    <3>2. track' = Counted /\ block' = block
      BY <2>1, <2>3 DEF Count
    <3>3. ~Blocked'
      BY <2>1, <3>2 DEF Blocked
    <3>4. IsFiniteSet(C') /\ Cardinality(C') = Cardinality(C) + 1
      BY <1>3, <2>1, <3>1, FS_AddElement
    <3>5. track'.count <= Cardinality(C')
      <4>1. track'.count <= track.count + 1
        BY <3>2, CountedMore
      <4> QED
        BY <1>2, <1>3, <2>1, <3>4, <4>1
    <3> QED
      BY <3>3, <3>4, <3>5 DEF HonestInv
  <2> QED
    BY <2>2, <2>3
<1>6. ASSUME NEW r \in Reqs, GiveBack(r) PROVE HonestInv'
  <2>1. /\ wrong = 0 /\ others = 0 /\ reqs[r] # "idle" /\ Returned(r) /\ now' = now
        /\ reqs' = [reqs EXCEPT ![r] = "idle"]
        /\ reqs \in [Reqs -> {"idle", "counted", "last"}]
    BY <1>1, <1>6 DEF GiveBack, TypeOK
  <2>2. CASE reqs[r] = "last"
    <3>1. C' = C /\ block' = NoBlock /\ track' = track
      BY <2>1, <2>2 DEF CountedReqs, Returned
    <3>2. ~Blocked'
      <4>1. now \in Nat
        BY DEF TypeOK
      <4> QED
        BY <2>1, <3>1, <4>1 DEF Blocked, NoBlock
    <3> QED
      BY <1>3, <2>1, <3>1, <3>2 DEF HonestInv
  <2>3. CASE reqs[r] = "counted"
    <3>1. C' = C \ {r} /\ r \in C /\ block' = block
      BY <2>1, <2>3 DEF CountedReqs, Returned
    <3>2. IsFiniteSet(C') /\ Cardinality(C') = Cardinality(C) - 1
      BY <1>3, <2>1, <3>1, FS_RemoveElement
    <3>3. IF track.count > 0 THEN track'.count = track.count - 1 ELSE track'.count = track.count
      <4>1. track # NoTrack => track \in [count : 0 .. Max - 1, start : 0 .. now]
        BY DEF TypeOK
      <4> QED
        BY <2>1, <2>3, <4>1 DEF Returned, NoTrack
    <3>4. track'.count <= Cardinality(C')
      <4>1. Cardinality(C) - 1 \in Nat
        BY <1>3, <2>1, <3>1, FS_CardinalityType, <3>2
      <4> QED
        BY <1>2, <1>3, <2>1, <3>2, <3>3, <4>1
    <3>5. Blocked' => block'.by = None \/ (block'.by \in Reqs /\ reqs'[block'.by] = "last")
      <4>1. Blocked' => Blocked
        BY <2>1, <3>1 DEF Blocked
      <4>2. Blocked => Made(block)
        BY <1>3, <2>1
      <4>3. \A q \in Reqs : reqs[q] = "last" => reqs'[q] = "last"
        BY <2>1, <2>3
      <4> QED
        BY <3>1, <4>1, <4>2, <4>3
    <3> QED
      BY <3>2, <3>4, <3>5 DEF HonestInv
  <2> QED
    BY <2>1, <2>2, <2>3
<1>7. ASSUME NEW r \in Reqs, Wrong(r) PROVE HonestInv'
  BY <1>1, <1>7 DEF Wrong
<1>8. ASSUME NEW r \in Reqs, CutOff(r) PROVE HonestInv'
  BY <1>1, <1>8 DEF CutOff
<1>9. ASSUME StepUpFails PROVE HonestInv'
  BY <1>1, <1>9 DEF StepUpFails
<1>10. ASSUME NEW sec \in OwnerSecs, OwnerBlocks(sec) PROVE HonestInv'
  <2>1. wrong = 0 /\ others = 0 /\ reqs' = reqs /\ track' = track /\ block'.by = None
    BY <1>1, <1>10 DEF OwnerBlocks
  <2> QED
    BY <1>2, <1>4, <2>1
<1>11. ASSUME OwnerUnblocks PROVE HonestInv'
  <2>1. wrong = 0 /\ others = 0 /\ reqs' = reqs /\ track'.count = 0 /\ block'.by = None
    BY <1>1, <1>11 DEF OwnerUnblocks, NoTrack, NoBlock
  <2> QED
    BY <1>2, <1>4, <2>1
<1>12. ASSUME Alarm PROVE HonestInv'
  <2>1. wrong = 0 /\ others = 0 /\ reqs' = reqs /\ now' = now
    BY <1>1, <1>12 DEF Alarm, history
  <2>2. track'.count = track.count \/ track'.count = 0
    BY <1>12 DEF Alarm, NoTrack
  <2>3. block' = block \/ block'.by = None
    BY <1>12 DEF Alarm, NoBlock
  <2> QED
    BY <1>2, <1>4, <2>1, <2>2, <2>3 DEF Blocked
<1>13. ASSUME Tick PROVE HonestInv'
  <2>1. /\ wrong = 0 /\ others = 0 /\ reqs' = reqs /\ track' = track /\ block' = block
        /\ now \in Nat /\ now' = now + 1
    BY <1>1, <1>13 DEF Tick, rows, history, TypeOK
  <2>2. Blocked' => Blocked
    <3>1. block.until \in Int
      BY DEF TypeOK, NoBlock
    <3> QED
      BY <2>1, <3>1 DEF Blocked
  <2> QED
    BY <1>2, <1>4, <2>1, <2>2
<1>14. ASSUME UNCHANGED vars PROVE HonestInv'
  BY <1>1, <1>2, <1>4, <1>14 DEF vars, rows, history, Blocked
<1> QED
  BY <1>5, <1>6, <1>7, <1>8, <1>9, <1>10, <1>11, <1>12, <1>13, <1>14 DEF Next

\* People who only ever sign in are not shut out, whatever the rule, however
\* many they are and whatever the owner and the alarm do meanwhile
\* (Guard.refund): once none of their attempts is under way nothing is counted
\* and no block is theirs.
THEOREM GuardHonestNotShut == Spec => []HonestNotShut
<1>1. Init => HonestInv
  BY HonestInvInit
<1>2. TypeOK /\ TypeOK' /\ HonestInv /\ [Next]_vars => HonestInv'
  BY HonestStep
<1>3. TypeOK /\ HonestInv => HonestNotShut
  <2> SUFFICES ASSUME TypeOK, HonestInv, wrong + others = 0, \A r \in Reqs : reqs[r] = "idle"
               PROVE  track.count = 0 /\ (Blocked => block.by = None)
    BY DEF HonestNotShut
  <2>1. CountedReqs = {}
    BY DEF CountedReqs
  <2>2. track.count \in Nat /\ track.count <= 0
    BY <2>1, FS_EmptySet, GuardRuleAssumption DEF HonestInv, TypeOK, NoTrack
  <2> QED
    BY <2>2 DEF HonestInv
<1> QED
  BY <1>1, <1>2, <1>3, GuardTypeOK, PTL DEF Spec
=============================================================================
