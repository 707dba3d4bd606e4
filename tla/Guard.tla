------------------------------- MODULE Guard -------------------------------
(***************************************************************************)
(* The Guard object's rows for one network and one scope of attempts       *)
(* (`login`, `setup`): guard-do.js, with the Worker's requests that count   *)
(* an attempt before the Directory is asked and give its count back when   *)
(* it did not fail (lib/guard.js, routes/auth.js).                         *)
(*                                                                         *)
(* An attempt is counted in one call, answered by the Directory in another *)
(* and given back in a third; other requests, the owner and the alarm run  *)
(* between them.  Rows from before the tags, the address kept for the      *)
(* owner and the other scopes that may refuse an attempt are left out.     *)
(***************************************************************************)
EXTENDS Integers

CONSTANTS
    Reqs,       \* requests of the network that may be under way at once
    None,       \* no request: a block made by the owner or a failed step-up
    Max,        \* guard.<scope>.max
    WindowSec,  \* guard.<scope>.windowSec
    BlockSec,   \* guard.<scope>.blockSec
    OwnerSecs,  \* how long the owner blocks for
    MaxTime,    \* bound on the clock
    MaxFaults,  \* bound on failed and cut-off attempts
    MaxLifts    \* bound on the owner's decisions, and on blocks attempts lift

ASSUME GuardRuleAssumption ==
    /\ Max \in Nat \ {0} /\ WindowSec \in Nat \ {0} /\ BlockSec \in Nat \ {0}
    /\ OwnerSecs \subseteq Nat \ {0}
    /\ MaxTime \in Nat /\ MaxFaults \in Nat /\ MaxLifts \in Nat
    /\ None \notin Reqs

NoTrack == [count |-> 0, start |-> -1]
NoBlock == [until |-> -1, since |-> -1, by |-> None]
NoAlarm == -1

VARIABLES
    now,     \* the clock, unix seconds
    track,   \* the tracking row (its expiry is start + WindowSec)
    block,   \* the block row; `by`: history, the attempt that made it
    alarm,   \* when the object's alarm is due
    reqs,    \* requests: no attempt under way, counted, or counted as the last
    counted, \* history: failures counted and not given back
    wrong,   \* history: wrong attempts evaluated
    others,  \* history: attempts cut off before their answer, failed step-ups
    lifts,   \* history: blocks lifted by an attempt that did not fail
    pardons  \* history: blocks lifted or shortened, counts forgotten by the owner

rows == <<track, block, alarm>>
history == <<counted, wrong, others, lifts, pardons>>
vars == <<now, rows, reqs, history>>

Init ==
    /\ now = 0
    /\ track = NoTrack
    /\ block = NoBlock
    /\ alarm = NoAlarm
    /\ reqs = [r \in Reqs |-> "idle"]
    /\ counted = 0 /\ wrong = 0 /\ others = 0 /\ lifts = 0 /\ pardons = 0

-----------------------------------------------------------------------------
Blocked == block.until > now
Ends(row) == row.start + WindowSec

\* The block is asked for in an earlier call, which this one does not repeat.
AdmittedUnasked == TRUE

\* An attempt is refused, and not counted, while the network is blocked.
Admitted == ~Blocked

\* The alarm is set only when there is none.
ScheduledOnce(t) == IF alarm = NoAlarm THEN t + 1 ELSE alarm

\* The alarm a row that ends at `t` needs: it is only ever moved earlier.
Scheduled(t) == IF alarm = NoAlarm \/ alarm > t + 1 THEN t + 1 ELSE alarm

\* The row after one more failure: it counts on only inside its window.
Counted ==
    IF track # NoTrack /\ now < Ends(track)
    THEN [track EXCEPT !.count = @ + 1]
    ELSE [count |-> 1, start |-> now]

Reaches(row) == row.count >= Max

\* One failure counted by `by`; the one that reaches the limit blocks instead.
Count(by) ==
    /\ Admitted
    /\ counted' = counted + 1
    /\ IF Reaches(Counted)
       THEN /\ block' = [until |-> now + BlockSec, since |-> now, by |-> by]
            /\ track' = NoTrack
            /\ alarm' = Scheduled(now + BlockSec)
       ELSE /\ track' = Counted
            /\ alarm' = Scheduled(Ends(Counted))
            /\ UNCHANGED block

Attempt(r) ==
    /\ reqs[r] = "idle"
    /\ Count(r)
    /\ reqs' = [reqs EXCEPT ![r] = IF Reaches(Counted) THEN "last" ELSE "counted"]
    /\ UNCHANGED <<now, wrong, others, lifts, pardons>>

\* The Directory answers 401: the count stays.
Wrong(r) ==
    /\ reqs[r] # "idle"
    /\ wrong + others < MaxFaults
    /\ reqs' = [reqs EXCEPT ![r] = "idle"]
    /\ wrong' = wrong + 1
    /\ UNCHANGED <<now, rows, counted, others, lifts, pardons>>

\* The rows after an attempt gives its count back: the last one lifts the block.
Returned(r) ==
    /\ block' = IF reqs[r] = "last" THEN NoBlock ELSE block
    /\ track' = IF reqs[r] = "counted" /\ track.count > 0
                THEN [track EXCEPT !.count = @ - 1]
                ELSE track

\* Any other answer, or an error thrown on the way to one: the count goes back.
GiveBack(r) ==
    /\ reqs[r] # "idle"
    /\ reqs[r] = "last" => lifts < MaxLifts
    /\ Returned(r)
    /\ reqs' = [reqs EXCEPT ![r] = "idle"]
    /\ counted' = counted - 1
    /\ lifts' = IF reqs[r] = "last" THEN lifts + 1 ELSE lifts
    /\ UNCHANGED <<now, alarm, wrong, others, pardons>>

\* The request ends before it could give anything back.
CutOff(r) ==
    /\ reqs[r] # "idle"
    /\ wrong + others < MaxFaults
    /\ reqs' = [reqs EXCEPT ![r] = "idle"]
    /\ others' = others + 1
    /\ UNCHANGED <<now, rows, counted, wrong, lifts, pardons>>

\* A failed step-up of a signed-in user counts after its answer.
StepUpFails ==
    /\ wrong + others < MaxFaults
    /\ Count(None)
    /\ others' = others + 1
    /\ UNCHANGED <<now, reqs, wrong, lifts, pardons>>

\* The owner blocks the network, over a block that may run already.
OwnerBlocks(sec) ==
    /\ pardons < MaxLifts
    /\ block' = [until |-> now + sec, since |-> now, by |-> None]
    /\ alarm' = Scheduled(now + sec)
    /\ pardons' = IF now + sec < block.until THEN pardons + 1 ELSE pardons
    /\ UNCHANGED <<now, track, reqs, counted, wrong, others, lifts>>

OwnerUnblocks ==
    /\ pardons < MaxLifts
    /\ block' = NoBlock
    /\ track' = NoTrack
    /\ pardons' = pardons + 1
    /\ UNCHANGED <<now, alarm, reqs, counted, wrong, others, lifts>>

\* The handler does not set it again.
NextAlarmNone(t, b) == NoAlarm

\* The alarm the handler sets again for the rows it leaves.
NextAlarm(t, b) ==
    IF t # NoTrack /\ (b = NoBlock \/ Ends(t) < b.until) THEN Ends(t) + 1
    ELSE IF b # NoBlock THEN b.until + 1
    ELSE NoAlarm

Alarm ==
    /\ alarm # NoAlarm /\ alarm <= now
    /\ track' = IF track # NoTrack /\ Ends(track) <= now THEN NoTrack ELSE track
    /\ block' = IF block # NoBlock /\ block.until <= now THEN NoBlock ELSE block
    /\ alarm' = NextAlarm(track', block')
    /\ UNCHANGED <<now, reqs, history>>

Tick ==
    /\ now < MaxTime
    /\ now' = now + 1
    /\ UNCHANGED <<rows, reqs, history>>

Next ==
    \/ \E r \in Reqs : Attempt(r) \/ Wrong(r) \/ GiveBack(r) \/ CutOff(r)
    \/ StepUpFails
    \/ \E sec \in OwnerSecs : OwnerBlocks(sec)
    \/ OwnerUnblocks
    \/ Alarm
    \/ Tick

Spec == Init /\ [][Next]_vars /\ WF_vars(Alarm)

-----------------------------------------------------------------------------
\* The rows are well-formed, and a row that counts has not reached the limit:
\* the failure that reaches it takes the row away and blocks.
TypeOK ==
    /\ now \in Nat
    /\ \/ track = NoTrack
       \/ track \in [count : 0 .. Max - 1, start : 0 .. now]
    /\ \/ block = NoBlock
       \/ /\ block \in [until : Nat, since : 0 .. now, by : Reqs \cup {None}]
          /\ block.since < block.until
    /\ alarm \in Nat \cup {NoAlarm}
    /\ reqs \in [Reqs -> {"idle", "counted", "last"}]
    /\ counted \in Int /\ wrong \in Nat /\ others \in Nat /\ lifts \in Nat
    /\ pardons \in Nat

Least(a, b) == IF a < b THEN a ELSE b

\* The shortest time in which the limit can be used up again.
Period == Least(WindowSec, BlockSec)

\* What the network is answered wrongly is bounded in time, however its
\* requests overlap, are given back or are cut off (Guard.attempt): the limit
\* for every Period gone by and once more, and once more for each block lifted
\* or count forgotten.
CountedBounded == counted * Period <= Max * (now + Period * (1 + lifts + pardons))

\* People who only ever sign in are not shut out (Guard.refund: an attempt that
\* did not fail gives its count back and lifts the block it made): once none of
\* their attempts is under way nothing is counted and none of them blocks.
HonestNotShut ==
    wrong + others = 0 /\ (\A r \in Reqs : reqs[r] = "idle") =>
        track.count = 0 /\ (Blocked => block.by = None)

\* A row is never left behind: while there is one, the object's one alarm comes
\* no later than a second after the row ends (Guard.#schedule, Guard.alarm).
AlarmCovers ==
    /\ track # NoTrack => alarm # NoAlarm /\ alarm <= Ends(track) + 1
    /\ block # NoBlock => alarm # NoAlarm /\ alarm <= block.until + 1

\* Rows expire by themselves (the header of guard-do.js): one that has ended is
\* pruned, or counted afresh.  Again and again there is none.
RowsPruned ==
    /\ track # NoTrack => Ends(track) >= now
    /\ block # NoBlock => block.until >= now

\* Guard.attempt: exactly `max` attempts are evaluated per window.  So within
\* the first window, unless the owner lets the network try again, no more than
\* `max` wrong ones are.
MaxPerWindow == now < WindowSec /\ pardons = 0 => wrong <= Max

=============================================================================
