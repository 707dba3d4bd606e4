------------------------------ MODULE GuardTags ------------------------------
(***************************************************************************)
(* The rows of one network and scope from before the Guard's tags: kept by *)
(* the address in one shard, they are moved by the Directory's pass to the *)
(* tag's row in another while requests count on, look for both, and        *)
(* isolates of the release before still write the old ones                 *)
(* (src/src/guard-do.js legacyCheck ... apply, src/src/directory-do.js     *)
(* #guardPass, src/src/lib/guard.js).  A call to a shard is one action.    *)
(* Windows and blocks last longer than all of this.                        *)
(***************************************************************************)
EXTENDS Integers, Functions

CONSTANTS
    Reqs,       \* requests of the network
    Max,        \* guard.<scope>.max
    Plans       \* what is tried together, chosen at the start

TagsAssumption == Max \in Nat \ {0}

\* A plan: failures counted before, whether the network is blocked by them, what its requests ask, how
\* often isolates of the release before count a failure, how often the Directory or a Worker dies.
Plan == [failed : 0 .. Max, ask : SUBSET {"attempt", "check"}, writes : 0 .. 2, deaths : 0 .. 2]
PlansAssumption == Plans \subseteq Plan

VARIABLES
    plan,
    old,        \* the row by the address: its count, whether it blocks; meta "legacy.done"
    new,        \* the row by the tag
    knows,      \* legacyDoneShards of the isolate: the shard of the address is done
    req,        \* the requests
    pass,       \* the Directory's pass: where it is, the block it found, the count it took
    tries,      \* history: attempts evaluated, those from before among them
    barred,     \* history: the network was blocked, by the tag or from the start
    writes, deaths

vars == <<plan, old, new, knows, req, pass, tries, barred, writes, deaths>>
Idle == [at |-> "idle", must |-> FALSE, carry |-> 0, said |-> {}]
Rest == [at |-> "rest", block |-> FALSE, count |-> 0]

Init ==
    /\ plan \in Plans /\ writes = plan.writes /\ deaths = plan.deaths /\ tries = plan.failed /\ barred = (plan.failed = Max)
    /\ old = [count |-> IF plan.failed < Max THEN plan.failed ELSE 0, block |-> plan.failed = Max, done |-> FALSE]
    /\ new = [count |-> 0, block |-> FALSE]
    /\ knows = FALSE /\ req = [r \in Reqs |-> Idle] /\ pass = Rest

OldRow == old.count > 0 \/ old.block
\* One more failure in a row; the one that reaches the limit blocks.
After(row, n) == IF n >= Max THEN [row EXCEPT !.count = 0, !.block = TRUE] ELSE [row EXCEPT !.count = n]

(***************************************************************************)
(* Requests                                                                *)
(***************************************************************************)
Is(r, at) == req[r].at = at
To(r, at) == req' = [req EXCEPT ![r].at = at]
\* The network was blocked as the request begins, where this isolate may know of it.
Runs == barred \/ (old.block /\ ~knows)

\* legacy(): the isolate looks the address up unless it knows the shard is done; failOnTag takes the
\* count there is with it.
Learns == knows' = (knows \/ old.done)
RefusedBefore == old.block
Attempt(r) ==
    /\ "attempt" \in plan.ask /\ Is(r, "idle")
    /\ IF knows \/ old.done THEN req' = [req EXCEPT ![r] = [Idle EXCEPT !.at = "count", !.must = Runs]] /\ UNCHANGED old
       ELSE IF RefusedBefore THEN UNCHANGED <<req, old>>
       ELSE req' = [req EXCEPT ![r] = [Idle EXCEPT !.at = "count", !.must = Runs, !.carry = old.count]] /\ old' = [old EXCEPT !.count = 0]
    /\ Learns /\ UNCHANGED <<plan, new, pass, tries, barred, writes, deaths>>
\* Guard.attempt on the tag: refused while it is blocked, else counted and let through.
CountOnTag(r) ==
    /\ Is(r, "count") /\ (IF new.block THEN To(r, "refused") ELSE To(r, "in"))
    /\ IF new.block THEN UNCHANGED <<new, tries, barred>>
       ELSE new' = After(new, new.count + req[r].carry + 1) /\ tries' = tries + 1 /\ barred' = (barred \/ new'.block)
    /\ UNCHANGED <<plan, old, knows, pass, writes, deaths>>

\* isBlocked asks both shards at once: they answer in either order.
Check(r) ==
    /\ "check" \in plan.ask /\ Is(r, "idle") /\ req' = [req EXCEPT ![r] = [Idle EXCEPT !.at = "ask", !.must = Runs]]
    /\ UNCHANGED <<plan, old, new, knows, pass, tries, barred, writes, deaths>>
AskNew(r) ==
    /\ Is(r, "ask") /\ "new" \notin req[r].said
    /\ IF new.block THEN To(r, "refused") ELSE req' = [req EXCEPT ![r].said = @ \cup {"new"}]
    /\ UNCHANGED <<plan, old, new, knows, pass, tries, barred, writes, deaths>>
AskOld(r) ==
    /\ Is(r, "ask") /\ "old" \notin req[r].said
    /\ IF ~knows /\ ~old.done /\ old.block THEN To(r, "refused") ELSE req' = [req EXCEPT ![r].said = @ \cup {"old"}]
    /\ Learns /\ UNCHANGED <<plan, old, new, pass, tries, barred, writes, deaths>>
Answered(r) ==
    /\ Is(r, "ask") /\ req[r].said = {"new", "old"} /\ To(r, "in")
    /\ UNCHANGED <<plan, old, new, knows, pass, tries, barred, writes, deaths>>
Over(r) ==
    /\ req[r].at \in {"in", "refused"} /\ req' = [req EXCEPT ![r] = Idle]
    /\ UNCHANGED <<plan, old, new, knows, pass, tries, barred, writes, deaths>>

\* An isolate of the release before counts a failure by the address: the shard is not done any more.
WriteOld ==
    /\ writes > 0 /\ writes' = writes - 1 /\ ~old.block
    /\ old' = [After(old, old.count + 1) EXCEPT !.done = FALSE] /\ tries' = tries + 1
    /\ UNCHANGED <<plan, new, knows, req, pass, barred, deaths>>

\* CACHE_MS goes by.
Forget ==
    /\ knows /\ knows' = FALSE
    /\ UNCHANGED <<plan, old, new, req, pass, tries, barred, writes, deaths>>

(***************************************************************************)
(* The pass                                                                *)
(***************************************************************************)
\* The Guard's rows the pass has work for.
Pending ==
    /\ pass.at = "rest"
    /\ IF OldRow THEN pass' = [at |-> "take", block |-> old.block, count |-> 0] ELSE ~old.done /\ pass' = [Rest EXCEPT !.at = "mark"]
    /\ UNCHANGED <<plan, old, new, knows, req, tries, barred, writes, deaths>>
\* takeLegacy: the count is read and deleted in one transaction.
CopyOnly == old
Taken == [old EXCEPT !.count = 0]
Take ==
    /\ pass.at = "take" /\ pass' = [pass EXCEPT !.at = "adopt", !.count = old.count] /\ old' = Taken
    /\ UNCHANGED <<plan, new, knows, req, tries, barred, writes, deaths>>
Adopted == [count |-> new.count + pass.count, block |-> new.block \/ pass.block]
Adopt ==
    /\ pass.at = "adopt" /\ pass' = [pass EXCEPT !.at = "drop", !.count = 0] /\ new' = Adopted
    /\ UNCHANGED <<plan, old, knows, req, tries, barred, writes, deaths>>
Dropped == IF pass.block THEN [old EXCEPT !.block = FALSE] ELSE old
Drop ==
    /\ pass.at = "drop" /\ pass' = [pass EXCEPT !.at = "mark"]
    /\ old' = Dropped
    /\ UNCHANGED <<plan, new, knows, req, tries, barred, writes, deaths>>
SomeLeft == OldRow
Mark ==
    /\ pass.at = "mark" /\ pass' = Rest /\ old' = (IF SomeLeft THEN old ELSE [old EXCEPT !.done = TRUE])
    /\ UNCHANGED <<plan, new, knows, req, tries, barred, writes, deaths>>

\* The Directory stops in the middle of the pass; a Worker in the middle of a request.
PassDies ==
    /\ deaths > 0 /\ deaths' = deaths - 1 /\ pass.at # "rest" /\ pass' = Rest
    /\ UNCHANGED <<plan, old, new, knows, req, tries, barred, writes>>
Dies(r) ==
    /\ deaths > 0 /\ deaths' = deaths - 1 /\ req[r].at \in {"count", "ask"} /\ req' = [req EXCEPT ![r] = Idle]
    /\ UNCHANGED <<plan, old, new, knows, pass, tries, barred, writes>>

PassStep == Pending \/ Take \/ Adopt \/ Drop \/ Mark
Next ==
    \/ \E r \in Reqs : Attempt(r) \/ CountOnTag(r) \/ Check(r) \/ AskNew(r) \/ AskOld(r) \/ Answered(r) \/ Over(r) \/ Dies(r)
    \/ WriteOld \/ Forget \/ PassStep \/ PassDies

\* The Directory's alarm runs every hour, and sooner after a write by the release before.
Spec == Init /\ [][Next]_vars /\ WF_vars(PassStep)

(***************************************************************************)
(* Properties                                                              *)
(***************************************************************************)
\* The rows are of their types; a count is less than the limit, but for one that was moved.
TypeOK ==
    /\ old.count \in 0 .. Max - 1 /\ new.count \in 0 .. 2 * Max /\ pass.count \in 0 .. Max - 1
    /\ {old.block, old.done, new.block, knows, pass.block} \subseteq BOOLEAN
    /\ \A r \in Reqs : req[r].carry \in 0 .. Max - 1 /\ (req[r].carry > 0 => req[r].at \in {"count", "in", "refused"})

\* The upgrade opens no window: a request that begins while the network is blocked, by either row, is
\* not let through, wherever the pass is in moving the block.
NoWindow == \A r \in Reqs : Is(r, "in") => ~req[r].must

\* Every failure is counted once: never twice, wherever it is on its way ...
Carried == FoldFunction(+, 0, [r \in Reqs |-> IF Is(r, "count") THEN req[r].carry ELSE 0])
NeverTwice == old.count + pass.count + Carried + new.count <= tries
\* ... and none is lost, unless whoever carries it dies or it is spent on a block.
NoneLost ==
    deaths = plan.deaths /\ ~old.block /\ ~new.block => old.count + pass.count + Carried + new.count = tries

\* While counts move the limit may be reached twice, never more often: with what was counted before, fewer
\* than twice the limit are evaluated, whoever dies.
AtMostTwice == plan.writes = 0 => tries < 2 * Max

\* A shard that is done holds no row by an address: none is overlooked.
DoneMeansNone == old.done => ~OldRow

\* Rows by the address are moved.  Again and again there is none.
Moved == ~OldRow
=============================================================================
