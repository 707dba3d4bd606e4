------------------------------- MODULE Records -------------------------------
(***************************************************************************)
(* Read receipts and the log entries that add up failed sign-ins, sealed   *)
(* under the root's record key: the requests that write them await their   *)
(* seals, while the alarm prunes, its pass seals rows again under the key  *)
(* of the day, the owner clears, and the root changes                      *)
(* (src/src/directory-do.js recordOpen, #logFailure, #recordPass,          *)
(* #pruneLogs, clearLogs, alarm).  Module Keyring says which record keys   *)
(* are kept; here one may stop opening.                                    *)
(***************************************************************************)
EXTENDS Integers, FiniteSets, FiniteSetsExt, Functions

CONSTANTS
    Shares, Senders,    \* account shares, and who made each: an account or the Owner
    Owner,
    Ips,                \* openers' addresses
    Accounts, Names,    \* who a sign-in fails for: accounts, and usernames no account has
    Star,               \* "n:*"
    Reqs,               \* requests that record one open or one failure at a time
    MaxOpens, KeepFirst, PerMinute, MaxNames,
    Age, MaxEntries,    \* log.maxAgeSec, log.maxEntries
    Batch,              \* RECORD_PASS_ROWS
    LastTime, MaxKeys,
    None,
    Plans               \* what is tried together, chosen at the start

SizesAssumption == /\ MaxOpens \in Nat /\ KeepFirst \in 1 .. MaxOpens - 1 /\ PerMinute \in Nat \ {0}
                          /\ Senders \in [Shares -> Accounts \cup {Owner}] /\ Owner \notin Accounts
                          /\ MaxNames \in Nat \ {0} /\ Batch \in Nat \ {0}

Subjects == Accounts \cup Names \cup {Owner, Star}
\* A plan: how many opens and failures there are, how many requests are in the Directory at once, key
\* changes, keys that stop opening, clearings by the owner, whether the clock runs and the Directory dies.
Plan == [opens : Nat, fails : Nat, who : SUBSET (Accounts \cup Names \cup {Owner}), width : 1 .. 2, keys : Nat, lost : Nat, clears : Nat,
         clock : 0 .. LastTime, deaths : Nat, kid : 0 .. MaxKeys]
PlansAssumption == Plans \subseteq Plan

VARIABLES
    left,       \* what is left of the plan
    now,        \* minutes: OPENS_DEDUPE_SEC is one; FAILED_LOG_SEC is Hour
    kid, gone,  \* the current record key (0: no keyring), the earlier ones that do not open any more
    index,      \* shares still in the index
    total,      \* shares.opens_total
    opens, log, \* the rows
    ids,
    req,        \* the requests between their awaits
    pass,       \* the alarm's pass
    counted,    \* history: opens of a share since the counters were cleared
    failed, removed     \* history: failures logged, and those in entries removed since

vars == <<left, now, kid, gone, index, total, opens, log, ids, req, pass, counted, failed, removed>>
Hour == 2
Idle == [at |-> "idle", of |-> None, ip |-> None, row |-> None, tries |-> 0, kid |-> 0]
Rest == [at |-> "rest", cur |-> 0, todo |-> {}]

Init ==
    /\ left \in Plans /\ now = 0 /\ kid = left.kid /\ gone = {}
    /\ index = Shares /\ total = [s \in Shares |-> 0] /\ opens = {} /\ log = {} /\ ids = 0
    /\ req = [r \in Reqs |-> Idle] /\ pass = Rest
    /\ counted = [s \in Shares |-> 0] /\ failed = [b \in Subjects |-> 0] /\ removed = [b \in Subjects |-> 0]

Less(what) == left[what] > 0 /\ left' = [left EXCEPT ![what] = @ - 1]
Free(r) == req[r] = Idle /\ Cardinality({q \in Reqs : req[q] # Idle}) < left.width
To(r, x) == req' = [req EXCEPT ![r] = x]
SealKeys(r) == IF kid = 0 THEN {0} ELSE {req[r].kid, kid} \ {0}
Opens(k) == k = 0 \/ k \notin gone
Mine(s) == {o \in opens : o.share = s}
Latest(S) == CHOOSE x \in S : \A y \in S : x.id >= y.id
Lowest(S, n) == {x \in S : Cardinality({y \in S : y.id < x.id}) < n}
Counts(S) == [b \in Subjects |-> MapThenSumSet(LAMBDA e : e.n, {e \in S : e.subj = b})]
Plus(f, g) == [b \in Subjects |-> f[b] + g[b]]

(***************************************************************************)
(* recordOpen                                                              *)
(***************************************************************************)
Open(r) ==
    /\ Less("opens") /\ Free(r)
    /\ \E s \in index, ip \in Ips : To(r, [Idle EXCEPT !.at = "open", !.of = s, !.ip = ip, !.kid = kid])
    /\ UNCHANGED <<now, kid, gone, index, total, opens, log, ids, pass, counted, failed, removed>>

Recent(s, ip) == {o \in Mine(s) : o.ip = ip /\ o.ts > now - 1}
Throttled(s, ip) == Recent(s, ip) # {} \/ Cardinality({o \in Mine(s) : o.ts > now - 1}) >= PerMinute
Over(S) == IF Cardinality(S) <= MaxOpens THEN {} ELSE Lowest(S \ Lowest(S, KeepFirst), Cardinality(S) - MaxOpens)
NotAsked(s) == TRUE
StillThere(s) == s \in index
OneMore(s, ip) == 1
WriteOpen(r) ==
    LET q == req[r]
        s == q.of
    IN  /\ q.at = "open" /\ To(r, Idle)
        /\ IF ~StillThere(s) THEN UNCHANGED <<total, opens, ids, counted>>
           ELSE /\ total' = [total EXCEPT ![s] = @ + OneMore(s, q.ip)] /\ counted' = [counted EXCEPT ![s] = @ + 1]
                /\ IF Throttled(s, q.ip) THEN UNCHANGED <<opens, ids>>
                   ELSE \E k \in SealKeys(r) :
                          LET all == Mine(s) \cup {[id |-> ids + 1, share |-> s, ip |-> q.ip, ts |-> now, rk |-> k]}
                          IN  opens' = (opens \ Mine(s)) \cup (all \ Over(all)) /\ ids' = ids + 1
        /\ UNCHANGED <<left, now, kid, gone, index, log, pass, failed, removed>>

(***************************************************************************)
(* #logFailure                                                             *)
(***************************************************************************)
Window(S) == {e \in S : e.ts > now - Hour}
Entries(b) == {e \in Window(log) : e.subj = b}
Named == {e \in Window(log) : e.subj \in Names \cup {Star}}
Subject(b) == IF b \in Names /\ Entries(b) = {} /\ Cardinality(Named) >= MaxNames THEN Star ELSE b
Look(r, b, tries) ==
    LET of == Subject(b)
    IN  To(r, [Idle EXCEPT !.at = "fail", !.of = of, !.tries = tries, !.kid = kid,
                           !.row = IF Entries(of) = {} THEN None ELSE Latest(Entries(of))])
Fail(r) ==
    /\ Less("fails") /\ Free(r) /\ \E b \in left.who : Look(r, b, 1)
    /\ UNCHANGED <<now, kid, gone, index, total, opens, log, ids, pass, counted, failed, removed>>

NewEntry(b, k) == log' = log \cup {[id |-> ids + 1, subj |-> b, ts |-> now, n |-> 1, rk |-> k]} /\ ids' = ids + 1
Same(row) == row \in log
Ended(r) == To(r, Idle) /\ failed' = [failed EXCEPT ![req[r].of] = @ + 1]
WriteFail(r) ==
    LET q == req[r]
    IN  /\ q.at = "fail"
        /\ \E k \in SealKeys(r) :
             IF q.row = None \/ ~Opens(q.row.rk) THEN NewEntry(q.of, k) /\ Ended(r)
             ELSE IF Same(q.row) THEN
                 /\ log' = {e \in log : e.id # q.row.id} \cup {[q.row EXCEPT !.n = @ + 1, !.rk = k]}
                 /\ Ended(r) /\ UNCHANGED ids
             ELSE IF q.tries < 3 THEN Look(r, q.of, q.tries + 1) /\ UNCHANGED <<log, ids, failed>>
             ELSE NewEntry(q.of, k) /\ Ended(r)
        /\ UNCHANGED <<left, now, kid, gone, index, total, opens, pass, counted, removed>>

(***************************************************************************)
(* The owner and the keyring                                               *)
(***************************************************************************)
\* clearLogs: all, or only what is older.
ClearLogs ==
    \E before \in {None} \cup 1 .. now :
        LET old(S) == IF before = None THEN S ELSE {x \in S : x.ts < before}
        IN  /\ Less("clears") /\ log' = log \ old(log) /\ opens' = opens \ old(opens) /\ removed' = Plus(removed, Counts(old(log)))
            /\ IF before = None THEN total' = [s \in Shares |-> 0] /\ counted' = total' ELSE UNCHANGED <<total, counted>>
            /\ UNCHANGED <<now, kid, gone, index, ids, req, pass, failed>>
\* A root is set up, changed, or the change undone; the earlier record keys are kept.
ChangeRoot ==
    /\ Less("keys") /\ \E k \in (1 .. MaxKeys) \ (gone \cup {kid}) : kid' = k
    /\ UNCHANGED <<now, gone, index, total, opens, log, ids, req, pass, counted, failed, removed>>
\* A kept record key is under a root that is not here any more.
LoseKey ==
    /\ Less("lost") /\ \E k \in 1 .. MaxKeys : k # kid /\ gone' = gone \cup {k}
    /\ UNCHANGED <<now, kid, index, total, opens, log, ids, req, pass, counted, failed, removed>>
Tick ==
    /\ now < left.clock /\ now' = now + 1
    /\ UNCHANGED <<left, kid, gone, index, total, opens, log, ids, req, pass, counted, failed, removed>>

(***************************************************************************)
(* The alarm                                                               *)
(***************************************************************************)
\* #pruneLogs: by age, then the oldest over the size, never the owner's entries.
Prunable(S) == {e \in S : e.subj # Owner}
Pruned == LET young == {e \in log : e.ts >= now - Age \/ e.subj = Owner}
              many == Cardinality(Prunable(young))
          IN  young \ Lowest(Prunable(young), many - MaxEntries)
OldOpens == {o \in opens : o.ts < now - Age /\ Senders[o.share] # Owner}
Kept(leaving) == {o \in opens \ OldOpens : o.share \notin leaving}
Alarm ==
    /\ pass.at = "rest" /\ pass' = [Rest EXCEPT !.at = "read"]
    /\ log' = Pruned /\ removed' = Plus(removed, Counts(log \ Pruned))
    \* Shares that ended SHARE_PRUNE_SEC ago leave the index, their receipts with them.
    /\ \E leaving \in SUBSET index : (now > 0 \/ leaving = {}) /\ index' = index \ leaving /\ opens' = Kept(leaving)
    /\ UNCHANGED <<left, now, kid, gone, total, ids, req, counted, failed>>

\* #recordPass reads a batch of each table: rows in the clear, and rows under earlier keys that open.
ChosenUnsealed(S, T) == T \subseteq {x \in S : x.rk = 0} /\ Cardinality(T) <= Batch
Chosen(S, T) == T \subseteq {x \in S : x.rk # kid /\ Opens(x.rk)} /\ Cardinality(T) <= Batch /\ (T = {} => \A x \in S : x.rk = kid \/ ~Opens(x.rk))
PassRead ==
    /\ pass.at = "read"
    /\ IF kid = 0 THEN pass' = Rest
       ELSE \E A \in SUBSET opens, B \in SUBSET log : Chosen(opens, A) /\ Chosen(log, B) /\ pass' = [at |-> "rows", cur |-> kid, todo |-> A \cup B]
    /\ UNCHANGED <<left, now, kid, gone, index, total, opens, log, ids, req, counted, failed, removed>>
Resealed(S, x) == IF x \in S THEN (S \ {x}) \cup {[x EXCEPT !.rk = pass.cur]} ELSE S
PassRow ==
    /\ pass.at = "rows"
    /\ \E x \in pass.todo : pass' = [pass EXCEPT !.todo = @ \ {x}] /\ opens' = Resealed(opens, x) /\ log' = Resealed(log, x)
    /\ UNCHANGED <<left, now, kid, gone, index, total, ids, req, counted, failed, removed>>
PassEnd ==
    /\ pass.at = "rows" /\ pass.todo = {} /\ pass' = Rest
    /\ UNCHANGED <<left, now, kid, gone, index, total, opens, log, ids, req, counted, failed, removed>>
\* The Directory is stopped; the alarm runs again.
Dies ==
    /\ Less("deaths") /\ pass' = Rest /\ req' = [r \in Reqs |-> Idle]
    /\ UNCHANGED <<now, kid, gone, index, total, opens, log, ids, counted, failed, removed>>

Next ==
    \/ \E r \in Reqs : Open(r) \/ WriteOpen(r) \/ Fail(r) \/ WriteFail(r)
    \/ ClearLogs \/ ChangeRoot \/ LoseKey \/ Tick \/ Alarm \/ PassRead \/ PassRow \/ PassEnd \/ Dies

\* The Directory runs on: a request's awaits end, and the alarm is always set again.
Fairness == /\ \A r \in Reqs : WF_vars(WriteOpen(r) \/ WriteFail(r))
            /\ WF_vars(Alarm) /\ WF_vars(PassRead) /\ WF_vars(PassRow \/ PassEnd)
Spec == Init /\ [][Next]_vars /\ Fairness

(***************************************************************************)
(* Properties                                                              *)
(***************************************************************************)
\* Types.
Row == [id : Nat, share : Shares, ip : Ips, ts : 0 .. LastTime, rk : 0 .. MaxKeys]
Entry == [id : Nat, subj : Subjects, ts : 0 .. LastTime, n : Nat \ {0}, rk : 0 .. MaxKeys]
TypeOK ==
    /\ left \in Plan /\ now \in 0 .. LastTime /\ kid \in 0 .. MaxKeys /\ gone \subseteq 1 .. MaxKeys
    /\ index \subseteq Shares /\ total \in [Shares -> Nat] /\ opens \subseteq Row /\ log \subseteq Entry
    /\ \A x \in opens \cup log, y \in opens \cup log : x.id = y.id => x = y
    /\ \A r \in Reqs : req[r].at = "open" => req[r].of \in Shares

\* recordOpen and alarm: no receipt is stored for a share that left the index, even one whose seals were
\* awaited while the share went ("no receipt" - its prune would already be over).
NoStray == \A o \in opens : o.share \in index

\* recordOpen: every open of a share counts in what its sender is shown, stored or not.
EveryOpenCounts == \A s \in index : total[s] = counted[s] /\ Cardinality(Mine(s)) <= total[s]

\* recordOpen: one receipt per share and address in a window, however many requests are sealing at once.
Deduped == \A o \in opens, p \in opens : o.share = p.share /\ o.ip = p.ip /\ o.ts = p.ts => o = p

\* recordOpen, MAX_OPENS_PER_SHARE: a share has no more receipts than that.
Capped == \A s \in Shares : Cardinality(Mine(s)) <= MaxOpens

\* OPENS_KEEP_FIRST: a burst of later opens never pushes out the first receipts, nor the newest.
KeepsFirst ==
    \A s \in Shares : \A o \in Lowest(Mine(s), KeepFirst) :
          (\E r \in Reqs : req[r].at = "open" /\ req'[r] = Idle) /\ Mine(s)' # {} => \E p \in opens' : p.id = o.id

\* #logFailure: a failure is never lost - what the entries say, with the entries removed, is every
\* failure logged - whatever other failure, or the pass, wrote the entry meanwhile.
NoneLost == \A b \in Subjects : failed[b] = Counts(log)[b] + removed[b]

\* #logFailure: one request after the other, the failures of a subject are in one entry per FAILED_LOG_SEC,
\* and names of no account have at most UNKNOWN_FAILED_ROWS entries of their own.
OneEntry ==
    left.width = 1 =>
        /\ \A e \in log, f \in log : e.subj = f.subj /\ f.ts \in e.ts .. e.ts + Hour - 1 => e = f \/ e.rk \in gone \/ f.rk \in gone
        /\ \A t \in 0 .. now : Cardinality({e \in log : e.subj \in Names /\ e.ts \in t .. t + Hour - 1}) <= MaxNames

\* #log, recordOpen: while there is a keyring no row is written in the clear.
NeverClear == \A x \in (opens' \cup log') \ (opens \cup log) : x.rk = 0 => kid = 0

\* #recordPass: every row whose key opens is under the current record key.  In the end it is so.
AllSealed == kid # 0 => \A x \in opens \cup log : x.rk = kid \/ x.rk \in gone
=============================================================================
