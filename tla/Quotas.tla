------------------------------- MODULE Quotas -------------------------------
(***************************************************************************)
(* The quotas of an account (src/src/directory-do.js, the Directory):      *)
(* fixed windows that count what an account does.  What is done is counted *)
(* in one call before it is stored somewhere else, and given back when     *)
(* that fails: with the hits of the answer while the Worker still holds    *)
(* them, by the time the Drive noted when it reports much later (an upload *)
(* purged unfinished, an upload session that sent nothing).                *)
(***************************************************************************)
EXTENDS Integers, FiniteSets, Sequences, TLC

CONSTANTS
    Things,     \* what is made, or tried, in a behaviour
    Lists,      \* the quota lists an administrator may save: each [kind, channel, per, max]
    Plans,      \* what a behaviour tries (see MCBooks)
    PendingSec, \* an upload or a session with no activity for so long is dropped
    MaxTime,    \* bound: the clock
    None

VARIABLES
    plan,   \* the plan of this behaviour
    now,    \* the clock
    list,   \* the quotas of the account: [id, q], an id for each saved list and quota
    usage,  \* the rows of counts: [id, key, bucket, count]
    thing,  \* what became of each thing
    edits   \* lists saved so far

vars == <<plan, now, list, usage, thing, edits>>

(***************************************************************************)
(* What is counted                                                         *)
(***************************************************************************)
Notes == {"note", "url", "secret"}
Shares == Notes \cup {"file", "drive"}
Sends == {"receive-file", "receive-note", "receive-url", "receive-secret"}
Actions == Shares \cup Sends \cup {"drive-upload", "drive-bytes", "receive-link"}

\* The actions a quota of each kind covers; a kind named as an action covers that one.
Covers ==
    [all |-> Shares, text |-> Notes, files |-> {"file", "drive"}] @@
    ("receive" :> Sends \cup {"receive-link"}) @@ ("receive-upload" :> Sends) @@ [a \in Actions |-> {a}]

\* A thing is a share, a Receive link, a Drive upload, an upload session of a link or a received file.
Kinds == Shares \cup {"receive-link", "upload", "session", "received"}
Size == 2
Bytes == {"drive-bytes"} \X (1..Size)
\* What is counted for a thing, unit by unit, and how much of it a quota counts.
Charges(kind) ==
    CASE kind = "upload" -> {<<"drive-upload", 1>>} \cup Bytes
      [] kind = "received" -> Bytes
      [] kind = "session" -> {<<"receive-file", 1>>}
      [] OTHER -> {<<kind, 1>>}
AmountOf(q, kind) == Cardinality({u \in Charges(kind) : u[1] \in Covers[q.kind]})

Bucket(q, t) == t \div q.per
Windows(q) == 0..Bucket(q, MaxTime)
\* The Drive reports these by the time it noted itself.
Stamped == {"upload", "session"}

(***************************************************************************)
(* Types                                                                   *)
(***************************************************************************)
Channels == {"all", "api"}
Quota == [kind : DOMAIN Covers, channel : Channels, per : Nat \ {0}, max : Nat]
Keys == {"account", "tracker 1", "tracker 2", "network"}
Row == [id : Nat \X Nat, key : Keys, bucket : Nat, count : Nat]
Stages == {"charged", "failed", "pending", "dropped", "kept", "lost"}
Thing == [kind : Kinds, hits : SUBSET Row, at : Stages, stamp : Nat]
Plan == [things : SUBSET Things, list : Seq(Quota), kinds : SUBSET Kinds, channels : SUBSET Channels, keys : SUBSET SUBSET Keys, needAll : BOOLEAN,
         activity : BOOLEAN, dies : BOOLEAN, edits : Nat, prompt : BOOLEAN, until : 0..MaxTime]

ASSUME QuotasAssumption ==
    /\ IsFiniteSet(Things) /\ Lists \subseteq Seq(Quota) /\ PendingSec \in Nat \ {0} /\ MaxTime \in Nat
    /\ None \notin Thing

\* What the Drive reports by its own time is counted for the account and by quotas of both channels (authorizeDriveUpload,
\* authorizeReceiveUpload); such a thing is stored within the second, and its list is not replaced meanwhile.
ASSUME PlansAssumption ==
    \A p \in Plans : /\ p \in Plan
                     /\ p.kinds \cap Stamped # {} => p.prompt /\ p.edits = 0 /\ p.channels = {"all"} /\ p.keys = {{"account"}}

\* The quota, who is counted, the window: a row of counts has one of each.
Cell(r) == <<r.id, r.key, r.bucket>>
OnePerCell(rows) == \A r, s \in rows : Cell(r) = Cell(s) => r = s

TypeOK ==
    /\ plan \in Plans /\ now \in 0..MaxTime /\ edits \in Nat
    /\ \A e \in list : e.id \in Nat \X Nat /\ e.q \in Quota
    /\ usage \subseteq Row /\ OnePerCell(usage)
    /\ thing \in [Things -> Thing \cup {None}] /\ \A x \in Things : thing[x] # None => OnePerCell(thing[x].hits)

Numbered(qs, n) == {[id |-> <<n, i>>, q |-> qs[i]] : i \in DOMAIN qs}

Init ==
    /\ plan \in Plans /\ now = 0 /\ edits = 0
    /\ list = Numbered(plan.list, 0)
    /\ usage = {} /\ thing = [x \in Things |-> None]

\* What rows count in a cell: nothing, when there is no row.
Count(rows, cell) == IF \E r \in rows : Cell(r) = cell THEN (CHOOSE r \in rows : Cell(r) = cell).count ELSE 0

(***************************************************************************)
(* Counting and giving back                                                *)
(***************************************************************************)
\* The quotas a thing counts for, one with nothing to add left out.
Applicable(kind, channel) == {e \in list : AmountOf(e.q, kind) > 0 /\ e.q.channel \in {"all", channel}}

\* What is counted for a thing at a time t.
HitsOf(kind, channel, keys, t) ==
    {[id |-> e.id, key |-> k, bucket |-> Bucket(e.q, t), count |-> AmountOf(e.q, kind)] : e \in Applicable(kind, channel), k \in keys}

Over(e, k, kind) == Count(usage, <<e.id, k, Bucket(e.q, now)>>) + AmountOf(e.q, kind) > e.q.max
\* Refused by a quota that is over for any of who is counted, or, with needAll, for all of them.
Refused(kind, channel, keys) ==
    \E e \in Applicable(kind, channel) :
        IF plan.needAll THEN \A k \in keys : Over(e, k, kind) ELSE \E k \in keys : Over(e, k, kind)

\* The rows with the hits added, and with them taken off, never below zero; a row that is gone stays so.
Plus(hits) == {[r EXCEPT !.count = Count(usage, Cell(r)) + Count(hits, Cell(r))] : r \in usage \cup hits}
Less(n, m) == IF n > m THEN n - m ELSE 0
Minus(hits) == {[r EXCEPT !.count = Less(@, Count(hits, Cell(r)))] : r \in usage}

AtReport(x) == now
AtStamp(x) == thing[x].stamp
\* What the time noted by the Drive stands for: the quotas of the list as it is now.
HitsAt(x, t) == HitsOf(thing[x].kind, "all", {"account"}, t)

(***************************************************************************)
(* One thing                                                               *)
(***************************************************************************)
Becomes(x, at) == thing' = [thing EXCEPT ![x].at = at]
Forget(x) == thing' = [thing EXCEPT ![x] = None]

\* authorizeCreate, claimReverse, authorizeDriveUpload, authorizeReceiveUpload,
\* authorizeReceivedBytes: checked and counted in one call (bound: time enough for a purge).
Charge(x, kind, channel, keys) ==
    /\ now + PendingSec <= plan.until /\ x \in plan.things /\ thing[x] = None /\ ~Refused(kind, channel, keys)
    /\ LET hits == HitsOf(kind, channel, keys, now) IN
       /\ usage' = Plus(hits)
       /\ thing' = [thing EXCEPT ![x] = [kind |-> kind, hits |-> hits, at |-> "charged", stamp |-> 0]]
    /\ UNCHANGED <<plan, now, list, edits>>

\* Stored where it belongs: a note, a share, a link, a received file for good; an upload and
\* a session wait to be finished, under the Drive's own time.
Store(x) ==
    /\ thing[x] # None /\ thing[x].at = "charged"
    /\ thing' = [thing EXCEPT ![x].at = IF thing[x].kind \in Stamped THEN "pending" ELSE "kept", ![x].stamp = now]
    /\ UNCHANGED <<plan, now, list, usage, edits>>

\* Refused where it belongs, or the call failed: the Worker gives the hits back in a later call.
StoreFails(x) ==
    /\ thing[x] # None /\ thing[x].at = "charged" /\ Becomes(x, "failed")
    /\ UNCHANGED <<plan, now, list, usage, edits>>

HitsBack(x) == usage' = Minus(thing[x].hits)
Refund(x) ==
    /\ thing[x] # None /\ thing[x].at = "failed" /\ HitsBack(x) /\ Forget(x)
    /\ UNCHANGED <<plan, now, list, edits>>

\* A chunk was written (the upload is not idle), the upload finished, the session received a file.
Activity(x) ==
    /\ plan.activity /\ thing[x] # None /\ thing[x].at = "pending" /\ thing[x].kind = "session" /\ Becomes(x, "kept")
    /\ UNCHANGED <<plan, now, list, usage, edits>>
Finish(x) ==
    /\ thing[x] # None /\ thing[x].at = "pending" /\ thing[x].kind = "upload" /\ Becomes(x, "kept")
    /\ UNCHANGED <<plan, now, list, usage, edits>>

\* Deleted unfinished, or a session that ends having sent nothing.
Drop(x) ==
    /\ thing[x] # None /\ thing[x].at = "pending" /\ Becomes(x, "dropped")
    /\ UNCHANGED <<plan, now, list, usage, edits>>
Stale == {x \in Things : thing[x] # None /\ thing[x].at = "pending" /\ now - thing[x].stamp >= PendingSec}
Purge ==
    /\ Stale # {}
    /\ thing' = [x \in Things |-> IF x \in Stale THEN [thing[x] EXCEPT !.at = "dropped"] ELSE thing[x]]
    /\ UNCHANGED <<plan, now, list, usage, edits>>
\* refundAt, refundDriveUploads
Report(x) ==
    /\ thing[x] # None /\ thing[x].at = "dropped"
    /\ usage' = Minus(HitsAt(x, AtStamp(x))) /\ Forget(x)
    /\ UNCHANGED <<plan, now, list, edits>>

\* The Worker is gone, or a call to give back fails, which is only logged.
Die(x) ==
    /\ plan.dies /\ thing[x] # None /\ thing[x].at \in {"charged", "failed", "dropped"} /\ Becomes(x, "lost")
    /\ UNCHANGED <<plan, now, list, usage, edits>>

(***************************************************************************)
(* The list; the clock                                                     *)
(***************************************************************************)
\* The counts go with their quotas; the new ones start from nothing.
SetQuotas(qs) ==
    /\ edits < plan.edits /\ edits' = edits + 1
    /\ list' = Numbered(qs, edits + 1)
    /\ usage' = {r \in usage : \A e \in list : r.id # e.id}
    /\ UNCHANGED <<plan, now, thing>>

Tick ==
    /\ now < plan.until /\ now' = now + 1
    /\ plan.prompt => \A x \in Things : thing[x] # None /\ thing[x].kind \in Stamped => thing[x].at # "charged"
    /\ UNCHANGED <<plan, list, usage, thing, edits>>

Next ==
    \/ \E x \in Things :
         \/ \E kind \in plan.kinds, channel \in plan.channels, keys \in plan.keys : Charge(x, kind, channel, keys)
         \/ Store(x) \/ StoreFails(x) \/ Refund(x) \/ Activity(x) \/ Finish(x) \/ Drop(x) \/ Report(x) \/ Die(x)
    \/ Purge \/ \E qs \in Lists : SetQuotas(qs)
    \/ Tick

\* The Worker and the Drive go on with what they began, unless they die; the alarm fires; time passes,
\* also when it waits for one prompt request after the other.
GoesOn(x) == Store(x) \/ StoreFails(x) \/ Refund(x) \/ Report(x) \/ Die(x)
Fairness ==
    /\ WF_vars(Purge) /\ SF_vars(Tick)
    /\ \A x \in Things : WF_vars(GoesOn(x))

Spec == Init /\ [][Next]_vars /\ Fairness

(***************************************************************************)
(* Properties                                                              *)
(***************************************************************************)
\* What a cell should count, going by the things themselves: a unit for each unit charged there.
Hits(x) == IF thing[x] = None THEN {} ELSE thing[x].hits
Owed(cell) == Cardinality(UNION {{x} \X (1..Count(Hits(x), cell)) : x \in Things})

\* The books balance: each count is what was charged in that window and not given back, no more and
\* no less, through failures, late reports and lists replaced in between.
Books == \A e \in list, k \in Keys : \A b \in Windows(e.q) : Count(usage, <<e.id, k, b>>) = Owed(<<e.id, k, b>>)

\* Nobody gets past a quota: what was made, or is being made, in a window stays within its limit for
\* each of who is counted, whatever was refused and given back meanwhile.
WithinQuota == ~plan.needAll => \A e \in list, k \in Keys : \A b \in Windows(e.q) : Owed(<<e.id, k, b>>) <= e.q.max

\* Quotas balance: every count is what was charged in its window and not given back, through failures,
\* late reports and lists replaced in between, and nobody gets past a quota meanwhile
\* (directory-do.js authorizeCreate, refundCreate, refundAt).
QuotaBooks == TypeOK /\ Books /\ WithinQuota

\* Nothing is paid for in vain: what was charged is stored, or given back, or was lost with its Worker.
\* Of each thing this holds again and again.
GivenBack(x) == thing[x] # None => thing[x].at \in {"kept", "lost"}
=============================================================================
