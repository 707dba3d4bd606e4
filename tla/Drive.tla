------------------------------- MODULE Drive -------------------------------
(***************************************************************************)
(* One user's Drive (src/src/drive-do.js): the tree of folders and files,  *)
(* the chunks in R2, the uploads in flight, the purge alarm, and the shares*)
(* that refer to its files, with the requests of routes/drive.js that span *)
(* the Drive, the shares' own objects and the index.                       *)
(*                                                                         *)
(* A method that only runs SQL is one action.  A chunk upload is three     *)
(* (accepted, stored in R2, answered) and a fourth when it is undone.  A   *)
(* removal (delete, purge, destroy) is three: chosen, the R2 objects, the  *)
(* rows; it runs in blockConcurrencyWhile, so only writes already sent to  *)
(* R2 may land in between.  The receive links of a Drive are Receive.tla.  *)
(***************************************************************************)
EXTENDS Integers, FiniteSets, TLC

CONSTANTS
    Ids,        \* the item ids browsers draw: each is drawn once
    Root,       \* the top folder, always there
    MaxSize,    \* bound on a file's size, counted in chunks
    Capacity,   \* the role's driveMaxBytes, in chunks
    MaxDepth,   \* bound on the role's maxFolderDepth (and MAX_DEPTH)
    Puts,       \* chunk writes that may be in flight
    Shares,     \* ids of Drive shares
    PendingSec, \* the upload deadline
    MaxTime,    \* bound on the clock
    MaxFaults,  \* bound on failing R2 deletes, restarts of the object and requests cut off
    Plans,      \* what is tried together: bounds on the above, chosen at the start
    None        \* no item, no alarm, no write

ASSUME SizesAssumption ==
    /\ MaxSize \in Nat /\ Capacity \in Nat /\ MaxDepth \in Nat /\ PendingSec \in Nat \ {0}
    /\ MaxTime \in Nat /\ MaxFaults \in Nat
Plan == [items : Nat, dirs : BOOLEAN, depth : 0 .. MaxDepth, size : 0 .. MaxSize, time : 0 .. MaxTime, faults : 0 .. MaxFaults,
         shares : SUBSET Shares, bye : BOOLEAN]
ASSUME PlansAssumption == Plans \subseteq Plan

File == [kind : {"file"}, parent : Ids \cup {Root}, size : 0 .. MaxSize, state : {"pending", "ready"},
         at : 0 .. MaxTime, rows : SUBSET (0 .. MaxSize - 1)]
Folder == [kind : {"dir"}, parent : Ids \cup {Root}]

\* A removal under way inside blockConcurrencyWhile: what it is for, the items it
\* chose, and whether their R2 objects are gone.
Removal == [why : {"delete", "alarm", "destroy"}, ids : SUBSET Ids, gone : BOOLEAN]

\* A chunk write in flight.
Write == [id : Ids, i : 0 .. MaxSize - 1, at : {"sent", "stored", "undo"}]

ASSUME NamesAssumption ==
    /\ Root \notin Ids /\ None \notin Ids \cup {Root} /\ None \notin Nat
    /\ None \notin File \cup Folder \cup Removal \cup Write

VARIABLES
    plan,   \* the bounds of this behaviour: never changes
    now,    \* the clock
    node,   \* the rows of `nodes`: an item or None
    drawn,  \* ids that were ever used
    r2,     \* the objects <<id, i>> R2 holds
    put,    \* the chunk writes in flight: [id, i, at], or None
    fin,    \* files whose finalize awaits the ciphertext hash
    refs,   \* the rows <<share, id>> of `refs`
    block,  \* the Removal that holds the object, or None
    alarm,  \* when the alarm is set for, or None
    ring,   \* is the alarm's handler past its removal, its rescheduling still to come?
    share,  \* each Drive share: how far it got and the files it lists
    ending, \* shares a delete request still has to end
    bye,    \* the deletion of the account: its stage and the shares it still has to end
    paid,   \* history: how often each upload's quota was given back
    owed,   \* uploads whose quota a delete request still has to give back
    ended,  \* history: the uploads that were finished
    stray,  \* history: writes of a restarted object that may still land
    lost,   \* history: objects such writes left
    loose,  \* history: shares whose request was cut off before they were tied to their items or ended
    torn,   \* history: items a removal that did not end had chosen
    faults  \* history: failures so far

tree == <<node, drawn, refs>>
worker == <<share, ending, bye, loose>>
quota == <<paid, owed>>
vars == <<plan, now, node, drawn, r2, put, fin, refs, block, alarm, ring, share, ending, bye, paid, owed,
          ended, stray, lost, loose, torn, faults>>

-----------------------------------------------------------------------------
Items == {x \in Ids : node[x] # None}
Files == {x \in Items : node[x].kind = "file"}
Folders == {Root} \cup (Items \ Files)
Pending == {x \in Files : node[x].state = "pending"}

Parent(x) == node[x].parent

\* #ancestors: x and what is above it, the top folder excluded; the least set that holds x and
\* with each item its parent.
Above(x) ==
    {y \in Ids : \A S \in SUBSET Ids :
                    x \in S \cup {Root} /\ (\A z \in S \cap Items : Parent(z) \in S \cup {Root}) => y \in S}

\* #subtree: x and every item below it.
Subtree(x) == {y \in Items : x \in Above(y)}

Depth(x) == IF x = Root THEN 0 ELSE Cardinality(Above(x))

\* How deep folder levels reach below x (#dirHeight): each folder's depth under it, and the deepest.
Levels(x) == {Cardinality(Above(y)) - Cardinality(Above(x)) : y \in Subtree(x) \ Files}
DirHeight(x) == IF Levels(x) = {} THEN 0 ELSE CHOOSE h \in Levels(x) : \A k \in Levels(x) : k <= h

ChunksOf(x) == 0 .. node[x].size - 1
Objects(ids) == {o \in Ids \X (0 .. MaxSize - 1) : o[1] \in ids}

\* #used, the sealed fields left out: a pending upload counts its whole size.
Used ==
    LET sum[S \in SUBSET Ids] == IF S = {} THEN 0 ELSE LET x == CHOOSE y \in S : TRUE IN node[x].size + sum[S \ {x}]
    IN  sum[Files]

Inflight(x) == \E p \in Puts : put[p] # None /\ put[p].id = x

Due(n) == {n[x].at + PendingSec : x \in {y \in Ids : n[y] # None /\ n[y].kind = "file" /\ n[y].state = "pending"}}
Scheduled(cur, n) ==
    LET times == Due(n) \cup (IF cur = None THEN {} ELSE {cur})
    IN  IF Due(n) = {} THEN cur ELSE CHOOSE t \in times : \A u \in times : t <= u

Free == block = None

TypeOK ==
    /\ plan \in Plans
    /\ now \in 0 .. MaxTime
    /\ node \in [Ids -> File \cup Folder \cup {None}]
    /\ drawn \subseteq Ids /\ Items \subseteq drawn
    /\ r2 \subseteq Objects(Ids) /\ stray \subseteq Objects(Ids) /\ lost \subseteq Objects(Ids)
    /\ put \in [Puts -> Write \cup {None}]
    /\ fin \subseteq Ids /\ ended \subseteq Ids /\ torn \subseteq Ids /\ owed \subseteq Ids
    /\ refs \subseteq Shares \X Ids
    /\ block \in Removal \cup {None}
    /\ alarm \in 0 .. MaxTime + PendingSec \cup {None}
    /\ ring \in BOOLEAN
    /\ share \in [Shares -> [st : {"no", "checked", "made", "over", "live", "refused", "ended"}, ids : SUBSET Ids]]
    /\ ending \subseteq Shares /\ loose \subseteq Shares
    /\ bye \in [at : {"no", "listed", "destroying", "cut", "last", "done"}, left : SUBSET Shares]
    /\ paid \in [Ids -> 0 .. 2] /\ faults \in 0 .. MaxFaults

Init ==
    /\ plan \in Plans
    /\ now = 0 /\ node = [x \in Ids |-> None] /\ drawn = {} /\ r2 = {}
    /\ put = [p \in Puts |-> None] /\ fin = {} /\ refs = {} /\ block = None /\ alarm = None /\ ring = FALSE
    /\ share = [s \in Shares |-> [st |-> "no", ids |-> {}]] /\ ending = {}
    /\ bye = [at |-> "no", left |-> {}]
    /\ paid = [x \in Ids |-> 0] /\ owed = {} /\ ended = {}
    /\ stray = {} /\ lost = {} /\ torn = {} /\ loose = {} /\ faults = 0

-----------------------------------------------------------------------------
\* The tree.

\* A new item: its id unused, its parent a folder.
MayAdd(x, parent) == Free /\ x \notin drawn /\ Cardinality(drawn) < plan.items /\ parent \in Folders

CreateFolder(x, parent) ==
    /\ MayAdd(x, parent) /\ plan.dirs
    /\ Depth(parent) + 1 <= plan.depth
    /\ node' = [node EXCEPT ![x] = [kind |-> "dir", parent |-> parent]]
    /\ drawn' = drawn \cup {x}
    /\ UNCHANGED <<plan, now, r2, put, fin, refs, block, alarm, ring, worker, quota, ended, stray, lost, torn, faults>>

\* The quota is charged first, and given back when the Drive refuses: no net change.
CreateFile(x, parent, size) ==
    /\ MayAdd(x, parent) /\ size <= plan.size
    /\ Depth(parent) <= plan.depth
    /\ Used + size <= Capacity
    /\ node' = [node EXCEPT ![x] = [kind |-> "file", parent |-> parent, size |-> size,
                                    state |-> "pending", at |-> now, rows |-> {}]]
    /\ drawn' = drawn \cup {x}
    /\ alarm' = Scheduled(alarm, node')
    /\ UNCHANGED <<plan, now, r2, put, fin, refs, block, ring, worker, quota, ended, stray, lost, torn, faults>>

NoCycle(x, parent) == x \notin Above(parent)

Fits(x, parent) == Depth(parent) + (IF x \in Files THEN 0 ELSE 1 + DirHeight(x)) <= plan.depth

\* patchNode with a parent: a move.  It touches an upload's deadline too.
Move(x, parent) ==
    /\ Free
    /\ x \in Items /\ parent \in Folders
    /\ parent # Parent(x) => NoCycle(x, parent) /\ Fits(x, parent)
    /\ node' = [node EXCEPT ![x] = IF x \in Files THEN [@ EXCEPT !.parent = parent, !.at = now]
                                                  ELSE [@ EXCEPT !.parent = parent]]
    /\ node' # node
    /\ UNCHANGED <<plan, now, drawn, r2, put, fin, refs, block, alarm, ring, worker, quota, ended, stray, lost, torn, faults>>

-----------------------------------------------------------------------------
\* Uploads.

\* putChunk's checks: a pending file, an index it has; the write goes out to R2.
SendChunk(p, x, i) ==
    /\ Free
    /\ put[p] = None
    /\ x \in Pending /\ i \in ChunksOf(x)
    /\ put' = [put EXCEPT ![p] = [id |-> x, i |-> i, at |-> "sent"]]
    /\ UNCHANGED <<plan, now, tree, r2, fin, block, alarm, ring, worker, quota, ended, stray, lost, torn, faults>>

\* R2 has stored it: at any time, a removal under way or not.
ChunkStored(p) ==
    /\ put[p] # None /\ put[p].at = "sent"
    /\ r2' = r2 \cup {<<put[p].id, put[p].i>>}
    /\ put' = [put EXCEPT ![p].at = "stored"]
    /\ UNCHANGED <<plan, now, tree, fin, block, alarm, ring, worker, quota, ended, stray, lost, torn, faults>>

\* Back in the object: recorded while the upload is still pending...
ChunkRecorded(p) ==
    /\ Free
    /\ put[p] # None /\ put[p].at = "stored"
    /\ put[p].id \in Pending
    /\ node' = [node EXCEPT ![put[p].id].rows = @ \cup {put[p].i}, ![put[p].id].at = now]
    /\ alarm' = Scheduled(alarm, node')
    /\ put' = [put EXCEPT ![p] = None]
    /\ UNCHANGED <<plan, now, drawn, r2, fin, refs, block, ring, worker, quota, ended, stray, lost, torn, faults>>

ChunkRefused(p) ==
    /\ Free
    /\ put[p] # None /\ put[p].at = "stored"
    /\ put[p].id \notin Pending
    /\ put' = [put EXCEPT ![p] = IF put[p].id \in Files THEN None ELSE [@ EXCEPT !.at = "undo"]]
    /\ UNCHANGED <<plan, now, tree, r2, fin, block, alarm, ring, worker, quota, ended, stray, lost, torn, faults>>

ChunkUndone(p) ==
    /\ put[p] # None /\ put[p].at = "undo"
    /\ r2' = r2 \ {<<put[p].id, put[p].i>>}
    /\ put' = [put EXCEPT ![p] = None]
    /\ UNCHANGED <<plan, now, tree, fin, block, alarm, ring, worker, quota, ended, stray, lost, torn, faults>>

\* finalize, before and after it awaits the ciphertext hash: every chunk is recorded
\* and none is being written.
CompleteBusy(x) == x \in Pending /\ node[x].rows # {}
Complete(x) == x \in Pending /\ ~Inflight(x) /\ node[x].rows = ChunksOf(x)

StartFinalize(x) ==
    /\ Free
    /\ x \notin fin /\ Complete(x)
    /\ fin' = fin \cup {x}
    /\ UNCHANGED <<plan, now, tree, r2, put, block, alarm, ring, worker, quota, ended, stray, lost, torn, faults>>

EndFinalize(x) ==
    /\ Free
    /\ x \in fin
    /\ fin' = fin \ {x}
    /\ IF Complete(x)
       THEN /\ node' = [node EXCEPT ![x].state = "ready", ![x].rows = {}, ![x].at = now]
            /\ ended' = ended \cup {x}
       ELSE UNCHANGED <<node, ended>>
    /\ UNCHANGED <<plan, now, drawn, r2, put, refs, block, alarm, ring, worker, quota, stray, lost, torn, faults>>

-----------------------------------------------------------------------------
\* Removals: the R2 objects first, then the rows.

StartDelete(x) ==
    /\ Free
    /\ x \in Items
    /\ block' = [why |-> "delete", ids |-> Subtree(x), gone |-> FALSE]
    /\ UNCHANGED <<plan, now, tree, r2, put, fin, alarm, ring, worker, quota, ended, stray, lost, torn, faults>>

\* The alarm: uploads without progress for PendingSec.
Stale == {x \in Pending : node[x].at + PendingSec <= now}

AlarmRings ==
    /\ Free /\ ~ring
    /\ alarm # None /\ alarm <= now
    /\ alarm' = None /\ ring' = TRUE
    /\ block' = IF Stale = {} THEN None ELSE [why |-> "alarm", ids |-> Stale, gone |-> FALSE]
    /\ UNCHANGED <<plan, now, tree, r2, put, fin, worker, quota, ended, stray, lost, torn, faults>>

Rescheduled == Scheduled(alarm, node)

AlarmEnds ==
    /\ Free /\ ring
    /\ ring' = FALSE
    /\ alarm' = Rescheduled
    /\ UNCHANGED <<plan, now, tree, r2, put, fin, block, worker, quota, ended, stray, lost, torn, faults>>

RemoveObjects ==
    /\ block # None /\ ~block.gone
    /\ r2' = r2 \ {o \in Objects(block.ids) : o[1] \in Files /\ o[2] \in ChunksOf(o[1])}
    /\ block' = [block EXCEPT !.gone = TRUE]
    /\ UNCHANGED <<plan, now, tree, put, fin, alarm, ring, worker, quota, ended, stray, lost, torn, faults>>

\* The object starts over: its writes are forgotten and may land later, an alarm
\* that was delivered is delivered again.
Restarted ==
    /\ stray' = stray \cup {<<put[p].id, put[p].i>> : p \in {q \in Puts : put[q] # None /\ put[q].at = "sent"}}
    /\ lost' = lost \cup {<<put[p].id, put[p].i>> : p \in {q \in Puts : put[q] # None /\ put[q].at # "sent"}}
    /\ torn' = IF block = None THEN torn ELSE torn \cup block.ids
    /\ put' = [p \in Puts |-> None]
    /\ fin' = {} /\ block' = None /\ ring' = FALSE
    /\ alarm' = IF ring THEN now ELSE alarm

\* R2 deletes some of the objects and fails: blockConcurrencyWhile's exception
\* resets the object, and the rows stay.
RemoveFails ==
    /\ block # None /\ ~block.gone
    /\ faults < plan.faults /\ faults' = faults + 1
    /\ \E some \in SUBSET Objects(block.ids) : r2' = r2 \ some
    /\ Restarted
    /\ UNCHANGED <<plan, now, tree, worker, quota, ended>>

Restart ==
    /\ faults < plan.faults /\ faults' = faults + 1
    /\ Restarted
    /\ UNCHANGED <<plan, now, tree, r2, worker, quota, ended>>

\* A write of the object as it was lands.
StrayLands(o) ==
    /\ o \in stray
    /\ r2' = r2 \cup {o} /\ stray' = stray \ {o} /\ lost' = lost \cup {o}
    /\ UNCHANGED <<plan, now, tree, put, fin, block, alarm, ring, worker, quota, ended, torn, faults>>

Without(n, ids) == [x \in Ids |-> IF x \in ids THEN None ELSE n[x]]
Referring(ids) == {s \in Shares : \E x \in ids : <<s, x>> \in refs}
Unfinished(ids) == ids \cap Pending

\* deleteNode's rows; the answer goes to the request, which ends the shares.
DeleteRows ==
    /\ block # None /\ block.gone /\ block.why = "delete"
    /\ node' = Without(node, block.ids)
    /\ refs' = {r \in refs : r[1] \notin Referring(block.ids)}
    /\ ending' = ending \cup Referring(block.ids)
    /\ owed' = owed \cup Unfinished(block.ids)
    /\ block' = None
    /\ UNCHANGED <<plan, now, drawn, r2, put, fin, alarm, ring, share, bye, paid, ended, stray, lost, loose, torn, faults>>

\* The alarm's rows; the object gives the quota back itself.
PurgeRows ==
    /\ block # None /\ block.gone /\ block.why = "alarm"
    /\ node' = Without(node, block.ids)
    /\ paid' = [x \in Ids |-> IF x \in block.ids THEN paid[x] + 1 ELSE paid[x]]
    /\ block' = None
    /\ UNCHANGED <<plan, now, drawn, r2, put, fin, refs, alarm, ring, worker, owed, ended, stray, lost, torn, faults>>

Between == Referring(Ids)

\* destroy: everything, the alarm included.  The answer may find its request cut off.
DestroyRows ==
    /\ block # None /\ block.gone /\ block.why = "destroy"
    /\ node' = [x \in Ids |-> None] /\ refs' = {} /\ alarm' = None
    /\ bye' = [at |-> "last", left |-> IF bye.at = "cut" THEN {} ELSE Between]
    /\ loose' = IF bye.at = "cut" THEN loose \cup Between ELSE loose
    /\ block' = None
    /\ UNCHANGED <<plan, now, drawn, r2, put, fin, ring, share, ending, quota, ended, stray, lost, torn, faults>>

-----------------------------------------------------------------------------
\* The Worker's requests.

\* DELETE …/nodes/<id>, after the Drive answered.
GiveBack(x) ==
    /\ x \in owed
    /\ owed' = owed \ {x} /\ paid' = [paid EXCEPT ![x] = @ + 1]
    /\ UNCHANGED <<plan, now, tree, r2, put, fin, block, alarm, ring, worker, ended, stray, lost, torn, faults>>

EndShare(s) ==
    /\ s \in ending
    /\ ending' = ending \ {s}
    /\ share' = [share EXCEPT ![s].st = "ended"]
    /\ UNCHANGED <<plan, now, tree, r2, put, fin, block, alarm, ring, bye, loose, quota, ended, stray, lost, torn, faults>>

\* createShare: shareRefs, the share's object and its row, addRefs.
ShareChecked(s, ids) ==
    /\ Free
    /\ share[s].st = "no" /\ s \in plan.shares
    /\ ids # {} /\ ids \subseteq Files \ Pending
    /\ share' = [share EXCEPT ![s] = [st |-> "checked", ids |-> ids]]
    /\ UNCHANGED <<plan, now, tree, r2, put, fin, block, alarm, ring, ending, bye, loose, quota, ended, stray, lost, torn, faults>>

ShareMade(s) ==
    /\ share[s].st = "checked"
    /\ share' = [share EXCEPT ![s].st = "made"]
    /\ UNCHANGED <<plan, now, tree, r2, put, fin, block, alarm, ring, ending, bye, loose, quota, ended, stray, lost, torn, faults>>

StillThere(ids) == ids \subseteq Items

ShareTied(s) ==
    /\ Free
    /\ share[s].st \in {"made", "over"} /\ s \notin loose
    /\ IF StillThere(share[s].ids)
       THEN /\ refs' = refs \cup {<<s, x>> : x \in share[s].ids}
            /\ share' = [share EXCEPT ![s].st = IF @ = "made" THEN "live" ELSE "ended"]
       ELSE /\ share' = [share EXCEPT ![s].st = "refused"]
            /\ UNCHANGED refs
    /\ UNCHANGED <<plan, now, node, drawn, r2, put, fin, block, alarm, ring, ending, bye, loose, quota, ended, stray, lost, torn, faults>>

ShareRefused(s) ==
    /\ share[s].st = "refused" /\ s \notin loose
    /\ share' = [share EXCEPT ![s].st = "ended"]
    /\ UNCHANGED <<plan, now, tree, r2, put, fin, block, alarm, ring, ending, bye, loose, quota, ended, stray, lost, torn, faults>>

\* A share ends on its own (its views, its expiry, its user) and its rows are dropped
\* (#dropDriveRefs, or nodeShares that finds it gone).  Its user may end it before it is tied.
ShareEnds(s) ==
    /\ share[s].st \in {"made", "live"}
    /\ share' = [share EXCEPT ![s].st = IF @ = "live" THEN "ended" ELSE "over"]
    /\ UNCHANGED <<plan, now, tree, r2, put, fin, block, alarm, ring, ending, bye, loose, quota, ended, stray, lost, torn, faults>>

RefsDropped(s) ==
    /\ Free
    /\ share[s].st = "ended"
    /\ refs' = {r \in refs : r[1] # s}
    /\ refs' # refs
    /\ UNCHANGED <<plan, now, node, drawn, r2, put, fin, block, alarm, ring, worker, quota, ended, stray, lost, torn, faults>>

\* destroyDrive: the shares end first, then the Drive goes, then the shares made in between.
ByeListed ==
    /\ Free
    /\ bye.at = "no" /\ plan.bye
    /\ bye' = [at |-> "listed", left |-> {r[1] : r \in refs}]
    /\ UNCHANGED <<plan, now, tree, r2, put, fin, block, alarm, ring, share, ending, loose, quota, ended, stray, lost, torn, faults>>

ByeEnds(s) ==
    /\ s \in bye.left
    /\ bye.at \in {"listed", "last"}
    /\ bye' = [bye EXCEPT !.left = @ \ {s}]
    /\ share' = [share EXCEPT ![s].st = "ended"]
    /\ UNCHANGED <<plan, now, tree, r2, put, fin, block, alarm, ring, ending, loose, quota, ended, stray, lost, torn, faults>>

\* Also the retry of a destroy that failed, and the owner's second attempt.
ByeDestroys ==
    /\ Free
    /\ bye.at \in {"listed", "destroying", "cut"} /\ bye.left = {}
    /\ bye' = [bye EXCEPT !.at = "destroying"]
    /\ block' = [why |-> "destroy", ids |-> Items, gone |-> FALSE]
    /\ UNCHANGED <<plan, now, tree, r2, put, fin, alarm, ring, share, ending, loose, quota, ended, stray, lost, torn, faults>>

ByeDone ==
    /\ bye.at = "last" /\ bye.left = {}
    /\ bye' = [bye EXCEPT !.at = "done"]
    /\ UNCHANGED <<plan, now, tree, r2, put, fin, block, alarm, ring, share, ending, loose, quota, ended, stray, lost, torn, faults>>

\* Requests cut off: what they still had to do is not done.
CutOff ==
    /\ faults < plan.faults /\ faults' = faults + 1
    /\ loose' = loose \cup ending \cup bye.left \cup {s \in Shares : share[s].st \in {"made", "over", "refused"}}
    /\ ending' = {} /\ owed' = {}
    /\ bye' = [at |-> IF bye.at = "destroying" THEN "cut" ELSE IF bye.at = "listed" THEN "no" ELSE bye.at, left |-> {}]
    /\ loose' # loose \/ owed # {} \/ bye' # bye
    /\ share' = [s \in Shares |-> IF share[s].st = "checked" THEN [share[s] EXCEPT !.st = "ended"] ELSE share[s]]
    /\ UNCHANGED <<plan, now, tree, r2, put, fin, block, alarm, ring, paid, ended, stray, lost, torn>>

Tick ==
    /\ now < plan.time
    /\ now' = now + 1
    /\ UNCHANGED <<plan, tree, r2, put, fin, block, alarm, ring, worker, quota, ended, stray, lost, torn, faults>>

-----------------------------------------------------------------------------
Clean ==
    \/ AlarmRings \/ AlarmEnds \/ RemoveObjects \/ DeleteRows \/ PurgeRows \/ DestroyRows

Next ==
    \/ \E x \in Ids, parent \in Ids \cup {Root} : CreateFolder(x, parent) \/ Move(x, parent)
    \/ \E x \in Ids, parent \in Ids \cup {Root}, size \in 0 .. MaxSize : CreateFile(x, parent, size)
    \/ \E p \in Puts, x \in Ids, i \in 0 .. MaxSize - 1 : SendChunk(p, x, i)
    \/ \E p \in Puts : ChunkStored(p) \/ ChunkRecorded(p) \/ ChunkRefused(p) \/ ChunkUndone(p)
    \/ \E x \in Ids : StartFinalize(x) \/ EndFinalize(x) \/ StartDelete(x) \/ GiveBack(x)
    \/ Clean \/ RemoveFails \/ Restart
    \/ \E o \in stray : StrayLands(o)
    \/ \E s \in Shares, ids \in SUBSET Ids : ShareChecked(s, ids)
    \/ \E s \in Shares : \/ ShareMade(s) \/ ShareTied(s) \/ ShareRefused(s) \/ ShareEnds(s)
                         \/ RefsDropped(s) \/ EndShare(s) \/ ByeEnds(s)
    \/ ByeListed \/ ByeDestroys \/ ByeDone
    \/ CutOff \/ Tick

\* The platform answers: R2, the alarm, a request that is not cut off, the clock.
Fairness ==
    /\ WF_vars(Clean) /\ WF_vars(Tick)
    /\ \A p \in Puts : WF_vars(ChunkStored(p)) /\ WF_vars(ChunkRecorded(p) \/ ChunkRefused(p)) /\ WF_vars(ChunkUndone(p))
    /\ \A s \in Shares : WF_vars(EndShare(s)) /\ WF_vars(ByeEnds(s)) /\ WF_vars(ShareTied(s)) /\ WF_vars(ShareRefused(s))

Spec == Init /\ [][Next]_vars /\ Fairness

-----------------------------------------------------------------------------
\* Properties.

\* Every item hangs from the top folder by folders that exist, and no move, however
\* interleaved with deletes, nests it deeper than the role allows (drive-do.js:992-1001).
TreeSound ==
    \A x \in Items :
        /\ Parent(x) \in Folders
        /\ \E y \in Above(x) : Parent(y) = Root
        /\ Depth(IF x \in Files THEN Parent(x) ELSE x) <= plan.depth

\* R2 holds nothing of this Drive but chunks of its items and of writes under way: what
\* an upload that ended left is undone (drive-do.js:912-918).  Only a write cut off by a
\* restart of the object may stay behind.
NoOrphans ==
    r2 \subseteq Objects(Items) \cup lost \cup {<<put[p].id, put[p].i>> : p \in {q \in Puts : put[q] # None}}

\* A file that can be read has every chunk in R2, unless a delete is taking it away or
\* has failed half-way (drive-do.js:1019-1022, 1152).
ReadyComplete ==
    \A x \in (Files \ Pending) \ torn :
        (block = None \/ x \notin block.ids) => \A i \in ChunksOf(x) : <<x, i>> \in r2

\* "a late retry never lands on a complete file" (drive-do.js:892-897): no write is under
\* way to a finished file.
NoLateWrite ==
    \A p \in Puts : put[p] # None => put[p].id \notin Files \ Pending

\* A live share has all its files, and the Drive knows it by each of them, unless a
\* request is about to end it or was cut off before it could (routes/drive.js:339-342,
\* 985-991: "the share must not outlive it").
SharesWhole ==
    \A s \in Shares \ loose :
        share[s].st = "live" /\ s \notin ending \cup bye.left =>
            \A x \in share[s].ids : x \in Files \ Pending /\ <<s, x>> \in refs

\* `refs` names items the Drive has: a deleted item takes every row of its shares with it
\* (drive-do.js:1038-1047).
RefsNameItems == \A r \in refs : r[2] \in Items

\* An upload's quota is given back at most once, and never when the upload was finished
\* (drive-do.js:1049-1051, 2056): the delete's request and the alarm do not both do it.
QuotaBackOnce ==
    \A x \in Ids : paid[x] + (IF x \in owed THEN 1 ELSE 0) <= (IF x \in ended THEN 0 ELSE 1)

\* The purge alarm is due now or no later than the first upload that may lapse, or its handler
\* is about to set it (drive-do.js:385-395, 2064).
AlarmCovers == \A t \in Due(node) : ring \/ (alarm # None /\ (alarm <= t \/ alarm <= now))

\* A share whose file was deleted.
Dangling(s) == share[s].st = "live" /\ ~(share[s].ids \subseteq Items)

\* A deleted account's Drive keeps nothing in R2 once the uploads under way are answered
\* (drive-do.js:1143-1161), and no share of it is live.
GoneIsGone ==
    bye.at = "done" /\ Items = {} /\ (\A p \in Puts : put[p] = None) =>
        /\ r2 \subseteq lost
        /\ \A s \in Shares : share[s].st = "live" => s \in loose \cup ending

\* What always holds of a Drive: its tree hangs together within the depth, R2 holds the chunks of its
\* items and nothing else, a finished file is whole and no late write lands on it, a live share has
\* all its files, quota is given back once, the alarm covers every upload that may lapse and a deleted
\* account leaves nothing, whatever requests, purges, faults and the account's end interleave
\* (drive-do.js:385-395, 892-1051, 1143-1161).
DriveSafe ==
    /\ TypeOK /\ TreeSound /\ NoOrphans /\ ReadyComplete /\ NoLateWrite
    /\ SharesWhole /\ RefsNameItems /\ QuotaBackOnce /\ AlarmCovers /\ GoneIsGone
=============================================================================
