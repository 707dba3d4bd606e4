--------------------------- MODULE ShareLifecycle ---------------------------
(***************************************************************************)
(* One share across the two places that know it: its content (a KV note,   *)
(* or a BurnPaste or FileShare object) and its row in the Directory's      *)
(* share index.  A Worker request is a sequence of calls to the two, one   *)
(* action each, and requests interleave: opening the last view, deleting   *)
(* by token, "delete now", revoking, extending, listing (routes/public.js, *)
(* private.js, admin.js).  Each call to an object or to the Directory is   *)
(* atomic; a KV note is read and written back in two calls.                *)
(***************************************************************************)
EXTENDS Naturals

CONSTANTS
    Requests,   \* Workers' requests in flight
    MaxExpiry,  \* bound on the expiries a share is extended to, 1 the first
    MaxCrashes  \* bound on requests that stop half-way

ConstantsAssumption == MaxExpiry \in Nat \ {0} /\ MaxCrashes \in Nat

Gone == 0
Expiries == 1 .. MaxExpiry
Endings == {"consumed", "deleted", "ended"}

VARIABLES
    content, \* the expiry of the live content, or Gone
    row,     \* the index row: status ("none": no row yet), locked, expires
    job,     \* each request: what it is (op), its next call (at), what it asks for
             \* (want), how it will mark the row (ending)
    made,    \* the store genId drew this id for ("no": not yet): it is never drawn again
    crashes  \* history: requests that stopped half-way

vars == <<content, row, job, made, crashes>>

Idle == [op |-> "none", at |-> "idle", want |-> 1, ending |-> "ended"]

Job == [op : {"none", "create", "open", "delete", "expire", "revoke", "adminRevoke",
              "change", "adminChange", "list"},
        at : {"idle", "index", "destroy", "remove", "update", "purge", "recheck",
              "extend", "write", "patch", "look", "mark"},
        want : Expiries, ending : Endings]

TypeOK ==
    /\ content \in Expiries \cup {Gone}
    /\ row \in [status : {"none", "active", "revoked"} \cup Endings, locked : BOOLEAN, expires : Expiries]
    /\ job \in [Requests -> Job]
    /\ made \in {"no", "object", "kv"}
    /\ crashes \in 0 .. MaxCrashes

Init ==
    /\ content = Gone
    /\ row = [status |-> "none", locked |-> FALSE, expires |-> 1]
    /\ job = [r \in Requests |-> Idle]
    /\ made = "no"
    /\ crashes = 0

-----------------------------------------------------------------------------
Is(r, op, at) == job[r].op = op /\ job[r].at = at

Begin(r, op, at, want) ==
    /\ job[r].at = "idle"
    /\ job' = [job EXCEPT ![r] = [Idle EXCEPT !.op = op, !.at = at, !.want = want]]

Goto(r, at) == job' = [job EXCEPT ![r].at = at]
Done(r) == job' = [job EXCEPT ![r] = Idle]

\* The request's last call will mark the row ended, as `ending`.
ToMark(r, ending) == job' = [job EXCEPT ![r].at = "mark", ![r].ending = ending]

Indexed == row.status # "none"

\* The share is a note without a view limit, kept in KV.
InKV == made = "kv"

\* createNote, finalizeFile: the content is stored, then recordShare indexes it.
CreateStore(r) ==
    /\ made = "no" /\ made' \in {"object", "kv"}
    /\ Begin(r, "create", "index", 1)
    /\ content' = 1
    /\ UNCHANGED <<row, crashes>>

RecordShare(r) ==
    /\ Is(r, "create", "index")
    /\ row' = [row EXCEPT !.status = "active", !.expires = job[r].want]
    /\ Done(r)
    /\ UNCHANGED <<content, made, crashes>>

\* The open that spends the last view; the object has nothing left to serve.
OpenLast(r) ==
    /\ ~InKV /\ content # Gone /\ job[r].at = "idle"
    /\ content' = Gone
    /\ job' = [job EXCEPT ![r] = [Idle EXCEPT !.op = "open", !.at = "mark", !.ending = "consumed"]]
    /\ UNCHANGED <<row, made, crashes>>

\* deleteByToken asks isShareLocked, expireByOpener recipientDeleteStatus, which
\* also refuses an id without a row.
BeginDelete(r, op) ==
    /\ made # "no" /\ ~row.locked
    /\ op = "expire" => Indexed
    /\ Begin(r, op, "destroy", 1)
    /\ UNCHANGED <<content, row, made, crashes>>

\* The object checks the token or the proofs and purges in one step.
DestroyObject(r) ==
    /\ ~InKV /\ job[r].at = "destroy"
    /\ content' = Gone
    /\ IF content = Gone THEN Done(r) ELSE ToMark(r, "deleted")
    /\ UNCHANGED <<row, made, crashes>>

\* A KV note is read (its token or proofs checked by the Worker), then deleted.
DestroyRead(r) ==
    /\ InKV /\ job[r].at = "destroy"
    /\ IF content = Gone THEN Done(r) ELSE Goto(r, "remove")
    /\ UNCHANGED <<content, row, made, crashes>>

DestroyWrite(r) ==
    /\ job[r].at = "remove"
    /\ content' = Gone
    /\ ToMark(r, "deleted")
    /\ UNCHANGED <<row, made, crashes>>

\* revokeShare: getShare; a row already revoked (an earlier purge failed) is only
\* purged again.
BeginRevoke(r) ==
    /\ Indexed /\ ~row.locked
    /\ Begin(r, "revoke", IF row.status = "revoked" THEN "purge" ELSE "update", 1)
    /\ UNCHANGED <<content, row, made, crashes>>

\* updateShare checks the lock again in the step that marks the row.
RevokeUpdate(r) ==
    /\ Is(r, "revoke", "update")
    /\ IF row.locked
       THEN Done(r) /\ UNCHANGED row
       ELSE row' = [row EXCEPT !.status = "revoked"] /\ Goto(r, "purge")
    /\ UNCHANGED <<content, made, crashes>>

\* The owner's revoke purges first and marks the row after.
BeginAdminRevoke(r) ==
    /\ Indexed
    /\ Begin(r, "adminRevoke", "purge", 1)
    /\ UNCHANGED <<content, row, made, crashes>>

PurgeShare(r) ==
    /\ job[r].at = "purge"
    /\ content' = Gone
    /\ IF job[r].op = "revoke" THEN Done(r) ELSE Goto(r, "update")
    /\ UNCHANGED <<row, made, crashes>>

AdminRevokeUpdate(r) ==
    /\ Is(r, "adminRevoke", "update")
    /\ row' = [row EXCEPT !.status = "revoked"]
    /\ Done(r)
    /\ UNCHANGED <<content, made, crashes>>

\* (Patches: had changeShare changed the row before the content.)
BeginChangePatches(r, op, want) ==
    /\ row.status = "active"
    /\ op = "change" => ~row.locked
    /\ Begin(r, op, "patch", want)
    /\ UNCHANGED <<content, row, made, crashes>>

\* changeShare: the row is read, the lock asked again, then the content extended.
BeginChange(r, op, want) ==
    /\ row.status = "active"
    /\ op = "change" => ~row.locked
    /\ Begin(r, op, IF op = "change" THEN "recheck" ELSE "extend", want)
    /\ UNCHANGED <<content, row, made, crashes>>

Recheck(r) ==
    /\ job[r].at = "recheck"
    /\ IF row.locked THEN Done(r) ELSE Goto(r, "extend")
    /\ UNCHANGED <<content, row, made, crashes>>

ExtendObject(r) ==
    /\ ~InKV /\ job[r].at = "extend"
    /\ \/ content = Gone /\ ToMark(r, "ended") /\ UNCHANGED content
       \/ content # Gone /\ job[r].want <= content /\ Done(r) /\ UNCHANGED content
       \/ content # Gone /\ job[r].want > content /\ Goto(r, "patch") /\ content' = job[r].want
    /\ UNCHANGED <<row, made, crashes>>

\* extendKv reads the note and writes it back: two calls.
ExtendRead(r) ==
    /\ InKV /\ job[r].at = "extend"
    /\ \/ content = Gone /\ ToMark(r, "ended")
       \/ content # Gone /\ job[r].want <= content /\ Done(r)
       \/ content # Gone /\ job[r].want > content /\ Goto(r, "write")
    /\ UNCHANGED <<content, row, made, crashes>>

ExtendWrite(r) ==
    /\ job[r].at = "write"
    /\ content' = job[r].want
    /\ Goto(r, "patch")
    /\ UNCHANGED <<row, made, crashes>>

\* updateShare of the row's expiry: refused to the sender while it is locked.
PatchRow(r) ==
    /\ job[r].at = "patch"
    /\ row' = IF job[r].op = "change" /\ row.locked THEN row ELSE [row EXCEPT !.expires = job[r].want]
    /\ Done(r)
    /\ UNCHANGED <<content, made, crashes>>

\* withLiveStatus: an active row of the list is compared with its content.
BeginList(r) ==
    /\ row.status = "active"
    /\ Begin(r, "list", "look", 1)
    /\ UNCHANGED <<content, row, made, crashes>>

ListLook(r) ==
    /\ job[r].at = "look"
    /\ IF content = Gone THEN ToMark(r, "ended") ELSE Done(r)
    /\ UNCHANGED <<content, row, made, crashes>>

\* markShareEnded and shareDeletedByRecipient: only an active row changes.
Mark(r) ==
    /\ job[r].at = "mark"
    /\ row' = IF row.status = "active" THEN [row EXCEPT !.status = job[r].ending] ELSE row
    /\ Done(r)
    /\ UNCHANGED <<content, made, crashes>>

\* setShareLock.
SetLock(on) ==
    /\ Indexed
    /\ row' = [row EXCEPT !.locked = on]
    /\ UNCHANGED <<content, job, made, crashes>>

\* The content's own expiry.
Expire ==
    /\ content # Gone
    /\ content' = Gone
    /\ UNCHANGED <<row, job, made, crashes>>

\* A request stops between two calls (or the next call fails).
Crash(r) ==
    /\ job[r].at # "idle" /\ crashes < MaxCrashes
    /\ Done(r)
    /\ crashes' = crashes + 1
    /\ UNCHANGED <<content, row, made>>

Step(r) ==
    \/ CreateStore(r) \/ RecordShare(r) \/ OpenLast(r)
    \/ \E op \in {"delete", "expire"} : BeginDelete(r, op)
    \/ DestroyObject(r) \/ DestroyRead(r) \/ DestroyWrite(r)
    \/ BeginRevoke(r) \/ RevokeUpdate(r) \/ BeginAdminRevoke(r) \/ PurgeShare(r) \/ AdminRevokeUpdate(r)
    \/ \E op \in {"change", "adminChange"}, want \in Expiries : BeginChange(r, op, want)
    \/ Recheck(r) \/ ExtendObject(r) \/ ExtendRead(r) \/ ExtendWrite(r) \/ PatchRow(r)
    \/ BeginList(r) \/ ListLook(r) \/ Mark(r) \/ Crash(r)

Next == Expire \/ (\E on \in BOOLEAN : SetLock(on)) \/ (\E r \in Requests : Step(r))

Spec == Init /\ [][Next]_vars

-----------------------------------------------------------------------------
Quiet == \A r \in Requests : job[r].at = "idle"

\* A row never says "ended" of content that is still served: every way to end a
\* share destroys the content first, or (revokeShare) is about to.  A request that
\* stopped is the exception: the sender revokes again.  (Of a share in an object: in
\* KV it fails, as RevokedIsGone shows.)
EndedMeansGone ==
    ~InKV /\ crashes = 0 /\ row.status \in Endings \cup {"revoked"} =>
        content = Gone \/ \E r \in Requests : job[r].at = "purge"

\* Once ended a row is never active again, whatever request is still under way, and
\* only a revocation replaces one ending by another.
EndingsFinal ==
    row.status \in Endings \cup {"revoked"} => row'.status \in {row.status, "revoked"}

\* The sender's revoke destroys nothing unless the row was marked first, in the step
\* that checks the lock: a share locked in the meantime is not destroyed by it.
RevokeMarksFirst ==
    \A r \in Requests : Is(r, "revoke", "purge") /\ PurgeShare(r) => row.status = "revoked"

\* The index never promises an active share longer than its content lasts: the
\* content is extended first, in one call of the object.
IndexNotAhead == ~InKV /\ row.status = "active" /\ content # Gone => row.expires <= content

\* A live share that no row knows of, which its sender could not revoke, exists only
\* while it is being created, or when that request stopped.
LiveIsIndexed ==
    content # Gone /\ ~Indexed => crashes > 0 \/ \E r \in Requests : Is(r, "create", "index")

\* "destroys the content at once; the row stays as revoked" (docs/API.md, revoke):
\* when no request is under way a revoked share is gone.
RevokedIsGone == crashes = 0 /\ Quiet /\ row.status = "revoked" => content = Gone
=============================================================================
