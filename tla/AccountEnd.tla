----------------------------- MODULE AccountEnd -----------------------------
(***************************************************************************)
(* The owner deletes an account: its Drive's shares and links end, what    *)
(* late uploaders may still present is kept, the Drive goes, and then the  *)
(* account, while its user shares, makes a link and uploads and somebody   *)
(* sends to the link (src/src/routes/admin.js, src/src/routes/drive.js     *)
(* destroyDrive and createShare, src/src/routes/reverse.js, src/src/       *)
(* drive-do.js allShares, lateHashes and destroy, src/src/directory-do.js  *)
(* deleteUser, reverseLateAdd, claimReverse and activateReverse).          *)
(***************************************************************************)
EXTENDS Naturals, FiniteSets

CONSTANTS
    Plans,      \* what is tried together, chosen at the start
    None

\* A plan: what the account had, requests of the user, how often the owner asks, how often that stops half
\* way, whether the account's notes and file shares go too, whether the user starts nothing between the end
\* of the Drive and of the account, and whether no session starts between lateHashes and the account's end.
Plan == [had : SUBSET {"share", "link"}, does : SUBSET {"share", "link", "upload"}, asks : 1 .. 3, deaths : 0 .. 2, revoke : BOOLEAN, quiet : BOOLEAN, calm : BOOLEAN]
PlansAssumption == Plans \subseteq Plan

VARIABLES
    left,       \* what is left of the plan
    user,       \* the account's row
    row,        \* its share index rows: the Drive share, the link, a note
    live,       \* shares whose record answers
    drive,      \* the Drive: files, uploads, the share's reference, the link, a session of it
    late,       \* the session is in "reverse_late"
    del,        \* the owner's request
    req,        \* the user's requests
    up,         \* the uploader: a session, a request
    counted     \* history: a genuine uploader was counted as guessing, by a request from before or after the end

vars == <<left, user, row, live, drive, late, del, req, up, counted>>
Shares == {"share", "link", "note"}
Requests == {"share", "link", "upload"}
Empty == [files |-> {}, pending |-> {}, ref |-> None, link |-> None, session |-> FALSE]
Idle == [at |-> "off", known |-> {}, hash |-> FALSE]

Init ==
    /\ left \in Plans /\ user = TRUE
    /\ row = [s \in Shares |-> IF s \in left.had \cup {"note"} THEN "active" ELSE None] /\ live = {"note"} \cup (left.had \cap {"share"})
    /\ drive = [Empty EXCEPT !.files = {"old"}, !.ref = IF "share" \in left.had THEN "old" ELSE None, !.link = IF "link" \in left.had THEN "active" ELSE None]
    /\ late = FALSE /\ del = Idle /\ req = [r \in Requests |-> "off"] /\ up = [at |-> "off", grant |-> FALSE] /\ counted = {}

(***************************************************************************)
(* The owner                                                               *)
(***************************************************************************)
At(pc, next) == del.at = pc /\ del' = [del EXCEPT !.at = next]
Ends(s) == IF row[s] = "active" THEN "revoked" ELSE row[s]
OfDrive == (IF drive.ref # None THEN {"share"} ELSE {}) \cup (IF drive.link = "active" THEN {"link"} ELSE {})
Ask ==
    /\ left.asks > 0 /\ left' = [left EXCEPT !.asks = @ - 1] /\ user /\ At("off", "list")
    /\ UNCHANGED <<user, row, live, drive, late, req, up, counted>>
List ==
    /\ del.at = "list" /\ del' = [del EXCEPT !.at = "revoke", !.known = OfDrive]
    /\ UNCHANGED <<left, user, row, live, drive, late, req, up, counted>>
Revoke ==
    /\ At("revoke", "end") /\ live' = live \ del.known
    /\ UNCHANGED <<left, user, row, drive, late, req, up, counted>>
End ==
    /\ At("end", "hashes") /\ row' = [s \in Shares |-> IF s \in del.known THEN Ends(s) ELSE row[s]]
    /\ UNCHANGED <<left, user, live, drive, late, req, up, counted>>
Hashes == drive.session
LateHashes ==
    /\ del.at = "hashes" /\ del' = [del EXCEPT !.at = "keep", !.hash = Hashes]
    /\ UNCHANGED <<left, user, row, live, drive, late, req, up, counted>>
Keep ==
    /\ At("keep", "destroy") /\ late' = (late \/ del.hash)
    /\ UNCHANGED <<left, user, row, live, drive, req, up, counted>>
\* What came since the first list, and the Drive with no file, no upload and no link.
LaterNone == {}
Later == OfDrive \ del.known
Destroyed == Empty
Destroy ==
    /\ del.at = "destroy" /\ drive' = Destroyed /\ del' = [del EXCEPT !.at = "after", !.known = Later]
    /\ UNCHANGED <<left, user, row, live, late, req, up, counted>>
After ==
    /\ At("after", "user") /\ live' = live \ del.known
    /\ row' = IF "link" \in del.known THEN [row EXCEPT !["link"] = Ends("link")] ELSE row
    /\ UNCHANGED <<left, user, drive, late, req, up, counted>>
DeleteUser ==
    /\ del.at = "user" /\ del' = [del EXCEPT !.at = "purge", !.known = {s \in Shares : row[s] = "active"}]
    /\ user' = FALSE /\ row' = [s \in Shares |-> None]
    /\ UNCHANGED <<left, live, drive, late, req, up, counted>>
Purge ==
    /\ del.at = "purge" /\ del' = Idle /\ live' = IF left.revoke THEN live \ del.known ELSE live
    /\ UNCHANGED <<left, user, row, drive, late, req, up, counted>>
\* A step failed three times, or the Worker was stopped.
Dies ==
    /\ left.deaths > 0 /\ left' = [left EXCEPT !.deaths = @ - 1] /\ del.at # "off" /\ del' = Idle
    /\ UNCHANGED <<user, row, live, drive, late, req, up, counted>>

(***************************************************************************)
(* The user: each request is let in while the account is there             *)
(***************************************************************************)
Does(r, pc, next) == req[r] = pc /\ req' = [req EXCEPT ![r] = next]
LetIn(r) == user /\ r \in left.does /\ (left.quiet => del.at \notin {"after", "user"} /\ drive # Empty)
Share ==
    /\ \/ LetIn("share") /\ drive.files # {} /\ row["share"] = None /\ Does("share", "off", "authorize") /\ UNCHANGED <<row, live, drive>>
       \/ user /\ Does("share", "authorize", "init") /\ UNCHANGED <<row, live, drive>>
       \/ ~user /\ Does("share", "authorize", "over") /\ UNCHANGED <<row, live, drive>>
       \/ Does("share", "init", "record") /\ live' = live \cup {"share"} /\ UNCHANGED <<row, drive>>
       \/ Does("share", "record", "add") /\ row' = [row EXCEPT !["share"] = "active"] /\ UNCHANGED <<live, drive>>
       \/ "old" \in drive.files /\ Does("share", "add", "over") /\ drive' = [drive EXCEPT !.ref = "old"] /\ UNCHANGED <<row, live>>
       \/ "old" \notin drive.files /\ Does("share", "add", "end") /\ live' = live \ {"share"} /\ UNCHANGED <<row, drive>>
       \/ Does("share", "end", "over") /\ row' = [row EXCEPT !["share"] = Ends("share")] /\ UNCHANGED <<live, drive>>
    /\ UNCHANGED <<left, user, late, del, up, counted>>
Link ==
    /\ \/ LetIn("link") /\ row["link"] = None /\ drive.link = None /\ Does("link", "off", "make") /\ row' = [row EXCEPT !["link"] = "pending"] /\ UNCHANGED drive
       \/ Does("link", "make", "activate") /\ drive' = [drive EXCEPT !.link = "active"] /\ UNCHANGED row
       \/ Does("link", "make", "over") /\ row' = [row EXCEPT !["link"] = IF @ = "pending" THEN None ELSE @] /\ UNCHANGED drive
       \/ row["link"] = "pending" /\ Does("link", "activate", "over") /\ row' = [row EXCEPT !["link"] = "active"] /\ UNCHANGED drive
       \/ row["link"] # "pending" /\ Does("link", "activate", "over") /\ drive' = [drive EXCEPT !.link = IF @ = None THEN @ ELSE "revoked"] /\ UNCHANGED row
    /\ UNCHANGED <<left, user, live, late, del, up, counted>>
Upload ==
    /\ \/ LetIn("upload") /\ Does("upload", "off", "reserve") /\ UNCHANGED drive
       \/ Does("upload", "reserve", "sending") /\ drive' = [drive EXCEPT !.pending = {"new"}]
       \/ LetIn("upload") /\ Does("upload", "sending", "finish") /\ UNCHANGED drive
       \/ Does("upload", "sending", "over") /\ UNCHANGED drive
       \/ Does("upload", "finish", "over") /\ drive' = [drive EXCEPT !.pending = {}, !.files = @ \cup drive.pending]
    /\ UNCHANGED <<left, user, row, live, late, del, up, counted>>
\* The Drive's alarm: an upload nobody goes on with.
Alarm ==
    /\ drive.pending # {} /\ req["upload"] = "over" /\ drive' = [drive EXCEPT !.pending = {}]
    /\ UNCHANGED <<left, user, row, live, late, del, req, up, counted>>

(***************************************************************************)
(* The uploader                                                            *)
(***************************************************************************)
Goes(pc, next) == up.at = pc /\ up' = [up EXCEPT !.at = next]
Counts(when) == counted' = counted \cup {when}
Begin ==
    /\ \/ ~up.grant /\ row["link"] = "active" /\ Goes("off", "begin") /\ UNCHANGED drive
       \/ /\ up.at = "begin" /\ user /\ drive.link = "active" /\ (left.calm => del.at \notin {"keep", "destroy", "after", "user"})
          /\ up' = [at |-> "off", grant |-> TRUE] /\ drive' = [drive EXCEPT !.session = TRUE]
       \/ (~user \/ drive.link # "active") /\ Goes("begin", "off") /\ UNCHANGED drive
    /\ UNCHANGED <<left, user, row, live, late, del, req, counted>>
\* A request with the session: the index row first; then, when it is not there, what was kept of deleted
\* accounts, and else the Drive (a file to reserve, or the end of the session).
Known == late
Send ==
    /\ up.grant
    /\ \/ row["link"] = "active" /\ Goes("off", "send") /\ UNCHANGED counted
       \/ row["link"] \in {"pending", "revoked"} /\ Goes("off", "issued") /\ UNCHANGED counted
       \/ row["link"] = None /\ up.at = "off" /\ ~Known /\ UNCHANGED up /\ Counts("after")
       \/ Goes("send", "off") /\ UNCHANGED counted
       \/ ~(drive.link = "active" /\ drive.session) /\ Goes("send", "issued") /\ UNCHANGED counted
       \/ drive.session /\ Goes("issued", "off") /\ UNCHANGED counted
       \/ ~drive.session /\ Goes("issued", "off") /\ Counts("before")
    /\ UNCHANGED <<left, user, row, live, drive, late, del, req>>

Owner == Ask \/ List \/ Revoke \/ End \/ LateHashes \/ Keep \/ Destroy \/ After \/ DeleteUser \/ Purge
Next == Owner \/ Dies \/ Share \/ Link \/ Upload \/ Alarm \/ Begin \/ Send
Spec == Init /\ [][Next]_vars /\ WF_vars(Share) /\ WF_vars(Upload) /\ WF_vars(Alarm)

(***************************************************************************)
(* Properties                                                              *)
(***************************************************************************)
\* Types.
TypeOK ==
    /\ row \in [Shares -> {"pending", "active", "revoked", None}] /\ live \subseteq {"share", "note"} /\ counted \subseteq {"before", "after"}
    /\ drive.files \subseteq {"old", "new"} /\ drive.pending \subseteq {"new"} /\ drive.link \in {"active", "revoked", None}
    /\ user \in BOOLEAN /\ late \in BOOLEAN /\ del.known \subseteq Shares

\* destroyDrive, "its Drive goes, with every share of it" and "a share made in between": once the account
\* is gone and no request runs, none of its Drive's shares answers, and none at all when the owner asked.
\* (No plan stops half way while a share is made: what came since the first list is revoked only by the
\* request that destroyed the Drive.)
NothingOpens == ~user /\ del = Idle /\ req["share"] \in {"off", "over"} => live \subseteq (IF left.revoke THEN {} ELSE {"note"})

\* DELETE users, "the account is deleted only once nothing of its Drive is left": no file stays for ever.
Deleted == ~user /\ left.quiet
NothingStored == drive.files = {} /\ drive.pending = {}

\* reverseLateKnown, "answered 410, never counted as a guess": a genuine uploader's request that
\* starts once the account is gone.
LateIsKnown == left.calm /\ left.quiet => "after" \notin counted
=============================================================================
