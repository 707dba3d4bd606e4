------------------------------ MODULE MCShares ------------------------------
(***************************************************************************)
(* FileShare, three more instances of it with tables and bounds of their   *)
(* own, and AccountEnd.  A behaviour is a behaviour of one of them,        *)
(* `part`: the extended FileShare takes the uploads, the other instances   *)
(* share a second set of variables, and what a part does not use stays as  *)
(* it started.                                                             *)
(***************************************************************************)
EXTENDS FileShare, Sequences

CONSTANTS
    None,
    Parts          \* the parts a run tries

VARIABLES
    part,
    clock, share, table, lock, wake, drawn, purging, held, puts, spent, tries, since, strays, failed,
    left, user, row, live, drive, late, del, req, up, counted
otherVars == <<clock, share, table, lock, wake, drawn, purging, held, puts, spent, tries, since, strays, failed>>
endVars == <<left, user, row, live, drive, late, del, req, up, counted>>
allVars == <<part, vars, otherVars, endVars>>

-----------------------------------------------------------------------------
Kind(password, hc, deletable) == [password |-> password, hc |-> hc, deletable |-> deletable]
PlainDeletable == {Kind(FALSE, FALSE, TRUE)}
Plain == {Kind(FALSE, FALSE, FALSE)}
Guarded == {Kind(TRUE, TRUE, FALSE), Kind(TRUE, FALSE, TRUE)}
TwoPuts == {"p1", "p2"}
OnePut == {"p1"}
OneClient == {"c1"}
TwoClients == {"c1", "c2"}
TwoChunks == {0, 1}
OneChunk == {0}
NoPuts == {}

NoOther ==
    /\ clock = None /\ share = None /\ table = None /\ lock = None /\ wake = None /\ drawn = None /\ purging = None /\ held = None
    /\ puts = None /\ spent = None /\ tries = None /\ since = None /\ strays = None /\ failed = None
NoEnd ==
    /\ left = None /\ user = None /\ row = None /\ live = None /\ drive = None /\ late = None /\ del = None /\ req = None /\ up = None
    /\ counted = None

\* Uploads, purges and failures: two chunks, two requests in flight (the configuration's values).
InitUploads == part = "upload" /\ Init /\ NoOther /\ NoEnd
InUpload(Act) == part = "upload" /\ Act /\ UNCHANGED <<part, otherVars, endVars>>

\* Downloads: two clients share a table of three grants, two each.
G == INSTANCE FileShare WITH PwMaxFails <- 2, PwWindowSec <- 2, PwLockSec <- 1, PwLockMaxSec <- 2, MaxTime <- 4, MaxViews <- 3,
                             Chunks <- OneChunk, Puts <- NoPuts, Retries <- FALSE, Clients <- TwoClients, PendingSec <- 1, Ttl <- 3, GrantSec <- 2,
                             MaxActiveGrants <- 3, MaxGrantsPerClient <- 2, MaxGrantExtensions <- 1, Kinds <- Plain, MaxFaults <- 0,
                             now <- clock, rec <- share, grants <- table, pw <- lock, alarm <- wake, made <- drawn, purge <- purging, r2 <- held, put <- puts,
                             opened <- spent, guesses <- tries, born <- since, lost <- strays, faults <- failed
InitGrants == part = "grants" /\ G!Init /\ Init /\ NoEnd
InGrants(Act) == part = "grants" /\ Act /\ UNCHANGED <<part, vars, endVars>>

\* The password lockout of a file share, with and without the CAPTCHA.
P == INSTANCE FileShare WITH PwMaxFails <- 2, PwWindowSec <- 2, PwLockSec <- 1, PwLockMaxSec <- 2, MaxTime <- 4, MaxViews <- 2,
                             Chunks <- OneChunk, Puts <- OnePut, Retries <- FALSE, Clients <- OneClient, PendingSec <- 1, Ttl <- 3, GrantSec <- 1,
                             MaxActiveGrants <- 1, MaxGrantsPerClient <- 1, MaxGrantExtensions <- 1, Kinds <- Guarded, MaxFaults <- 0,
                             now <- clock, rec <- share, grants <- table, pw <- lock, alarm <- wake, made <- drawn, purge <- purging, r2 <- held, put <- puts,
                             opened <- spent, guesses <- tries, born <- since, lost <- strays, faults <- failed
InitGuarded == part = "guarded" /\ P!Init /\ Init /\ NoEnd
InGuarded(Act) == part = "guarded" /\ Act /\ UNCHANGED <<part, vars, endVars>>

\* A chunk sent again while the upload is finalized.
Z == INSTANCE FileShare WITH PwMaxFails <- 2, PwWindowSec <- 2, PwLockSec <- 1, PwLockMaxSec <- 2, MaxTime <- 3, MaxViews <- 1,
                             Chunks <- OneChunk, Puts <- OnePut, Retries <- TRUE, Clients <- OneClient, PendingSec <- 2, Ttl <- 1, GrantSec <- 1,
                             MaxActiveGrants <- 1, MaxGrantsPerClient <- 1, MaxGrantExtensions <- 0, Kinds <- PlainDeletable, MaxFaults <- 0,
                             now <- clock, rec <- share, grants <- table, pw <- lock, alarm <- wake, made <- drawn, purge <- purging, r2 <- held, put <- puts,
                             opened <- spent, guesses <- tries, born <- since, lost <- strays, faults <- failed
InitResent == part = "resent" /\ Z!Init /\ Init /\ NoEnd
InResent(Act) == part = "resent" /\ Act /\ UNCHANGED <<part, vars, endVars>>

\* The end of an account: its user shares, makes a link and uploads meanwhile; it stops half way and
\* is asked again; requests as they come.
Base == [had |-> {"share", "link"}, does |-> {}, asks |-> 1, deaths |-> 0, revoke |-> FALSE, quiet |-> TRUE, calm |-> TRUE]
Making == {[Base EXCEPT !.had = {}, !.does = {"share", "link", "upload"}, !.revoke = v] : v \in BOOLEAN}
Again == {[Base EXCEPT !.does = {"upload"}, !.asks = 3, !.deaths = 2]}
Loud == {[Base EXCEPT !.had = {}, !.does = {"share", "link"}, !.calm = FALSE, !.quiet = FALSE]}
EndPlans == Making \cup Again \cup Loud
E == INSTANCE AccountEnd WITH Plans <- EndPlans
InitEnd == part = "end" /\ E!Init /\ Init /\ NoOther
InEnd(Act) == part = "end" /\ Act /\ UNCHANGED <<part, vars, otherVars>>

-----------------------------------------------------------------------------
ASSUME G!SizesAssumption /\ G!KindsAssumption /\ P!SizesAssumption /\ P!KindsAssumption
ASSUME Z!SizesAssumption /\ Z!KindsAssumption /\ E!PlansAssumption

SharesInit == part \in Parts /\ (InitUploads \/ InitGrants \/ InitGuarded \/ InitResent \/ InitEnd)
SharesNext == InUpload(Next) \/ InGrants(G!Next) \/ InGuarded(P!Next) \/ InResent(Z!Next) \/ InEnd(E!Next)

\* The fairness of the uploads' instance and of AccountEnd, as their specifications state it; only one
\* of them ever has steps.
SharesFairness ==
    /\ WF_allVars(InUpload(Alarm) \/ InEnd(E!Alarm))
    /\ WF_allVars(InUpload(PurgeChunks) \/ InEnd(E!Share))
    /\ WF_allVars(InUpload(PurgeRecord) \/ InEnd(E!Upload))
    /\ \A q \in TwoPuts : WF_allVars(InUpload(WriteChunk(q))) /\ WF_allVars(InUpload(CommitChunk(q))) /\ WF_allVars(InUpload(UndoChunk(q)))

SharesSpec == SharesInit /\ [][SharesNext]_allVars /\ SharesFairness

-----------------------------------------------------------------------------
\* What FileKept says of uploads (FileShare.tla), said of the other instances: of downloads, whoever
\* opens and extends; of shares with a password; of a chunk sent again (fileshare-do.js).  No step takes
\* a download away that was granted, but for an end that is asked for.  And a share with a password
\* implements PasswordLockout: whoever asks, through whichever call (open, expireNow), its promises hold.
FileSafe ==
    /\ [](part = "grants" => G!FileKept) /\ [](part = "guarded" => P!FileKept) /\ [](part = "resent" => Z!FileKept)
    /\ [][part = "grants" => G!GrantsKept]_allVars
    /\ part = "guarded" => P!Lockout!Init
    /\ [][part = "guarded" => [P!Lockout!Next]_(P!Lockout!lockoutVars)]_allVars

\* What is left once an account is deleted (AccountEnd.tla): no share of its Drive answers, and its
\* uploaders' late requests are known, however often the owner's request stopped half way (routes/
\* admin.js, "the account is deleted only once nothing of its Drive is left").
AccountGone == part = "end" => E!TypeOK /\ E!NothingOpens /\ E!LateIsKnown

\* What must end does: a share that is due is purged unasked, once R2 stops failing, unless it is
\* extended or its upload finalized meanwhile; a deleted account's Drive keeps no file.
AllEnd ==
    (part = "upload" /\ Overdue) \/ (part = "end" /\ E!Deleted) ~>
        (part = "upload" => ~Overdue) /\ (part = "end" => E!NothingStored)

\* putChunk deletes what it wrote only when nothing refers to it (its comment: "rather than leave
\* ciphertext in R2 that nothing refers to").
UndoneOnlyUnreferenced == [][part = "resent" => Z!UndoesOnlyUnreferenced]_allVars
=============================================================================
