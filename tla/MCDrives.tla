------------------------------ MODULE MCDrives ------------------------------
(***************************************************************************)
(* Drive, and instances of Receive, ReceiveLink and DriveUpgrade.  A       *)
(* behaviour is a behaviour of one of the four, `part`: Drive is extended, *)
(* so that what is proved of it is checked by its own name, the others     *)
(* share a second set of variables, and what a part does not use stays as  *)
(* it started.                                                             *)
(***************************************************************************)
EXTENDS Drive

CONSTANT Parts    \* the parts a run tries

VARIABLES
    part,
    chosen, time, link, dirs, sess, up, known, own, objects, sends, fins, removal, lapsing, change, wake, rung, pw, guesses, born, strikes, used,
    finished, got, logged, back, cut, billed, strays, leftover, halves, spilt, failures, index, drive, tombs, folder1, charged, opened, req, clock,
    item, wraps, held, escrow, records, creds, mig, cursor, seen, tab, forgot, sync, deaths
otherVars == <<chosen, time, link, dirs, sess, up, known, own, objects, sends, fins, removal, lapsing, change, wake, rung, pw, guesses, born, strikes, used,
               finished, got, logged, back, cut, billed, strays, leftover, halves, spilt, failures, index, drive, tombs, folder1, charged, opened,
               req, clock, item, wraps, held, escrow, records, creds, mig, cursor, seen, tab, forgot, sync, deaths>>
allVars == <<part, vars, otherVars>>
NoneElse ==
    /\ chosen = None /\ time = None /\ link = None /\ dirs = None /\ sess = None /\ up = None /\ known = None /\ own = None
    /\ objects = None /\ sends = None /\ fins = None /\ removal = None /\ lapsing = None /\ change = None /\ wake = None /\ rung = None
    /\ pw = None /\ guesses = None /\ born = None /\ strikes = None /\ used = None /\ finished = None /\ got = None /\ logged = None
    /\ back = None /\ cut = None /\ billed = None /\ strays = None /\ leftover = None /\ halves = None /\ spilt = None /\ failures = None
    /\ index = None /\ drive = None /\ tombs = None /\ folder1 = None /\ charged = None /\ opened = None /\ req = None /\ clock = None
    /\ item = None /\ wraps = None /\ held = None /\ escrow = None /\ records = None /\ creds = None /\ mig = None /\ cursor = None
    /\ seen = None /\ tab = None /\ forgot = None /\ sync = None /\ deaths = None

-----------------------------------------------------------------------------
\* Drive: moves and deletes in a tree of three items, where the depth refuses and where it does
\* not; one upload with its chunks sent twice, purges and faults; two files shared while they are
\* deleted; the account's end.
DriveIds == {"n1", "n2", "n3"}
ShareIds == {"s1", "s2"}
PutIds == {"p1", "p2"}
Moves == [items |-> 3, dirs |-> TRUE, depth |-> 2, size |-> 0, time |-> 0, faults |-> 0, shares |-> {}, bye |-> FALSE]
DeepMoves == [Moves EXCEPT !.depth = 4]
Uploads == [items |-> 1, dirs |-> FALSE, depth |-> 0, size |-> 1, time |-> 2, faults |-> 0, shares |-> {}, bye |-> FALSE]
Failing == [Uploads EXCEPT !.time = 1, !.faults = 1]
Chunks == [items |-> 1, dirs |-> FALSE, depth |-> 0, size |-> 2, time |-> 1, faults |-> 0, shares |-> {}, bye |-> FALSE]
Sharing == [items |-> 2, dirs |-> TRUE, depth |-> 2, size |-> 0, time |-> 0, faults |-> 1, shares |-> {"s1"}, bye |-> FALSE]
Leaving == [items |-> 1, dirs |-> FALSE, depth |-> 0, size |-> 1, time |-> 0, faults |-> 0, shares |-> {"s1"}, bye |-> TRUE]
LeavingCut == [Leaving EXCEPT !.size = 0, !.faults = 1]
DrivePlans == {Moves, DeepMoves, Uploads, Failing, Chunks, Sharing, Leaving, LeavingCut}

InitDrive == part = "drive" /\ Init /\ NoneElse
InDrive(Act) == part = "drive" /\ Act /\ UNCHANGED <<part, otherVars>>
\* The Drive of another part's behaviour does not move.
Unused == Init /\ plan = Moves

-----------------------------------------------------------------------------
\* Receive: two uploads in a Drive that holds one of them; one that times out, or whose chunks fail; a chunk
\* on its way while the link is paused or ends; sessions that come and go meanwhile; two finalizes of
\* one upload; moves and deletes of the folder; more sessions than the link takes; the lockout; a
\* chunk in flight twice.
SessionIds == {"s1", "s2", "s3"}
Networks == {"m1", "m2"}
UploadIds == {"u1", "u2"}
Finalizes == {"f1", "f2"}
FolderIds == {"d1", "d2"}
Quiet == [ups |-> {}, sess |-> {"s1"}, nets |-> {"m1"}, sizes |-> {0}, puts |-> {}, fins |-> {}, views |-> 1, exps |-> {10},
          time |-> 0, faults |-> 0, resend |-> FALSE, owner |-> FALSE, move |-> FALSE, pause |-> FALSE, end |-> FALSE, pw |-> FALSE]
Filling == [Quiet EXCEPT !.ups = UploadIds, !.sizes = {2}, !.puts = PutIds]
Timing == [Quiet EXCEPT !.ups = {"u1"}, !.sizes = {1}, !.puts = {"p1"}, !.fins = {"f1"}, !.time = 3]
Failed == [Timing EXCEPT !.fins = {}, !.faults = 1]
Cutting == [Quiet EXCEPT !.ups = {"u1"}, !.sizes = {1}, !.puts = {"p1"}, !.fins = {"f1"}, !.pause = TRUE, !.end = TRUE]
Closing == [Quiet EXCEPT !.ups = {"u1"}, !.sess = {"s1", "s2"}, !.fins = {"f1"}, !.views = 2, !.exps = {2}, !.time = 2, !.pause = TRUE]
Finishing == [Quiet EXCEPT !.ups = {"u1"}, !.fins = Finalizes, !.faults = 1]
Moving == [Quiet EXCEPT !.ups = {"u1"}, !.fins = {"f1"}, !.move = TRUE, !.owner = TRUE]
Crowding == [Quiet EXCEPT !.sess = SessionIds, !.nets = Networks, !.views = 3, !.time = 2]
Guessing == [Quiet EXCEPT !.sess = {"s1", "s2"}, !.time = 4, !.pw = TRUE]
Resending == [Quiet EXCEPT !.ups = {"u1"}, !.sizes = {1}, !.puts = PutIds, !.fins = {"f1"}, !.resend = TRUE]
ReceivePlans == {Filling, Timing, Failed, Cutting, Closing, Finishing, Moving, Crowding, Guessing, Resending}

R == INSTANCE Receive WITH Sess <- SessionIds, Nets <- Networks, Ups <- UploadIds, Dirs <- FolderIds, Puts <- PutIds, Fins <- Finalizes,
                           MaxSize <- 2, Capacity <- 2, HoldMax <- 2, MaxFiles <- 2, MaxSessions <- 2, MaxPerNet <- 1,
                           PwMaxFails <- 2, PwWindowSec <- 2, PwLockSec <- 1, PendingSec <- 2, IdleSec <- 1, MaxSec <- 3, MaxTime <- 4,
                           Plans <- ReceivePlans,
                           plan <- chosen, now <- time, r2 <- objects, put <- sends, fin <- fins, block <- removal, alarm <- wake, ring <- rung,
                           drawn <- used, ended <- finished, stray <- strays, lost <- leftover, torn <- halves, faults
                           <- failures
notReceive == <<index, drive, tombs, folder1, charged, opened, req, clock, item, wraps, held, escrow, records, creds, mig, cursor, seen, tab, forgot,
                sync, deaths>>
InitReceive ==
    /\ part = "receive" /\ R!Init /\ Unused
    /\ index = None /\ drive = None /\ tombs = None /\ folder1 = None /\ charged = None /\ opened = None /\ req = None /\ clock = None
    /\ item = None /\ wraps = None /\ held = None /\ escrow = None /\ records = None /\ creds = None /\ mig = None /\ cursor = None
    /\ seen = None /\ tab = None /\ forgot = None /\ sync = None /\ deaths = None
InReceive(Act) == part = "receive" /\ Act /\ UNCHANGED <<part, vars, notReceive>>

-----------------------------------------------------------------------------
\* ReceiveLink: two links claimed by two requests, the same one again, a Worker dying; one link by
\* three, none dying; one that ended long ago; one changed while it is locked, revoked, paused or its
\* folder goes, or another one is claimed.
LinkIds == {"l1", "l2"}
LinkRequests == {"r1", "r2", "r3"}
AllChanges == {[expires |-> 2], [captcha |-> 1], [pw |-> 2], [expires |-> 99], [views |-> 99, captcha |-> 0], [captcha |-> 1, accept |-> 1],
               [captcha |-> 0], [pw |-> 2, accept |-> 0], [folder |-> 0, expires |-> 3], [folder |-> 0]}
Made == [links |-> LinkIds, reqs |-> {"r1", "r2"}, does |-> {"create", "revoke"}, sets |-> {}, by |-> {"session"}, there |-> {}, die |-> TRUE,
         calm |-> FALSE, prompt |-> TRUE, time |-> 3, lives |-> {1}]
Paying == [Made EXCEPT !.die = FALSE, !.reqs = LinkRequests, !.does = {"create"}]
Again == [Made EXCEPT !.there = {"l1"}, !.links = {"l1"}, !.reqs = {"r1"}, !.time = 4]
Locking == [Made EXCEPT !.there = {"l1"}, !.links = {"l1"}, !.does = {"change", "lock", "folder"}, !.die = FALSE, !.calm = TRUE, !.time = 1,
            !.sets = {[pw |-> 2, accept |-> 0], [views |-> 99, captcha |-> 0], [folder |-> 0, expires |-> 3]}, !.by = {"session", "key", "admin"}]
Ending == [Locking EXCEPT !.does = {"change", "revoke", "folder"}, !.sets = {[captcha |-> 0], [folder |-> 0]}]
AnyChange == [Locking EXCEPT !.does = {"change"}, !.sets = AllChanges, !.by = {"session", "key", "acting", "admin"}, !.reqs = {"r1"}, !.lives = {1, 99}]
Holding == [Locking EXCEPT !.does = {"change", "pause", "resume", "lock"}, !.sets = {[captcha |-> 0]}, !.by = {"session", "key"}]
Extending == [Locking EXCEPT !.links = LinkIds, !.does = {"change", "create"}, !.sets = {[expires |-> 2]}, !.by = {"session"}, !.time = 3]
LinkPlans == {Made, Paying, Again, Locking, Ending, AnyChange, Holding, Extending}

L == INSTANCE ReceiveLink WITH Links <- LinkIds, Reqs <- LinkRequests, Changes <- AllChanges, Cap <- 1, PendingSec <- 1, Never <- 99,
                               MaxTime <- 4, Plans <- LinkPlans, plan <- chosen, paid <- charged
notLink == <<time, link, dirs, sess, up, known, own, objects, sends, fins, removal, lapsing, change, wake, rung, pw, guesses, born, strikes, used,
             finished, got, back, cut, billed, strays, leftover, halves, spilt, failures, item, wraps, held, escrow, records, creds, mig, cursor,
             seen, tab, forgot, sync, deaths>>
InitLink ==
    /\ part = "link" /\ L!Init /\ Unused
    /\ time = None /\ link = None /\ dirs = None /\ sess = None /\ up = None /\ known = None /\ own = None /\ objects = None /\ sends = None
    /\ fins = None /\ removal = None /\ lapsing = None /\ change = None /\ wake = None /\ rung = None /\ pw = None /\ guesses = None
    /\ born = None /\ strikes = None /\ used = None /\ finished = None /\ got = None /\ back = None /\ cut = None /\ billed = None
    /\ strays = None /\ leftover = None /\ halves = None /\ spilt = None /\ failures = None /\ item = None /\ wraps = None /\ held = None
    /\ escrow = None /\ records = None /\ creds = None /\ mig = None /\ cursor = None /\ seen = None /\ tab = None /\ forgot = None
    /\ sync = None /\ deaths = None
InLink(Act) == part = "link" /\ Act /\ UNCHANGED <<part, vars, notLink>>

-----------------------------------------------------------------------------
\* DriveUpgrade: two tabs upgrade the user's Drive, renamed as they do, or the administrator's with a
\* link; both Drives, the user's account going; credentials changed, passwords set, the administrator's
\* account recovered; a Drive the Directory has no row of.
UpgradeTabs == {"t1", "t2"}
BothDrives == {"admin", "user"}
Two == [drives |-> {"user"}, tabs |-> UpgradeTabs, links |-> {"none"}, wraps |-> {{"pw"}}, rowless |-> {}, adds |-> {}, does |-> {"rename"},
        deaths |-> 1, asks |-> FALSE]
Linked == [Two EXCEPT !.links = {"none", "v1", "bad"}, !.does = {}, !.drives = {"admin"}, !.asks = TRUE]
Gone == [Two EXCEPT !.drives = BothDrives, !.does = {"delete"}]
Turned == [Gone EXCEPT !.tabs = {"t1"}, !.wraps = {{"pw", "passkey", "recovery"}}, !.does = {"reset", "remove", "recover"}, !.deaths = 0]
Adding == [Turned EXCEPT !.drives = {"admin"}, !.adds = {"admin"}]
Rowless == [Gone EXCEPT !.rowless = {"user"}, !.does = {}, !.deaths = 0]
UpgradePlans == {Two, Linked, Turned, Adding, Gone, Rowless}

U == INSTANCE DriveUpgrade WITH Drives <- BothDrives, Owner <- "admin", Size <- 2, Tabs <- UpgradeTabs, MaxRenames <- 1, Plans <- UpgradePlans,
                                plan <- chosen
notUpgrade == <<time, dirs, sess, up, known, own, objects, sends, fins, removal, lapsing, change, wake, rung, pw, guesses, born, strikes, used,
                finished, got, logged, back, cut, billed, strays, leftover, halves, spilt, failures, index, drive, tombs, folder1, charged, opened,
                req, clock>>
InitUpgrade ==
    /\ part = "upgrade" /\ U!Init /\ Unused
    /\ time = None /\ dirs = None /\ sess = None /\ up = None /\ known = None /\ own = None /\ objects = None /\ sends = None /\ fins = None
    /\ removal = None /\ lapsing = None /\ change = None /\ wake = None /\ rung = None /\ pw = None /\ guesses = None /\ born = None
    /\ strikes = None /\ used = None /\ finished = None /\ got = None /\ logged = None /\ back = None /\ cut = None /\ billed = None
    /\ strays = None /\ leftover = None /\ halves = None /\ spilt = None /\ failures = None /\ index = None /\ drive = None /\ tombs = None
    /\ folder1 = None /\ charged = None /\ opened = None /\ req = None /\ clock = None
InUpgrade(Act) == part = "upgrade" /\ Act /\ UNCHANGED <<part, vars, notUpgrade>>

-----------------------------------------------------------------------------
ASSUME R!ReceiveAssumption /\ R!PlansAssumption
ASSUME L!LinkAssumption /\ L!PlansAssumption
ASSUME U!UpgradeAssumption /\ U!PlansAssumption

DrivesInit == part \in Parts /\ (InitDrive \/ InitReceive \/ InitLink \/ InitUpgrade)
DrivesNext == InDrive(Next) \/ InReceive(R!Next) \/ InLink(L!Next) \/ InUpgrade(U!Next)

\* The fairness of each part, as its own specification states it: only one of the parts joined
\* here ever has steps, so that fairness of what they do together is fairness of each.
DrivesFairness ==
    /\ WF_allVars(InDrive(Tick) \/ InReceive(R!Tick) \/ InLink(L!Tick))
    /\ WF_allVars(InDrive(Clean) \/ InReceive(R!Clean) \/ InLink(L!Alarm))
    /\ \A p \in PutIds :
         /\ WF_allVars(InDrive(ChunkStored(p)) \/ InReceive(R!ChunkStored(p)))
         /\ WF_allVars(InDrive(ChunkRecorded(p) \/ ChunkRefused(p)) \/ InReceive(R!ChunkRecorded(p) \/ R!ChunkRefused(p)))
         /\ WF_allVars(InDrive(ChunkUndone(p)) \/ InReceive(R!ChunkUndone(p)))
    /\ \A s \in ShareIds : /\ WF_allVars(InDrive(EndShare(s))) /\ WF_allVars(InDrive(ByeEnds(s)))
                           /\ WF_allVars(InDrive(ShareTied(s))) /\ WF_allVars(InDrive(ShareRefused(s)))
    /\ \A t \in UpgradeTabs : WF_allVars(InUpgrade(U!Works(t))) /\ SF_allVars(InUpgrade(\E d \in BothDrives : U!Begin(t, d)))

DrivesSpec == DrivesInit /\ [][DrivesNext]_allVars /\ DrivesFairness

-----------------------------------------------------------------------------
\* What always holds of a receive link in its Drive (Receive.tla): nothing orphaned, files whole, the
\* capacity kept and the files counted, each session logged or given back and each file charged once,
\* every grant known, and nothing under way once the link is closed (drive-do.js:1234-1313, 1535-1896).
ReceiveSafe ==
    part = "receive" =>
       /\ R!TypeOK /\ R!NoOrphans /\ R!ReadyComplete /\ R!CapacityKept /\ R!FilesCounted /\ R!SessionsSettled
       /\ R!BilledOnce /\ R!KnownGrants /\ R!WaitingInFolder /\ R!QuietWhenClosed /\ R!AlarmCovers

\* What always holds of a link across the index and its Drive (ReceiveLink.tla): an id is a link once,
\* there are never more than the role allows, each is paid for once, and with no change under way the
\* two sides say the same; no change gives up what protects it without a confirmation
\* (directory-do.js claimReverse, routes/reverse.js).
LinkSafe ==
    /\ [](part = "link" => L!TypeOK /\ L!NeverAgain /\ L!AtMostCap /\ L!Paid /\ L!InStep)
    /\ [][part = "link" => L!WeakerByConfirmation]_allVars

\* What always holds while Drives are upgraded (DriveUpgrade.tla): as long as anything is sealed the
\* old way something opens its key, a Drive that is done is done and verified, and no wrap outlives
\* its credential; what an upgrade sends late never replaces what a user changed since
\* (drive-do.js upgradeItems, routes/drive.js).
UpgradeSafe ==
    /\ [](part = "upgrade" => U!TypeOK /\ U!StillOpens /\ U!DoneMeansUpgraded /\ U!Verified /\ U!Pruned)
    /\ [][part = "upgrade" => U!EditsStay]_allVars

\* A link's own lockout implements PasswordLockout, with locks that all last the same: whoever
\* guesses, from however many networks, its promises hold (drive-do.js:1633-1645).
LockoutKept ==
    /\ part = "receive" => R!Lockout!Init
    /\ [][part = "receive" => [R!Lockout!Next]_(R!Lockout!lockoutVars)]_allVars

\* What must end does, whatever fails meanwhile: again and again there is nothing left to end, no
\* upload that lapsed but was not purged, no share whose file was deleted (unless its request was cut
\* off), no session past its time, no claim of a link never completed, no Drive that waits for its
\* upgrade, and of the administrator no old key once all are upgraded (the alarms of drive-do.js and
\* directory-do.js, public/js/driveupgrade.js).
Settled ==
    CASE part = "drive" -> Stale = {} /\ \A s \in ShareIds \ loose : ~Dangling(s)
      [] part = "receive" -> R!Stale = {} /\ \A s \in SessionIds : ~R!SessionDue(s)
      [] part = "link" -> \A l \in LinkIds : ~L!In(l, {"pending"})
      [] part = "upgrade" -> (\A d \in BothDrives : ~U!Waits(d)) /\ (U!ToCleanUp => U!CleanedUp)
AllEnd == []<>Settled
=============================================================================
