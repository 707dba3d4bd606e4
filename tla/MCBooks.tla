------------------------------ MODULE MCBooks ------------------------------
(***************************************************************************)
(* Quotas, and instances of Records and Trackers: what the Directory       *)
(* counts and writes down while requests await, fail and stop.  A          *)
(* behaviour is a behaviour of one of the three, `part`: Quotas is         *)
(* extended, so that what is proved of it is checked by its own name, the  *)
(* others share a second set of variables, and what a part does not use    *)
(* stays as it started.                                                    *)
(***************************************************************************)
EXTENDS Quotas

CONSTANT Parts    \* the parts a run tries

VARIABLES
    part,
    left, time, kid, gone, index, total, opens, log, ids, req, pass, counted, failed, removed, issued, copies, row, uses, tab, barred, shared, taken
otherVars == <<left, time, kid, gone, index, total, opens, log, ids, req, pass, counted, failed, removed, issued, copies, row, uses, tab, barred, shared, taken>>
allVars == <<part, vars, otherVars>>
NoneElse ==
    /\ left = None /\ time = None /\ kid = None /\ gone = None /\ index = None /\ total = None /\ opens = None /\ log = None /\ ids = None
    /\ req = None /\ pass = None /\ counted = None /\ failed = None /\ removed = None /\ issued = None /\ copies = None /\ row = None
    /\ uses = None /\ tab = None /\ barred = None /\ shared = None /\ taken = None

-----------------------------------------------------------------------------
\* Three things, windows of 2 to 4, one list saved over another.
AllThings == {"x1", "x2", "x3"}
OneQuota(kind, channel, per, max) == [kind |-> kind, channel |-> channel, per |-> per, max |-> max]
OfShares == <<OneQuota("all", "all", 3, 2), OneQuota("text", "api", 2, 1)>>
OfDrive == <<OneQuota("drive-upload", "all", 2, 1), OneQuota("drive-bytes", "all", 4, 5), OneQuota("receive", "all", 3, 2)>>
Tighter == <<OneQuota("all", "all", 3, 1)>>
SavedLists == {OfShares, Tighter}

Account == {{"account"}}
Anonymous == {{"tracker 1", "network"}, {"tracker 2", "network"}}
\* Notes and file shares, through the web app and a key, with a list replaced meanwhile.
OwnShares == [things |-> {"x1", "x2"}, list |-> OfShares, kinds |-> {"note", "file"}, channels |-> {"all", "api"}, keys |-> Account, needAll |-> FALSE,
              activity |-> FALSE, dies |-> TRUE, edits |-> 1, prompt |-> TRUE, until |-> 3]
\* Anonymous creation, counted by browser and by network, refused by either or only by both.
Public == [OwnShares EXCEPT !.things = AllThings, !.edits = 0, !.dies = FALSE, !.channels = {"all"}, !.keys = Anonymous, !.kinds = {"note"}]
PublicBoth == [Public EXCEPT !.needAll = TRUE]
\* The Drive: uploads purged or deleted, sessions that send nothing, received files and links.
Uploads == [OwnShares EXCEPT !.things = AllThings, !.list = OfDrive, !.kinds = {"upload", "received"}, !.channels = {"all"}, !.edits = 0, !.until = 4]
Sessions == [Uploads EXCEPT !.things = {"x1", "x2"}, !.kinds = {"session", "receive-link"}, !.activity = TRUE]
\* An account without quotas that gets some.
NoQuotas == [OwnShares EXCEPT !.list = <<>>, !.until = 1]
QuotaPlans == {NoQuotas, OwnShares, Public, PublicBoth, Uploads, Sessions}

InitQuota == part = "quota" /\ Init /\ NoneElse
InQuota(Act) == part = "quota" /\ Act /\ UNCHANGED <<part, otherVars>>
\* The quotas of another part's behaviour do not move.
Unused == Init /\ plan = NoQuotas

-----------------------------------------------------------------------------
\* A share of a user and one of the owner, two requests at once, at most two receipts a share.
Requests == {"r1", "r2"}
SendersOf == [s \in {"mine", "ours"} |-> IF s = "ours" THEN "owner" ELSE "ann"]
Nothing == [opens |-> 0, fails |-> 0, who |-> {}, width |-> 2, keys |-> 0, lost |-> 0, clears |-> 0, clock |-> 0, deaths |-> 0, kid |-> 1]
Burst == [Nothing EXCEPT !.opens = 4, !.clock = 1]
Opening == [Nothing EXCEPT !.opens = 2, !.keys = 1, !.kid = 0, !.clock = 1, !.clears = 1]
Turning == [Nothing EXCEPT !.opens = 1, !.fails = 1, !.who = {"owner"}, !.keys = 2, !.lost = 1, !.deaths = 1]
Guessing == [Nothing EXCEPT !.fails = 3, !.who = {"ann"}, !.clock = 1, !.keys = 1]
Spray == [Nothing EXCEPT !.fails = 4, !.who = {"n1", "n2"}, !.width = 1, !.clock = 3]
Owners == [Nothing EXCEPT !.fails = 3, !.who = {"owner", "ann"}, !.clock = 2, !.kid = 0, !.keys = 1, !.width = 1]
RecordPlans == {Burst, Opening, Turning, Guessing, Spray, Owners}

R == INSTANCE Records WITH Shares <- {"mine", "ours"}, Senders <- SendersOf, Owner <- "owner", Ips <- {"i1", "i2"}, Accounts <- {"ann"},
                           Names <- {"n1", "n2"}, Star <- "star", Reqs <- Requests, MaxOpens <- 2, KeepFirst <- 1, PerMinute <- 2, MaxNames <- 1,
                           Age <- 1, MaxEntries <- 2, Batch <- 1, LastTime <- 3, MaxKeys <- 3, Plans <- RecordPlans, now <- time
notRecord == <<issued, copies, row, uses, tab, barred, shared, taken>>
InitRecord ==
    /\ part = "record" /\ R!Init /\ Unused
    /\ issued = None /\ copies = None /\ row = None /\ uses = None /\ tab = None /\ barred = None /\ shared = None /\ taken = None
InRecord(Act) == part = "record" /\ Act /\ UNCHANGED <<part, vars, notRecord>>

-----------------------------------------------------------------------------
\* Two tabs of one browser, two ids, tables of one and two.
One == [last |-> 2, rooms |-> 2, visits |-> 2, creates |-> 2, losses |-> 0, owner |-> 0, deaths |-> 0, single |-> TRUE]
\* An owner blocks, unblocks and forgets.
Owned == [One EXCEPT !.owner = 2]
\* A table of one: an id is blocked and another takes its place.
Full == [One EXCEPT !.last = 1, !.rooms = 1, !.owner = 1, !.visits = 3, !.creates = 3]
\* Copies are lost, ids conflict.
Losing == [One EXCEPT !.visits = 3, !.losses = 1, !.last = 1]
\* Creates together, one stopped.
Together == [One EXCEPT !.creates = 3, !.single = FALSE, !.deaths = 1]
TrackerPlans == {Owned, Full, Losing, Together}

T == INSTANCE Trackers WITH Tabs <- {"t1", "t2"}, Ids <- {1, 2}, PerIp <- 1, Idle <- 1, Window <- 1, Plans <- TrackerPlans, now <- time, usage <- uses
notTracker == <<kid, gone, index, total, opens, log, ids, req, pass, counted, failed, removed>>
InitTracker ==
    /\ part = "tracker" /\ T!Init /\ Unused
    /\ kid = None /\ gone = None /\ index = None /\ total = None /\ opens = None /\ log = None /\ ids = None /\ req = None /\ pass = None
    /\ counted = None /\ failed = None /\ removed = None
InTracker(Act) == part = "tracker" /\ Act /\ UNCHANGED <<part, vars, notTracker>>

-----------------------------------------------------------------------------
ASSUME R!SizesAssumption /\ R!PlansAssumption /\ T!TrackersAssumption /\ T!PlansAssumption

BooksInit == part \in Parts /\ (InitQuota \/ InitRecord \/ InitTracker)
BooksNext == InQuota(Next) \/ InRecord(R!Next) \/ InTracker(T!Next)

\* The fairness of Quotas and of Records, as their specifications state it; only one of them ever has steps.
BooksFairness ==
    /\ WF_allVars(InQuota(Purge) \/ InRecord(R!Alarm)) /\ SF_allVars(InQuota(Tick))
    /\ WF_allVars(InRecord(R!PassRow \/ R!PassEnd))
    /\ WF_allVars(InQuota(GoesOn("x1")) \/ InRecord(R!PassRead))
    /\ WF_allVars(InQuota(GoesOn("x2")) \/ InRecord(R!WriteOpen("r1") \/ R!WriteFail("r1")))
    /\ WF_allVars(InQuota(GoesOn("x3")) \/ InRecord(R!WriteOpen("r2") \/ R!WriteFail("r2")))

BooksSpec == BooksInit /\ [][BooksNext]_allVars /\ BooksFairness

-----------------------------------------------------------------------------
\* Receipts and failed sign-ins (Records.tla): every open counts and every failure is in the log, though
\* their requests await seals; rows stay within their limits, one per address and window, none of a share
\* that went, the first ones kept, and none is written in the clear while there is a keyring
\* (directory-do.js recordOpen, #logFailure, #recordPass, #pruneLogs).
RecordsSafe ==
    /\ [](part = "record" => R!TypeOK /\ R!NoStray /\ R!EveryOpenCounts /\ R!Deduped /\ R!Capped /\ R!NoneLost /\ R!OneEntry)
    /\ [][part = "record" => R!KeepsFirst /\ R!NeverClear]_allVars

\* Anonymous ids (Trackers.tla): an id that was blocked creates nothing more, a network adds no more ids
\* than it may, a refused create leaves no row, and a browser with most of its copies left stays who it
\* was (directory-do.js resolveTracker, trackerSubject, dropNewTracker).
TrackersSafe ==
    /\ [](part = "tracker" => T!TypeOK /\ T!WithinAllowance /\ T!NothingLeft)
    /\ [][part = "tracker" => T!BlockedStays /\ T!SameId]_allVars

\* What must end does: a thing that was charged and abandoned is given back (things are interchangeable,
\* so one stands for all), and every row whose key opens comes under the record key of the day.
Settled == (part = "quota" => GivenBack("x1")) /\ (part = "record" => R!AllSealed)
AllEnd == []<>Settled
=============================================================================
