------------------------------ MODULE MCGuard ------------------------------
(***************************************************************************)
(* Instances of Guard and of GuardTags.  A behaviour is a behaviour of     *)
(* Guard, extended here so that what is proved of it is checked by its own *)
(* name, or of GuardTags, `part`; what belongs to the other does not move. *)
(***************************************************************************)
EXTENDS Guard

CONSTANT Parts    \* the parts a run tries

VARIABLES
    part,
    plan, old, new, knows, req, pass, tries, barred, writes, deaths,
    left, clock, jar, made, tab, came, lost

tags == <<plan, old, new, knows, req, pass, tries, barred, writes, deaths>>
trip == <<left, clock, jar, made, tab, came, lost>>
guardVars == <<part, vars, tags, trip>>

-----------------------------------------------------------------------------
\* A limit of three, two requests.  A network that failed before, up to the block itself, tries again as
\* the pass moves its rows; isolates of the release before still count.
Moving == [failed |-> 2, ask |-> {"attempt"}, writes |-> 0, deaths |-> 1]
Barred == [Moving EXCEPT !.failed = 3]
Rollout == [Moving EXCEPT !.failed = 1, !.writes = 2]
TagPlans == {Moving, Barred, Rollout}

T == INSTANCE GuardTags WITH Reqs <- {"r1", "r2"}, Max <- 3, Plans <- TagPlans
ASSUME T!TagsAssumption /\ T!PlansAssumption

\* Two tabs, two page keys kept; grants renewed each second of two, for four at most.
Trip == [page |-> "p", tells |-> TRUE, last |-> 1, acts |-> 4, tried |-> {"copy"}]
Odd == [Trip EXCEPT !.last = 0, !.acts = 3, !.tried = {"other", "check", "drive", "copy"}]
Long == [Trip EXCEPT !.last = 5, !.acts = 3, !.tried = {"copy"}]
Upload == [Trip EXCEPT !.page = "r", !.last = 2]
Silent == [Odd EXCEPT !.tells = FALSE]
C == INSTANCE CheckTrip WITH Tabs <- {"t1", "t2"}, MaxKeys <- 2, KeyLife <- 3, GrantLife <- 2, GrantCap <- 4, KeepEvery <- 1,
                             Plans <- {Trip, Odd, Long, Upload, Silent}, now <- clock
ASSUME C!TripAssumption /\ C!PlansAssumption

NoTags ==
    /\ plan = None /\ old = None /\ new = None /\ knows = None /\ req = None /\ pass = None /\ tries = None /\ barred = None
    /\ writes = None /\ deaths = None
NoTrip == left = None /\ clock = None /\ jar = None /\ made = None /\ tab = None /\ came = None /\ lost = None

InitNetwork == part = "network" /\ Init /\ NoTags /\ NoTrip
InNetwork(Act) == part = "network" /\ Act /\ UNCHANGED <<part, tags, trip>>

InitTags == part = "tags" /\ Init /\ T!Init /\ NoTrip
InTags(Act) == part = "tags" /\ Act /\ UNCHANGED <<part, vars, trip>>

InitCheck == part = "check" /\ Init /\ NoTags /\ C!Init
InCheck(Act) == part = "check" /\ Act /\ UNCHANGED <<part, vars, tags>>

GuardInit == part \in Parts /\ (InitNetwork \/ InitTags \/ InitCheck)
GuardNext == InNetwork(Next) \/ InTags(T!Next) \/ InCheck(C!Next)

\* The alarm of the object and that of the Directory, which runs the pass; only one part ever has steps.
GuardSpec == GuardInit /\ [][GuardNext]_guardVars /\ WF_guardVars(InNetwork(Alarm) \/ InTags(T!PassStep))

-----------------------------------------------------------------------------
\* People who only sign in are not shut out (Guard.refund), and the move of the rows from before the tags
\* opens no window, counts no failure twice and loses none, lets a network reach the limit twice at most
\* and leaves no row behind in a shard that is done (guard-do.js takeLegacy, lib/guard.js); and a share's CAPTCHA takes its visitors
\* there and back, with nothing for the page in between to read (pagekey.js, index.js sharePage).
NetworkSafe ==
    /\ HonestNotShut
    /\ part = "tags" => T!TypeOK /\ T!NoWindow /\ T!NeverTwice /\ T!NoneLost /\ T!AtMostTwice /\ T!DoneMeansNone
    /\ part = "check" => C!TypeOK /\ C!CheckHoldsNothing /\ C!LostOnlyIf /\ C!NoLoop /\ C!JarBounded /\ C!StaysOpen

\* What must end does: rows that ended are pruned, rows from before the tags are moved.
Settled == RowsPruned /\ (part = "tags" => T!Moved)
AllEnd == []<>Settled
=============================================================================
