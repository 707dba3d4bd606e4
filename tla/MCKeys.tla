------------------------------- MODULE MCKeys -------------------------------
(***************************************************************************)
(* Instances of the key modules.  A behaviour is a behaviour of            *)
(* KeyTimeline, extended here so that what is proved of it is checked by   *)
(* its own name, or of Keyring, KeySetup, KeyKits or KeyRescue: `part`.    *)
(* What a part does not use stays None, the timeline's variables empty.    *)
(***************************************************************************)
EXTENDS KeyTimeline, TLC

CONSTANTS
    Parts,    \* the parts a run tries
    RingPlans

VARIABLES
    part,
    plan, root, old, subs, cur, check, job, kept, recs, users, things, step, req, asked, kit, ops, lost, given, renamed,
    left, token, owner, keyring, cand, tab, first, setups,
    version, salts, file, making, mine, ukit, held,
    row, salt, item, own, deks, up
keysVars == <<part, now, rows, made, pick, plan, root, old, subs, cur, check, job, kept, recs, users, things, step, req, asked, kit, ops, lost, given, renamed,
          left, token, owner, keyring, cand, tab, first, setups, version, salts, file, making, mine, ukit, held, row, salt, item, own, deks, up>>

-----------------------------------------------------------------------------
\* The timeline: three sub-MEKs, dates in any order around the clock.
notTimeline == <<plan, root, old, subs, cur, check, job, kept, recs, users, things, step, req, asked, kit, ops, lost, given, renamed, left, token,
                 owner, keyring, cand, tab, first, setups, version, salts, file, making, mine, ukit, held, row, salt, item, own, deks, up>>
InitTimeline ==
    /\ part = "timeline" /\ Init
    /\ plan = None /\ root = None /\ old = None /\ subs = None /\ cur = None /\ check = None /\ job = None /\ kept = None /\ recs = None
    /\ users = None /\ things = None /\ step = None /\ req = None /\ asked = None /\ kit = None /\ ops = None /\ lost = None /\ given = None
    /\ renamed = None /\ left = None /\ token = None /\ owner = None /\ keyring = None /\ cand = None /\ tab = None /\ first = None
    /\ setups = None /\ version = None /\ salts = None /\ file = None /\ making = None /\ mine = None /\ ukit = None /\ held = None
    /\ row = None /\ salt = None /\ item = None /\ own = None /\ deks = None /\ up = None
InTimeline(Act) == part = "timeline" /\ Act /\ UNCHANGED <<part, notTimeline>>

-----------------------------------------------------------------------------
\* A keyring with up to two roots and two sub-MEKs, two Drives, two things sealed.
Pages == {"p1", "p2"}
Stores == {"q1", "q2"}
HomeOf == <<1, 2>>
Made(a, b) == <<a, b>>
\* One account, one item, no change.
Still == [kinds |-> Made("item", "none"), users |-> 1, roots |-> 1, subs |-> 1, steps |-> {"p1"}, reqs |-> {"q1"}, edits |-> 0,
          reseal |-> FALSE, ops |-> 0, undo |-> FALSE, drop |-> FALSE, loss |-> {}, calm |-> TRUE, late |-> FALSE, dies |-> FALSE, recs |-> FALSE]
\* A root change while items are made and renamed, in two Drives, one made meanwhile; with links and
\* received items; undone; by two pages at once.
Changing == [Still EXCEPT !.kinds = Made("item", "item"), !.users = 2, !.roots = 2, !.edits = 1, !.ops = 2]
Linking == [Still EXCEPT !.kinds = Made("link", "recv"), !.users = 2, !.roots = 2, !.edits = 1, !.ops = 1]
Undoing == [Still EXCEPT !.roots = 2, !.edits = 1, !.ops = 3, !.undo = TRUE, !.recs = TRUE]
Dying == [Still EXCEPT !.kinds = Made("item", "link"), !.users = 2, !.roots = 2, !.ops = 2, !.dies = TRUE]
Doubled == [Still EXCEPT !.roots = 2, !.steps = Pages, !.ops = 1]
\* Sub-MEKs come, go and are re-sealed.
Rotating == [Still EXCEPT !.subs = 2, !.edits = 1, !.reseal = TRUE, !.ops = 4]
\* A sub-MEK is lost, the root is changed nevertheless, and what does not open is given up.
Dropping == [Still EXCEPT !.roots = 2, !.subs = 2, !.ops = 4, !.drop = TRUE, !.loss = {"sub"}]
\* The keyring is lost and restored.
Losing == [Still EXCEPT !.kinds = Made("item", "link"), !.users = 2, !.subs = 2, !.ops = 5, !.loss = {"root", "sub", "all"}]
AllRings == {Changing, Linking, Undoing, Dying, Doubled, Rotating, Dropping, Losing}
\* An undo whose owner's request ends, or is still to store its job, before the re-seal goes on.
Hasty == {[Undoing EXCEPT !.dies = TRUE]}

K == INSTANCE Keyring WITH MaxRoots <- 2, MaxSubs <- 2, MaxThings <- 2, MaxDrives <- 2, Home <- HomeOf, Steps <- Pages, Reqs <- Stores,
                           Plans <- RingPlans
notRing == <<now, rows, pick, left, token, owner, keyring, cand, tab, first, setups, version, salts, file, making, mine, ukit, held, row, salt, item,
             own, deks, up>>
InitRing ==
    /\ part = "ring" /\ K!Init
    /\ now = 0 /\ rows = [m \in Subs |-> None] /\ pick = None /\ left = None /\ token = None /\ owner = None /\ keyring = None /\ cand = None
    /\ tab = None /\ first = None /\ setups = None /\ version = None /\ salts = None /\ file = None /\ making = None /\ mine = None
    /\ ukit = None /\ held = None /\ row = None /\ salt = None /\ item = None /\ own = None /\ deks = None /\ up = None
InRing(Act) == part = "ring" /\ Act /\ UNCHANGED <<part, notRing>>

-----------------------------------------------------------------------------
\* Two tabs of the set-up; a pair is kept for one step of the clock.
SetupTabs == {"t1", "t2"}
Minus1 == -1
\* Two proposals and what is chosen of them; a tab sends its keys while another sends none; a recovery follows.
Choosing == [pairs |-> 3, tokens |-> 1, kinds |-> {"generated"}, deaths |-> 0]
Mixed == [pairs |-> 2, tokens |-> 1, kinds |-> {"generated", "manual", "none"}, deaths |-> 1]
Recovering == [pairs |-> 1, tokens |-> 2, kinds |-> {"manual", "none"}, deaths |-> 1]
SetupPlans == {Choosing, Mixed, Recovering}

S == INSTANCE KeySetup WITH Tabs <- SetupTabs, Entered <- Minus1, MaxPairs <- 3, Lifetime <- 1, Plans <- SetupPlans
notSetup == <<now, rows, pick, plan, root, old, subs, cur, check, job, kept, recs, users, things, step, req, asked, kit, ops, lost, given, renamed,
              version, salts, file, making, mine, ukit, held, row, salt, item, own, deks, up>>
InitSetup ==
    /\ part = "setup" /\ S!Init
    /\ now = 0 /\ rows = [m \in Subs |-> None] /\ pick = None /\ plan = None /\ root = None /\ old = None /\ subs = None /\ cur = None /\ check = None
    /\ job = None /\ kept = None /\ recs = None /\ users = None /\ things = None /\ step = None /\ req = None /\ asked = None /\ kit = None
    /\ ops = None /\ lost = None /\ given = None /\ renamed = None /\ version = None /\ salts = None /\ file = None /\ making = None
    /\ mine = None /\ ukit = None /\ held = None /\ row = None /\ salt = None /\ item = None /\ own = None /\ deks = None /\ up = None
InSetup(Act) == part = "setup" /\ Act /\ UNCHANGED <<part, notSetup>>

-----------------------------------------------------------------------------
\* Three sub-MEKs, two roots, one more account, two kits of each kind.
KitPlans == {[subs |-> 3, roots |-> 2, users |-> 1, kits |-> 2, mine |-> 2, calm |-> TRUE]}
F == INSTANCE KeyKits WITH MaxSubs <- 3, MaxRoots <- 3, Users <- {"second"}, Plans <- KitPlans
notKits == <<now, rows, made, pick, plan, old, cur, check, job, kept, recs, users, things, step, req, asked, ops, lost, given, renamed, token, owner,
             keyring, cand, tab, first, setups, row, salt, item, own, deks, up>>
InitKits ==
    /\ part = "kits" /\ F!Init
    /\ now = 0 /\ rows = [m \in Subs |-> None] /\ made = None /\ pick = None /\ plan = None /\ old = None /\ cur = None /\ check = None /\ job = None
    /\ kept = None /\ recs = None /\ users = None /\ things = None /\ step = None /\ req = None /\ asked = None /\ ops = None /\ lost = None
    /\ given = None /\ renamed = None /\ token = None /\ owner = None /\ keyring = None /\ cand = None /\ tab = None /\ first = None
    /\ setups = None /\ row = None /\ salt = None /\ item = None /\ own = None /\ deks = None /\ up = None
InKits(Act) == part = "kits" /\ Act /\ UNCHANGED <<part, notKits>>

-----------------------------------------------------------------------------
\* A Drive of up to two items; everything may be lost, and the key kit is there.
Whole == [lost |-> {"root", "sub", "salt"}, mid |-> FALSE, use |-> FALSE, calm |-> TRUE, by |-> {"key"}, news |-> 1, names |-> 1]
\* Two kits at once, and the user.
Both == [Whole EXCEPT !.by = {"key", "own"}]
\* The personal kit alone; DEKs too.
Alone == [Whole EXCEPT !.by = {"own"}, !.lost = {"sub", "salt"}]
Deks == [Whole EXCEPT !.by = {"own", "deks"}, !.lost = {"sub", "salt"}]
\* A root change was running.
Midway == [Whole EXCEPT !.mid = TRUE, !.news = 0]
\* An empty instance takes the file's root.
Empty == [Whole EXCEPT !.use = TRUE]
RescuePlans == {Whole, Both, Alone, Deks, Midway, Empty}
H == INSTANCE KeyRescue WITH Items <- {1, 2}, Plans <- RescuePlans
notRescue == <<now, rows, made, pick, plan, subs, check, kept, recs, users, things, step, req, asked, kit, ops, lost, given, renamed, token, owner,
               keyring, cand, tab, first, setups, version, salts, file, making, mine, ukit, held>>
InitRescue ==
    /\ part = "rescue" /\ H!Init
    /\ now = 0 /\ rows = [m \in Subs |-> None] /\ made = None /\ pick = None /\ plan = None /\ subs = None /\ check = None /\ kept = None /\ recs = None
    /\ users = None /\ things = None /\ step = None /\ req = None /\ asked = None /\ kit = None /\ ops = None /\ lost = None /\ given = None
    /\ renamed = None /\ token = None /\ owner = None /\ keyring = None /\ cand = None /\ tab = None /\ first = None /\ setups = None
    /\ version = None /\ salts = None /\ file = None /\ making = None /\ mine = None /\ ukit = None /\ held = None
InRescue(Act) == part = "rescue" /\ Act /\ UNCHANGED <<part, notRescue>>

-----------------------------------------------------------------------------
ASSUME K!KeyringAssumption /\ K!PlansAssumption /\ S!SetupAssumption /\ S!PlansAssumption
ASSUME F!KitsAssumption /\ F!PlansAssumption /\ H!RescueAssumption /\ H!PlansAssumption

KeysInit == part \in Parts /\ (InitTimeline \/ InitRing \/ InitSetup \/ InitKits \/ InitRescue)
KeysNext == InTimeline(Next) \/ InRing(K!Next) \/ InSetup(S!Next) \/ InKits(F!Next) \/ InRescue(H!Next)

\* The fairness of each part that promises something in the end, as its specification states it; only one
\* of the parts joined here ever has steps.
Fairness ==
    /\ WF_keysVars(InRing(K!JobStep("p1")) \/ InSetup(S!FirstUse) \/ InRescue(H!Count))
    /\ WF_keysVars(InRing(K!JobStep("p2")) \/ InSetup(S!FirstMade) \/ InRescue(H!Check))
    /\ WF_keysVars(InRing(K!ReqStep("q1") \/ K!RequestEnds("q1")) \/ InSetup(S!Purge) \/ InRescue(H!Read))
    /\ WF_keysVars(InRing(K!ReqStep("q2") \/ K!RequestEnds("q2")) \/ InSetup(S!Tick) \/ InRescue(H!Write))
    /\ WF_keysVars(InRing(K!StoreJob) \/ InSetup(S!Proposed("t1")) \/ InRescue(H!OwnSalt))
    /\ WF_keysVars(InSetup(S!Proposed("t2")) \/ InRescue(H!OwnSaltWritten))
    /\ WF_keysVars(InRescue(H!OwnKeys)) /\ WF_keysVars(InRescue(H!OwnPage)) /\ WF_keysVars(InRescue(H!OwnApply))

KeysSpec == KeysInit /\ [][KeysNext]_keysVars /\ Fairness

-----------------------------------------------------------------------------
\* At every time there is a sub-MEK to seal under (KeyTimeline.tla).  What is sealed stays readable
\* (Keyring.tla), whatever is changed, undone, removed, dropped, lost and restored while requests store and
\* rename; sub-MEKs and records open too, and no re-seal takes a rename back.  A kit called fresh restores
\* everything there is, and a personal kit its owner is not told to replace opens what is sealed now
\* (KeyKits.tla; directory-do.js mek*, #kitFresh, #userKitState, routes/keys.js, lib/mekjobs.js).
KeysSafe ==
    /\ part = "timeline" => NeverWithout
    /\ part = "ring" => K!TypeOK /\ K!Readable /\ K!SubsOpen /\ K!RecordsReadable /\ K!RenamesKept /\ K!RestorePutsBack
    /\ part = "kits" => F!TypeOK /\ F!FreshRestores /\ F!VerifiedIsFresh /\ F!NotStaleOpens

\* The set-up (KeySetup.tla): its keys are those its tab showed, one set-up per AUTHN value, and no call
\* that prepares keys and awaits replaces those there are (directory-do.js setup, setupKeys).
SetupSafe ==
    /\ [](part = "setup" => S!TypeOK /\ S!KeysShown /\ S!OncePerToken)
    /\ [][part = "setup" => S!NeverReplaced /\ S!NoneKept]_keysVars

\* Restores (KeyRescue.tla): what opens goes on opening, a rename is not reverted and a salt not replaced,
\* by however many restores at once (directory-do.js keyRestore, drive-do.js restoreItem).
RescueSafe ==
    /\ [](part = "rescue" => H!TypeOK)
    /\ [][part = "rescue" => H!NeverWorse /\ H!NameKept /\ H!SaltKept]_keysVars

\* Everything in every Drive opens with the keys there are, through an undo of a root change too
\* (routes/keys.js:435-442).
Readable == part = "ring" => K!Readable

\* What must end does: a job that one page drives, a set-up without keys, and what the server lost comes
\* back by a kit that covers it.
Settled ==
    CASE part = "ring" -> K!JobOver
      [] part = "setup" -> S!KeysSettled
      [] part = "rescue" -> H!KitBringsBack /\ H!OwnBringsBack
      [] OTHER -> TRUE
AllEnd == <>[]Settled
=============================================================================
