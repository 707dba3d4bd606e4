------------------------------- MODULE KeyKits -------------------------------
(***************************************************************************)
(* The backups of the Drive keys and what the server says of them: the     *)
(* owner's key kit and whether it is fresh, a user's personal kit and      *)
(* whether it is out of date, while sub-MEKs are added and scheduled, the  *)
(* root changes and accounts are made (src/src/directory-do.js keyKit,     *)
(* #kitFresh, keyKitVerify, driveKeys, userKitDownloaded, #userKitState,   *)
(* #keyVersion, src/src/routes/drive.js).  Keyring has the changes         *)
(* themselves; here they are one step each.                                *)
(***************************************************************************)
EXTENDS Integers, FiniteSets

CONSTANTS
    MaxSubs, MaxRoots,  \* sub-MEKs and roots there may be: they are numbered as they are made
    Users,      \* accounts made later; one user is there from the start
    Plans,      \* what is tried together, chosen at the start
    None

KitsAssumption == MaxSubs \in Nat \ {0} /\ MaxRoots \in Nat \ {0}

\* A plan: sub-MEKs added at most, roots, accounts made, downloads of each kind, whether the root may
\* change while a personal kit is made.
Plan == [subs : 1 .. MaxSubs, roots : 1 .. MaxRoots, users : 0 .. Cardinality(Users), kits : 0 .. 2, mine : 0 .. 2, calm : BOOLEAN]
PlansAssumption == Plans \subseteq Plan

VARIABLES
    left,       \* what is left of the plan
    root,       \* the root MEK
    subs,       \* the sub-MEKs, and which is in effect
    version,    \* meta "mek.version"
    salts,      \* accounts with a user salt
    kit,        \* meta "mek.kit": what the latest key kit covers
    file,       \* the latest key kit the owner has
    making,     \* a key kit between its awaits: the keyring it read
    mine,       \* a personal kit between its awaits: the keyring driveKeys read
    ukit,       \* meta "ukit:<user>"
    held        \* the user's latest personal kit: the root and sub-MEKs its KEKs are of

vars == <<left, root, subs, version, salts, kit, file, making, mine, ukit, held>>
Has == [root |-> root, subs |-> subs.all]

Init ==
    /\ left \in Plans /\ root = 1 /\ subs = [all |-> {1}, cur |-> 1, later |-> {}] /\ version = 1 /\ salts = {"first"}
    /\ kit = None /\ file = None /\ making = None /\ mine = None /\ ukit = None /\ held = None

(***************************************************************************)
(* Changes: each one raises the version, in its own transaction            *)
(***************************************************************************)
Bumped == version + 1
Added == Cardinality(subs.all) + 1
AddSub ==
    /\ Added <= left.subs /\ version' = Bumped
    /\ \E later \in BOOLEAN :
          subs' = [all |-> subs.all \cup {Added}, cur |-> IF later THEN subs.cur ELSE Added,
                   later |-> IF later THEN subs.later \cup {Added} ELSE subs.later]
    /\ UNCHANGED <<left, root, salts, kit, file, making, mine, ukit, held>>
\* A scheduled sub-MEK starts: no change of the keyring.
Starts ==
    /\ \E m \in subs.later : subs' = [subs EXCEPT !.cur = m, !.later = @ \ {m}]
    /\ UNCHANGED <<left, root, version, salts, kit, file, making, mine, ukit, held>>
ChangeRoot ==
    /\ root < left.roots /\ (left.calm => mine = None) /\ root' = root + 1 /\ version' = Bumped
    /\ UNCHANGED <<left, subs, salts, kit, file, making, mine, ukit, held>>
\* createUser gives an account its salt.
NewUser ==
    /\ left.users > 0 /\ left' = [left EXCEPT !.users = @ - 1]
    /\ \E u \in Users \ salts : salts' = salts \cup {u}
    /\ UNCHANGED <<root, subs, version, kit, file, making, mine, ukit, held>>

(***************************************************************************)
(* The key kit                                                             *)
(***************************************************************************)
\* keyKit reads the root and the sub-MEKs and awaits; the salts, and the users' hash, after it.
MakeKit ==
    /\ left.kits > 0 /\ making = None /\ making' = Has /\ left' = [left EXCEPT !.kits = @ - 1]
    /\ UNCHANGED <<root, subs, version, salts, kit, file, mine, ukit, held>>
Covered == making.subs
KitMade ==
    /\ making # None /\ making' = None
    /\ file' = [root |-> making.root, subs |-> making.subs, salts |-> salts]
    /\ kit' = [root |-> making.root, subs |-> Covered, users |-> salts]
    /\ UNCHANGED <<left, root, subs, version, salts, mine, ukit, held>>
KitFresh == kit # None /\ kit.root = root /\ subs.all \subseteq kit.subs /\ kit.users = salts
Complete == file # None /\ file.root = root /\ subs.all \subseteq file.subs /\ salts \subseteq file.salts

(***************************************************************************)
(* The personal kit                                                        *)
(***************************************************************************)
\* driveKeys reads the root and every sub-MEK, awaits the KEKs, and reads the version after them.
MakeMine ==
    /\ left.mine > 0 /\ mine = None /\ left' = [left EXCEPT !.mine = @ - 1] /\ mine' = Has
    /\ UNCHANGED <<root, subs, version, salts, kit, file, making, ukit, held>>
VersionThen == version
\* The kit goes to the user; userKitDownloaded records its version and sub-MEKs.
MineMade ==
    /\ mine # None /\ mine' = None /\ held' = mine /\ ukit' = [v |-> VersionThen, meks |-> mine.subs]
    /\ UNCHANGED <<left, root, subs, version, salts, kit, file, making>>
Stale == ukit # None /\ (ukit.v < version \/ subs.cur \notin ukit.meks)

Next == AddSub \/ Starts \/ ChangeRoot \/ NewUser \/ MakeKit \/ KitMade \/ MakeMine \/ MineMade
Spec == Init /\ [][Next]_vars /\ WF_vars(KitMade) /\ WF_vars(MineMade)

(***************************************************************************)
(* Properties                                                              *)
(***************************************************************************)
\* Types.
TypeOK ==
    /\ root \in 1 .. MaxRoots /\ subs.all = 1 .. Cardinality(subs.all) /\ subs.cur \in subs.all \ subs.later
    /\ version \in 1 .. MaxSubs + MaxRoots /\ salts \subseteq Users \cup {"first"}
    /\ kit # None => file # None /\ kit.subs = file.subs /\ kit.root = file.root

\* #kitFresh: a key kit the Admin page calls fresh restores everything there is - the root, each sub-MEK,
\* each account's salt - even if the keyring changed while it was made.
FreshRestores == KitFresh => file.root = root /\ subs.all \subseteq file.subs /\ salts \subseteq file.salts

\* keyKitVerify: "complete" is said of the same kits the page calls fresh (of the latest one).
VerifiedIsFresh == making = None => (KitFresh <=> Complete)

\* #userKitState: a personal kit its owner is not told to replace opens what is sealed now, under the
\* current sub-MEK and root (where no root change comes while it is made).
NotStaleOpens == left.calm /\ held # None /\ ~Stale => held.root = root /\ subs.cur \in held.subs

=============================================================================
