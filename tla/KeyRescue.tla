------------------------------ MODULE KeyRescue ------------------------------
(***************************************************************************)
(* A server that lost part of its Drive keys - the root MEK, sub-MEKs, a   *)
(* user's salt - and what puts them back: the key kit, the user's personal *)
(* kit, imported DEKs, run together and while the user goes on             *)
(* (src/src/routes/keys.js restoreChecks, userKitRestore, restoreDek,      *)
(* src/src/directory-do.js keyRestore, saltRestore, src/src/routes/drive.js*)
(* saltCheck).  Roots and sub-MEKs are numbered as they were made; a       *)
(* sub-MEK's row holds the root it is sealed under, 0 once damaged.        *)
(***************************************************************************)
EXTENDS Integers, FiniteSets, FiniteSetsExt

CONSTANTS
    Items,      \* the Drive's items, numbered: a page lists them in order
    Plans,      \* what was lost and what is tried, chosen at the start
    None

RescueAssumption == Items \subseteq Nat \ {0} /\ IsFiniteSet(Items)

SubKeys == 1 .. 3
Kinds == {"key", "own", "deks"}
\* A plan: what may be lost, whether the kit is of a running root change, whether the file's root replaces
\* that of an empty instance (`useRoot`) and whether the user waits for it, what is used, uploads and renames.
Plan == [lost : SUBSET {"root", "sub", "salt"}, mid : BOOLEAN, use : BOOLEAN, calm : BOOLEAN, by : SUBSET Kinds,
         news : 0 .. 1, names : 0 .. 1]
PlansAssumption == Plans \subseteq Plan

VARIABLES
    left,       \* what is left of the plan
    root, old,  \* the root MEK, and the previous one during a change
    row,        \* the sub-MEKs
    cur,        \* the sub-MEK in effect
    salt,       \* the user's salt
    item,       \* what each item is sealed under, and the version of its name
    job,        \* a restore of the key kit, between its calls
    own,        \* a restore of the personal kit
    deks,       \* an import of DEKs
    up          \* an upload between its reading of the keys and its write

vars == <<left, root, old, row, cur, salt, item, job, own, deks, up>>
keyring == <<root, old, row, cur>>

Now(p) == IF p.mid THEN 2 ELSE 1
Kit == [root |-> Now(left), old |-> IF left.mid THEN 1 ELSE None, subs |-> {1, 2}, salt |-> "s"]
Own == [root |-> Now(left), subs |-> {1, 2}, salt |-> "s"]
Seal(r, m, s, n) == [root |-> r, sub |-> m, salt |-> s, name |-> n]
There == {i \in Items : item[i] # None}
Under(m) == {i \in There : item[i].sub = m}
KeyOf(m) == row[m] # None /\ row[m] = root
Opens(i) == salt = item[i].salt /\ KeyOf(item[i].sub) /\ item[i].root \in {root, old}
Or(x, y) == IF x # None THEN x ELSE y

\* Before the loss every item opened; a lost root is gone or replaced by another while rows of the sub-MEKs
\* stay; an empty instance (`use`) has a keyring of its own.
Init ==
    /\ left \in Plans /\ job = None /\ own = None /\ deks = None /\ up = None
    /\ IF left.use THEN root = 3 /\ old = None /\ row = [m \in SubKeys |-> IF m = 3 THEN 3 ELSE None] /\ cur = 3 /\ salt = None /\ item = [i \in Items |-> None]
       ELSE /\ root \in {Now(left)} \cup (IF "root" \in left.lost THEN {None, 3} ELSE {})
            /\ old = IF left.mid /\ root = 2 THEN 1 ELSE None
            /\ row \in [SubKeys -> {None, 0, Now(left)}] /\ row[3] = None
            /\ ("sub" \notin left.lost => \A m \in {1, 2} : row[m] = Now(left)) /\ (root = 3 => \E m \in {1, 2} : row[m] = Now(left))
            /\ cur = (IF row[2] # None THEN 2 ELSE None)
            /\ salt \in {"s"} \cup (IF "salt" \in left.lost THEN {None} ELSE {})
            /\ item \in [Items -> {None} \cup {Seal(r, m, "s", 1) : r \in IF left.mid THEN {1, 2} ELSE {1}, m \in {1, 2}}]

(***************************************************************************)
(* The key kit, or an import's key parts                                   *)
(***************************************************************************)
\* With useRoot: the Drives' counts, in a call before the rest.
CountAnyway ==
    /\ "key" \in left.by /\ left.use /\ job = None /\ (left.calm => up = None) /\ job' = [at |-> "counted"]
    /\ UNCHANGED <<left, keyring, salt, item, own, deks, up>>
Count ==
    /\ "key" \in left.by /\ left.use /\ job = None /\ There = {} /\ (left.calm => up = None) /\ job' = [at |-> "counted"]
    /\ UNCHANGED <<left, keyring, salt, item, own, deks, up>>
\* subOpens: the first item sealed under a sub-MEK the server has no row of.
SubProved(m) == LET x == item[Min(Under(m))] IN x.root = Or(root, Kit.root) /\ x.salt = Or(salt, Kit.salt)
Proved == {m \in Kit.subs : row[m] = None /\ Under(m) # {} /\ SubProved(m)}
\* rootOpens: some item opens under the kit's previous root.
OldProved == Kit.old # None /\ old = None /\ \E i \in There : item[i].root = Kit.old /\ item[i].salt = Or(salt, Kit.salt)
\* saltCheck with the kit's keys standing in for those lost: the first item; with this server's alone, the
\* first item under a sub-MEK it can open.
SaltFits(by, withKit) ==
    LET mine == {i \in There : withKit \/ KeyOf(item[i].sub)}
        x == item[Min(mine)]
    IN  \/ There = {}
        \/ mine # {} /\ x.root \in {IF withKit THEN Or(root, by.root) ELSE root, old} /\ x.salt = by.salt
Check ==
    /\ "key" \in left.by /\ IF left.use THEN job # None /\ job.at = "counted" ELSE job = None
    /\ job' = [at |-> "checked", subs |-> Proved, old |-> OldProved, salt |-> salt = None /\ SaltFits(Kit, TRUE)]
    /\ UNCHANGED <<left, keyring, salt, item, own, deks, up>>
\* keyRestore reads the keyring and awaits its seals.
Read ==
    /\ job # None /\ job.at = "checked"
    /\ job' = [at |-> "read", subs |-> job.subs, old |-> job.old, salt |-> job.salt, root |-> root, prev |-> old, row |-> row]
    /\ UNCHANGED <<left, keyring, salt, item, own, deks, up>>
Present(r) == {m \in SubKeys : r[m] # None}
\* The kit's root comes back when there is none, or none of the rows opens under the one here.
RootBack ==
    /\ job.root # Kit.root /\ job.prev # Kit.root
    /\ \/ job.root = None \/ left.use
       \/ Present(job.row) # {} /\ (\A m \in SubKeys : job.row[m] # job.root) /\ \E m \in SubKeys : job.row[m] = Kit.root
RootThen == IF RootBack THEN Kit.root ELSE job.root
RowLeft(m) == IF job.row[m] = None /\ m \in job.subs THEN RootThen ELSE job.row[m]
RowThen(m) ==
    IF job.row[m] # None THEN IF m \in Kit.subs \/ job.row[m] = job.root THEN RootThen ELSE job.row[m]
    ELSE IF m \in job.subs THEN RootThen ELSE None
OldThen == IF Kit.old # None /\ job.prev = None /\ RootThen = Kit.root /\ job.old THEN Kit.old ELSE job.prev
Kept(s) == IF salt # None THEN salt ELSE s
Write ==
    /\ job # None /\ job.at = "read" /\ job' = None
    /\ IF root = job.root /\ Cardinality(Present(row)) = Cardinality(Present(job.row))
       THEN /\ root' = RootThen /\ old' = OldThen /\ row' = [m \in SubKeys |-> RowThen(m)]
            /\ cur' = (IF cur # None THEN cur ELSE IF RowThen(2) # None THEN 2 ELSE IF Present(job.row) = {} /\ RowThen(1) # None THEN 1 ELSE None)
            /\ salt' = IF job.salt THEN Kept(Kit.salt) ELSE salt
       ELSE UNCHANGED <<keyring, salt>>
    /\ UNCHANGED <<left, item, own, deks, up>>

(***************************************************************************)
(* The user's personal kit                                                 *)
(***************************************************************************)
\* restoreSalt: an account that has none, and its check; then the write.
OwnSalt ==
    /\ "own" \in left.by /\ own = None /\ own' = [at |-> "salt", write |-> salt = None /\ SaltFits(Own, FALSE)]
    /\ UNCHANGED <<left, keyring, salt, item, job, deks, up>>
OwnSaltWritten ==
    /\ own # None /\ own.at = "salt" /\ own' = [at |-> "keys"] /\ salt' = IF own.write THEN Kept(Own.salt) ELSE salt
    /\ UNCHANGED <<left, keyring, item, job, deks, up>>
Usable == salt # None /\ cur # None /\ KeyOf(cur)
Lost == {m \in Own.subs : Under(m) # {} /\ ~KeyOf(m)}
OwnKeys ==
    /\ own # None /\ own.at = "keys"
    /\ own' = IF Usable /\ Lost # {} THEN [at |-> "page", todo |-> Lost, seen |-> {}, to |-> Seal(root, cur, salt, 0)] ELSE None
    /\ UNCHANGED <<left, keyring, salt, item, job, deks, up>>
\* sealStep: a page read; what opens with the kit's KEK is sealed under the current one.
Unseen == {i \in There \ own.seen : item[i].sub \in own.todo}
OwnPage ==
    /\ own # None /\ own.at = "page"
    /\ own' = IF Unseen = {} THEN None
              ELSE LET i == Min(Unseen) IN [at |-> "apply", todo |-> own.todo, seen |-> own.seen \cup {i}, to |-> own.to, i |-> i, from |-> item[i]]
    /\ UNCHANGED <<left, keyring, salt, item, job, deks, up>>
AsRead(i, from) == item[i] = from
OwnApply ==
    /\ own # None /\ own.at = "apply"
    /\ own' = [at |-> "page", todo |-> own.todo, seen |-> own.seen, to |-> own.to]
    /\ item' = IF own.from.root = Own.root /\ own.from.salt = Own.salt /\ AsRead(own.i, own.from)
               THEN [item EXCEPT ![own.i] = [own.to EXCEPT !.name = own.from.name]] ELSE item
    /\ UNCHANGED <<left, keyring, salt, job, deks, up>>

(***************************************************************************)
(* DEKs imported                                                           *)
(***************************************************************************)
\* restoreDek: an item that does not open, whose first chunk opens with the DEK.
DekRead ==
    /\ "deks" \in left.by /\ deks = None /\ Usable
    /\ \E i \in There : ~Opens(i) /\ deks' = [i |-> i, from |-> item[i], to |-> Seal(root, cur, salt, 0)]
    /\ UNCHANGED <<left, keyring, salt, item, job, own, up>>
\* restoreItem: the name is a placeholder now.
DekWrite ==
    /\ deks # None /\ deks' = None
    /\ item' = IF AsRead(deks.i, deks.from) THEN [item EXCEPT ![deks.i] = deks.to] ELSE item
    /\ UNCHANGED <<left, keyring, salt, job, own, up>>

(***************************************************************************)
(* The user                                                                *)
(***************************************************************************)
\* A Drive with nothing sealed gets a salt (createSalt); the item is sealed under the keys read.
Upload ==
    /\ left.news > 0 /\ up = None /\ (left.use /\ left.calm => job = None) /\ (salt # None \/ There = {}) /\ cur # None /\ KeyOf(cur)
    /\ left' = [left EXCEPT !.news = @ - 1] /\ salt' = Or(salt, "new") /\ up' = Seal(root, cur, Or(salt, "new"), 1)
    /\ UNCHANGED <<keyring, item, job, own, deks>>
Uploaded ==
    /\ up # None /\ up' = None
    /\ \E i \in Items \ There : item' = [item EXCEPT ![i] = up]
    /\ UNCHANGED <<left, keyring, salt, job, own, deks>>
Rename ==
    /\ left.names > 0 /\ left' = [left EXCEPT !.names = @ - 1]
    /\ \E i \in There : Opens(i) /\ item' = [item EXCEPT ![i].name = 2, ![i].root = root]
    /\ UNCHANGED <<keyring, salt, job, own, deks, up>>

Next ==
    \/ Count \/ Check \/ Read \/ Write
    \/ OwnSalt \/ OwnSaltWritten \/ OwnKeys \/ OwnPage \/ OwnApply
    \/ DekRead \/ DekWrite \/ Upload \/ Uploaded \/ Rename

\* The owner tries again while something does not open.
Spec ==
    /\ Init /\ [][Next]_vars
    /\ WF_vars(Count) /\ WF_vars(Check) /\ WF_vars(Read) /\ WF_vars(Write)
    /\ WF_vars(OwnSalt) /\ WF_vars(OwnSaltWritten) /\ WF_vars(OwnKeys) /\ WF_vars(OwnPage) /\ WF_vars(OwnApply)

(***************************************************************************)
(* Properties                                                              *)
(***************************************************************************)
\* Types.
TypeOK ==
    /\ root \in {None} \cup 1 .. 3 /\ old \in {None, 1} /\ row \in [SubKeys -> {None} \cup 0 .. 3] /\ cur \in {None} \cup SubKeys
    /\ salt \in {None, "s", "new"} /\ item \in [Items -> {None} \cup [root : 1 .. 3, sub : SubKeys, salt : {"s", "new"}, name : 0 .. 2]]

\* keyRestore, userKitRestore, "a working key is never replaced": whatever is put back, by however many
\* restores at once, what opens goes on opening.
NeverWorse == \A i \in There : Opens(i) => Opens(i)'

\* applySealed, restoreItem, "a rename meanwhile is not reverted": a re-seal never brings back the name an
\* item had when it was read.
NameKept == \A i \in There : item[i].name = 2 => item'[i].name = 2

\* saltRestore, "A salt is never replaced", by two kits and a first upload at once.
SaltKept == salt # None => salt' = salt

\* keyRestore: a kit that covers everything brings everything back, if it is tried until it changes
\* nothing; of a kit made during a root change, only where nothing was lost before the change was over.
KitBringsBack == "key" \in left.by /\ ~left.mid /\ ~left.use => \A i \in There : Opens(i)

\* userKitRestore: what was sealed under a sub-MEK the server lost opens again by the user's own kit, where
\* the root and the current sub-MEK are there and the salt is or can be checked.
OwnBringsBack == Usable /\ "own" \in left.by => \A i \in There : item[i].root = Own.root /\ item[i].sub \in Own.subs => Opens(i)

=============================================================================
