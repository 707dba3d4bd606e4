---------------------------- MODULE DriveUpgrade ----------------------------
(***************************************************************************)
(* The upgrade of Drives made before the second key model: the items and   *)
(* links of each are opened in a browser with its old key and sealed again *)
(* under the account's new one, verified, and only then do the wraps of    *)
(* the old key go; the administrator's own last, with the escrow that      *)
(* opens the others (src/src/drive-do.js migrationState ... deleteArchive, *)
(* src/src/routes/drive.js upgradeRoute ... driveOwnerRecovered,           *)
(* src/public/js/driveupgrade.js).  Meanwhile passwords, passkeys and      *)
(* recovery codes change, and accounts go.  A call to a Drive or to the    *)
(* Directory is one action.                                                *)
(***************************************************************************)
EXTENDS Integers, FiniteSets, TLC

CONSTANTS
    Drives, Owner,  \* accounts with a Drive, the administrator's among them
    Size,           \* items of a Drive: 1 .. Size, in the order of their ids
    Tabs,           \* browsers that upgrade, the users' or the administrator's
    MaxRenames,     \* bound on an item's renames
    Plans,          \* what is tried together, chosen at the start
    None

Items == 1 .. Size
Creds == {"passkey", "recovery"}
Newer == "new passkey"  \* one added since: no wrap is made for it
Own == {"pw"} \cup Creds
Wraps == Own \cup {"escrow"}

UpgradeAssumption == Owner \in Drives /\ Size \in Nat /\ MaxRenames \in Nat /\ None \notin Drives

\* A plan: the Drives and tabs there are, the links each Drive may have, the wraps of its user's own, which
\* Drives the Directory has no row of, who adds a passkey, what the accounts do, how often a Worker or a tab may die, whether a tab asks for the end alone.
Plan == [drives : SUBSET Drives, tabs : SUBSET Tabs, links : SUBSET {"none", "v1", "bad"}, wraps : SUBSET SUBSET Own, rowless : SUBSET Drives, adds : SUBSET Drives,
         does : SUBSET {"change", "reset", "own reset", "remove", "recover", "delete", "rename"}, deaths : 0 .. 1, asks : BOOLEAN]
PlansAssumption == Plans \subseteq Plan

VARIABLES
    plan,
    item,       \* nodes: how each item is sealed, how often it was renamed since
    link,       \* reverse: a link made before, in each Drive
    wraps,      \* wraps, of each Drive's old key
    held,       \* wrapsHeld, of the administrator's Drive
    escrow,     \* the administrator's sealed escrow keys, in that Drive
    records,    \* the Directory's escrow records
    creds,      \* passkeys and recovery codes of each account
    mig,        \* drive_migration
    cursor,     \* upgradeVerify of each Drive
    seen,       \* the items verified since its last start
    tab,        \* what each tab's requests do
    forgot,     \* the administrator's old password is forgotten: the account was recovered
    sync,       \* a change of credentials on its way to each account's Drive
    deaths

vars == <<plan, item, link, wraps, held, escrow, records, creds, mig, cursor, seen, tab, forgot, sync, deaths>>
Idle == [at |-> "idle"]
Quiet == [at |-> "quiet"]

Init ==
    /\ plan \in Plans /\ deaths = plan.deaths
    /\ item = [d \in Drives |-> [i \in Items |-> IF d \in plan.drives THEN [v |-> 1, edits |-> 0] ELSE [v |-> 0, edits |-> 0]]]
    /\ link \in [Drives -> plan.links \cup {"none"}] /\ \A d \in Drives \ plan.drives : link[d] = "none"
    /\ \E own \in plan.wraps :
          wraps = [d \in Drives |-> IF d \notin plan.drives THEN {} ELSE IF d = Owner THEN own ELSE own \cup {"escrow"}]
    /\ held = {} /\ escrow = TRUE /\ records = TRUE
    /\ creds = [d \in Drives |-> Creds]
    /\ mig = [d \in Drives |-> IF d \in plan.drives \ plan.rowless THEN "pending" ELSE "none"]
    /\ cursor = [d \in Drives |-> 0] /\ seen = [d \in Drives |-> {}]
    /\ tab = [t \in Tabs |-> Idle] /\ forgot = FALSE /\ sync = [d \in Drives |-> Quiet]

\* #migrationState
OldItems(d) == {i \in Items : item[d][i].v = 1}
OldLinks(d) == link[d] \in {"v1", "bad"}
Old(d) == OldItems(d) # {} \/ OldLinks(d)
Waits(d) == mig[d] = "pending"
Waiting == {d \in Drives : Waits(d)}
WaitingOthers(d) == Waiting \ {d}

\* Something still opens a Drive's old key: a wrap of its user's own, or the escrow through the administrator's.
OpensOwn(d) == wraps[d] \cap Creds # {} \/ ("pw" \in wraps[d] /\ ~(d = Owner /\ forgot))
Opens(d) == OpensOwn(d) \/ (d # Owner /\ "escrow" \in wraps[d] /\ escrow /\ OpensOwn(Owner))

Now(t, at) == tab' = [tab EXCEPT ![t].at = at]
Stop(t) == tab' = [tab EXCEPT ![t] = Idle]
Is(t, at) == t \in plan.tabs /\ tab[t].at = at

(***************************************************************************)
(* A tab upgrades a Drive                                                  *)
(***************************************************************************)
\* The page of old items and links, for a tab the old key is open in; a Drive the Directory has no row
\* of waits from now on.  A Drive found empty goes to its end at once.
Begin(t, d) ==
    /\ Is(t, "idle") /\ d \in plan.drives /\ (Waits(d) \/ (mig[d] = "none" /\ Old(d))) /\ (Old(d) => Opens(d))
    /\ mig' = [mig EXCEPT ![d] = "pending"]
    /\ tab' = [tab EXCEPT ![t] = [at |-> IF Old(d) THEN "listed" ELSE "finish", d |-> d,
                                  items |-> OldItems(d), link |-> link[d] = "v1", bad |-> link[d] = "bad"]]
    /\ UNCHANGED <<plan, item, link, wraps, held, escrow, records, creds, cursor, seen, forgot, sync, deaths>>

\* What it sealed again is sent: refused of a Drive that is done, ...
Send(t) ==
    /\ Is(t, "listed")
    /\ IF mig[tab[t].d] = "done" THEN Stop(t) ELSE Now(t, "sent")
    /\ UNCHANGED <<plan, item, link, wraps, held, escrow, records, creds, mig, cursor, seen, forgot, sync, deaths>>
StillOld(d, items) == {i \in items : item[d][i].v = 1}
Apply(t) ==
    /\ Is(t, "sent")
    /\ LET d == tab[t].d
       IN /\ item' = [item EXCEPT ![d] = [i \in Items |-> IF i \in StillOld(d, tab[t].items) THEN [v |-> 2, edits |-> 0] ELSE @[i]]]
          /\ link' = IF tab[t].link /\ link[d] = "v1" THEN [link EXCEPT ![d] = "v2"] ELSE link
          /\ Now(t, IF tab[t].bad THEN "unopened" ELSE "finish")
    /\ UNCHANGED <<plan, wraps, held, escrow, records, creds, mig, cursor, seen, forgot, sync, deaths>>

\* A link the old key does not open: its user retires it, confirmed.
Retire(t) ==
    /\ Is(t, "unopened") /\ Now(t, "finish")
    /\ link' = IF OldLinks(tab[t].d) THEN [link EXCEPT ![tab[t].d] = "retired"] ELSE link
    /\ UNCHANGED <<plan, item, wraps, held, escrow, records, creds, mig, cursor, seen, forgot, sync, deaths>>

\* A tab that asks for the end alone.
Ask(t, d) ==
    /\ plan.asks /\ Is(t, "idle") /\ Waits(d) /\ tab' = [tab EXCEPT ![t] = [at |-> "finish", d |-> d]]
    /\ UNCHANGED <<plan, item, link, wraps, held, escrow, records, creds, mig, cursor, seen, forgot, sync, deaths>>

\* A page of the verification, from the cursor the Drive keeps; then the cursor, or the end.
Verify(t) ==
    /\ Is(t, "finish")
    /\ LET d == tab[t].d
           rest == {i \in Items : item[d][i].v = 2 /\ i > cursor[d]}
       IN IF rest = {} THEN Now(t, "reset") /\ UNCHANGED seen
          ELSE LET i == CHOOSE x \in rest : \A y \in rest : x <= y
               IN /\ seen' = [seen EXCEPT ![d] = @ \cup {i}]
                  /\ tab' = [tab EXCEPT ![t] = [at |-> "verified", d |-> d, next |-> i]]
    /\ UNCHANGED <<plan, item, link, wraps, held, escrow, records, creds, mig, cursor, forgot, sync, deaths>>
NextCursor(t) == tab[t].next
MoveCursor(t) ==
    /\ Is(t, "verified") /\ Now(t, "finish") /\ cursor' = [cursor EXCEPT ![tab[t].d] = NextCursor(t)]
    /\ UNCHANGED <<plan, item, link, wraps, held, escrow, records, creds, mig, seen, forgot, sync, deaths>>
ResetCursor(t) ==
    /\ Is(t, "reset") /\ Now(t, "drop") /\ cursor' = [cursor EXCEPT ![tab[t].d] = 0]
    /\ UNCHANGED <<plan, item, link, wraps, held, escrow, records, creds, mig, seen, forgot, sync, deaths>>

Refused(d) == Old(d)
Drop(t) ==
    /\ Is(t, "drop")
    /\ LET d == tab[t].d
       IN IF Refused(d) THEN Stop(t) /\ UNCHANGED wraps
          ELSE wraps' = (IF d = Owner THEN wraps ELSE [wraps EXCEPT ![d] = {}]) /\ Now(t, "mark")
    /\ UNCHANGED <<plan, item, link, held, escrow, records, creds, mig, cursor, seen, forgot, sync, deaths>>
Mark(t) ==
    /\ Is(t, "mark")
    /\ LET d == tab[t].d
       IN /\ mig' = [mig EXCEPT ![d] = IF @ = "none" THEN "none" ELSE "done"]
          /\ IF WaitingOthers(d) = {} THEN Now(t, "clean") ELSE Stop(t)
    /\ UNCHANGED <<plan, item, link, wraps, held, escrow, records, creds, cursor, seen, forgot, sync, deaths>>

NoneWaits == Waiting = {}
SomeDone == \E d \in plan.drives : mig[d] = "done"
Clean(t) ==
    /\ Is(t, "clean")
    /\ IF NoneWaits THEN records' = FALSE /\ Now(t, "clean drop") ELSE Stop(t) /\ UNCHANGED records
    /\ UNCHANGED <<plan, item, link, wraps, held, escrow, creds, mig, cursor, seen, forgot, sync, deaths>>
CleanDrop(t) ==
    /\ Is(t, "clean drop") /\ Stop(t)
    /\ IF Old(Owner) THEN UNCHANGED <<wraps, held, escrow>>
       ELSE wraps' = [wraps EXCEPT ![Owner] = {}] /\ held' = {} /\ escrow' = FALSE
    /\ UNCHANGED <<plan, item, link, records, creds, mig, cursor, seen, forgot, sync, deaths>>
\* The administrator's list of Drives, once nothing waits.
Look(t) ==
    /\ Is(t, "idle") /\ Waiting = {} /\ records /\ tab' = [tab EXCEPT ![t] = [at |-> "clean", d |-> Owner]]
    /\ UNCHANGED <<plan, item, link, wraps, held, escrow, records, creds, mig, cursor, seen, forgot, sync, deaths>>

(***************************************************************************)
(* What the accounts do                                                    *)
(***************************************************************************)
\* A rename needs the item's new keys (patchNode).
Rename(d, i) ==
    /\ "rename" \in plan.does /\ item[d][i].v = 2 /\ item[d][i].edits < MaxRenames
    /\ item' = [item EXCEPT ![d][i].edits = @ + 1]
    /\ UNCHANGED <<plan, link, wraps, held, escrow, records, creds, mig, cursor, seen, tab, forgot, sync, deaths>>

\* A password set by the administrator: the wrap it opened goes where another of the user's own is left.
ResetPassword(d) ==
    /\ (IF d = Owner THEN "own reset" ELSE "reset") \in plan.does /\ d \in plan.drives
    /\ wraps[d] \cap Creds # {} /\ wraps' = [wraps EXCEPT ![d] = @ \ {"pw"}]
    /\ UNCHANGED <<plan, item, link, held, escrow, records, creds, mig, cursor, seen, tab, forgot, sync, deaths>>

\* A passkey added, no wrap with it; a passkey removed or the codes replaced, then syncCredentialWraps in
\* three calls.
Add(d) ==
    /\ d \in plan.adds /\ Newer \notin creds[d] /\ creds' = [creds EXCEPT ![d] = @ \cup {Newer}]
    /\ UNCHANGED <<plan, item, link, wraps, held, escrow, records, mig, cursor, seen, tab, forgot, sync, deaths>>
Remove(d, c) ==
    /\ "remove" \in plan.does /\ d \in plan.drives /\ c \in creds[d] /\ sync[d] = Quiet
    /\ creds' = [creds EXCEPT ![d] = @ \ {c}] /\ sync' = [sync EXCEPT ![d] = [at |-> "refs"]]
    /\ UNCHANGED <<plan, item, link, wraps, held, escrow, records, mig, cursor, seen, tab, forgot, deaths>>
ReadRefs(d) ==
    /\ sync[d].at = "refs" /\ sync' = [sync EXCEPT ![d] = [at |-> "prune", creds |-> creds[d], held |-> d = Owner /\ Waiting # {}]]
    /\ UNCHANGED <<plan, item, link, wraps, held, escrow, records, creds, mig, cursor, seen, tab, forgot, deaths>>
KeepsCurrent(d) == sync[d].creds
Keeps(d) == sync[d].creds \cup (IF sync[d].held THEN held ELSE {})
Prune(d) ==
    /\ sync[d].at = "prune" /\ sync' = [sync EXCEPT ![d] = Quiet]
    /\ wraps' = [wraps EXCEPT ![d] = {w \in @ : w \in Creds => w \in Keeps(d)}]
    /\ UNCHANGED <<plan, item, link, held, escrow, records, creds, mig, cursor, seen, tab, forgot, deaths>>

\* The administrator's account is recovered, by one who has a passkey or code of its wraps left: its
\* credentials go, and the wraps they opened are kept while a Drive waits (driveOwnerRecovered).
Recover ==
    /\ "recover" \in plan.does /\ ~forgot /\ wraps[Owner] \cap Creds # {} /\ sync[Owner] = Quiet
    /\ forgot' = TRUE /\ creds' = [creds EXCEPT ![Owner] = {}] /\ sync' = [sync EXCEPT ![Owner] = [at |-> "recovered"]]
    /\ UNCHANGED <<plan, item, link, wraps, held, escrow, records, mig, cursor, seen, tab, deaths>>
RecoveredRead ==
    /\ sync[Owner].at = "recovered"
    /\ sync' = [sync EXCEPT ![Owner] = [at |-> IF Waiting = {} THEN "refs" ELSE "hold"]]
    /\ UNCHANGED <<plan, item, link, wraps, held, escrow, records, creds, mig, cursor, seen, tab, forgot, deaths>>
Hold ==
    /\ sync[Owner].at = "hold" /\ sync' = [sync EXCEPT ![Owner] = Quiet]
    /\ held' = held \cup (wraps[Owner] \cap Creds)
    /\ UNCHANGED <<plan, item, link, wraps, escrow, records, creds, mig, cursor, seen, tab, forgot, deaths>>

\* An account is deleted, its Drive first; the escrow may have nothing left to open.
Delete(t, d) ==
    /\ "delete" \in plan.does /\ Is(t, "idle") /\ d \in plan.drives \ {Owner} /\ mig[d] # "none" /\ \A s \in Tabs : tab[s].at # "idle" => tab[s].d # d
    /\ item' = [item EXCEPT ![d] = [i \in Items |-> [v |-> 0, edits |-> 0]]] /\ link' = [link EXCEPT ![d] = "none"]
    /\ wraps' = [wraps EXCEPT ![d] = {}] /\ creds' = [creds EXCEPT ![d] = {}] /\ mig' = [mig EXCEPT ![d] = "none"]
    /\ tab' = [tab EXCEPT ![t] = [at |-> "clean", d |-> Owner]]
    /\ UNCHANGED <<plan, held, escrow, records, cursor, seen, forgot, sync, deaths>>

Die(t) ==
    /\ deaths > 0 /\ deaths' = deaths - 1 /\ tab[t] # Idle /\ Stop(t)
    /\ UNCHANGED <<plan, item, link, wraps, held, escrow, records, creds, mig, cursor, seen, forgot, sync>>

Works(t) == \/ \E d \in Drives : Begin(t, d)
            \/ Send(t) \/ Apply(t) \/ Retire(t) \/ Verify(t) \/ MoveCursor(t) \/ ResetCursor(t)
            \/ Drop(t) \/ Mark(t) \/ Clean(t) \/ CleanDrop(t) \/ Look(t)
Next ==
    \/ \E t \in Tabs : Works(t) \/ Die(t) \/ \E d \in Drives : Ask(t, d) \/ Delete(t, d)
    \/ \E d \in Drives : \/ ResetPassword(d) \/ ReadRefs(d) \/ Prune(d)
                         \/ Add(d) \/ \E c \in Creds \cup {Newer} : Remove(d, c)
                         \/ \E i \in Items : Rename(d, i)
    \/ Recover \/ RecoveredRead \/ Hold

\* A tab whose old key is open goes on until its Drive is upgraded ("the upgrade can stop and resume").
Spec == Init /\ [][Next]_vars /\ \A t \in Tabs : WF_vars(Works(t)) /\ SF_vars(\E d \in Drives : Begin(t, d))

(***************************************************************************)
(* Properties                                                              *)
(***************************************************************************)
\* The values kept are of their types.
TypeOK ==
    /\ item \in [Drives -> [Items -> [v : 0 .. 2, edits : 0 .. MaxRenames]]] /\ link \in [Drives -> {"none", "v1", "bad", "v2", "retired"}]
    /\ wraps \in [Drives -> SUBSET Wraps] /\ held \subseteq Creds /\ creds \in [Drives -> SUBSET (Creds \cup {Newer})] /\ forgot \in BOOLEAN
    /\ mig \in [Drives -> {"none", "pending", "done"}] /\ cursor \in [Drives -> 0 .. Size] /\ deaths \in 0 .. 1

\* As long as anything in a Drive is sealed the old way, something still opens its old key, whatever
\* credentials go, passwords are set, accounts are recovered or deleted and other Drives finish.
StillOpens == \A d \in plan.drives : Old(d) => Opens(d)

\* A Drive that is done holds nothing of the old way, and of its own wraps, those of a user, none.
DoneMeansUpgraded == \A d \in Drives : mig[d] = "done" => ~Old(d) /\ (d # Owner => wraps[d] = {})

\* What the upgrade sends late never replaces what its user changed since, and nothing goes back.
EditsStay ==
    \A d \in Drives, i \in Items : item[d][i].v = 2 /\ item'[d][i].v # 0 => item'[d][i].v = 2 /\ item'[d][i].edits >= item[d][i].edits

\* No Drive is done before each of its items was verified, by whichever tabs ...
NoneSkipped == \A d \in Drives : mig[d] = "done" => \A i \in Items : item[d][i].v = 2 => i \in seen[d]
\* ... where each tab that asks for the end has sent what it found.
Verified == plan.asks \/ NoneSkipped

\* With no change of credentials under way, a wrap is left only of a credential the account has, or
\* that a recovery of the administrator's account kept.
Pruned == \A d \in plan.drives : sync[d] = Quiet => wraps[d] \cap Creds \subseteq creds[d] \cup (IF d = Owner THEN held ELSE {})

\* Once every Drive is upgraded, the administrator's old wraps and the escrow go, where no Worker dies
\* between the two steps of that (nothing takes the second up again).
ToCleanUp == plan.deaths = 0 /\ Waiting = {} /\ SomeDone
CleanedUp == (wraps[Owner] = {} /\ ~escrow /\ ~records) \/ Waiting # {}
=============================================================================
