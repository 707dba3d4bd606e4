----------------------------- MODULE CheckTrip -----------------------------
(***************************************************************************)
(* The CAPTCHA of one share: its strict page, where the link's key is, the *)
(* check page, where a third party's script runs, and the way from one to  *)
(* the other and back with the key sealed in the tab under a page key the  *)
(* Worker gives out, over a few tabs of one browser (src/public/js/        *)
(* pagekey.js, check.js, view.js, reverse.js, src/src/index.js sharePage,  *)
(* src/src/lib/human.js).                                                  *)
(***************************************************************************)
EXTENDS Integers, FiniteSets, Sequences

CONSTANTS
    Tabs,
    MaxKeys,    \* PAGE_KEYS_MAX
    KeyLife,    \* PAGE_KEY_MAX_AGE
    GrantLife,  \* SHARE_GRANT_SEC
    GrantCap,   \* SHARE_GRANT_CAP_SEC
    KeepEvery,  \* of the page's keep-alive
    Plans,      \* what is tried, chosen at the start
    None

TripAssumption == MaxKeys \in Nat \ {0} /\ {KeyLife, GrantLife, GrantCap, KeepEvery} \subseteq Nat \ {0} /\ KeepEvery < GrantLife

\* A plan: the page (a share's or an upload link's), whether the browser sends what tells a navigation of
\* the site's own, the last second, how often the person does something, and what is tried: a link opened from another site,
\* "?check" typed, a tab that was in the Drive, a tab copied.
Plan == [page : {"p", "r"}, tells : BOOLEAN, last : Nat, acts : Nat, tried : SUBSET {"other", "check", "drive", "copy"}]
PlansAssumption == Plans \subseteq Plan

VARIABLES
    left,       \* what is left of the plan
    now,
    jar,        \* the page keys the browser holds in cookies of the share's path, numbered as they were made
    made,       \* when each was made
    tab,        \* each tab: its document and its sessionStorage
    came,       \* history: the keys given back to a return from the check page
    lost        \* history: the keys a tab came back for in vain

vars == <<left, now, jar, made, tab, came, lost>>

\* `key`: the page has the link's key; `pk`: its page key while unspent; `again`: it reloaded itself for one; `grant`: what it sends;
\* `sealed`, `stored`, `drive`: the tab's sessionStorage, the nonce of the sealed key, the grant and a Drive key;
\* `autos`: navigations of its own since the person last did something.
Nowhere == [at |-> "off", key |-> FALSE, pk |-> None, again |-> FALSE, grant |-> None, due |-> None,
            sealed |-> None, stored |-> None, drive |-> FALSE, nav |-> None, autos |-> 0]

Init ==
    /\ left \in Plans /\ now = 0 /\ jar = {} /\ made = <<>> /\ tab = [t \in Tabs |-> Nowhere] /\ came = {} /\ lost = {}

Put(t, x) == tab' = [tab EXCEPT ![t] = x]
Live == {n \in jar : now < made[n] + KeyLife}
Valid(g) == g # None /\ now < g.exp
Least(a, b) == IF a < b THEN a ELSE b
Granted == [iat |-> now, exp |-> now + GrantLife]
Renewed(g) == [g EXCEPT !.exp = IF Least(now + GrantLife, g.iat + GrantCap) > g.exp THEN Least(now + GrantLife, g.iat + GrantCap) ELSE g.exp]

-----------------------------------------------------------------------------
\* A navigation takes the cookies with it as it leaves; `own`: of the site's own or the person's, `back`: ?n, `fresh`: ?pk.
Leaving(x, to, back, fresh, key, own) ==
    [x EXCEPT !.at = "away", !.key = FALSE, !.pk = None, !.again = FALSE, !.grant = None, !.due = None,
              !.nav = [to |-> to, back |-> back, fresh |-> fresh, key |-> key, own |-> own /\ left.tells, held |-> Live]]
By(x) == [x EXCEPT !.autos = 0]
Itself(x) == [x EXCEPT !.autos = @ + 1]

\* A new key drops those that came with the request beyond MaxKeys, the oldest, by the second.
Before(m, n) == made[m] > made[n] \/ (made[m] = made[n] /\ m < n)
Dropped(held) == {n \in held : Cardinality({m \in held : Before(m, n)}) >= MaxKeys - 1}

\* What the strict page does first.
Begun(x) == [x EXCEPT !.nav = None, !.grant = x.stored, !.at = IF x.key THEN "page" ELSE "lost"]

\* A visit, or the page's own for a page key: a key of the document, and a cookie with it.
ArrivePage(t) ==
    LET x == tab[t] n == x.nav new == Len(made) + 1 IN
    /\ x.at = "away" /\ n.to = "page" /\ n.back = None
    /\ IF n.own THEN jar' = (jar \ Dropped(n.held)) \cup {new} /\ made' = Append(made, now) ELSE UNCHANGED <<jar, made>>
    /\ Put(t, Begun([x EXCEPT !.key = n.key, !.again = n.fresh, !.pk = IF n.own THEN new ELSE None]))
    /\ UNCHANGED <<left, now, came, lost>>

\* Back from the check: the page key of that nonce once more if its cookie came along, and what the tab sealed if it was under that one.
ArriveBack(t) ==
    LET x == tab[t] n == x.nav hit == n.own /\ n.back \in n.held IN
    /\ x.at = "away" /\ n.to = "page" /\ n.back # None
    /\ jar' = IF hit THEN jar \ {n.back} ELSE jar
    /\ came' = IF hit THEN came \cup {n.back} ELSE came
    /\ lost' = IF hit THEN lost ELSE lost \cup {n.back}
    /\ Put(t, Begun([x EXCEPT !.key = hit /\ x.sealed = n.back, !.sealed = None, !.drive = FALSE]))
    /\ UNCHANGED <<left, now, made>>

\* The check page is for the site's own navigations; a key in its address goes to the strict page, Drive keys leave the storage before the script comes.
ArriveCheck(t) ==
    LET x == tab[t] n == x.nav IN
    /\ x.at = "away" /\ n.to = "check"
    /\ Put(t, IF ~n.own \/ n.key THEN Itself(Leaving(x, "page", None, FALSE, n.key, n.own))
              ELSE [x EXCEPT !.nav = None, !.at = "check", !.key = n.key, !.drive = FALSE])
    /\ UNCHANGED <<left, now, jar, made, came, lost>>

\* goToCheck: a page without a page key reloads itself once.
ToCheck(x) ==
    LET y == [x EXCEPT !.grant = None, !.stored = None, !.drive = FALSE, !.due = None] IN
    IF y.pk # None THEN Itself(Leaving([y EXCEPT !.sealed = y.pk], "check", None, FALSE, FALSE, TRUE))
    ELSE IF y.again THEN [y EXCEPT !.at = "refused", !.key = FALSE]
    ELSE Itself(Leaving(y, "page", None, TRUE, TRUE, TRUE))

\* A grant the Worker renews in an answer is stored; one renewed by the keep-alive is the page's only.
Kept(x) == [x EXCEPT !.grant = Renewed(@), !.stored = Renewed(x.grant)]

\* The page asks about the share; an upload page, which is told without one, looks for a grant in the tab.
Look(t) ==
    LET x == tab[t] IN
    /\ x.at = "page"
    /\ Put(t, IF left.page = "p" THEN IF Valid(x.grant) THEN [Kept(x) EXCEPT !.at = "shown"] ELSE ToCheck(x)
              ELSE IF x.grant # None THEN [x EXCEPT !.at = "shown"] ELSE ToCheck(x))
    /\ UNCHANGED <<left, now, jar, made, came, lost>>

KeepAlive(t) ==
    LET x == tab[t] IN
    /\ x.at = "open" /\ x.due # None /\ x.due <= now
    /\ Put(t, [x EXCEPT !.due = now + KeepEvery, !.grant = IF Valid(@) THEN Renewed(@) ELSE @])
    /\ UNCHANGED <<left, now, jar, made, came, lost>>

-----------------------------------------------------------------------------
\* What the person does.
Acts == left.acts > 0 /\ left' = [left EXCEPT !.acts = @ - 1] /\ UNCHANGED <<now, jar, made, came, lost>>
Goes(t, x, to, back, key, own) == Acts /\ tab[t].at # "away" /\ Put(t, By(Leaving(x, to, back, FALSE, key, own)))
Tried(w) == IF w \in left.tried THEN BOOLEAN ELSE {FALSE}
Driven(t) == {[tab[t] EXCEPT !.drive = @ \/ d] : d \in Tried("drive")}

\* The link is opened in a tab, which may have been in the Drive before, and may have "?check" put in it; or the check page alone is.
Visit(t) ==
    \E x \in Driven(t), check \in Tried("check"), other \in Tried("other") : Goes(t, x, IF check THEN "check" ELSE "page", None, TRUE, ~other)
TypeCheck(t) == "check" \in left.tried /\ \E x \in Driven(t) : Goes(t, x, "check", None, FALSE, TRUE)
Here(x) == IF x.at = "check" THEN "check" ELSE "page"
Reload(t) == tab[t].at # "off" /\ Goes(t, tab[t], Here(tab[t]), None, tab[t].key, TRUE)

\* A tab copied takes its sessionStorage with it.
Duplicate(t, u) == "copy" \in left.tried /\ tab[t].at \notin {"off", "away"} /\ tab[u].at = "off" /\ Goes(u, tab[t], Here(tab[t]), None, tab[t].key, TRUE)

\* The CAPTCHA passed: a grant, and back with the nonce of what the tab sealed.
Pass(t) == tab[t].at = "check" /\ Goes(t, [tab[t] EXCEPT !.stored = Granted], "page", tab[t].sealed, FALSE, TRUE)

\* A share is opened; a session of an upload link begun, which takes its grant.
Open(t) ==
    LET x == By(tab[t]) IN
    /\ Acts /\ x.at = "shown" /\ left.page = "p"
    /\ Put(t, IF Valid(x.grant) THEN [Kept(x) EXCEPT !.at = "open", !.due = now + KeepEvery] ELSE ToCheck(x))
Send(t) ==
    LET x == By(tab[t]) IN
    /\ Acts /\ x.at \in {"shown", "open"} /\ left.page = "r"
    /\ Put(t, IF x.grant = None THEN ToCheck(x) ELSE [x EXCEPT !.grant = None, !.stored = None, !.at = IF Valid(x.grant) THEN "open" ELSE @])

Tick ==
    /\ now < left.last /\ now' = now + 1
    /\ \A t \in Tabs : tab[t].at = "open" /\ tab[t].due # None => tab[t].due > now
    /\ UNCHANGED <<left, jar, made, tab, came, lost>>

Step(t) ==
    \/ ArrivePage(t) \/ ArriveBack(t) \/ ArriveCheck(t) \/ Look(t) \/ KeepAlive(t)
    \/ Visit(t) \/ TypeCheck(t) \/ Reload(t) \/ Pass(t) \/ Open(t) \/ Send(t)
Next ==
    \/ Tick
    \/ \E t \in Tabs : Step(t)
    \/ \E t, u \in Tabs : Duplicate(t, u)

-----------------------------------------------------------------------------
\* Where the third party's script runs there is neither the link's key, nor a page key, nor a Drive key, and no such
\* key is left in a tab that came from there (pagekey.js:1-33, drivekeys.js holdSessionKeys).
CheckHoldsNothing == \A t \in Tabs : tab[t].at = "check" => ~tab[t].key /\ tab[t].pk = None /\ tab[t].grant = None /\ ~tab[t].drive

\* A tab that comes back finds the key it sealed, unless a copy of the tab came first, the page key is older than its
\* cookie, or as many as are kept are not older (index.js sharePage).
LostOnlyIf ==
    \A n \in lost :
        \/ n \in came \/ now >= made[n] + KeyLife \/ ~left.tells
        \/ Cardinality({m \in DOMAIN made \ {n} : made[m] >= made[n]}) >= MaxKeys

\* The pages never send a person round: three navigations at most before somebody has to act (pagekey.js goToCheck, keyReload).
NoLoop == \A t \in Tabs : tab[t].autos <= 3

\* Page keys in cookies stay few, whatever the tabs do at once (human.js PAGE_KEYS_MAX).
JarBounded == Cardinality(jar) <= MaxKeys + Cardinality(Tabs) - 1

\* An open share's grant lasts as long as one may (view.js startKeepAlive, human.js renewGrant).
StaysOpen == \A t \in Tabs : tab[t].at = "open" /\ left.page = "p" => Valid(tab[t].grant) \/ now >= tab[t].grant.iat + GrantCap

TypeOK ==
    /\ jar \subseteq DOMAIN made /\ came \subseteq DOMAIN made /\ lost \subseteq DOMAIN made
    /\ \A t \in Tabs : tab[t].at \in {"off", "away", "page", "lost", "shown", "open", "refused", "check"} /\ (tab[t].at = "away" <=> tab[t].nav # None)
=============================================================================
