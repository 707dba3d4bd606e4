------------------------------ MODULE KeySetup ------------------------------
(***************************************************************************)
(* The set-up page's Drive keys: a pair the server proposes and the owner  *)
(* chooses, one the owner enters, or one made after the set-up, for the    *)
(* holder of the set-up token, in several tabs at once                     *)
(* (src/src/directory-do.js setupCandidates, setupChosen, setup, setupKeys,*)
(* ensureKeys, src/src/routes/auth.js, src/public/js/setup.js).            *)
(***************************************************************************)
EXTENDS Integers, FiniteSets

CONSTANTS
    Tabs,
    Entered,    \* the pair an owner enters
    MaxPairs,   \* bound on the pairs the server makes
    Plans,      \* what is tried together, chosen at the start
    Lifetime,   \* MEK_CANDIDATE_SEC
    None

SetupAssumption == Lifetime \in Nat \ {0} /\ Entered \in Int /\ Entered < 0

Kinds == {"generated", "manual", "none"}
\* A plan: the pairs the server makes at most, the AUTHN values the administrator sets one after the
\* other, what the tabs send, and how often a Worker dies.
Plan == [pairs : 1 .. MaxPairs, tokens : 1 .. 2, kinds : SUBSET Kinds, deaths : 0 .. 2]
PlansAssumption == Plans \subseteq Plan

VARIABLES
    left,       \* what is left of the plan
    made,       \* pairs made
    token,      \* the AUTHN value, and whether its set-up was done
    owner,      \* the owner account exists
    keyring,    \* the first keyring's pair, from when there is one
    cand,       \* the pair kept under SETUP_SID: its id, what is left of its ten minutes
    tab,        \* what each tab shows, and its request
    first,      \* the call that makes keys on first use: the pair it prepared
    setups      \* history: set-ups done with each token

vars == <<left, made, token, owner, keyring, cand, tab, first, setups>>
Pairs == 1 .. MaxPairs
Blank == [at |-> "edit", shows |-> None, chosen |-> FALSE, kind |-> "none", pair |-> None, prep |-> FALSE, answer |-> "none"]

Init ==
    /\ left \in Plans /\ made = 0 /\ token = [n |-> 1, used |-> FALSE] /\ owner = FALSE /\ keyring = None /\ cand = None
    /\ tab = [t \in Tabs |-> Blank] /\ first = None /\ setups = [n \in 1 .. 2 |-> 0]

Is(t, at) == tab[t].at = at
Put(t, x) == tab' = [tab EXCEPT ![t] = x]
HasKeyring == keyring # None
Live(c) == c # None /\ c.left > 0

(***************************************************************************)
(* The page, and its proposals                                             *)
(***************************************************************************)
\* setupCandidates, until its fingerprints are awaited.
Refused == token.used \/ owner \/ HasKeyring
Propose(t) ==
    /\ Is(t, "edit") /\ ~Refused /\ made < left.pairs /\ made' = made + 1
    /\ Put(t, [tab[t] EXCEPT !.at = "proposing", !.pair = made + 1])
    /\ UNCHANGED <<left, token, owner, keyring, cand, first, setups>>
RefusedAgain == Refused
\* Checked again after the await; the answer may not reach the page.
Proposed(t) ==
    /\ Is(t, "proposing")
    /\ IF RefusedAgain THEN UNCHANGED cand ELSE cand' = [pair |-> tab[t].pair, left |-> Lifetime]
    /\ \E lost \in BOOLEAN :
          LET seen == ~lost /\ ~RefusedAgain
          IN  Put(t, [tab[t] EXCEPT !.at = "edit", !.pair = None, !.shows = IF seen THEN tab[t].pair ELSE @, !.chosen = ~seen /\ @])
    /\ UNCHANGED <<left, made, token, owner, keyring, first, setups>>
\* "Use these".
Use(t) ==
    /\ Is(t, "edit") /\ tab[t].shows # None /\ ~tab[t].chosen /\ Put(t, [tab[t] EXCEPT !.chosen = TRUE])
    /\ UNCHANGED <<left, made, token, owner, keyring, cand, first, setups>>
\* The form is sent: with the pair chosen, with one entered, or (the API's default) with none.
Submit(t) ==
    /\ Is(t, "edit") /\ tab[t].answer \notin {"created", "kept", "later"}
    /\ \E kind \in left.kinds :
          /\ kind = "generated" => tab[t].chosen
          /\ Put(t, [tab[t] EXCEPT !.at = IF kind = "generated" THEN "chosen" ELSE "setup", !.kind = kind,
                                   !.pair = IF kind = "manual" THEN Entered ELSE None])
    /\ UNCHANGED <<left, made, token, owner, keyring, cand, first, setups>>

(***************************************************************************)
(* The set-up call                                                         *)
(***************************************************************************)
\* setupChosen: the pair whose ids the page sent, or 410 (the page then shows none).
AnyPair(t) == cand # None
StillKept(t) == Live(cand) /\ cand.pair = tab[t].shows
Chosen(t) ==
    /\ Is(t, "chosen") /\ cand' = (IF Live(cand) THEN cand ELSE None)
    /\ IF StillKept(t) THEN Put(t, [tab[t] EXCEPT !.at = "setup", !.pair = cand.pair])
       ELSE Put(t, [Blank EXCEPT !.answer = "expired"])
    /\ UNCHANGED <<left, made, token, owner, keyring, first, setups>>
\* setup: the keys are prepared first; the checks and the writes have no await between them.
Prepare(t) ==
    /\ Is(t, "setup") /\ Put(t, [tab[t] EXCEPT !.at = "write", !.prep = tab[t].pair # None /\ ~HasKeyring])
    /\ UNCHANGED <<left, made, token, owner, keyring, cand, first, setups>>
Spent == token.used
KeyringThen(t) == IF tab[t].prep /\ ~HasKeyring THEN tab[t].pair ELSE keyring
Setup(t) ==
    /\ Is(t, "write")
    /\ IF Spent THEN Put(t, [tab[t] EXCEPT !.at = "edit", !.answer = "token_used"]) /\ UNCHANGED <<token, owner, keyring, cand, setups>>
       ELSE /\ owner' = TRUE /\ token' = [token EXCEPT !.used = TRUE] /\ setups' = [setups EXCEPT ![token.n] = @ + 1]
            /\ keyring' = KeyringThen(t) /\ cand' = IF tab[t].pair # None THEN None ELSE cand
            /\ IF tab[t].pair = None THEN Put(t, [tab[t] EXCEPT !.at = "keys"])
               ELSE Put(t, [tab[t] EXCEPT !.at = "edit", !.prep = FALSE, !.answer = IF tab[t].prep /\ ~HasKeyring THEN "created" ELSE "kept"])
    /\ UNCHANGED <<left, made, first>>
\* setupKeys, after a set-up with no keys: made here unless there are some.
SetupKeys(t) ==
    /\ Is(t, "keys")
    /\ IF HasKeyring THEN Put(t, [tab[t] EXCEPT !.at = "edit", !.answer = "kept"]) /\ cand' = None /\ UNCHANGED made
       ELSE made < left.pairs /\ made' = made + 1 /\ Put(t, [tab[t] EXCEPT !.at = "create", !.pair = made + 1]) /\ UNCHANGED cand
    /\ UNCHANGED <<left, token, owner, keyring, first, setups>>
Created(pair) == IF HasKeyring THEN keyring ELSE pair
Create(t) ==
    /\ Is(t, "create") /\ keyring' = Created(tab[t].pair) /\ cand' = None
    /\ Put(t, [tab[t] EXCEPT !.at = "edit", !.answer = IF HasKeyring THEN "kept" ELSE "later", !.pair = None])
    /\ UNCHANGED <<left, made, token, owner, first, setups>>
\* The Worker of a set-up is stopped, after any call of it.
Dies(t) ==
    /\ left.deaths > 0 /\ left' = [left EXCEPT !.deaths = @ - 1]
    /\ tab[t].at \in {"chosen", "setup", "keys"} /\ Put(t, [tab[t] EXCEPT !.at = "edit", !.pair = None])
    /\ UNCHANGED <<made, token, owner, keyring, cand, first, setups>>

(***************************************************************************)
(* Afterwards                                                              *)
(***************************************************************************)
\* ensureKeys, the first time a Drive is used: two steps, as #createKeys awaits.
FirstUse ==
    /\ owner /\ first = None /\ ~HasKeyring /\ first' = MaxPairs + 1
    /\ UNCHANGED <<left, made, token, owner, keyring, cand, tab, setups>>
FirstMade ==
    /\ first # None /\ keyring' = Created(first) /\ first' = None
    /\ UNCHANGED <<left, made, token, owner, cand, tab, setups>>
\* The administrator sets another AUTHN value (a recovery).
NewToken ==
    /\ token.used /\ token.n < left.tokens /\ token' = [n |-> token.n + 1, used |-> FALSE]
    /\ UNCHANGED <<left, made, owner, keyring, cand, tab, first, setups>>
Tick ==
    /\ Live(cand) /\ cand' = [cand EXCEPT !.left = @ - 1]
    /\ UNCHANGED <<left, made, token, owner, keyring, tab, first, setups>>
\* #purgeCandidates, by the alarm (setupChosen drops an expired pair too).
Purge ==
    /\ cand # None /\ ~Live(cand) /\ cand' = None
    /\ UNCHANGED <<left, made, token, owner, keyring, tab, first, setups>>

Next ==
    \/ \E t \in Tabs : Propose(t) \/ Proposed(t) \/ Use(t) \/ Submit(t) \/ Chosen(t) \/ Prepare(t) \/ Setup(t) \/ SetupKeys(t) \/ Create(t) \/ Dies(t)
    \/ FirstUse \/ FirstMade \/ NewToken \/ Tick \/ Purge

\* A Drive is used after the set-up, and the alarm runs.
Spec == Init /\ [][Next]_vars /\ WF_vars(FirstUse) /\ WF_vars(FirstMade) /\ WF_vars(Purge) /\ WF_vars(Tick) /\ \A t \in Tabs : WF_vars(Proposed(t))

(***************************************************************************)
(* Properties                                                              *)
(***************************************************************************)
AllPairs == Pairs \cup {MaxPairs + 1} \cup {Entered}
\* Types.
TypeOK ==
    /\ made \in 0 .. MaxPairs /\ token.n \in 1 .. 2 /\ keyring \in AllPairs \cup {None}
    /\ cand # None => cand.pair \in 1 .. made /\ cand.left \in 0 .. Lifetime
    /\ \A t \in Tabs : tab[t].shows \in 1 .. made \cup {None} /\ (tab[t].chosen => tab[t].shows # None)

\* routes/auth.js, "a set-up never ends with other keys than those": a set-up that made the keyring from
\* a choice made the pair its own tab showed.
KeysShown == \A t \in Tabs : tab[t].kind = "generated" /\ tab[t].answer = "created" => keyring = tab[t].shows

\* setupKeys, "Keys that exist are never replaced" - by any of the calls that prepare keys and await.
NeverReplaced == keyring # None => keyring' = keyring

\* setup: one set-up per AUTHN value, of however many tabs.
OncePerToken == \A n \in 1 .. 2 : setups[n] <= 1

\* setupCandidates, "Only for an unspent setup token with no owner yet": no pair is kept once a set-up is
\* over, even one whose fingerprints were awaited while another tab set up; a set-up that stopped in
\* between leaves one until its ten minutes are over.
NoneKept == (cand' = None) \/ (cand # None /\ cand.pair = cand'.pair) \/ ~owner'

\* With an owner there is a keyring, and the pairs that were never used are gone.  In the end it is so.
KeysSettled == owner => keyring # None /\ cand = None
=============================================================================
