------------------------------ MODULE OneTime ------------------------------
(***************************************************************************)
(* What a one-time credential promises: it opens one session at most, and  *)
(* none once it was taken back.  SignIn implements it three times, with    *)
(* recovery codes, second-factor challenges and usernameless sign-in       *)
(* challenges.                                                             *)
(***************************************************************************)
EXTENDS Naturals

CONSTANT Tokens

VARIABLES live,   \* tokens that may still be used
          seen,   \* tokens ever made
          opened  \* sessions opened with one

Init == live \in SUBSET Tokens /\ seen = live /\ opened = 0

\* Some are made; some are taken back or lapse.
Change == /\ seen' \in SUBSET Tokens /\ seen \subseteq seen'
          /\ live' \in SUBSET (live \cup (seen' \ seen))
          /\ UNCHANGED opened

Use(t) == t \in live /\ live' = live \ {t} /\ opened' = opened + 1 /\ UNCHANGED seen

Next == Change \/ \E t \in Tokens : Use(t)

oneTimeVars == <<live, seen, opened>>
Spec == Init /\ [][Next]_oneTimeVars
=============================================================================
