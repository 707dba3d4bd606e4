------------------------------- MODULE SignIn -------------------------------
(***************************************************************************)
(* One account of the Directory (src/src/directory-do.js): its password,   *)
(* passkeys, recovery codes and API keys, the ways to sign in, the         *)
(* confirmation of changes (step-up), the counters of wrong answers, and   *)
(* what the owner does to it.                                              *)
(*                                                                         *)
(* A request goes on over awaits (hashing, sealing a log entry, verifying  *)
(* an assertion); between them others run.  A step here is what runs       *)
(* without one.  The log, labels and WebAuthn's own checks are left out: a *)
(* passkey's assertion verifies or it does not.                            *)
(***************************************************************************)
EXTENDS Integers, FiniteSets

CONSTANTS
    Requests,       \* requests that may be in flight
    MaxFails,       \* lockout.max
    Window,         \* lockout.windowSec
    LockSec,        \* lockout.lockSec
    Tries,          \* SECOND_FACTOR_TRIES
    PerUser,        \* MAX_CHALLENGES_PER_USER
    CodeSet,        \* RECOVERY_CODES
    MaxPasskeys, MaxApiKeys,   \* the role's passkeysMax and apiMaxKeys
    MaxTime, MaxKeyIds, MaxCodes, MaxChals, MaxTokens, MaxPw,  \* bounds: ids ever made
    Plans,          \* what is tried together
    None

SignInAssumption ==
    /\ {MaxFails, Window, LockSec, Tries, PerUser, CodeSet, MaxPasskeys, MaxApiKeys} \subseteq Nat \ {0}
    /\ {MaxTime, MaxKeyIds, MaxCodes, MaxChals, MaxTokens} \subseteq Nat /\ MaxPw \in Nat \ {0}
    /\ CodeSet <= MaxCodes /\ IsFiniteSet(Requests)

SignIns == {"login", "recover", "second", "passkey"}
Changes == {"password", "addKey", "dropKey", "newCodes", "mfa", "apiKey"}
Admin == {"setPassword", "disable", "enable", "unlock", "resetPasskeys", "recover"}

\* What is tried: the requests made, how many, the owner's actions and how many; whose account; the
\* passkey mode of its role; how many passkeys it starts with; whether wrong answers are given.
Plan == [ops : SUBSET (SignIns \cup Changes), asks : 0 .. 9, admin : SUBSET Admin, acts : 0 .. 9, owner : BOOLEAN,
         mode : {"any", "second"}, keys : 0 .. MaxPasskeys, wrong : BOOLEAN]
PlansAssumption == Plans \subseteq Plan

Count == [count : 0 .. MaxFails, start : -Window - 1 .. MaxTime, until : 0 .. MaxTime + LockSec]
NoFails == [count |-> 0, start |-> -Window - 1, until |-> 0]
NoGuess == [n |-> 0, lifts |-> 0]
Cred == [kind : {"pw", "code", "key"}, n : Nat]
Request == [op : SignIns \cup Changes, at : {"sealing", "verifying", "sealed"},
            cred : Cred, chal : Nat,
            ts : 0 .. MaxTime, ver : Nat, off : BOOLEAN,  \* the time, session version and disabled flag as read
            left : Nat, again : 0 .. 3]                   \* recovery codes left as read, attempts

VARIABLES
    plan,
    now,
    u,          \* the account's row: [pw, ver, off, mfa]
    passkeys,   \* its passkeys
    codes,      \* its unspent recovery codes
    apiKeys,    \* how many API keys it has
    fails,      \* its row of failures
    stepFails,  \* its row of pwchange_failures
    chals,      \* its second-factor challenges, [n, tries], n growing
    spent,      \* webauthn_spent: usernameless challenges used
    made,       \* ids made so far: [key, code, chal]
    req,        \* requests in flight
    left,       \* history: what the plan still allows, [asks, acts]
    guesses,    \* history: wrong passwords and codes evaluated in this run of failures, and locks lifted in it, [n, lifts]
    last,       \* history: the last session made, [n, ver, via, cred]
    opened      \* history: sessions by recovery code, by challenge, by usernameless challenge
rows == <<u, passkeys, codes, apiKeys, fails, stepFails, chals, spent, made>>
vars == <<plan, now, rows, req, left, guesses, last, opened>>

TypeOK ==
    /\ plan \in Plans /\ now \in 0 .. MaxTime
    /\ u \in [pw : 1 .. MaxPw, ver : Nat, off : BOOLEAN, mfa : BOOLEAN]
    /\ passkeys \subseteq 1 .. made.key /\ codes \subseteq 1 .. made.code /\ apiKeys \in 0 .. MaxApiKeys
    /\ fails \in Count /\ stepFails \in Count
    /\ \A c \in chals : c.n \in 1 .. made.chal /\ c.tries \in 0 .. Tries
    /\ \A r \in Requests : req[r] # None => req[r] \in Request

Init ==
    /\ plan \in Plans /\ now = 0
    /\ u = [pw |-> 1, ver |-> 1, off |-> FALSE, mfa |-> plan.keys > 0]
    /\ passkeys = 1 .. plan.keys /\ codes = IF plan.keys > 0 THEN 1 .. CodeSet ELSE {}
    /\ apiKeys = 0 /\ fails = NoFails /\ stepFails = NoFails /\ chals = {} /\ spent = {}
    /\ made = [key |-> plan.keys, code |-> Cardinality(codes), chal |-> 0]
    /\ req = [r \in Requests |-> None]
    /\ left = [asks |-> plan.asks, acts |-> plan.acts]
    /\ guesses = NoGuess
    /\ last = [n |-> 0, ver |-> 0, via |-> "none", cred |-> 0]
    /\ opened = [code |-> 0, chal |-> 0, token |-> 0]

(***************************************************************************)
(* Counters of wrong answers                                               *)
(***************************************************************************)
Fresh(f, ts) == ts - f.start > Window
CountOf(f, ts) == IF Fresh(f, ts) THEN 1 ELSE f.count + 1
StartOf(f, ts) == IF Fresh(f, ts) THEN ts ELSE f.start

\* The owner is never locked out.
Locked(ts) == ~plan.owner /\ fails.until > ts

\* One wrong password or code more at the time ts.
Counted(ts) ==
    IF CountOf(fails, ts) >= MaxFails THEN [count |-> 0, start |-> ts, until |-> ts + LockSec]
    ELSE [count |-> CountOf(fails, ts), start |-> StartOf(fails, ts), until |-> 0]
PasswordFailure(ts) == fails' = IF plan.owner THEN fails ELSE Counted(ts)

\* The run of failures a guess at ts belongs to.
GuessesAt(ts) == IF plan.owner \/ Fresh(fails, ts) \/ fails.until \in 1 .. ts THEN NoGuess ELSE guesses
Guess(ts) == guesses' = IF plan.owner THEN NoGuess ELSE [GuessesAt(ts) EXCEPT !.n = @ + 1]
\* A failure counted although the account was locked meanwhile begins a new count: the lock is lifted.
Lifts(ts) == guesses' = IF Locked(ts) THEN [guesses EXCEPT !.lifts = @ + 1] ELSE GuessesAt(ts)

(***************************************************************************)
(* Sessions, challenges, codes, passkeys                                   *)
(***************************************************************************)
NeedsSecond == passkeys # {} /\ (plan.mode = "second" \/ u.mfa)

ChalOf(n) == {c \in chals : c.n = n}
Chals == {c.n : c \in chals}
Without(n) == chals \ ChalOf(n)
Tried(n) == Without(n) \cup {[c EXCEPT !.tries = @ + 1] : c \in ChalOf(n)}

\* The account's newest few are kept.
Kept == {c \in chals : Cardinality({d \in chals : d.n > c.n}) < PerUser - 1}
NewChallenge == /\ chals' = Kept \cup {[n |-> made.chal + 1, tries |-> 0]}
                /\ made' = [made EXCEPT !.chal = @ + 1]

\* A new session of the version v; the failures are forgotten.
SessionFor(v, via, cred) ==
    /\ fails' = NoFails /\ guesses' = NoGuess
    /\ last' = [n |-> last.n + 1, ver |-> v, via |-> via, cred |-> cred]

Opens(kinds) == opened' = [k \in DOMAIN opened |-> IF k \in kinds THEN opened[k] + 1 ELSE opened[k]]

Ends(r) == req' = [req EXCEPT ![r] = None]
Goes(r, q) == req' = [req EXCEPT ![r] = q]

\* A new set of codes replaces the old one.
NewCodes == made.code + 1 .. made.code + CodeSet

DropPasskeys == passkeys' = {} /\ codes' = {} /\ u' = [u EXCEPT !.mfa = FALSE]

AssertedAsRead(k) == TRUE

Spent(c) == codes \ {c}

\* The assertion verifies and the passkey's row is still there to be written.
Asserted(k) == k \in passkeys

(***************************************************************************)
(* A request comes in: what it reads before its first await                *)
(***************************************************************************)
Secrets(op) ==
    LET pws == IF plan.wrong THEN 0 .. u.pw ELSE {u.pw}
        keys == {[kind |-> "key", n |-> k] : k \in passkeys}
        cds == {[kind |-> "code", n |-> c] : c \in IF plan.wrong THEN codes \cup {0} ELSE codes}
    IN CASE op = "login" -> {[kind |-> "pw", n |-> g] : g \in pws}
         [] op = "recover" -> cds
         [] op = "second" -> keys \cup cds
         [] op = "passkey" -> keys
         [] OTHER -> keys \cup {[kind |-> "pw", n |-> g] : g \in pws}

Challenges(op) ==
    CASE op = "second" -> Chals
      [] op = "passkey" -> 1 .. MaxTokens
      [] OTHER -> {0}

SpendTokenAgain(op, c) ==
    IF op = "passkey" THEN spent' = spent \cup {c} ELSE UNCHANGED spent

\* A usernameless challenge is spent before the assertion is looked at.
SpendToken(op, c) ==
    IF op = "passkey" THEN c \notin spent /\ spent' = spent \cup {c} ELSE UNCHANGED spent

Ask(r) ==
    /\ req[r] = None /\ left.asks > 0
    /\ \E op \in plan.ops : \E cred \in Secrets(op), c \in Challenges(op) :
         /\ op = "password" => u.pw < MaxPw
         /\ SpendToken(op, c)
         /\ Goes(r, [op |-> op, at |-> IF op = "passkey" THEN "verifying" ELSE "sealing", cred |-> cred, chal |-> c,
                     ts |-> now, ver |-> u.ver, off |-> u.off, left |-> Cardinality(codes), again |-> 0])
    /\ left' = [left EXCEPT !.asks = @ - 1]
    /\ UNCHANGED <<plan, now, u, passkeys, codes, apiKeys, fails, stepFails, chals, made, guesses, last, opened>>

(***************************************************************************)
(* login                                                                   *)
(***************************************************************************)
RightPassword(q) == q.cred.n = u.pw

LoginRefused(r) ==
    LET q == req[r] IN
    /\ req[r] # None /\ q.op = "login"
    /\ Locked(q.ts) \/ (RightPassword(q) /\ u.off)
    /\ Ends(r) /\ UNCHANGED <<plan, now, rows, left, guesses, last, opened>>

LoginWrong(r) ==
    LET q == req[r] IN
    /\ req[r] # None /\ q.op = "login" /\ ~Locked(q.ts) /\ ~RightPassword(q)
    /\ PasswordFailure(q.ts) /\ Guess(q.ts) /\ Ends(r)
    /\ UNCHANGED <<plan, now, u, passkeys, codes, apiKeys, stepFails, chals, spent, made, left, last, opened>>

\* Right password: a session, or a challenge for the second factor.
LoginRight(r) ==
    LET q == req[r] IN
    /\ req[r] # None /\ q.op = "login" /\ ~Locked(q.ts) /\ RightPassword(q) /\ ~u.off
    /\ IF NeedsSecond
       THEN made.chal < MaxChals /\ NewChallenge /\ UNCHANGED <<fails, guesses, last>>
       ELSE SessionFor(u.ver, "password", q.cred.n) /\ UNCHANGED <<chals, made>>
    /\ Ends(r)
    /\ UNCHANGED <<plan, now, u, passkeys, codes, apiKeys, stepFails, spent, left, opened>>

(***************************************************************************)
(* Recovery codes: alone (recoveryLogin), or after the password            *)
(***************************************************************************)
\* The entry names the codes left: as many as when it was sealed, or it is sealed again.
StillLeft(q) == q.left = Cardinality(codes)

ByCode(q) == q.op \in {"recover", "second"} /\ q.cred.kind = "code"

SealAgain(r) ==
    LET q == req[r] IN
    /\ req[r] # None /\ ByCode(q) /\ ~StillLeft(q)
    /\ q.op = "second" => q.chal \in Chals
    /\ IF q.again < 2 THEN Goes(r, [q EXCEPT !.left = Cardinality(codes), !.again = @ + 1]) ELSE Ends(r)
    /\ UNCHANGED <<plan, now, rows, left, guesses, last, opened>>

RecoverRefused(r) ==
    LET q == req[r] IN
    /\ req[r] # None /\ q.op = "recover" /\ StillLeft(q)
    /\ Locked(q.ts) \/ (q.cred.n \in codes /\ u.off)
    /\ Ends(r) /\ UNCHANGED <<plan, now, rows, left, guesses, last, opened>>

RecoverWrong(r) ==
    LET q == req[r] IN
    /\ req[r] # None /\ q.op = "recover" /\ StillLeft(q) /\ ~Locked(q.ts) /\ q.cred.n \notin codes
    /\ PasswordFailure(q.ts) /\ Guess(q.ts) /\ Ends(r)
    /\ UNCHANGED <<plan, now, u, passkeys, codes, apiKeys, stepFails, chals, spent, made, left, last, opened>>

RecoverRight(r) ==
    LET q == req[r] IN
    /\ req[r] # None /\ q.op = "recover" /\ StillLeft(q) /\ ~Locked(q.ts) /\ q.cred.n \in codes /\ ~u.off
    /\ codes' = Spent(q.cred.n)
    /\ SessionFor(u.ver, "code", q.cred.n) /\ Opens({"code"}) /\ Ends(r)
    /\ UNCHANGED <<plan, now, u, passkeys, apiKeys, stepFails, chals, spent, made, left>>

(***************************************************************************)
(* The second factor: a code, or a passkey (verified over an await)        *)
(***************************************************************************)
AtSecond(r) == req[r] # None /\ req[r].op = "second" /\ req[r].at = "sealing"
TriesUsed(n) == \E c \in ChalOf(n) : c.tries + 1 > Tries

\* The challenge is gone, or the account is locked.
SecondRefused(r) ==
    LET q == req[r] IN
    /\ AtSecond(r)
    /\ q.chal \notin Chals \/ (Locked(q.ts) /\ (ByCode(q) => StillLeft(q)))
    /\ Ends(r) /\ UNCHANGED <<plan, now, rows, left, guesses, last, opened>>

\* Past the last try the challenge goes.
SecondTooMany(r) ==
    LET q == req[r] IN
    /\ AtSecond(r) /\ q.chal \in Chals /\ ~Locked(q.ts) /\ (ByCode(q) => StillLeft(q))
    /\ TriesUsed(q.chal)
    /\ chals' = Without(q.chal) /\ Ends(r)
    /\ UNCHANGED <<plan, now, u, passkeys, codes, apiKeys, fails, stepFails, spent, made, left, guesses, last, opened>>

MayTry(r) == LET q == req[r] IN AtSecond(r) /\ q.chal \in Chals /\ ~Locked(q.ts) /\ ~TriesUsed(q.chal)

\* With a code all is done in one step; a disabled account has spent both.
SecondByCode(r) ==
    LET q == req[r] IN
    /\ MayTry(r) /\ ByCode(q) /\ StillLeft(q) /\ q.cred.n \in codes
    /\ codes' = Spent(q.cred.n) /\ chals' = Without(q.chal) /\ Ends(r)
    /\ IF u.off THEN UNCHANGED <<fails, guesses, last, opened>>
       ELSE SessionFor(u.ver, "code", q.cred.n) /\ Opens({"code", "chal"})
    /\ UNCHANGED <<plan, now, u, passkeys, apiKeys, stepFails, spent, made, left>>

SecondWrongCode(r) ==
    LET q == req[r] IN
    /\ MayTry(r) /\ ByCode(q) /\ StillLeft(q) /\ q.cred.n \notin codes
    /\ chals' = Tried(q.chal) /\ PasswordFailure(q.ts) /\ Guess(q.ts) /\ Ends(r)
    /\ UNCHANGED <<plan, now, u, passkeys, codes, apiKeys, stepFails, spent, made, left, last, opened>>

\* The try is counted and the passkey read; then the assertion is verified.
SecondVerifies(r) ==
    LET q == req[r] IN
    /\ MayTry(r) /\ ~ByCode(q)
    /\ chals' = Tried(q.chal)
    /\ Goes(r, [q EXCEPT !.at = "verifying", !.ver = u.ver, !.off = u.off])
    /\ UNCHANGED <<plan, now, u, passkeys, codes, apiKeys, fails, stepFails, spent, made, left, guesses, last, opened>>

SecondByKey(r) ==
    LET q == req[r] IN
    /\ req[r] # None /\ q.op = "second" /\ q.at = "verifying" /\ Asserted(q.cred.n)
    /\ IF q.chal \in Chals /\ ~q.off
       THEN SessionFor(q.ver, "key", q.cred.n) /\ Opens({"chal"})
       ELSE UNCHANGED <<fails, guesses, last, opened>>
    /\ chals' = Without(q.chal) /\ Ends(r)
    /\ UNCHANGED <<plan, now, u, passkeys, codes, apiKeys, stepFails, spent, made, left>>

\* It does not verify, or the passkey is gone meanwhile; whether the account was locked meanwhile is not looked at.
SecondWrongKey(r) ==
    LET q == req[r] IN
    /\ req[r] # None /\ q.op = "second" /\ q.at = "verifying" /\ (Asserted(q.cred.n) => plan.wrong)
    /\ PasswordFailure(q.ts) /\ Lifts(q.ts) /\ Ends(r)
    /\ UNCHANGED <<plan, now, u, passkeys, codes, apiKeys, stepFails, chals, spent, made, left, last, opened>>

(***************************************************************************)
(* passkeyLogin: the account is as it was read before the assertion        *)
(***************************************************************************)
PasskeyLogin(r) ==
    LET q == req[r] IN
    /\ req[r] # None /\ q.op = "passkey"
    /\ IF Asserted(q.cred.n) /\ plan.mode = "any" /\ ~q.off
       THEN SessionFor(q.ver, "key", q.cred.n) /\ Opens({"token"})
       ELSE UNCHANGED <<fails, guesses, last, opened>>
    /\ Ends(r)
    /\ UNCHANGED <<plan, now, u, passkeys, codes, apiKeys, stepFails, chals, spent, made, left>>

(***************************************************************************)
(* The confirmation of a change                                            *)
(***************************************************************************)
AtConfirm(r) == req[r] # None /\ req[r].op \in Changes /\ req[r].at = "sealing"

\* A wrong one more: past the last every session of the account ends.
StepUpFailed ==
    IF CountOf(stepFails, now) >= MaxFails
    THEN stepFails' = NoFails /\ u' = [u EXCEPT !.ver = @ + 1]
    ELSE /\ stepFails' = [count |-> CountOf(stepFails, now), start |-> StartOf(stepFails, now), until |-> 0]
         /\ UNCHANGED u

ConfirmWrong(r) ==
    LET q == req[r] IN
    /\ \/ AtConfirm(r) /\ q.cred.kind = "pw" /\ ~RightPassword(q)
       \/ AtConfirm(r) /\ q.cred.kind = "key" /\ q.cred.n \notin passkeys
       \/ req[r] # None /\ q.op \in Changes /\ q.at = "verifying" /\ (Asserted(q.cred.n) => plan.wrong)
    /\ StepUpFailed /\ Ends(r)
    /\ UNCHANGED <<plan, now, passkeys, codes, apiKeys, fails, chals, spent, made, left, guesses, last, opened>>

ConfirmVerifies(r) ==
    LET q == req[r] IN
    /\ AtConfirm(r) /\ q.cred.kind = "key" /\ q.cred.n \in passkeys
    /\ Goes(r, [q EXCEPT !.at = "verifying"])
    /\ UNCHANGED <<plan, now, rows, left, guesses, last, opened>>

\* Confirmed, with nothing awaited between the check and what follows.
Confirmed(r) ==
    LET q == req[r] IN
    \/ AtConfirm(r) /\ q.cred.kind = "pw" /\ RightPassword(q)
    \/ req[r] # None /\ q.op \in Changes /\ q.at = "verifying" /\ Asserted(q.cred.n)

\* Adding and removing a passkey wait once more (the registration, the log entry).
ConfirmedWaits(r) ==
    /\ Confirmed(r) /\ req[r].op \in {"addKey", "dropKey"}
    /\ stepFails' = NoFails /\ Goes(r, [req[r] EXCEPT !.at = "sealed"])
    /\ UNCHANGED <<plan, now, u, passkeys, codes, apiKeys, fails, chals, spent, made, left, guesses, last, opened>>

(***************************************************************************)
(* Changes to one's own account                                            *)
(***************************************************************************)
VersionAfter(q) == q.ver + 1

\* Other sessions end; this device's new one has the version after the one read at the start.
ChangePassword(r) ==
    LET q == req[r] IN
    /\ Confirmed(r) /\ q.op = "password" /\ u.pw < MaxPw
    /\ stepFails' = NoFails
    /\ u' = [u EXCEPT !.pw = @ + 1, !.ver = @ + 1]
    /\ apiKeys' \in {0, apiKeys}
    /\ last' = [n |-> last.n + 1, ver |-> VersionAfter(q), via |-> "change", cred |-> q.ver]
    /\ Ends(r)
    /\ UNCHANGED <<plan, now, passkeys, codes, fails, chals, spent, made, left, guesses, opened>>

\* The first passkey comes with recovery codes, and so does one when no code is left.
AddPasskey(r) ==
    LET q == req[r]
        first == passkeys = {} \/ codes = {}
        fits == Cardinality(passkeys) < MaxPasskeys
    IN
    /\ req[r] # None /\ q.op = "addKey" /\ q.at = "sealed"
    /\ fits => made.key < MaxKeyIds /\ (first => made.code + CodeSet <= MaxCodes)
    /\ IF fits
       THEN /\ passkeys' = passkeys \cup {made.key + 1}
            /\ codes' = IF first THEN NewCodes ELSE codes
            /\ made' = [made EXCEPT !.key = @ + 1, !.code = IF first THEN @ + CodeSet ELSE @]
       ELSE UNCHANGED <<passkeys, codes, made>>
    /\ Ends(r)
    /\ UNCHANGED <<plan, now, u, apiKeys, fails, stepFails, chals, spent, left, guesses, last, opened>>

\* Any of its passkeys; with the last one the codes and the choice of a second factor go too.
RemovePasskey(r) ==
    /\ req[r] # None /\ req[r].op = "dropKey" /\ req[r].at = "sealed"
    /\ \E k \in 1 .. made.key :
         IF passkeys = {k} THEN DropPasskeys ELSE passkeys' = passkeys \ {k} /\ UNCHANGED <<codes, u>>
    /\ Ends(r)
    /\ UNCHANGED <<plan, now, apiKeys, fails, stepFails, chals, spent, made, left, guesses, last, opened>>

RegenerateRecoveryCodes(r) ==
    /\ Confirmed(r) /\ req[r].op = "newCodes"
    /\ passkeys # {} => made.code + CodeSet <= MaxCodes
    /\ stepFails' = NoFails
    /\ IF passkeys # {} THEN codes' = NewCodes /\ made' = [made EXCEPT !.code = @ + CodeSet]
       ELSE UNCHANGED <<codes, made>>
    /\ Ends(r)
    /\ UNCHANGED <<plan, now, u, passkeys, apiKeys, fails, chals, spent, left, guesses, last, opened>>

\* On needs a passkey; off is refused while the role asks for one.
SetSecondFactor(r) ==
    /\ Confirmed(r) /\ req[r].op = "mfa"
    /\ stepFails' = NoFails
    /\ \E on \in IF plan.mode = "second" THEN {TRUE} ELSE BOOLEAN :
         u' = IF on /\ passkeys = {} THEN u ELSE [u EXCEPT !.mfa = on]
    /\ Ends(r)
    /\ UNCHANGED <<plan, now, passkeys, codes, apiKeys, fails, chals, spent, made, left, guesses, last, opened>>

CreateKey(r) ==
    /\ Confirmed(r) /\ req[r].op = "apiKey"
    /\ stepFails' = NoFails
    /\ apiKeys' = IF apiKeys >= MaxApiKeys THEN apiKeys ELSE apiKeys + 1
    /\ Ends(r)
    /\ UNCHANGED <<plan, now, u, passkeys, codes, fails, chals, spent, made, left, guesses, last, opened>>

(***************************************************************************)
(* The owner, the set-up token, the clock                                  *)
(***************************************************************************)
Acts(what) == what \in plan.admin /\ left.acts > 0 /\ left' = [left EXCEPT !.acts = @ - 1]

SetPassword ==
    /\ Acts("setPassword") /\ ~plan.owner /\ u.pw < MaxPw
    /\ u' = [u EXCEPT !.pw = @ + 1, !.ver = @ + 1]
    /\ fails' = NoFails /\ guesses' = NoGuess /\ apiKeys' = 0
    /\ UNCHANGED <<plan, now, passkeys, codes, stepFails, chals, spent, made, req, last, opened>>

Disable ==
    /\ Acts("disable") /\ ~plan.owner
    /\ u' = [u EXCEPT !.off = TRUE, !.ver = @ + 1]
    /\ UNCHANGED <<plan, now, passkeys, codes, apiKeys, fails, stepFails, chals, spent, made, req, guesses, last, opened>>

Enable ==
    /\ Acts("enable") /\ u.off
    /\ u' = [u EXCEPT !.off = FALSE]
    /\ UNCHANGED <<plan, now, passkeys, codes, apiKeys, fails, stepFails, chals, spent, made, req, guesses, last, opened>>

UnlockUser ==
    /\ Acts("unlock") /\ fails # NoFails
    /\ fails' = NoFails /\ guesses' = NoGuess
    /\ UNCHANGED <<plan, now, u, passkeys, codes, apiKeys, stepFails, chals, spent, made, req, last, opened>>

AdminResetPasskeys ==
    /\ Acts("resetPasskeys") /\ DropPasskeys
    /\ UNCHANGED <<plan, now, apiKeys, fails, stepFails, chals, spent, made, req, guesses, last, opened>>

\* Set-up again with a new token gives the owner's account back.
Recover ==
    /\ Acts("recover") /\ plan.owner /\ u.pw < MaxPw
    /\ u' = [u EXCEPT !.pw = @ + 1, !.ver = @ + 1, !.off = FALSE, !.mfa = FALSE]
    /\ passkeys' = {} /\ codes' = {} /\ apiKeys' = 0 /\ fails' = NoFails /\ guesses' = NoGuess
    /\ UNCHANGED <<plan, now, stepFails, chals, spent, made, req, last, opened>>

\* A challenge that is not answered in time is dropped.
Lapse ==
    /\ \E c \in chals : (\A d \in chals : c.n <= d.n) /\ chals' = chals \ {c}
    /\ UNCHANGED <<plan, now, u, passkeys, codes, apiKeys, fails, stepFails, spent, made, req, left, guesses, last, opened>>

Tick ==
    /\ now < MaxTime /\ plan.wrong /\ now' = now + 1
    /\ UNCHANGED <<plan, rows, req, left, guesses, last, opened>>

Next ==
    \/ \E r \in Requests :
         \/ Ask(r) \/ LoginRefused(r) \/ LoginWrong(r) \/ LoginRight(r)
         \/ SealAgain(r) \/ RecoverRefused(r) \/ RecoverWrong(r) \/ RecoverRight(r)
         \/ SecondRefused(r) \/ SecondTooMany(r) \/ SecondByCode(r) \/ SecondWrongCode(r)
         \/ SecondVerifies(r) \/ SecondByKey(r) \/ SecondWrongKey(r) \/ PasskeyLogin(r)
         \/ ConfirmWrong(r) \/ ConfirmVerifies(r) \/ ConfirmedWaits(r)
         \/ ChangePassword(r) \/ AddPasskey(r) \/ RemovePasskey(r)
         \/ RegenerateRecoveryCodes(r) \/ SetSecondFactor(r) \/ CreateKey(r)
    \/ SetPassword \/ Disable \/ Enable \/ UnlockUser \/ AdminResetPasskeys \/ Recover \/ Lapse \/ Tick

Spec == Init /\ [][Next]_vars

(***************************************************************************)
(* Properties                                                              *)
(***************************************************************************)
\* Recovery codes stand in for a passkey, and a second factor is asked for with one: without a
\* passkey the account has neither, whichever removals, additions and resets run together.
CodesNeedPasskey == passkeys = {} => codes = {} /\ ~u.mfa

\* Requests that add at the same time do not get past the account's limits.
WithinLimits == Cardinality(passkeys) <= MaxPasskeys /\ apiKeys <= MaxApiKeys

\* Of wrong passwords and codes, however many are sent at once, no more than lockout.max are looked
\* at before the account is locked, and none while it is; but each wrong passkey whose check was
\* under way when the lock came lifts it, for lockout.max more.
GuessesBounded == guesses.n <= MaxFails * (1 + guesses.lifts)

\* The account is never locked longer than one lock from now, nor the owner's at all.
LocksEnd == fails.until <= now + LockSec /\ (plan.owner => fails = NoFails)

\* A session that works rests on what was valid when it was made: the passkey is still registered,
\* the code was there and is spent, or the password alone was enough.
RestsOnCredential ==
    last'.n # last.n /\ last'.ver = u'.ver /\ ~u'.off =>
         /\ last'.via = "key" => last'.cred \in passkeys'
         /\ last'.via = "code" => last'.cred \in codes \ codes'
         /\ last'.via = "password" => last'.cred = u.pw /\ ~NeedsSecond

\* A session is never made of a version to come; and who changes the password stays signed in, unless
\* something else ended the account's sessions meanwhile.
NoSessionAhead ==
    last'.n # last.n => /\ last'.ver <= u'.ver
                           /\ last'.via = "change" /\ last'.cred = u.ver => last'.ver = u'.ver

\* Each recovery code, second-factor challenge and usernameless challenge is a one-time credential.
Token(r) == req[r] # None /\ req[r].op = "passkey"
Codes == INSTANCE OneTime WITH Tokens <- 1 .. MaxCodes, live <- codes, seen <- 1 .. made.code, opened <- opened.code
Seconds == INSTANCE OneTime WITH Tokens <- 1 .. MaxChals, live <- Chals, seen <- 1 .. made.chal, opened <- opened.chal
Logins == INSTANCE OneTime WITH Tokens <- 1 .. MaxTokens,
              live <- ((1 .. MaxTokens) \ spent) \cup {req[r].chal : r \in {x \in Requests : Token(x)}},
              seen <- 1 .. MaxTokens, opened <- opened.token
=============================================================================
