------------------------------ MODULE Sessions ------------------------------
(***************************************************************************)
(* Browser sessions (src/src/lib/auth.js): sealed cookies that carry their *)
(* own claims, slid by activity, replaced when the owner starts or ends an *)
(* impersonation and when a password changes, ended by a session version,  *)
(* by revocation and by time.  The versions and the list of revoked        *)
(* sessions are the Directory's (src/src/directory-do.js).                 *)
(*                                                                         *)
(* A cookie is never taken back: any one ever made may be sent again, by   *)
(* another tab or from a copy.  A request opens its cookie, asks the       *)
(* Directory (resolveSession), and then acts in a call of its own.         *)
(***************************************************************************)
EXTENDS Integers, FiniteSets

CONSTANTS
    Owner, User,   \* the two accounts
    Sids,          \* session ids
    Requests,      \* requests in flight
    Slide,         \* SLIDE_SEC
    Timeouts,      \* the timeouts an account may have: [idle, abs]
    MayRaise,      \* whether a timeout is made longer again
    MaxTime,
    Plans,         \* what is tried together
    None

Accounts == {Owner, User}
Times == 0 .. MaxTime
Claims == [sid : Sids, uid : Accounts, act : {Owner, None}, ver : Nat, iat : Times, lat : Times, exp : Nat]

\* The timeouts there may be are bounded (settings.js): there is a longest one.
SessionsAssumption ==
    /\ Slide \in Nat \ {0} /\ MaxTime \in Nat
    /\ Timeouts \subseteq [idle : Nat \ {0}, abs : Nat \ {0}]
    /\ \A c \in Timeouts : c.idle <= c.abs
    /\ \E c \in Timeouts : \A d \in Timeouts : d.idle <= c.idle
    /\ \E c \in Timeouts : \A d \in Timeouts : d.abs <= c.abs
    /\ None \notin Nat \cup Claims
    /\ MayRaise \in BOOLEAN /\ Owner # User /\ None \notin {Owner, User}

\* What is tried: who signs in, what happens to sessions, how many requests at once; bounds on sign-ins
\* and acts, on ends of all sessions of an account, on changes of the timeouts, and on the clock.
Plan == [who : SUBSET Accounts, does : SUBSET {"logout", "act as", "password", "end", "disable"}, reqs : SUBSET Requests,
         acts : 0 .. 9, ends : 0 .. 9, edits : 0 .. 9, until : Times]
PlansAssumption == Plans \subseteq Plan

VARIABLES
    plan,
    now,
    conf,      \* the timeouts of each account: the server's (Owner), the role's (User)
    cached,    \* the server's timeouts as this Worker has them cached
    ver,       \* sess_ver of each account
    off,       \* User is disabled
    revoked,   \* revoked_sessions: sid -> exp, or None
    cookies,   \* every cookie made
    req,       \* requests: [c, t, at, base]
    left,      \* what is left of the bounds: [edits, ends, acts]
    born,      \* history: when the sign-in a session goes back to was
    ended,     \* history: sessions ended (signed out, replaced, or ended with all of an account)
    seen       \* history: when each session was last made or used
vars == <<plan, now, conf, cached, ver, off, revoked, cookies, req, left, born, ended, seen>>

Request == [c : Claims, t : Times, at : {"opened", "signed in", "changing"}, base : Nat]

TypeOK ==
    /\ now \in Times /\ conf \in [Accounts -> Timeouts] /\ cached \in Timeouts
    /\ ver \in [Accounts -> Nat] /\ off \in BOOLEAN
    /\ \A s \in Sids : revoked[s] # None => revoked[s] \in Nat
    /\ cookies \subseteq Claims
    /\ \A c \in cookies : c.lat >= c.iat /\ c.exp > c.iat
    /\ \A r \in Requests : req[r] # None => req[r] \in Request

Init ==
    /\ plan \in Plans /\ now = 0 /\ conf \in {[a \in Accounts |-> t] : t \in Timeouts} /\ cached = conf[Owner]
    /\ ver = [a \in Accounts |-> 1] /\ off = FALSE
    /\ revoked = [s \in Sids |-> None] /\ cookies = {} /\ req = [r \in Requests |-> None]
    /\ left = [edits |-> plan.edits, ends |-> plan.ends, acts |-> plan.acts]
    /\ born = [s \in Sids |-> 0] /\ ended = {} /\ seen = [s \in Sids |-> 0]

Min2(a, b) == IF a < b THEN a ELSE b
Made == {c.sid : c \in cookies}
\* The account whose version a session is bound to.
Holder(c) == IF c.act = None THEN c.uid ELSE c.act
SessionsOf(a) == {c.sid : c \in {x \in cookies : Holder(x) = a}}
\* An impersonation has the server's own timeouts.
TimeoutsOf(c) == IF c.act = None THEN conf[c.uid] ELSE conf[Owner]

(***************************************************************************)
(* Cookies are made                                                        *)
(***************************************************************************)
IatOf(from) == IF from = None THEN now ELSE from.iat
ExpOf(from, t) == IF from = None THEN now + t.abs ELSE Min2(from.iat + t.abs, from.exp)

IssueSession(s, uid, act, v, t, from) ==
    /\ s \notin Made
    /\ cookies' = cookies \cup {[sid |-> s, uid |-> uid, act |-> act, ver |-> v, iat |-> IatOf(from), lat |-> now, exp |-> ExpOf(from, t)]}
    /\ born' = [born EXCEPT ![s] = IF from = None THEN now ELSE born[from.sid]]
    /\ seen' = [seen EXCEPT ![s] = now]

\* A sign-in (SignIn) of an enabled account.
Login(s, a) ==
    /\ a \in plan.who /\ (a = User => ~off)
    /\ left.acts > 0 /\ left' = [left EXCEPT !.acts = @ - 1]
    /\ IssueSession(s, a, None, ver[a], conf[a], None)
    /\ UNCHANGED <<plan, now, conf, cached, ver, off, revoked, req, ended>>

(***************************************************************************)
(* A request is authenticated                                              *)
(***************************************************************************)
Open(r, c) ==
    /\ req[r] = None /\ r \in plan.reqs
    /\ req' = [req EXCEPT ![r] = [c |-> c, t |-> now, at |-> "opened", base |-> 0]]
    /\ UNCHANGED <<plan, now, conf, cached, ver, off, revoked, cookies, left, born, ended, seen>>

Answered(r) == req' = [req EXCEPT ![r] = None]

\* resolveSession: not revoked, the account enabled, the version the current one.
Resolves(c) ==
    /\ revoked[c.sid] = None
    /\ c.uid = User => ~off
    /\ ver[Holder(c)] = c.ver

\* Past its end, idle for too long, or too old.
TimedOut(c, t) == t >= c.exp \/ t - c.lat > TimeoutsOf(c).idle \/ t - c.iat > TimeoutsOf(c).abs

SlidFrom(c, t) == [c EXCEPT !.lat = t, !.exp = Min2(c.exp, c.iat + TimeoutsOf(c).abs)]
Slides(c, t) == t - c.lat >= Slide

Accept(r) ==
    LET q == req[r] IN
    /\ req[r] # None /\ q.at = "opened" /\ Resolves(q.c) /\ ~TimedOut(q.c, q.t)
    /\ cookies' = IF Slides(q.c, q.t) THEN cookies \cup {SlidFrom(q.c, q.t)} ELSE cookies
    /\ \/ Answered(r)
       \/ left.acts > 0 /\ req' = [req EXCEPT ![r] = [q EXCEPT !.at = "signed in"]]
    /\ seen' = [seen EXCEPT ![q.c.sid] = IF q.t > @ THEN q.t ELSE @]
    /\ UNCHANGED <<plan, now, conf, cached, ver, off, revoked, left, born, ended>>

Refuse(r) ==
    LET q == req[r] IN
    /\ req[r] # None /\ q.at = "opened" /\ (~Resolves(q.c) \/ TimedOut(q.c, q.t))
    /\ Answered(r)
    /\ UNCHANGED <<plan, now, conf, cached, ver, off, revoked, cookies, left, born, ended, seen>>

(***************************************************************************)
(* What a signed-in request does to sessions, in a later call              *)
(***************************************************************************)
SignedIn(r, does) == does \in plan.does /\ req[r] # None /\ req[r].at = "signed in"
Done(r) == left.acts > 0 /\ left' = [left EXCEPT !.acts = @ - 1] /\ Answered(r)

\* The session is on the list until it would have expired.
RevokeNone(c) == UNCHANGED revoked
Revoke(c) == revoked' = [revoked EXCEPT ![c.sid] = c.exp]

Logout(r) ==
    LET c == req[r].c IN
    /\ SignedIn(r, "logout") /\ Revoke(c) /\ Done(r)
    /\ ended' = ended \cup {c.sid}
    /\ UNCHANGED <<plan, now, conf, cached, ver, off, cookies, born, seen>>

\* The owner acts as the user: a new session of the owner's version replaces this one.
Impersonate(r, s) ==
    LET c == req[r].c IN
    /\ SignedIn(r, "act as") /\ c.act = None /\ c.uid = Owner /\ ~off
    /\ Revoke(c) /\ Done(r)
    /\ IssueSession(s, User, Owner, ver[Owner], conf[Owner], c)
    /\ ended' = ended \cup {c.sid}
    /\ UNCHANGED <<plan, now, conf, cached, ver, off>>

EndImpersonation(r, s) ==
    LET c == req[r].c IN
    /\ SignedIn(r, "act as") /\ c.act # None
    /\ Revoke(c) /\ Done(r)
    /\ IssueSession(s, Owner, None, ver[Owner], conf[Owner], c)
    /\ ended' = ended \cup {c.sid}
    /\ UNCHANGED <<plan, now, conf, cached, ver, off>>

\* changePassword reads the account, confirms over an await and then writes.
StartChange(r) ==
    LET q == req[r] IN
    /\ SignedIn(r, "password")
    /\ req' = [req EXCEPT ![r] = [q EXCEPT !.at = "changing", !.base = ver[q.c.uid]]]
    /\ UNCHANGED <<plan, now, conf, cached, ver, off, revoked, cookies, left, born, ended, seen>>

\* Every session of the account ends: the version moves on.
EndAll(a) == ver' = [ver EXCEPT ![a] = @ + 1] /\ ended' = ended \cup SessionsOf(a)

\* One's own change keeps this device signed in; the owner's, as the user, leaves the owner's session.
ChangePassword(r, s) ==
    LET q == req[r] IN
    /\ req[r] # None /\ q.at = "changing"
    /\ EndAll(q.c.uid)
    /\ IF q.c.act = None
       THEN IssueSession(s, q.c.uid, None, q.base + 1, cached, q.c)
       ELSE UNCHANGED <<cookies, born, seen>>
    /\ Done(r)
    /\ UNCHANGED <<plan, now, conf, cached, off, revoked>>

(***************************************************************************)
(* The account's sessions are ended otherwise; timeouts; housekeeping      *)
(***************************************************************************)
Ends(does) == does \in plan.does /\ left.ends > 0 /\ left' = [left EXCEPT !.ends = @ - 1]

\* A password set by the owner, a recovery, too many wrong confirmations.
EndSessions(a) ==
    /\ Ends("end") /\ EndAll(a)
    /\ UNCHANGED <<plan, now, conf, cached, off, revoked, cookies, req, born, seen>>

EnableUser == off' = FALSE
DisableUser == off' = TRUE /\ ver' = [ver EXCEPT ![User] = @ + 1]

\* The owner disables the account, which ends its sessions, or enables it.
Disable ==
    /\ Ends("disable") /\ ~off /\ DisableUser /\ ended' = ended \cup SessionsOf(User)
    /\ UNCHANGED <<plan, now, conf, cached, revoked, cookies, req, born, seen>>
Enable ==
    /\ off /\ EnableUser
    /\ UNCHANGED <<plan, now, conf, cached, ver, revoked, cookies, req, left, born, ended, seen>>

\* The server's timeouts, or the ones of the user's role.
SetTimeouts(a, t) ==
    /\ left.edits > 0 /\ left' = [left EXCEPT !.edits = @ - 1] /\ t # conf[a]
    /\ MayRaise \/ (t.idle <= conf[a].idle /\ t.abs <= conf[a].abs)
    /\ conf' = [conf EXCEPT ![a] = t]
    /\ UNCHANGED <<plan, now, cached, ver, off, revoked, cookies, req, born, ended, seen>>

Refresh ==
    /\ cached # conf[Owner] /\ cached' = conf[Owner]
    /\ UNCHANGED <<plan, now, conf, ver, off, revoked, cookies, req, left, born, ended, seen>>

\* The alarm drops what has expired from the list.
Pruned(s) == revoked[s] # None /\ revoked[s] < now
Alarm ==
    /\ \E s \in Sids : Pruned(s)
    /\ revoked' = [s \in Sids |-> IF Pruned(s) THEN None ELSE revoked[s]]
    /\ UNCHANGED <<plan, now, conf, cached, ver, off, cookies, req, left, born, ended, seen>>

\* A request is authenticated within the second.
Tick ==
    /\ now < plan.until /\ \A r \in Requests : req[r] # None => req[r].at # "opened"
    /\ now' = now + 1
    /\ UNCHANGED <<plan, conf, cached, ver, off, revoked, cookies, req, left, born, ended, seen>>

Next ==
    \/ \E s \in Sids, a \in Accounts : Login(s, a)
    \/ \E r \in Requests :
         \/ \E c \in cookies : Open(r, c)
         \/ Accept(r) \/ Refuse(r) \/ Logout(r) \/ StartChange(r)
         \/ \E s \in Sids : Impersonate(r, s) \/ EndImpersonation(r, s) \/ ChangePassword(r, s)
    \/ \E a \in Accounts : EndSessions(a) \/ \E t \in Timeouts : SetTimeouts(a, t)
    \/ Disable \/ Enable \/ Refresh \/ Alarm \/ Tick

Spec == Init /\ [][Next]_vars

(***************************************************************************)
(* Properties                                                              *)
(***************************************************************************)
LongestIdle == CHOOSE n \in {t.idle : t \in Timeouts} : \A t \in Timeouts : t.idle <= n
LongestAbs == CHOOSE n \in {t.abs : t \in Timeouts} : \A t \in Timeouts : t.abs <= n

\* A session that was signed out, replaced, or ended with all of its account's is never accepted
\* again, with any of its cookies, also once it is off the list of revoked ones.
EndedStaysOut == \A r \in Requests : Accept(r) => req[r].c.sid \notin ended

\* Starting and ending an impersonation, changing the password and activity never carry a sign-in
\* past the absolute timeout.
AbsoluteEnd == \A r \in Requests : Accept(r) => req[r].t < born[req[r].c.sid] + LongestAbs

\* A session nobody used for the idle timeout is over.
IdleEnd == \A r \in Requests : Accept(r) => req[r].t - seen[req[r].c.sid] <= LongestIdle

\* Who is active stays signed in: the session's newest cookie, sent before the idle timeout less the
\* slide is over, is refused only when the session ended, the account is disabled, the absolute
\* timeout passed, or the password changed twice at once.
Newest(c) == \A d \in cookies : d.sid = c.sid => d.lat <= c.lat
ActiveStaysIn ==
    \A r \in Requests : Refuse(r) =>
         LET c == req[r].c
             t == req[r].t
         IN \/ c.sid \in ended
            \/ off /\ c.uid = User
            \/ ~Newest(c)
            \/ c.ver # ver[Holder(c)]
            \/ t - seen[c.sid] > TimeoutsOf(c).idle - Slide
            \/ t >= c.exp \/ t - born[c.sid] > TimeoutsOf(c).abs

\* No cookie is of a version to come: it would work once the version gets there.
NoneAhead == \A c \in cookies : c.ver <= ver[Holder(c)]
=============================================================================
