---------------------------- MODULE SessionPage ----------------------------
(***************************************************************************)
(* A dashboard page and the session it was loaded for: the warning before  *)
(* the session ends, the lock of the page when it has, the way back after  *)
(* signing in again elsewhere, and the changes the page sends with its own *)
(* session's token, while other tabs sign in and out (src/public/dashboard/*)
(* js/session-timeout.js, src/public/js/api.js).                           *)
(***************************************************************************)
EXTENDS Integers, FiniteSets

CONSTANTS
    Who,        \* whom a session may be of: a user, or a user the owner acts as
    Idle, Abs,  \* the session's timeouts
    Slide,      \* a session slides at most this often
    Warn,       \* WARN_SEC
    Lag,        \* an answer takes at most this long
    Watches,    \* requests to /me the page has under way, named
    Plans,      \* what is tried, chosen at the start
    None

PageAssumption ==
    /\ {Idle, Abs, Slide, Warn, Lag} \subseteq Nat /\ Slide < Idle /\ Warn < Idle /\ 0 < Abs
    /\ None \notin {"idle", "absolute", "expired"} \cup [who : Who, token : Nat]

\* A plan: sign-ins and sign-outs in other tabs, what the person does here, the last second, and whether each answer to "Stay signed
\* in" comes before the time is up and finds the session there.
Plan == [others : Nat, acts : Nat, last : Nat, prompt : BOOLEAN]
PlansAssumption == Plans \subseteq Plan

VARIABLES
    left,       \* what is left of the plan
    now,
    session,    \* what the browser's cookie is a session of
    tokens,     \* the number of the last session, which stands for its CSRF token
    page,       \* the page's own session: whom for, its token, None once it acts for nobody (api.js)
    st,         \* the watch over the timeouts (session-timeout.js)
    asks,       \* the page's requests to /me
    change,     \* the change it is sending
    done        \* history: the changes made, for whom and by a page of whom

vars == <<left, now, session, tokens, page, st, asks, change, done>>

Least(a, b) == IF a < b THEN a ELSE b
Most(a, b) == IF a > b THEN a ELSE b
Fresh(w, n) == [who |-> w, token |-> n, slid |-> now, ends |-> now + Abs]
EndOf(s) == Least(s.slid + Idle, s.ends)
Alive == session # None /\ now < EndOf(session)
Slid == IF now - session.slid >= Slide THEN [session EXCEPT !.slid = now] ELSE session

Init ==
    /\ left \in Plans /\ now = 0 /\ tokens = 1 /\ asks = [w \in Watches |-> None] /\ change = None /\ done = {}
    /\ \E w \in Who :
           /\ session = Fresh(w, 1) /\ page = [who |-> w, token |-> 1]
           /\ st = [idle |-> Idle, ends |-> Abs, shown |-> None, seen |-> FALSE, expired |-> FALSE, locked |-> FALSE, changed |-> FALSE,
                  keys |-> TRUE, of |-> 1]

-----------------------------------------------------------------------------
\* Other tabs: anyone signs in, or in again; somebody signs out.
Others == left.others > 0 /\ left' = [left EXCEPT !.others = @ - 1] /\ UNCHANGED <<now, page, st, asks, change, done>>
SignIn(w) == Others /\ tokens' = tokens + 1 /\ session' = Fresh(w, tokens + 1)
SignOut == Others /\ session # None /\ session' = None /\ UNCHANGED tokens
UsedElsewhere == Others /\ Alive /\ session' = Slid /\ UNCHANGED tokens

\* The server answers /me: whose session it is, its token and when it ends; a request slides it.
Profile(s) == [who |-> s.who, token |-> s.token, idle |-> s.slid + Idle, ends |-> s.ends]
AnswerMe(w) ==
    /\ asks[w] # None /\ asks[w].at = "sent"
    /\ session' = IF Alive THEN Slid ELSE session
    /\ asks' = [asks EXCEPT ![w] = [@ EXCEPT !.at = "answered", !.got = IF Alive THEN Profile(Slid) ELSE None]]
    /\ UNCHANGED <<left, now, tokens, page, st, change, done>>

-----------------------------------------------------------------------------
\* The watch.  `shown`: its dialog; `seen`: the absolute end was acknowledged; `keys`: the tab's Drive keys; `of`: the session it watches.
Closed(x) == [x EXCEPT !.shown = None]
Lock(x) == IF x.locked THEN x ELSE [x EXCEPT !.locked = TRUE, !.keys = FALSE]
Expire(x) == [Lock(x) EXCEPT !.expired = TRUE, !.shown = "expired"]
Adopt(x, p) == [x EXCEPT !.seen = @ /\ p.ends = x.ends, !.idle = p.idle, !.ends = p.ends, !.of = p.token, !.expired = FALSE]
SessionChanged(x) == [Closed(Lock(x)) EXCEPT !.changed = TRUE, !.expired = TRUE, !.keys = FALSE]
IsPageSession(p) == page # None /\ p.who = page.who

\* Each second.
Ticked(x, t) ==
    LET remains == Least(x.idle, x.ends) - t absolute == x.ends <= x.idle IN
    IF x.changed THEN x
    ELSE IF remains <= 0 THEN IF x.shown # "expired" THEN Expire(x) ELSE [x EXCEPT !.expired = TRUE]
    ELSE IF remains > Warn THEN x
    ELSE IF ~absolute THEN [x EXCEPT !.shown = "idle"]
    ELSE IF ~x.seen THEN [x EXCEPT !.shown = "absolute"]
    ELSE x

\* A request of the page succeeded: the session ends no sooner than had it slid just before.
Active(x) ==
    LET until == Least(x.ends, Most(x.idle, now + Idle - Slide)) IN
    IF x.expired THEN x ELSE [x EXCEPT !.idle = until, !.shown = IF @ = "idle" /\ until - now > Warn THEN None ELSE @]

Acts == left.acts > 0 /\ left' = [left EXCEPT !.acts = @ - 1] /\ UNCHANGED <<now, session, tokens, done>>
Sent(w, op) == asks' = [asks EXCEPT ![w] = [op |-> op, at |-> "sent", by |-> now, got |-> None]]
Stay(w) ==
    /\ Acts /\ st.shown = "idle" /\ asks[w] = None /\ (\A v \in Watches : asks[v] # None => asks[v].op # "stay")
    /\ Sent(w, "stay") /\ UNCHANGED <<page, st, change>>
Dismiss == Acts /\ st.shown = "absolute" /\ st' = [st EXCEPT !.seen = TRUE, !.shown = None] /\ UNCHANGED <<page, asks, change>>
\* Back in this tab; it may ask twice, as it gets the focus and as it is shown.
Recheck(w) == Acts /\ st.expired /\ ~st.changed /\ asks[w] = None /\ Sent(w, "recheck") /\ UNCHANGED <<page, st, change>>

\* Without a session "Stay signed in" ends the page's; a check from the locked page leaves it as it is.
Answered(w) ==
    LET a == asks[w] same == a.got # None /\ IsPageSession(a.got) x == IF a.got # None THEN Active(st) ELSE st IN
    /\ a # None /\ a.at = "answered" /\ asks' = [asks EXCEPT ![w] = None]
    /\ st' = IF a.got = None THEN IF a.op = "stay" THEN Expire(x) ELSE x
             ELSE IF ~same THEN SessionChanged(x)
             ELSE IF a.op = "stay" THEN Closed(Adopt(x, a.got))
             ELSE Closed([Adopt(x, a.got) EXCEPT !.locked = FALSE])
    /\ page' = IF a.got # None /\ ~same THEN None ELSE page
    /\ left' = IF a.op = "stay" /\ a.got = None THEN [left EXCEPT !.prompt = FALSE] ELSE left
    /\ UNCHANGED <<now, session, tokens, change, done>>

-----------------------------------------------------------------------------
\* A change goes with the page's token; refused for it, the page asks who is signed in and sends it once more, for its own user only.
Change ==
    /\ Acts /\ page # None /\ change = None /\ ~st.locked /\ UNCHANGED <<page, st, asks>>
    /\ change' = [at |-> "sent", for |-> page.who, token |-> page.token, again |-> FALSE, by |-> now, got |-> None]

\* The server: no session, another session's token, or the change; and then who is signed in.
Serve ==
    /\ change # None /\ change.at \in {"sent", "asking"} /\ UNCHANGED <<left, now, tokens, page, st, asks>>
    /\ LET asking == change.at = "asking" ours == Alive /\ (asking \/ change.token = session.token) IN
       /\ session' = IF ours THEN Slid ELSE session
       /\ done' = IF ours /\ ~asking THEN done \cup {[for |-> change.for, on |-> session.who]} ELSE done
       /\ change' = [change EXCEPT !.at = IF asking THEN "told" ELSE IF ours THEN "made" ELSE IF Alive THEN "mismatch" ELSE "signed out",
                                   !.got = IF asking /\ Alive THEN Profile(Slid) ELSE None]

Stops == page' = None /\ st' = [st EXCEPT !.keys = FALSE] /\ change' = None
Back ==
    /\ change # None /\ change.at \notin {"sent", "asking"} /\ UNCHANGED <<left, now, session, tokens, asks, done>>
    /\ LET c == change IN
       IF c.at = "made" THEN st' = Active(st) /\ change' = None /\ UNCHANGED page
       ELSE IF c.at = "mismatch" /\ ~c.again THEN change' = [c EXCEPT !.at = "asking", !.by = now] /\ UNCHANGED <<page, st>>
       ELSE IF c.at = "mismatch" \/ (c.got # None /\ ~IsPageSession(c.got)) THEN Stops
       ELSE IF c.got # None
       THEN /\ page' = [page EXCEPT !.token = c.got.token] /\ st' = Active(st)
            /\ change' = [c EXCEPT !.at = "sent", !.token = c.got.token, !.again = TRUE, !.by = now, !.got = None]
       ELSE change' = None /\ UNCHANGED <<page, st>>

\* The Drive opened on the page again, with its keys in the tab.
OpenDrive == Acts /\ page # None /\ ~st.locked /\ st' = [st EXCEPT !.keys = TRUE] /\ UNCHANGED <<page, asks, change>>

\* Time: the page looks at it every second, on the server's clock; answers come within Lag.
Tick ==
    /\ now < left.last /\ now' = now + 1 /\ st' = Ticked(st, now + 1)
    /\ \A w \in Watches : asks[w] # None =>
           now < asks[w].by + Lag /\ (left.prompt /\ asks[w].op = "stay" => now + 1 < Least(st.idle, st.ends))
    /\ change # None => now < change.by + Lag
    /\ UNCHANGED <<left, session, tokens, page, asks, change, done>>

Watch(w) == AnswerMe(w) \/ Stay(w) \/ Recheck(w) \/ Answered(w)
Next ==
    \/ Tick \/ Dismiss \/ Change \/ Serve \/ Back \/ OpenDrive \/ SignOut \/ UsedElsewhere
    \/ \E w \in Who : SignIn(w)
    \/ \E w \in Watches : Watch(w)

-----------------------------------------------------------------------------
\* A page loaded for one user never changes another's account, whoever signs in in between (api.js:72-89).
NeverForAnother == \A d \in done : d.for = d.on

\* The page is hidden when its session has ended, late by an answer at most, though it only knows of its own requests
\* and another tab's slide the session as well (session-timeout.js onPrivateActivity).
HiddenInTime == ~st.locked /\ session # None /\ session.token = st.of => now < EndOf(session) + Lag

\* A locked page, and one that acts for nobody, keeps no Drive keys (lockPage, SESSION_CHANGED_EVENT).
KeysGone == st.locked \/ page = None => ~st.keys

\* A locked page shows a dialog with a way on, or says that the session changed (session-timeout.js:16-24); of a
\* "Stay signed in" that was answered in time and found its session. One that was refused locks the page, but its
\* dialog turns into "Are you still there?" again, and staying then leaves the page locked without any.
NeverStuck == left.prompt /\ st.locked => st.shown # None \/ st.changed
=============================================================================
