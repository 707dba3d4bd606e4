----------------------------- MODULE Directory -----------------------------
(***************************************************************************)
(* What requests do to the rows of the Directory, and a page that sends    *)
(* them: ShareLifecycle, SignIn, Sessions, Limits, Import and SessionPage  *)
(* side by side.  They share no rows, so a behaviour is a behaviour of one *)
(* of them, `part`; they share the names of variables, and what one does   *)
(* not use stays None.                                                     *)
(***************************************************************************)
EXTENDS Integers, FiniteSets, TLC

CONSTANTS
    None,
    Parts,         \* the parts that are tried
    \* ShareLifecycle
    ShareRequests, MaxExpiry, MaxCrashes,
    \* SignIn
    SignInRequests, MaxFails, Window, LockSec, Tries, PerUser, CodeSet, MaxPasskeys, MaxApiKeys, SignInTime, MaxKeyIds, MaxCodes, MaxChals,
    MaxTokens, MaxPw, SignInPlans,
    \* Sessions; Owner also of Import
    Owner, SessionUser, Sids, SessionRequests, Slide, Timeouts, MayRaise, SessionTime, SessionPlans,
    \* Limits
    Roles, Tabs, QuotaLists, NoLimit, LimitPlans,
    \* Import
    Names, ImportPublic, FileRoles, Docs, ImportMost, ImportPlans,
    \* SessionPage
    Who, PageIdle, PageAbs, PageSlide, Warn, Lag, Watches, PagePlans

VARIABLES
    part,
    content, row, job, made, crashes,
    plan, now, u, passkeys, codes, apiKeys, fails, stepFails, chals, spent, req, left, guesses, last, opened,
    conf, cached, ver, off, revoked, cookies, born, ended, seen,
    exists, rows, quotas, ownList, role, settings, asking,
    acct, rules,
    session, tokens, page, st, asks, change, done
vars == <<part, content, row, job, made, crashes, plan, now, u, passkeys, codes, apiKeys, fails, stepFails, chals, spent, req, left, guesses, last, opened,
          conf, cached, ver, off, revoked, cookies, born, ended, seen, exists, rows, quotas, ownList, role, settings, asking, acct, rules, session,
          tokens, page, st, asks, change, done>>

-----------------------------------------------------------------------------
\* A share kept in an object or in KV, and requests about it.
S == INSTANCE ShareLifecycle WITH Requests <- ShareRequests
notShare == <<plan, now, u, passkeys, codes, apiKeys, fails, stepFails, chals, spent, req, left, guesses, last, opened, conf, cached, ver, off,
              revoked, cookies, born, ended, seen, exists, rows, quotas, ownList, role, settings, asking, acct, rules, session, tokens, page, st,
              asks, change, done>>
InitShare ==
    /\ part = "share" /\ S!Init
    /\ plan = None /\ now = None /\ u = None /\ passkeys = None /\ codes = None /\ apiKeys = None /\ fails = None /\ stepFails = None
    /\ chals = None /\ spent = None /\ req = None /\ left = None /\ guesses = None /\ last = None /\ opened = None /\ conf = None
    /\ cached = None /\ ver = None /\ off = None /\ revoked = None /\ cookies = None /\ born = None /\ ended = None /\ seen = None
    /\ exists = None /\ rows = None /\ quotas = None /\ ownList = None /\ role = None /\ settings = None /\ asking = None /\ acct = None
    /\ rules = None /\ session = None /\ tokens = None /\ page = None /\ st = None /\ asks = None /\ change = None /\ done = None
InShare(Act) == part = "share" /\ Act /\ UNCHANGED <<part, notShare>>

-----------------------------------------------------------------------------
\* One account, its credentials, and requests in flight.
A == INSTANCE SignIn WITH Requests <- SignInRequests, MaxTime <- SignInTime, Plans <- SignInPlans
notSignIn == <<content, row, job, crashes, conf, cached, ver, off, revoked, cookies, born, ended, seen, exists, rows, quotas, ownList, role, settings,
               asking, acct, rules, session, tokens, page, st, asks, change, done>>
InitSignIn ==
    /\ part = "signIn" /\ A!Init
    /\ content = None /\ row = None /\ job = None /\ crashes = None /\ conf = None /\ cached = None /\ ver = None /\ off = None
    /\ revoked = None /\ cookies = None /\ born = None /\ ended = None /\ seen = None /\ exists = None /\ rows = None /\ quotas = None
    /\ ownList = None /\ role = None /\ settings = None /\ asking = None /\ acct = None /\ rules = None /\ session = None /\ tokens = None
    /\ page = None /\ st = None /\ asks = None /\ change = None /\ done = None
InSignIn(Act) == part = "signIn" /\ Act /\ UNCHANGED <<part, notSignIn>>

-----------------------------------------------------------------------------
\* The sessions of an owner and a user.
C == INSTANCE Sessions WITH User <- SessionUser, Requests <- SessionRequests, MaxTime <- SessionTime, Plans <- SessionPlans
notSession == <<content, row, job, made, crashes, u, passkeys, codes, apiKeys, fails, stepFails, chals, spent, guesses, last, opened, exists, rows,
                quotas, ownList, role, settings, asking, acct, rules, session, tokens, page, st, asks, change, done>>
InitSession ==
    /\ part = "session" /\ C!Init
    /\ content = None /\ row = None /\ job = None /\ made = None /\ crashes = None /\ u = None /\ passkeys = None /\ codes = None
    /\ apiKeys = None /\ fails = None /\ stepFails = None /\ chals = None /\ spent = None /\ guesses = None /\ last = None /\ opened = None
    /\ exists = None /\ rows = None /\ quotas = None /\ ownList = None /\ role = None /\ settings = None /\ asking = None /\ acct = None
    /\ rules = None /\ session = None /\ tokens = None /\ page = None /\ st = None /\ asks = None /\ change = None /\ done = None
InSession(Act) == part = "session" /\ Act /\ UNCHANGED <<part, notSession>>

-----------------------------------------------------------------------------
\* Roles, limits and quota lists, and the owner's requests to change them.
L == INSTANCE Limits WITH Plans <- LimitPlans
notLimits == <<content, row, job, made, crashes, now, u, passkeys, codes, apiKeys, fails, stepFails, chals, spent, req, guesses, last, opened, conf,
               cached, ver, off, revoked, cookies, born, ended, seen, acct, rules, session, tokens, page, st, asks, change, done>>
InitLimits ==
    /\ part = "limits" /\ L!Init
    /\ content = None /\ row = None /\ job = None /\ made = None /\ crashes = None /\ now = None /\ u = None /\ passkeys = None
    /\ codes = None /\ apiKeys = None /\ fails = None /\ stepFails = None /\ chals = None /\ spent = None /\ req = None /\ guesses = None
    /\ last = None /\ opened = None /\ conf = None /\ cached = None /\ ver = None /\ off = None /\ revoked = None /\ cookies = None
    /\ born = None /\ ended = None /\ seen = None /\ acct = None /\ rules = None /\ session = None /\ tokens = None /\ page = None
    /\ st = None /\ asks = None /\ change = None /\ done = None
InLimits(Act) == part = "limits" /\ Act /\ UNCHANGED <<part, notLimits>>

-----------------------------------------------------------------------------
\* Imports of another server's users and configuration.
I == INSTANCE Import WITH Public <- ImportPublic, Most <- ImportMost, Roles <- FileRoles, Plans <- ImportPlans
notImport == <<content, row, job, made, crashes, plan, now, u, passkeys, codes, apiKeys, fails, stepFails, chals, spent, req, guesses, last, opened,
               conf, cached, ver, off, revoked, cookies, born, ended, seen, exists, rows, quotas, ownList, settings, asking, session, tokens, page,
               st, asks, change, done>>
InitImport ==
    /\ part = "import" /\ I!Init
    /\ content = None /\ row = None /\ job = None /\ made = None /\ crashes = None /\ plan = None /\ now = None /\ u = None
    /\ passkeys = None /\ codes = None /\ apiKeys = None /\ fails = None /\ stepFails = None /\ chals = None /\ spent = None /\ req = None
    /\ guesses = None /\ last = None /\ opened = None /\ conf = None /\ cached = None /\ ver = None /\ off = None /\ revoked = None
    /\ cookies = None /\ born = None /\ ended = None /\ seen = None /\ exists = None /\ rows = None /\ quotas = None /\ ownList = None
    /\ settings = None /\ asking = None /\ session = None /\ tokens = None /\ page = None /\ st = None /\ asks = None /\ change = None
    /\ done = None
InImport(Act) == part = "import" /\ Act /\ UNCHANGED <<part, notImport>>

-----------------------------------------------------------------------------
\* A dashboard page, while other tabs sign in and out.
P == INSTANCE SessionPage WITH Idle <- PageIdle, Abs <- PageAbs, Slide <- PageSlide, Plans <- PagePlans
notPage == <<content, row, job, made, crashes, plan, u, passkeys, codes, apiKeys, fails, stepFails, chals, spent, req, guesses, last, opened, conf,
             cached, ver, off, revoked, cookies, born, ended, seen, exists, rows, quotas, ownList, role, settings, asking, acct, rules>>
InitPage ==
    /\ part = "page" /\ P!Init
    /\ content = None /\ row = None /\ job = None /\ made = None /\ crashes = None /\ plan = None /\ u = None /\ passkeys = None
    /\ codes = None /\ apiKeys = None /\ fails = None /\ stepFails = None /\ chals = None /\ spent = None /\ req = None /\ guesses = None
    /\ last = None /\ opened = None /\ conf = None /\ cached = None /\ ver = None /\ off = None /\ revoked = None /\ cookies = None
    /\ born = None /\ ended = None /\ seen = None /\ exists = None /\ rows = None /\ quotas = None /\ ownList = None /\ role = None
    /\ settings = None /\ asking = None /\ acct = None /\ rules = None
InPage(Act) == part = "page" /\ Act /\ UNCHANGED <<part, notPage>>

-----------------------------------------------------------------------------
ASSUME DirectoryAssumption ==
    /\ S!ConstantsAssumption
    /\ A!SignInAssumption /\ A!PlansAssumption
    /\ C!SessionsAssumption /\ C!PlansAssumption
    /\ L!LimitsAssumption /\ L!PlansAssumption
    /\ I!ImportAssumption
    /\ P!PageAssumption /\ P!PlansAssumption

Init == part \in Parts /\ (InitShare \/ InitSignIn \/ InitSession \/ InitLimits \/ InitImport \/ InitPage)
Next == InShare(S!Next) \/ InSignIn(A!Next) \/ InSession(C!Next) \/ InLimits(L!Next) \/ InImport(I!Next) \/ InPage(P!Next)
Spec == Init /\ [][Next]_vars

-----------------------------------------------------------------------------
\* A share across its content and its row of the index (ShareLifecycle.tla): a row never says "ended" of
\* content still served, nor promises it longer than it lasts, a live share has a row, and an ending is
\* final, whichever requests interleave or stop half way (routes/private.js, routes/public.js).
ShareSafe ==
    /\ [](part = "share" => S!TypeOK /\ S!EndedMeansGone /\ S!IndexNotAhead /\ S!LiveIsIndexed)
    /\ [][part = "share" => S!EndingsFinal /\ S!RevokeMarksFirst]_vars

\* An account's credentials (SignIn.tla): no codes without a passkey, limits kept by requests at once,
\* guesses and locks bounded, and every session that works rests on a credential that was valid when it
\* was made, whatever changed during the awaits of its request (routes/auth.js, routes/stepup.js).  And
\* an import (Import.tla) takes or changes no credential of an account that is here, gives none that is
\* another's nor more passkeys than the role will allow, and does not shut the owner out (importData).
SignInSafe ==
    /\ [](part = "signIn" => A!TypeOK /\ A!CodesNeedPasskey /\ A!WithinLimits /\ A!GuessesBounded /\ A!LocksEnd)
    /\ [][part = "signIn" => A!RestsOnCredential /\ A!NoSessionAhead]_vars
    /\ [](part = "import" => I!OneHolder /\ I!RolesThere)
    /\ [][part = "import" => I!KeepsCredentials /\ I!FitsAfter /\ I!NotShutOut]_vars

\* Recovery codes, second-factor challenges and usernameless challenges are one-time credentials: SignIn
\* implements OneTime three times (directory-do.js takeRecoveryCode, challenges and spent tokens).
OneTimeKept ==
    /\ part = "signIn" => A!Codes!Init /\ A!Seconds!Init /\ A!Logins!Init
    /\ [][part = "signIn" => /\ [A!Codes!Next]_(A!Codes!oneTimeVars)
                             /\ [A!Seconds!Next]_(A!Seconds!oneTimeVars)
                             /\ [A!Logins!Next]_(A!Logins!oneTimeVars)]_vars

\* Sessions (Sessions.tla): one that was ended never comes back with any of its cookies, none outlives
\* its timeouts, none is of a version to come, and who is active stays signed in, whatever impersonation,
\* password changes, shorter timeouts and slides run at once (lib/auth.js, directory-do.js).  And a page (SessionPage.tla)
\* changes nothing but for the user it was loaded for, is hidden and keeps no keys once its session is over,
\* and says how to go on (public/js/api.js, public/dashboard/js/session-timeout.js).
SessionsSafe ==
    /\ [](part = "session" => C!TypeOK /\ C!NoneAhead)
    /\ [][part = "session" => C!EndedStaysOut /\ C!AbsoluteEnd /\ C!IdleEnd /\ C!ActiveStaysIn]_vars
    /\ [](part = "page" => P!NeverForAnother /\ P!HiddenInTime /\ P!KeysGone /\ P!NeverStuck)

\* Roles and limits (Limits.tla): a key never makes what its account could not, and no change of limits,
\* role or settings gives an account more, or drops a quota of it, without the owner's confirmation
\* (directory-do.js setLimits, setQuotas, deleteRole; routes/admin.js).
LimitsSafe ==
    /\ [](part = "limits" => L!TypeOK /\ L!KeysOnlyNarrow)
    /\ [][part = "limits" => L!LoosenedByConfirmation /\ L!QuotasByConfirmation]_vars

\* "destroys the content at once; the row stays as revoked" (docs/API.md, revoke): when no request is
\* under way a revoked share is gone.
RevokedIsGone == part = "share" => S!RevokedIsGone
=============================================================================
