---------------------------- MODULE MCDirectory ----------------------------
(***************************************************************************)
(* Small instances of the parts of Directory.                              *)
(***************************************************************************)
EXTENDS Directory

\* Requests about a share, and sessions, are interchangeable.
Interchangeable == Permutations(Sids)

-----------------------------------------------------------------------------
\* One account, two requests in flight, two wrong answers before a lock.
TwoRequests == {"r1", "r2"}
NoAsks == [ops |-> {}, asks |-> 3, admin |-> {}, acts |-> 0, owner |-> FALSE, mode |-> "any", keys |-> 1, wrong |-> FALSE]
\* Wrong passwords and codes, at once and over time, with the owner unlocking; the owner's account.
Guessing == [NoAsks EXCEPT !.ops = {"login", "recover"}, !.asks = 5, !.keys = 0, !.wrong = TRUE, !.admin = {"unlock", "setPassword"}, !.acts = 1]
OwnerGuessed == [NoAsks EXCEPT !.ops = {"login", "recover"}, !.asks = 4, !.wrong = TRUE, !.owner = TRUE]
\* The second factor: passkey and codes, tries, while the owner acts.
SecondGuessed == [NoAsks EXCEPT !.ops = {"login", "second"}, !.asks = 5, !.wrong = TRUE]
Seconding == [NoAsks EXCEPT !.ops = {"login", "second", "dropKey"}, !.asks = 4, !.admin = {"disable", "enable", "resetPasskeys"}, !.acts = 2]
\* Passkeys and codes come and go while they are used.
UsingCodes == [NoAsks EXCEPT !.ops = {"recover", "dropKey", "newCodes", "mfa"}, !.asks = 4, !.admin = {"resetPasskeys"}, !.acts = 1]
Adding == [NoAsks EXCEPT !.ops = {"addKey", "dropKey", "newCodes", "mfa"}, !.asks = 4, !.keys = 2, !.admin = {"resetPasskeys"}, !.acts = 1]
Usernameless == [NoAsks EXCEPT !.ops = {"passkey", "dropKey", "addKey", "login"}, !.asks = 3, !.admin = {"disable", "enable"}, !.acts = 2]
\* Changes of the password, confirmations and API keys; the owner's recovery.
Confirming == [NoAsks EXCEPT !.ops = {"password", "apiKey", "login"}, !.asks = 3, !.wrong = TRUE, !.admin = {"setPassword"}, !.acts = 1, !.keys = 0]
Recovering == [NoAsks EXCEPT !.ops = {"password", "addKey", "login", "passkey"}, !.asks = 4, !.owner = TRUE, !.admin = {"recover"}, !.acts = 1]
Required == [NoAsks EXCEPT !.ops = {"login", "second", "addKey", "mfa"}, !.asks = 4, !.mode = "second", !.keys = 0]
AllSignIns == {Guessing, OwnerGuessed, SecondGuessed, Seconding, UsingCodes, Adding, Usernameless, Confirming, Recovering, Required}

-----------------------------------------------------------------------------
\* An owner and a user, up to three sessions, two requests at once, timeouts that only get shorter.
TwoTimeouts == {[idle |-> 3, abs |-> 5], [idle |-> 2, abs |-> 3]}
One == [who |-> {"owner"}, does |-> {"logout"}, reqs |-> {"r1"}, acts |-> 2, ends |-> 0, edits |-> 1, until |-> 6]
\* One session used, idle, signed out, with timeouts that change.
Active == [One EXCEPT !.who = {"user"}, !.does = {"logout", "disable"}, !.ends = 1, !.until = 4]
\* The owner goes in and out of an impersonation, from two tabs, and the versions move on.
Acting == [One EXCEPT !.does = {"act as"}, !.acts = 3, !.edits = 0, !.until = 4]
ActingTwice == [One EXCEPT !.does = {"act as", "end"}, !.reqs = TwoRequests, !.acts = 3, !.ends = 1, !.edits = 0, !.until = 1]
\* The password changes, here and elsewhere at once, and while the owner acts as the user.
Changing == [One EXCEPT !.who = {"user"}, !.does = {"password", "end", "disable"}, !.reqs = TwoRequests, !.acts = 3, !.ends = 1, !.edits = 0, !.until = 1]
ChangingLong == [One EXCEPT !.does = {"password"}, !.acts = 2, !.until = 5]
ActingChange == [One EXCEPT !.who = {"owner", "user"}, !.does = {"act as", "password", "logout"}, !.acts = 4, !.edits = 0, !.until = 1]
AllSessions == {Active, Acting, ActingTwice, Changing, ChangingLong, ActingChange}

-----------------------------------------------------------------------------
\* Two roles, one request or two at once, any rows to start from.
Quota(kind, max, per) == [kind |-> kind, max |-> max, per |-> per]
SavedLists == {{}, {Quota("all", 2, 2)}, {Quota("all", 2, 1)}}
\* One option and its rows everywhere, one request.
Views == [roles |-> {"role1"}, options |-> {"maxViews"}, scopes |-> {"default", "role1", "public"}, tabs |-> {"t1"}, does |-> {"limits", "assign", "delete"}]
Switches == [Views EXCEPT !.options = {"allowUnlimitedViews"}, !.scopes = {"default", "role1"}]
Timeout == [Views EXCEPT !.options = {"sessionIdleSec"}, !.does = {"limits", "assign", "delete", "settings"}]
\* Two requests at once, one of them confirmed over an await.
AtOnce == [Views EXCEPT !.options = {"url"}, !.scopes = {"default", "role1"}, !.tabs = Tabs, !.does = {"limits", "assign", "delete", "create"}]
Quotas == [Views EXCEPT !.options = {"url"}, !.scopes = {"default"}, !.tabs = Tabs, !.does = {"quotas", "own", "assign", "delete"}]
AllLimits == {Views, Switches, Timeout, AtOnce, Quotas}

-----------------------------------------------------------------------------
\* The owner, anonymous senders and two names more; files of two users who share passkeys and codes, with and without what they need.
Ann == [password |-> TRUE, role |-> "ops", apiKeys |-> {1}, passkeys |-> {1, 2, 3}, codes |-> {1, 2}, mfa |-> TRUE]
Ben == [Ann EXCEPT !.apiKeys = {2}, !.passkeys = {3, 4}, !.codes = {2, 3}, !.mfa = FALSE]
UserOf(n, p) == [name |-> n, parts |-> p]
Whole == [users |-> <<UserOf("ann", Ann), UserOf("ben", Ben)>>, owner |-> {2, 5}, roles |-> [r \in {"ops"} |-> 2], base |-> 1, rules |-> {"block", "allow"}]
Bare == [Whole EXCEPT !.roles = [r \in {} |-> 0], !.base = 2, !.rules = {"block"}]
Same == [Bare EXCEPT !.users = <<UserOf("ann", Ann), UserOf("ben", [Ben EXCEPT !.apiKeys = {1}, !.role = None])>>]
Documents == {Whole, Bare, Same}
Twice == [imports |-> 2, acts |-> 1, omit |-> {}]
Chosen == [imports |-> 1, acts |-> 0, omit |-> {"credentials", "passkeys"}]
AllImports == {Twice, Chosen}

-----------------------------------------------------------------------------
\* A page of one of two users: other tabs sign in and out, its time runs out, its changes are refused.
Timed == [others |-> 1, acts |-> 2, last |-> 7, prompt |-> TRUE]
Slow == [others |-> 1, acts |-> 2, last |-> 5, prompt |-> FALSE]
Crowded == [others |-> 2, acts |-> 3, last |-> 3, prompt |-> TRUE]
AllPages == {Timed, Slow, Crowded}
=============================================================================
