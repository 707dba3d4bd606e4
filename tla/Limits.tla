------------------------------- MODULE Limits -------------------------------
(***************************************************************************)
(* Roles, limits and quota lists, and the owner's confirmation of a change *)
(* that weakens a control (src/src/directory-do.js, "admin: limits" and    *)
(* "roles", with the rules of src/src/lib/settings.js).                    *)
(*                                                                         *)
(* An account has the limits of its role: the role's rows, else the        *)
(* Default role's, else the built-in value; an API key has those, narrowed *)
(* by the rows for the API.  A change is compared, on what the scope it    *)
(* edits resolves to, with what is there; when something gets looser, the  *)
(* owner confirms over an await, and other changes may land meanwhile.     *)
(*                                                                         *)
(* Every value is a number: 0 and 1 for an option off and on, 0 for a time *)
(* that is the server's own (null), NoLimit for a bound that is not there. *)
(***************************************************************************)
EXTENDS Integers, FiniteSets, TLC

CONSTANTS
    Roles,      \* custom roles
    Tabs,       \* the owner's requests at once
    QuotaLists, \* lists of quotas that may be saved, each a set of [kind, max, per]
    Plans,      \* what is tried together, chosen at the start
    NoLimit,    \* a number above every bound
    None

VARIABLES
    plan,     \* the plan of this behaviour
    exists,   \* the custom roles there are
    rows,     \* the rows of limits: scope -> channel -> option -> value, where there is one
    quotas,   \* the quota lists: scope -> set of quotas
    ownList,  \* the roles that have their own quota list
    role,     \* the user's role, None for Default
    settings, \* the server-wide values: the idle timeout, the download window
    asking,   \* what each tab waits to confirm, or None
    left      \* bound: what each tab may still ask

vars == <<plan, exists, rows, quotas, ownList, role, settings, asking, left>>

(***************************************************************************)
(* What an account resolves to                                             *)
(***************************************************************************)
Default == "default"
Public == "public"
User == "user"
Scopes == Roles \cup {Default, Public}
Channels == {"all", "api"}
Options == {"maxViews", "allowUnlimitedViews", "url", "sessionIdleSec", "fileGrantSec"}
ApiOptions == {"maxViews", "allowUnlimitedViews", "url"}
\* The built-in values.
Def == [maxViews |-> NoLimit, allowUnlimitedViews |-> 1, url |-> 0, sessionIdleSec |-> 0, fileGrantSec |-> 0]
Min2(a, b) == IF a < b THEN a ELSE b

ResolveLimits(global, own) ==
    [o \in Options |-> IF o \in DOMAIN own THEN own[o] ELSE IF o \in DOMAIN global THEN global[o] ELSE Def[o]]

\* Both must allow it: the smaller bound, "and" for a switch.
Narrowed(a, v) == Min2(a, v)
RestrictForApi(all, apiGlobal, apiOwn) ==
    [o \in Options |->
        IF o \notin ApiOptions THEN all[o]
        ELSE IF o \in DOMAIN apiOwn THEN Narrowed(all[o], apiOwn[o])
        ELSE IF o \in DOMAIN apiGlobal THEN Narrowed(all[o], apiGlobal[o])
        ELSE all[o]]

LimitsAssumption ==
    /\ NoLimit \in Nat /\ NoLimit > 2
    /\ {Default, Public, None} \cap Roles = {}
    /\ \A list \in QuotaLists : \A q \in list : {q.max, q.per} \subseteq Nat

\* A plan: the roles there are, the options and scopes that have rows (Default always has some), and what the owner does in which tabs.
Plan == [roles : SUBSET Roles, options : (SUBSET Options) \ {{}}, scopes : {ss \in SUBSET Scopes : Default \in ss}, tabs : SUBSET Tabs,
         does : SUBSET {"limits", "quotas", "own", "delete", "assign", "settings", "create"}]
PlansAssumption == Plans \subseteq Plan

NoRows == [o \in {} |-> 0]
RowsIn(R, scope, channel) == IF scope = Default THEN NoRows ELSE R[scope][channel]
LimitsIn(R, scope) ==
    LET all == ResolveLimits(R[Default]["all"], RowsIn(R, scope, "all"))
    IN [all |-> all, api |-> RestrictForApi(all, R[Default]["api"], RowsIn(R, scope, "api"))]

\* A role that is gone is the Default role.
ScopeIn(ex, r, account) == IF account = Public THEN Public ELSE IF r \in ex THEN r ELSE Default
ScopeOf(account) == ScopeIn(exists, role, account)
QuotasIn(scope, own) == quotas[IF scope \in own THEN scope ELSE Default]
QuotasOf(account) == IF account = Public THEN quotas[Default] \cup quotas[Public] ELSE QuotasIn(ScopeOf(account), ownList)

(***************************************************************************)
(* What a change weakens                                                   *)
(***************************************************************************)
\* A role's session timeouts are compared as the server's own when there is none.
Val(o, v) == IF o = "sessionIdleSec" /\ v = 0 THEN settings.idle ELSE v
NotWeaker(before, after) == {}
WeakenedLimits(before, after) == {o \in Options : Val(o, after[o]) > Val(o, before[o])}
WeakenedQuotas(before, after) ==
    {q \in before : ~\E n \in after : n.kind = q.kind /\ n.max <= q.max /\ n.per >= q.per}
RoleChangeWeakens(from, to) ==
    IF from = to THEN {}
    ELSE LET a == LimitsIn(rows, from)
             b == LimitsIn(rows, to)
         IN WeakenedLimits(a.all, b.all) \cup WeakenedLimits(a.api, b.api)
            \cup (IF WeakenedQuotas(QuotasIn(from, ownList), QuotasIn(to, ownList)) = {} THEN {} ELSE {"quotas"})

(***************************************************************************)
(* The changes: what each weakens, and what it writes                      *)
(***************************************************************************)
\* A row set, or taken away ("inherit").
WithRow(f, o, v) == [x \in (DOMAIN f \cup {o}) |-> IF x = o THEN v ELSE f[x]]
WithoutRow(f, o) == [x \in (DOMAIN f \ {o}) |-> f[x]]
RowsAfter(c) ==
    LET f == rows[c.scope][c.channel]
    IN [rows EXCEPT ![c.scope][c.channel] = IF c.value = None THEN WithoutRow(f, c.option) ELSE WithRow(f, c.option, c.value)]

OwnAfter(c) == IF c.on THEN ownList \cup {c.scope} ELSE ownList \ {c.scope}

Weak(c) ==
    CASE c.does = "limits" ->
           WeakenedLimits(LimitsIn(rows, c.scope)[c.channel], LimitsIn(RowsAfter(c), c.scope)[c.channel])
      [] c.does = "quotas" ->
           LET before == IF c.scope \in Roles THEN QuotasIn(c.scope, ownList) ELSE quotas[c.scope]
           IN WeakenedQuotas(before, c.list)
      [] c.does = "own" -> WeakenedQuotas(QuotasIn(c.scope, ownList), QuotasIn(c.scope, OwnAfter(c)))
      [] c.does = "delete" -> IF role = c.scope THEN RoleChangeWeakens(c.scope, Default) ELSE {}
      [] c.does = "assign" -> RoleChangeWeakens(ScopeOf(User), IF c.role = None THEN Default ELSE c.role)
      [] c.does = "settings" -> {k \in {c.key} : c.value > settings[k]}

\* What may be asked now.
There(scope) == scope \in Roles => scope \in exists
May(c) ==
    CASE c.does = "limits" -> There(c.scope) /\ ~(c.scope = Default /\ c.channel = "all" /\ c.value = None)
      [] c.does = "assign" -> c.role = None \/ c.role \in exists
      [] c.does \in {"quotas", "own", "delete"} -> There(c.scope)
      [] OTHER -> TRUE
\* What is still checked after the confirmation: not the role of a change of limits.
StillMay(c) == c.does = "limits" \/ May(c)

SetLimits(c) == rows' = RowsAfter(c) /\ UNCHANGED <<exists, quotas, ownList, role, settings>>
SetQuotas(c) ==
    /\ quotas' = [quotas EXCEPT ![c.scope] = c.list]
    /\ ownList' = IF c.scope \in Roles THEN ownList \cup {c.scope} ELSE ownList
    /\ UNCHANGED <<exists, rows, role, settings>>
SetOwn(c) == ownList' = OwnAfter(c) /\ UNCHANGED <<exists, rows, quotas, role, settings>>
DeleteRole(c) ==
    /\ exists' = exists \ {c.scope} /\ ownList' = ownList \ {c.scope}
    /\ role' = IF role = c.scope THEN None ELSE role
    /\ rows' = [rows EXCEPT ![c.scope] = [ch \in Channels |-> NoRows]]
    /\ quotas' = [quotas EXCEPT ![c.scope] = {}]
    /\ UNCHANGED settings
SetUserRole(c) == role' = c.role /\ UNCHANGED <<exists, rows, quotas, ownList, settings>>
SetSettings(c) == settings' = [settings EXCEPT ![c.key] = c.value] /\ UNCHANGED <<exists, rows, quotas, ownList, role>>

Write(c) ==
    \/ c.does = "limits" /\ SetLimits(c)
    \/ c.does = "quotas" /\ SetQuotas(c)
    \/ c.does = "own" /\ SetOwn(c)
    \/ c.does = "delete" /\ DeleteRole(c)
    \/ c.does = "assign" /\ SetUserRole(c)
    \/ c.does = "settings" /\ SetSettings(c)

(***************************************************************************)
(* The owner's requests                                                    *)
(***************************************************************************)
Takes(t) == t \in plan.tabs /\ asking[t] = None /\ left[t] > 0 /\ left' = [left EXCEPT ![t] = @ - 1]

\* Nothing gets looser: written in the same call.
Change(t, c) ==
    /\ Takes(t) /\ May(c) /\ Weak(c) = {} /\ Write(c)
    /\ UNCHANGED <<plan, asking>>

\* Confirmed over an await, against what there was; without a confirmation it is refused.
Ask(t, c) ==
    /\ Takes(t) /\ May(c) /\ Weak(c) # {}
    /\ asking' = [asking EXCEPT ![t] = c]
    /\ UNCHANGED <<plan, exists, rows, quotas, ownList, role, settings>>

Confirmed(t) ==
    /\ asking[t] # None /\ StillMay(asking[t]) /\ Write(asking[t])
    /\ asking' = [asking EXCEPT ![t] = None]
    /\ UNCHANGED <<plan, left>>

Refused(t) ==
    /\ asking[t] # None /\ asking' = [asking EXCEPT ![t] = None]
    /\ UNCHANGED <<plan, exists, rows, quotas, ownList, role, settings, left>>

\* createRole, duplicateRole: rows, list and all; nobody has the role yet.
CreateRole(t, r, from) ==
    /\ Takes(t) /\ r \in Roles \ exists /\ exists' = exists \cup {r}
    /\ IF from = None THEN UNCHANGED <<rows, quotas, ownList>>
       ELSE /\ There(from) /\ from # Public
            /\ rows' = [rows EXCEPT ![r] = rows[from]] /\ quotas' = [quotas EXCEPT ![r] = quotas[from]]
            /\ ownList' = IF from = Default \/ from \in ownList THEN ownList \cup {r} ELSE ownList
    /\ UNCHANGED <<plan, role, settings, asking>>

Values == [maxViews |-> {1, 2, NoLimit}, allowUnlimitedViews |-> {0, 1}, url |-> {0, 1}, sessionIdleSec |-> {0, 1, 2}, fileGrantSec |-> {0, 1, 2}]
OptionsOf(channel) == plan.options \cap (IF channel = "api" THEN ApiOptions ELSE Options)
Changes ==
    (UNION {UNION {{[does |-> "limits", scope |-> s, channel |-> ch, option |-> o, value |-> v] :
                        s \in plan.scopes, v \in Values[o] \cup {None}} : o \in OptionsOf(ch)} : ch \in Channels})
    \cup {[does |-> "quotas", scope |-> s, list |-> l] : s \in plan.scopes, l \in QuotaLists}
    \cup {[does |-> "own", scope |-> s, on |-> b] : s \in exists, b \in BOOLEAN}
    \cup {[does |-> "delete", scope |-> s] : s \in exists}
    \cup {[does |-> "assign", role |-> r] : r \in exists \cup {None}}
    \cup {[does |-> "settings", key |-> k, value |-> v] : k \in {"idle", "grant"}, v \in {1, 2}}

Next ==
    \E t \in Tabs :
        \/ \E c \in {d \in Changes : d.does \in plan.does} : Change(t, c) \/ Ask(t, c)
        \/ Confirmed(t) \/ Refused(t)
        \/ \E r \in Roles, from \in Scopes \cup {None} : "create" \in plan.does /\ CreateRole(t, r, from)

\* Any configuration the owner's earlier changes may have left.
SomeRows(scope, channel) ==
    IF scope \notin plan.scopes THEN {NoRows}
    ELSE IF scope = Default /\ channel = "all" THEN {f \in [plan.options -> 0..NoLimit] : \A o \in plan.options : f[o] \in Values[o]}
    ELSE UNION {{f \in [D -> 0..NoLimit] : \A o \in D : f[o] \in Values[o]} : D \in SUBSET OptionsOf(channel)}
Init ==
    /\ plan \in Plans /\ exists = plan.roles
    /\ \E da \in SomeRows(Default, "all"), dk \in SomeRows(Default, "api") :
       \E ra \in UNION {SomeRows(r, "all") : r \in Roles}, rk \in UNION {SomeRows(r, "api") : r \in Roles} :
         rows = [s \in Scopes |-> IF s = Default THEN [all |-> da, api |-> dk]
                                  ELSE IF s \in plan.roles THEN [all |-> ra, api |-> rk]
                                  ELSE [ch \in Channels |-> NoRows]]
    /\ \E dq, rq \in IF "quotas" \in plan.does THEN QuotaLists \cup {{}} ELSE {{}} :
         quotas = [s \in Scopes |-> IF s = Default THEN dq ELSE IF s \in plan.roles THEN rq ELSE {}]
    /\ ownList \in IF "quotas" \in plan.does THEN SUBSET plan.roles ELSE {{}}
    /\ role \in plan.roles \cup {None}
    /\ settings \in IF "settings" \in plan.does THEN [{"idle", "grant"} -> {1, 2}] ELSE [{"idle", "grant"} -> {2}]
    /\ asking = [t \in Tabs |-> None] /\ left = [t \in Tabs |-> 1]

Spec == Init /\ [][Next]_vars

(***************************************************************************)
(* Properties                                                              *)
(***************************************************************************)
TypeOK ==
    /\ exists \subseteq Roles /\ ownList \subseteq exists
    /\ \A s \in Scopes, ch \in Channels : DOMAIN rows[s][ch] \subseteq OptionsOf(ch) /\ (s = Default => rows[s]["all"] # NoRows)
    /\ role = None \/ role \in exists
    /\ \A t \in Tabs : asking[t] # None => asking[t].does \in plan.does

\* authorizeCreate: what a channel's limits allow.
Requests == [url : BOOLEAN, views : {1, 2, NoLimit}]
Allows(L, q) ==
    /\ q.url => L["url"] = 1
    /\ IF q.views = NoLimit THEN L["allowUnlimitedViews"] = 1 ELSE q.views <= L["maxViews"]

\* An API key never makes what its account could not, whatever rows the role, the Default role and
\* their API columns hold.
KeysOnlyNarrow ==
    \A a \in {User, Public} :
        LET L == LimitsIn(rows, ScopeOf(a))
        IN \A q \in Requests : Allows(L.api, q) => Allows(L.all, q)

\* What a value means: a time of 0 is the server's own.
Means(o, v, st) == IF v # 0 THEN v ELSE IF o = "sessionIdleSec" THEN st.idle ELSE IF o = "fileGrantSec" THEN st.grant ELSE v
Looser(a, channel, os) ==
    \E o \in os : Means(o, LimitsIn(rows', ScopeOf(a)')[channel][o], settings') > Means(o, LimitsIn(rows, ScopeOf(a))[channel][o], settings)
WithoutConfirmation == ~\E t \in Tabs : Confirmed(t)

\* No account gets more than it had, by a change of limits, of its role, of the role itself or of the
\* server's settings, without the owner's confirmation; with the API, in the scope that changes.
\* Excepted: the download window, which ReallyConfirmed has.
LoosenedByConfirmation ==
    WithoutConfirmation => \A a \in {User, Public} :
        /\ ~Looser(a, "all", Options \ {"fileGrantSec"})
        /\ (rows[ScopeOf(a)]' # rows[ScopeOf(a)] \/ ScopeOf(a)' # ScopeOf(a)) => ~Looser(a, "api", ApiOptions)

\* Nor does any quota that counts an account go away or get wider without it, whichever list, role or
\* deletion changes what the account resolves to.
Keeps(n, q) == n.kind = q.kind /\ n.max <= q.max /\ n.per >= q.per
QuotasByConfirmation ==
    WithoutConfirmation => \A a \in {User, Public} : \A q \in QuotasOf(a) : \E n \in QuotasOf(a)' : Keeps(n, q)

=============================================================================
