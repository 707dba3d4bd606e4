------------------------------- MODULE Import -------------------------------
(***************************************************************************)
(* An import of another server's users and configuration: what the owner   *)
(* chose is planned as a whole against what is here and applied, or not,   *)
(* in one transaction, while between a preview and the import roles go and *)
(* passkeys and accounts come (src/src/directory-do.js importData, src/src/*)
(* lib/portable.js validateDecisions, src/src/routes/admin.js).            *)
(***************************************************************************)
EXTENDS Integers, FiniteSets, Sequences

CONSTANTS
    Names,      \* of accounts; Owner and Public are there from the start
    Owner, Public,
    Roles,      \* names of roles; None is the Default role
    Docs,       \* the files the owner may import
    Most,       \* MAX_PASSKEYS
    Plans,      \* what is tried, chosen at the start
    None

\* A file: per user, in its order, the parts it holds (None: not there); the owner's passkeys; roles with the passkeys they allow, and
\* those of Default; rules on the owner's address.
Some(S) == S \cup {None}
Carried == [password : BOOLEAN, role : Some(Roles), apiKeys : Some(SUBSET Nat), passkeys : Some(SUBSET Nat), codes : Some(SUBSET Nat), mfa : BOOLEAN]
Doc == [users : Seq([name : Names, parts : Carried]), owner : SUBSET Nat, roles : UNION {[R -> 0 .. Most] : R \in SUBSET Roles}, base : 0 .. Most,
        rules : SUBSET {"allow", "block"}]
\* A plan: imports, other changes, and the parts of a user the owner may leave out.
Plan == [imports : Nat, acts : Nat, omit : SUBSET {"credentials", "role", "apiKeys", "passkeys", "codes"}]
Account == [kind : {"owner", "public", "user"}, password : {"here", "file"}, role : Roles \cup {"Default"},
            apiKeys : SUBSET Nat, passkeys : SUBSET Nat, codes : SUBSET Nat, mfa : BOOLEAN]
ImportAssumption ==
    /\ {Owner, Public} \subseteq Names /\ Owner # Public /\ Most \in Nat \ {0} /\ Plans \subseteq Plan
    /\ Docs \subseteq Doc
    /\ \A doc \in Docs :
          IsFiniteSet(doc.owner) /\ \A i \in DOMAIN doc.users : LET ks == doc.users[i].parts.passkeys IN ks # None => IsFiniteSet(ks)
    /\ None \notin Nat \cup Roles \cup {"Default"} /\ None \notin Account

VARIABLES
    left,       \* what is left of the plan
    acct,       \* each account, None when there is none of that name
    role,       \* each role's passkeysMax, None when there is no such role; "Default" always there
    rules       \* the rules on the owner's address

vars == <<left, acct, role, rules>>
Here == {a \in Names : acct[a] # None}
New(kind) == [kind |-> kind, password |-> "here", role |-> "Default", apiKeys |-> {}, passkeys |-> {}, codes |-> {}, mfa |-> FALSE]

Init ==
    /\ left \in Plans
    /\ acct = [a \in Names |-> IF a = Owner THEN [New("owner") EXCEPT !.passkeys = {1}] ELSE IF a = Public THEN New("public") ELSE None]
    /\ role = [r \in Roles \cup {"Default"} |-> IF r = "Default" THEN Most ELSE None] /\ rules = {}

Shuts(rs) == "block" \in rs /\ "allow" \notin rs

-----------------------------------------------------------------------------
\* What the owner chooses: the system's parts, the owner's passkeys, and per user of the file a name here, what is expected of
\* it, and parts; two users never under one name.
InFile(u) == {p \in {"role", "apiKeys", "passkeys", "codes"} : u.parts[p] # None} \cup (IF u.parts.password THEN {"credentials"} ELSE {})
Decisions(u) == {None} \cup [as : Names, action : {"create", "update"}, parts : {InFile(u) \ x : x \in SUBSET left.omit} \ {{}}]
OneName(ds) == \A i, j \in DOMAIN ds : i # j /\ ds[i] # None /\ ds[j] # None => ds[i].as # ds[j].as

\* A role's passkeys after the import: its own number, or Default's.
After(doc, sys, r) == IF "roles" \in sys /\ r = "Default" THEN doc.base
                      ELSE IF "roles" \in sys /\ r \in DOMAIN doc.roles THEN doc.roles[r] ELSE role[r]
Room(doc, sys, a, r) == IF a \in Here /\ acct[a].kind = "owner" THEN Most
                        ELSE IF After(doc, sys, r) = None THEN After(doc, sys, "Default")
                        ELSE IF After(doc, sys, r) < Most THEN After(doc, sys, r) ELSE Most
RoleOk(doc, sys, r) == r = "Default" \/ role[r] # None \/ ("roles" \in sys /\ r \in DOMAIN doc.roles)

Held(part) == UNION {acct[a][part] : a \in Here}
Passkeys(a) == IF a \in Here THEN acct[a].passkeys ELSE {}
FirstOf(ks, n) == {k \in ks : Cardinality({j \in ks : j < k}) < n}

\* What an account gets; a plan: whether there is a mistake in it, what is taken, and what each account gets.
Nothing == [create |-> FALSE, role |-> None, apiKeys |-> {}, passkeys |-> {}, codes |-> {}, mfa |-> FALSE]
NoPlan == [wrong |-> FALSE, apiKeys |-> {}, passkeys |-> {}, codes |-> {}, gets |-> [a \in Names |-> Nothing]]
Wrong(p) == [p EXCEPT !.wrong = TRUE]
With(p, a, job, wrong) ==
    [wrong |-> p.wrong \/ wrong, apiKeys |-> p.apiKeys \cup job.apiKeys, passkeys |-> p.passkeys \cup job.passkeys,
     codes |-> p.codes \cup job.codes, gets |-> [p.gets EXCEPT ![a] = job]]

\* takePasskeys: none that is registered here or taken in this import, and as many as fit with those planned before.
Takes(p, ks, a, max) ==
    FirstOf({k \in ks : k \notin Held("passkeys") /\ k \notin p.passkeys}, max - Cardinality(Passkeys(a)) - Cardinality(p.gets[a].passkeys))

Refused(u, d) ==
    \/ d.as \in Here /\ acct[d.as].kind = "public"
    \/ d.as \in Here /\ d.action = "create"
    \/ d.as \notin Here /\ (d.action = "update" \/ "credentials" \notin d.parts)

\* The role an account is given, never the owner; one that is neither here nor in the file is a mistake of the whole import.
GivesRole(d) == "role" \in d.parts /\ (d.as \in Here => acct[d.as].kind # "owner")
RoleGiven(doc, sys, u, d) == IF GivesRole(d) /\ RoleOk(doc, sys, u.parts.role) THEN u.parts.role ELSE None
RoleMissing(doc, sys, u, d) == GivesRole(d) /\ ~RoleOk(doc, sys, u.parts.role)
RoleOf(a, given) == IF given # None THEN given ELSE IF a \in Here THEN acct[a].role ELSE "Default"

\* An account that is here only gets its role and more passkeys; a new one what was chosen, but no recovery code that is another's.
Job(p, doc, sys, u, d) ==
    LET r == RoleGiven(doc, sys, u, d)
        pk == IF "passkeys" \in d.parts THEN Takes(p, u.parts.passkeys, d.as, Room(doc, sys, d.as, RoleOf(d.as, r))) ELSE {}
        new == d.as \notin Here
    IN [create |-> new, role |-> r, passkeys |-> pk, mfa |-> new /\ u.parts.mfa /\ pk # {},
        apiKeys |-> IF new /\ "apiKeys" \in d.parts THEN u.parts.apiKeys ELSE {},
        codes |-> IF new /\ "codes" \in d.parts THEN u.parts.codes \ (Held("codes") \cup p.codes) ELSE {}]

\* An API key that is another's is a mistake.
PlanUser(p, doc, sys, u, d) ==
    LET job == Job(p, doc, sys, u, d)
        clash == job.apiKeys \cap (Held("apiKeys") \cup p.apiKeys) # {}
    IN IF d = None THEN p ELSE IF Refused(u, d) THEN Wrong(p) ELSE With(p, d.as, job, clash \/ RoleMissing(doc, sys, u, d))

\* The users in the file's order, then the owner's row; a rule that would shut the owner out is a mistake.
UsersPlanned(doc, sys, ds) ==
    LET upTo[i \in 0 .. Len(doc.users)] == IF i = 0 THEN NoPlan ELSE PlanUser(upTo[i - 1], doc, sys, doc.users[i], ds[i])
    IN upTo[Len(doc.users)]
Planned(doc, sys, own, ds) ==
    LET p == UsersPlanned(doc, sys, ds)
        more == [p.gets[Owner] EXCEPT !.passkeys = @ \cup Takes(p, doc.owner, Owner, Most)]
        q == IF own THEN With(p, Owner, more, FALSE) ELSE p
        added == doc.rules \ rules
        locks == "ipRules" \in sys /\ "block" \in added /\ Shuts(rules \cup added)
    IN IF locks THEN Wrong(q) ELSE q

Received(a, g) ==
    LET x == IF g.create THEN New("user") ELSE acct[a] IN
    IF x = None THEN None
    ELSE [kind |-> x.kind, password |-> IF g.create THEN "file" ELSE x.password, role |-> IF g.role # None THEN g.role ELSE x.role,
          apiKeys |-> x.apiKeys \cup g.apiKeys, passkeys |-> x.passkeys \cup g.passkeys, codes |-> x.codes \cup g.codes, mfa |-> x.mfa \/ g.mfa]

\* The import: any mistake refuses it as a whole.
ImportData ==
    /\ left.imports > 0
    /\ \E doc \in Docs, sys \in SUBSET {"roles", "ipRules"}, own \in BOOLEAN :
       \E ds \in {f \in [DOMAIN doc.users -> UNION {Decisions(doc.users[i]) : i \in DOMAIN doc.users}] :
                     OneName(f) /\ \A i \in DOMAIN f : f[i] \in Decisions(doc.users[i])} :
           LET p == Planned(doc, sys, own, ds) IN
           /\ ~p.wrong
           /\ acct' = [a \in Names |-> Received(a, p.gets[a])]
           /\ role' = [r \in DOMAIN role |-> After(doc, sys, r)]
           /\ rules' = IF "ipRules" \in sys THEN rules \cup doc.rules ELSE rules
           /\ left' = [left EXCEPT !.imports = @ - 1]

-----------------------------------------------------------------------------
\* What else happens: a role goes, its users to Default; an account goes; the owner changes the rules.
Acts == left.acts > 0 /\ left' = [left EXCEPT !.acts = @ - 1]
DropRole(r) ==
    /\ Acts /\ r # "Default" /\ role[r] # None /\ role' = [role EXCEPT ![r] = None]
    /\ acct' = [a \in Names |-> IF a \in Here /\ acct[a].role = r THEN [acct[a] EXCEPT !.role = "Default"] ELSE acct[a]]
    /\ UNCHANGED rules
DropUser(a) == Acts /\ a \in Here /\ acct[a].kind = "user" /\ acct' = [acct EXCEPT ![a] = None] /\ UNCHANGED <<role, rules>>
AddRule ==
    /\ Acts /\ UNCHANGED <<acct, role>>
    /\ \E r \in {"allow", "block"} : (r = "block" => "allow" \in rules) /\ rules' = rules \cup {r}
DropRule == Acts /\ (\E r \in rules : rules' = rules \ {r}) /\ UNCHANGED <<acct, role>>

Next == ImportData \/ (\E r \in DOMAIN role : DropRole(r)) \/ (\E a \in Names : DropUser(a)) \/ AddRule \/ DropRule

-----------------------------------------------------------------------------
Imports == left.imports' < left.imports

\* "an import never removes or overwrites an existing account's credentials": it keeps its kind, password, API keys, recovery
\* codes and second factor, and its passkeys and more (importData; directory-do.js:5349).
KeepsCredentials ==
    Imports => \A a \in Here :
        /\ acct'[a] # None /\ [acct'[a] EXCEPT !.role = 0, !.passkeys = {}] = [acct[a] EXCEPT !.role = 0, !.passkeys = {}]
        /\ acct[a].passkeys \subseteq acct'[a].passkeys /\ (acct[a].kind # "user" => acct'[a].role = acct[a].role)

\* A passkey, an API key and a recovery code belong to one account, whoever of a file takes them first.
OneHolder == \A a, b \in Here : a # b => \A part \in {"passkeys", "apiKeys", "codes"} : acct[a][part] \cap acct[b][part] = {}

\* No import takes an account past the passkeys its role, as it is after the import, allows.
Allowed(a) == IF acct[a].kind = "owner" THEN Most ELSE role[acct[a].role]
FitsAfter ==
    Imports => \A a \in Names : Passkeys(a)' # Passkeys(a) => Cardinality(Passkeys(a)') <= Allowed(a)'

\* Every account's role is there; who must give a passkey with the password has one.
RolesThere == \A a \in Here : role[acct[a].role] # None /\ (acct[a].mfa => acct[a].passkeys # {})

\* No import shuts out the owner who asks for it.
NotShutOut == Imports /\ Shuts(rules') => Shuts(rules)
=============================================================================
