----------------------------- MODULE Privileges -----------------------------
(* The snapshot a schema cache answers from: the privileges of a database      *)
(* role are walked depth first through the role grants of the catalog          *)
(* (src/internal/schemacache/cache.go), and the snapshot replaces the one      *)
(* before it when every role is walked.                                        *)
(*                                                                             *)
(* MySQL grants to accounts (name@host); the cache keys on the name alone, so  *)
(* accounts that differ in the host fall on one role, and grants that form no  *)
(* cycle in MySQL may form one here. The walks over table privileges and over  *)
(* EXECUTE on routines are one walk over one set of rights.                    *)
(*                                                                             *)
(* MySQL grants at several levels. The catalog read takes the grants on a      *)
(* table or routine and those on some columns of a table, and makes one fact   *)
(* of both; it does not look at the grants on a whole database or on           *)
(* everything (src/internal/mysqldb/catalog.go).                               *)
EXTENDS Naturals, FiniteSets

CONSTANTS
    Accounts,   \* MySQL accounts and roles, name@host
    Roles,      \* their names
    Bare,       \* bareName: the name of an account
    Rights,     \* a privilege on a table, or EXECUTE on a routine
    NoRole,     \* no role is being walked
    Catalogs,   \* the catalogs a load can find, by name
    Data,       \* what is in each
    MaxLoads    \* bound: loads of the catalog, the start-up's included

ASSUME BareAssumption == Bare \in [Accounts -> Roles]
ASSUME NoRoleAssumption == NoRole \notin Roles
ASSUME MaxLoadsAssumption == MaxLoads \in Nat \ {0}
\* granted pairs are <<holder, granted>>. The others are <<account, right>>:
\* object grants on a table or routine itself, column grants on some columns of
\* a table, and wide what grants on a database or on everything give.
ASSUME CatalogsAssumption ==
    \A c \in Catalogs : /\ Data[c].granted \subseteq Accounts \X Accounts
                        /\ Data[c].object \subseteq Accounts \X Rights
                        /\ Data[c].column \subseteq Accounts \X Rights
                        /\ Data[c].wide \subseteq Accounts \X Rights

VARIABLES
    catalog,    \* the catalog that is being built into a snapshot
    building,   \* the snapshot is not in the cache yet
    asked,      \* the role the walk started at, or NoRole
    waiting,    \* roles the walk has still to enter: its pending calls
    walked,     \* roles it has entered
    found,      \* rights it has found
    answered,   \* roles whose walk has ended
    held,       \* what their walks found
    loads,      \* catalogs loaded so far
    snapshot    \* the snapshot in the cache: catalog, rights by name, version

buildVars == <<catalog, building, asked, waiting, walked, found, answered, held, loads, snapshot>>

\* A faulty variant: a grant on some columns is no fact of its table.
BugFacts(c) == Data[c].object

\* What readTablePrivileges and readRoutinePrivileges find: the sources are the
\* TABLE, COLUMN and ROUTINE grants of information_schema.
Facts(c) == Data[c].object \cup Data[c].column

\* Edges of the grant graph and facts, by name.
GrantedTo(c, role) == {Bare[g[2]] : g \in {h \in Data[c].granted : Bare[h[1]] = role}}
Direct(c, role) == {f[2] : f \in {h \in Facts(c) : Bare[h[1]] = role}}

\* The roles a catalog answers for: the holders of a role, and of a right.
Known(c) == {Bare[g[1]] : g \in Data[c].granted} \cup {Bare[f[1]] : f \in Facts(c)}

Nothing == [role \in Roles |-> {}]

BuildInit ==
    /\ catalog \in Catalogs
    /\ building = TRUE
    /\ asked = NoRole
    /\ waiting = {} /\ walked = {} /\ found = {}
    /\ answered = {} /\ held = Nothing
    /\ loads = 1
    /\ snapshot = [catalog |-> catalog, held |-> Nothing, version |-> 0]

\* A reload reads another catalog while requests go on.
Load ==
    /\ ~building /\ loads < MaxLoads
    /\ catalog' \in Catalogs
    /\ building' = TRUE
    /\ answered' = {} /\ held' = Nothing
    /\ loads' = loads + 1
    /\ UNCHANGED <<asked, waiting, walked, found, snapshot>>

StartWalk(role) ==
    /\ building /\ asked = NoRole
    /\ role \in Known(catalog) \ answered
    /\ asked' = role
    /\ waiting' = {role} /\ walked' = {} /\ found' = {}
    /\ UNCHANGED <<catalog, building, answered, held, loads, snapshot>>

\* A faulty variant: a role already entered is walked again.
BugLeave(role) ==
    /\ role \in waiting \cap walked
    /\ waiting' = (waiting \ {role}) \cup GrantedTo(catalog, role)
    /\ UNCHANGED <<catalog, building, asked, walked, found, answered, held, loads, snapshot>>

\* A role already entered is left at once: this is what ends a cycle.
Leave(role) ==
    /\ role \in waiting \cap walked
    /\ waiting' = waiting \ {role}
    /\ UNCHANGED <<catalog, building, asked, walked, found, answered, held, loads, snapshot>>

\* A faulty variant: the rights of the roles granted to the role, and not of
\* the roles granted to those.
BugEnter(role) ==
    /\ role \in waiting \ walked
    /\ walked' = walked \cup {role}
    /\ found' = found \cup Direct(catalog, role)
    /\ waiting' = IF role = asked THEN GrantedTo(catalog, role) ELSE waiting \ {role}
    /\ UNCHANGED <<catalog, building, asked, answered, held, loads, snapshot>>

Enter(role) ==
    /\ role \in waiting \ walked
    /\ walked' = walked \cup {role}
    /\ found' = found \cup Direct(catalog, role)
    /\ waiting' = (waiting \ {role}) \cup GrantedTo(catalog, role)
    /\ UNCHANGED <<catalog, building, asked, answered, held, loads, snapshot>>

\* A faulty variant: a walk that was never started is ended.
BugEndWalk ==
    /\ building /\ waiting = {}
    /\ held' = [held EXCEPT ![asked] = found]
    /\ answered' = answered \cup {asked}
    /\ asked' = NoRole
    /\ UNCHANGED <<catalog, building, waiting, walked, found, loads, snapshot>>

EndWalk ==
    /\ asked # NoRole /\ waiting = {}
    /\ held' = [held EXCEPT ![asked] = found]
    /\ answered' = answered \cup {asked}
    /\ asked' = NoRole
    /\ UNCHANGED <<catalog, building, waiting, walked, found, loads, snapshot>>

\* Build at start-up, Replace at a reload: one assignment under the lock.
Replace ==
    /\ building /\ asked = NoRole
    /\ Known(catalog) \subseteq answered
    /\ snapshot' = [catalog |-> catalog, held |-> held, version |-> snapshot.version + 1]
    /\ building' = FALSE
    /\ UNCHANGED <<catalog, asked, waiting, walked, found, answered, held, loads>>

Walk == \/ \E role \in Roles : StartWalk(role) \/ Leave(role) \/ Enter(role)
        \/ EndWalk
        \/ Replace
BuildNext == Load \/ Walk
BuildSpec == BuildInit /\ [][BuildNext]_buildVars /\ WF_buildVars(Walk)

-----------------------------------------------------------------------------
(* Reference definitions.                                                      *)
\* What an account may do in MySQL: it has what is given to each role it
\* reaches, itself included.
ClosedInMySQL(c, accounts) == \A g \in Data[c].granted : g[1] \in accounts => g[2] \in accounts
Reached(c, account, given) ==
    {right \in Rights :
        \A s \in SUBSET Accounts :
            (account \in s /\ ClosedInMySQL(c, s)) => \E b \in s : <<b, right>> \in given}

\* The rights MySQL gives on a table, on part of it at least, or on a routine, and
\* those of them that grants on the Resource itself or its columns give.
InPart ==
    [c \in Catalogs |-> [a \in Accounts |->
        Reached(c, a, Data[c].object \cup Data[c].column \cup Data[c].wide)]]
OnResource ==
    [c \in Catalogs |-> [a \in Accounts |-> Reached(c, a, Data[c].object \cup Data[c].column)]]

\* The accounts the cache has read of, and a, have names of their own.
Named(c) == {g[1] : g \in Data[c].granted} \cup {g[2] : g \in Data[c].granted} \cup {f[1] : f \in Facts(c)}
OneHost(c, a) == \A b1, b2 \in Named(c) \cup {a} : Bare[b1] = Bare[b2] => b1 = b2

Closed(c, roles) == \A role \in roles : GrantedTo(c, role) \subseteq roles
RightsOf(c, roles) == UNION {Direct(c, role) : role \in roles}

\* roles is the smallest closed set of names that holds role.
LeastClosed(c, role, roles) ==
    /\ role \in roles /\ Closed(c, roles)
    /\ \A s \in SUBSET Roles : (role \in s /\ Closed(c, s)) => roles \subseteq s

LeastSets ==
    [c \in Catalogs |-> [role \in Roles |-> {roles \in SUBSET Roles : LeastClosed(c, role, roles)}]]

BuildTypeOK ==
    /\ catalog \in Catalogs /\ building \in BOOLEAN
    /\ asked \in Roles \cup {NoRole}
    /\ waiting \subseteq Roles /\ walked \subseteq Roles /\ found \subseteq Rights
    /\ answered \subseteq Roles
    /\ held \in [Roles -> SUBSET Rights]
    /\ loads \in 1 .. MaxLoads
    /\ snapshot.catalog \in Catalogs
    /\ snapshot.held \in [Roles -> SUBSET Rights]
    /\ snapshot.version \in Nat

(* The walk from a role ends with the rights of the smallest set of roles that *)
(* is closed under grants, whatever the order of the walk and whatever cycles  *)
(* the names form (walkTablePrivileges, walkRoutinePrivileges).                *)
ClosureIsLeast ==
    \A role \in answered :
        \E roles \in LeastSets[catalog][role] : held[role] = RightsOf(catalog, roles)

(* The snapshot in the cache lies between two readings of MySQL's grants. It   *)
(* never lacks a right that a grant on the Resource or on its columns gives an *)
(* account, however many roles lie between them; and where no two accounts of  *)
(* the catalog share a name it holds no right that MySQL does not give at      *)
(* least on some columns (privilegeGraph keys on bareName, and the read makes   *)
(* a column grant one on its table, docs/schema-cache.md). What a grant on a   *)
(* database or on everything gives may be missing.                             *)
SnapshotAgreesWithMySQL ==
    snapshot.version > 0 =>
        \A a \in Accounts :
            /\ OnResource[snapshot.catalog][a] \subseteq snapshot.held[Bare[a]]
            /\ OneHost(snapshot.catalog, a) =>
                   snapshot.held[Bare[a]] \subseteq InPart[snapshot.catalog][a]

\* Every walk ends, cycles or not, and the snapshot reaches the cache.
WalksEnd == building ~> ~building
=============================================================================
