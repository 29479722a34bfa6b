-------------------------- MODULE PrivilegesProofs --------------------------
(* Proofs about Privileges, for every catalog and every order of the walks:    *)
(* types, the closure each walk computes, and that the snapshot in the cache   *)
(* lies between two readings of what MySQL grants.                             *)
EXTENDS Privileges, TLAPS

\* The walk that runs has entered or will enter every role its rights come from.
WalkInv ==
    asked # NoRole =>
        /\ asked \in walked \cup waiting
        /\ \A role \in walked : GrantedTo(catalog, role) \subseteq walked \cup waiting
        /\ \A s \in SUBSET Roles :
               (asked \in s /\ Closed(catalog, s)) => walked \cup waiting \subseteq s
        /\ found = RightsOf(catalog, walked)

\* Rights that are those of the smallest closed set of names.
Least(c, role, rights) ==
    \E roles \in SUBSET Roles : LeastClosed(c, role, roles) /\ rights = RightsOf(c, roles)

SnapshotInv ==
    snapshot.version > 0 =>
        \A role \in Roles : Least(snapshot.catalog, role, snapshot.held[role])

\* A role whose walk has not ended has no rights yet.
HeldInv == \A role \in Roles \ answered : held[role] = {}

IdleInv == ~building => asked = NoRole

IInv == BuildTypeOK /\ WalkInv /\ ClosureIsLeast /\ SnapshotInv /\ HeldInv /\ IdleInv

\* ClosureIsLeast, role by role.
LEMMA LeastIs ==
    ASSUME NEW c \in Catalogs, NEW role \in Roles, NEW rights
    PROVE  Least(c, role, rights) <=> \E roles \in LeastSets[c][role] : rights = RightsOf(c, roles)
<1>1. LeastSets[c][role] = {roles \in SUBSET Roles : LeastClosed(c, role, roles)}
  BY DEF LeastSets
<1> QED
  BY <1>1 DEF Least

LEMMA GraphTypes ==
    ASSUME NEW c \in Catalogs, NEW role
    PROVE  GrantedTo(c, role) \subseteq Roles /\ Direct(c, role) \subseteq Rights
           /\ Known(c) \subseteq Roles
<1>1. Data[c].granted \subseteq Accounts \X Accounts /\ Facts(c) \subseteq Accounts \X Rights
  BY CatalogsAssumption DEF Facts
<1>2. \A a \in Accounts : Bare[a] \in Roles
  BY BareAssumption
<1>3. GrantedTo(c, role) \subseteq Roles
  BY <1>1, <1>2 DEF GrantedTo
<1>4. Direct(c, role) \subseteq Rights
  BY <1>1 DEF Direct
<1>5. Known(c) \subseteq Roles
  BY <1>1, <1>2 DEF Known
<1> QED
  BY <1>3, <1>4, <1>5

\* A role no grant and no right names reaches nothing.
LEMMA UnknownHoldsNothing ==
    ASSUME NEW c \in Catalogs, NEW role \in Roles, role \notin Known(c)
    PROVE  Least(c, role, {})
<1>1. GrantedTo(c, role) = {} /\ Direct(c, role) = {}
  BY DEF GrantedTo, Direct, Known
<1>2. LeastClosed(c, role, {role})
  BY <1>1 DEF LeastClosed, Closed
<1>3. RightsOf(c, {role}) = {}
  BY <1>1 DEF RightsOf
<1> QED
  BY <1>2, <1>3 DEF Least

LEMMA InitHolds == BuildInit => IInv
<1> SUFFICES ASSUME BuildInit PROVE IInv
  OBVIOUS
<1>1. BuildTypeOK
  BY MaxLoadsAssumption DEF BuildInit, BuildTypeOK, Nothing
<1>2. WalkInv /\ ClosureIsLeast /\ SnapshotInv /\ HeldInv /\ IdleInv
  BY DEF BuildInit, WalkInv, ClosureIsLeast, SnapshotInv, HeldInv, IdleInv, Nothing
<1> QED
  BY <1>1, <1>2 DEF IInv

LEMMA LoadKeeps == IInv /\ Load => IInv'
<1> SUFFICES ASSUME IInv, Load PROVE IInv'
  OBVIOUS
<1>0. BuildTypeOK /\ SnapshotInv /\ asked = NoRole
  BY DEF IInv, IdleInv, Load
<1>1. BuildTypeOK'
  BY <1>0, MaxLoadsAssumption DEF BuildTypeOK, Load, Nothing
<1>2. WalkInv' /\ ClosureIsLeast' /\ HeldInv' /\ IdleInv'
  BY <1>0 DEF WalkInv, ClosureIsLeast, HeldInv, IdleInv, Load, Nothing
<1>3. SnapshotInv'
  BY <1>0 DEF SnapshotInv, Load
<1> QED
  BY <1>1, <1>2, <1>3 DEF IInv

LEMMA StartWalkKeeps == ASSUME NEW role \in Roles PROVE IInv /\ StartWalk(role) => IInv'
<1> SUFFICES ASSUME IInv, StartWalk(role) PROVE IInv'
  OBVIOUS
<1>1. BuildTypeOK'
  BY DEF IInv, BuildTypeOK, StartWalk
<1>2. WalkInv'
  BY DEF WalkInv, StartWalk, RightsOf
<1>3. ClosureIsLeast' /\ SnapshotInv' /\ HeldInv' /\ IdleInv'
  BY DEF IInv, ClosureIsLeast, SnapshotInv, HeldInv, IdleInv, StartWalk
<1> QED
  BY <1>1, <1>2, <1>3 DEF IInv

LEMMA LeaveKeeps == ASSUME NEW role \in Roles PROVE IInv /\ Leave(role) => IInv'
<1> SUFFICES ASSUME IInv, Leave(role) PROVE IInv'
  OBVIOUS
<1>0. walked' \cup waiting' = walked \cup waiting
  BY DEF Leave
<1>1. BuildTypeOK'
  BY DEF IInv, BuildTypeOK, Leave
<1>2. WalkInv'
  BY <1>0 DEF IInv, WalkInv, Leave
<1>3. ClosureIsLeast' /\ SnapshotInv' /\ HeldInv' /\ IdleInv'
  BY DEF IInv, ClosureIsLeast, SnapshotInv, HeldInv, IdleInv, Leave
<1> QED
  BY <1>1, <1>2, <1>3 DEF IInv

LEMMA EnterKeeps == ASSUME NEW role \in Roles PROVE IInv /\ Enter(role) => IInv'
<1> SUFFICES ASSUME IInv, Enter(role) PROVE IInv'
  OBVIOUS
<1>0. BuildTypeOK /\ WalkInv /\ catalog' = catalog /\ asked' = asked
  BY DEF IInv, Enter
<1>1. GrantedTo(catalog, role) \subseteq Roles /\ Direct(catalog, role) \subseteq Rights
  BY <1>0, GraphTypes DEF BuildTypeOK
<1>2. BuildTypeOK'
  BY <1>0, <1>1 DEF BuildTypeOK, Enter
<1>3. walked' \cup waiting' = walked \cup waiting \cup GrantedTo(catalog, role)
  BY DEF Enter
<1>4. WalkInv'
  <2> SUFFICES ASSUME asked # NoRole
               PROVE  /\ asked \in walked' \cup waiting'
                      /\ \A r \in walked' : GrantedTo(catalog, r) \subseteq walked' \cup waiting'
                      /\ \A s \in SUBSET Roles :
                            (asked \in s /\ Closed(catalog, s)) => walked' \cup waiting' \subseteq s
                      /\ found' = RightsOf(catalog, walked')
    BY <1>0 DEF WalkInv
  <2>1. asked \in walked' \cup waiting'
    BY <1>0, <1>3 DEF WalkInv
  <2>2. \A r \in walked' : GrantedTo(catalog, r) \subseteq walked' \cup waiting'
    BY <1>0, <1>3 DEF WalkInv, Enter
  <2>3. ASSUME NEW s \in SUBSET Roles, asked \in s, Closed(catalog, s)
        PROVE  walked' \cup waiting' \subseteq s
    <3>1. walked \cup waiting \subseteq s
      BY <1>0, <2>3 DEF WalkInv
    <3>2. role \in s
      BY <3>1 DEF Enter
    <3>3. GrantedTo(catalog, role) \subseteq s
      BY <2>3, <3>2 DEF Closed
    <3> QED
      BY <1>3, <3>1, <3>3
  <2>4. found' = RightsOf(catalog, walked')
    BY <1>0 DEF WalkInv, Enter, RightsOf
  <2> QED
    BY <2>1, <2>2, <2>3, <2>4
<1>5. ClosureIsLeast' /\ SnapshotInv' /\ HeldInv' /\ IdleInv'
  BY DEF IInv, ClosureIsLeast, SnapshotInv, HeldInv, IdleInv, Enter
<1> QED
  BY <1>2, <1>4, <1>5 DEF IInv

LEMMA EndWalkKeeps == IInv /\ EndWalk => IInv'
<1> SUFFICES ASSUME IInv, EndWalk PROVE IInv'
  OBVIOUS
<1>0. BuildTypeOK /\ WalkInv /\ ClosureIsLeast /\ asked \in Roles /\ catalog' = catalog
  BY DEF IInv, EndWalk, BuildTypeOK
<1>1. BuildTypeOK'
  BY <1>0 DEF BuildTypeOK, EndWalk
<1>2. WalkInv' /\ IdleInv'
  BY DEF WalkInv, IdleInv, EndWalk
<1>3. HeldInv'
  BY <1>0 DEF IInv, HeldInv, EndWalk, BuildTypeOK
<1>4. LeastClosed(catalog, asked, walked)
  BY <1>0 DEF WalkInv, EndWalk, LeastClosed, Closed, BuildTypeOK
<1>5. ClosureIsLeast'
  <2>1. \A role \in answered' : role = asked \/ role \in answered
    BY DEF EndWalk
  <2>2. /\ held'[asked] = RightsOf(catalog, walked)
        /\ \A role \in Roles : role # asked => held'[role] = held[role]
    BY <1>0 DEF EndWalk, WalkInv, BuildTypeOK
  <2>3. ASSUME NEW role \in answered'
        PROVE  \E roles \in LeastSets[catalog][role] : held'[role] = RightsOf(catalog, roles)
    <3>0. role \in Roles /\ catalog \in Catalogs
      BY <1>0, <2>1 DEF BuildTypeOK
    <3>1. CASE role = asked
      <4>1. Least(catalog, role, held'[role])
        BY <1>0, <1>4, <2>2, <3>1 DEF BuildTypeOK, Least
      <4> QED
        BY <3>0, <4>1, LeastIs
    <3>2. CASE role # asked
      BY <1>0, <2>1, <2>2, <3>0, <3>2 DEF ClosureIsLeast
    <3> QED
      BY <3>1, <3>2
  <2> QED
    BY <1>0, <2>3 DEF ClosureIsLeast
<1>6. SnapshotInv'
  BY DEF IInv, SnapshotInv, EndWalk
<1> QED
  BY <1>1, <1>2, <1>3, <1>5, <1>6 DEF IInv

LEMMA ReplaceKeeps == IInv /\ Replace => IInv'
<1> SUFFICES ASSUME IInv, Replace PROVE IInv'
  OBVIOUS
<1>0. BuildTypeOK
  BY DEF IInv
<1>1. BuildTypeOK'
  <2>1. snapshot' = [catalog |-> catalog, held |-> held, version |-> snapshot.version + 1]
    BY DEF Replace
  <2>2. snapshot'.catalog \in Catalogs /\ snapshot'.held \in [Roles -> SUBSET Rights]
        /\ snapshot'.version \in Nat
    BY <1>0, <2>1 DEF BuildTypeOK
  <2> QED
    BY <1>0, <2>2 DEF BuildTypeOK, Replace
<1>2. WalkInv' /\ ClosureIsLeast' /\ HeldInv' /\ IdleInv'
  BY DEF IInv, WalkInv, ClosureIsLeast, HeldInv, IdleInv, Replace
<1>3. ASSUME NEW role \in Roles PROVE Least(catalog, role, held[role])
  <2>1. CASE role \in answered
    <3>1. \E roles \in LeastSets[catalog][role] : held[role] = RightsOf(catalog, roles)
      BY <2>1 DEF IInv, ClosureIsLeast
    <3> QED
      BY <1>0, <3>1, LeastIs DEF BuildTypeOK
  <2>2. CASE role \notin answered
    <3>1. role \notin Known(catalog) /\ held[role] = {}
      BY <2>2 DEF Replace, IInv, HeldInv
    <3> QED
      BY <1>0, <3>1, UnknownHoldsNothing DEF BuildTypeOK
  <2> QED
    BY <2>1, <2>2
<1>4. SnapshotInv'
  BY <1>3 DEF SnapshotInv, Replace
<1> QED
  BY <1>1, <1>2, <1>4 DEF IInv

LEMMA StepKeeps == IInv /\ [BuildNext]_buildVars => IInv'
<1> SUFFICES ASSUME IInv, [BuildNext]_buildVars PROVE IInv'
  OBVIOUS
<1>1. CASE Load
  BY <1>1, LoadKeeps
<1>2. ASSUME NEW role \in Roles, StartWalk(role) PROVE IInv'
  BY <1>2, StartWalkKeeps
<1>3. ASSUME NEW role \in Roles, Leave(role) PROVE IInv'
  BY <1>3, LeaveKeeps
<1>4. ASSUME NEW role \in Roles, Enter(role) PROVE IInv'
  BY <1>4, EnterKeeps
<1>5. CASE EndWalk
  BY <1>5, EndWalkKeeps
<1>6. CASE Replace
  BY <1>6, ReplaceKeeps
<1>7. CASE UNCHANGED buildVars
  BY <1>7 DEF buildVars, IInv, BuildTypeOK, WalkInv, ClosureIsLeast, SnapshotInv, HeldInv, IdleInv
<1> QED
  BY <1>1, <1>2, <1>3, <1>4, <1>5, <1>6, <1>7 DEF BuildNext, Walk

\* Types hold on every run of the build.
THEOREM BuildTypeCorrect == BuildSpec => []BuildTypeOK
<1>1. IInv => BuildTypeOK
  BY DEF IInv
<1> QED
  BY InitHolds, StepKeeps, <1>1, PTL DEF BuildSpec

\* Every walk that has ended found the rights of the smallest closed set of
\* names (walkTablePrivileges, walkRoutinePrivileges).
THEOREM WalkFindsClosure == BuildSpec => []ClosureIsLeast
<1>1. IInv => ClosureIsLeast
  BY DEF IInv
<1> QED
  BY InitHolds, StepKeeps, <1>1, PTL DEF BuildSpec

LEMMA ReadingsAre ==
    ASSUME NEW c \in Catalogs, NEW a \in Accounts
    PROVE  /\ OnResource[c][a] = Reached(c, a, Facts(c))
           /\ InPart[c][a] = Reached(c, a, Facts(c) \cup Data[c].wide)
BY DEF OnResource, InPart, Facts

\* The rights the facts give an account in MySQL are rights of its name: the
\* accounts of a closed set of names are closed in MySQL.
LEMMA NeverTooFew ==
    ASSUME NEW c \in Catalogs, NEW a \in Accounts, NEW rights, Least(c, Bare[a], rights)
    PROVE  OnResource[c][a] \subseteq rights
<1>1. PICK roles \in SUBSET Roles : LeastClosed(c, Bare[a], roles) /\ rights = RightsOf(c, roles)
  BY DEF Least
<1>2. Data[c].granted \subseteq Accounts \X Accounts /\ Facts(c) \subseteq Accounts \X Rights
  BY CatalogsAssumption DEF Facts
<1> DEFINE s == {b \in Accounts : Bare[b] \in roles}
<1>3. ASSUME NEW g \in Data[c].granted, g[1] \in s PROVE g[2] \in s
  <2>1. g[2] \in Accounts
    BY <1>2
  <2>2. Bare[g[2]] \in GrantedTo(c, Bare[g[1]])
    BY DEF GrantedTo
  <2>3. GrantedTo(c, Bare[g[1]]) \subseteq roles
    BY <1>1, <1>3 DEF LeastClosed, Closed
  <2> QED
    BY <2>1, <2>2, <2>3
<1>4. a \in s /\ s \in SUBSET Accounts /\ ClosedInMySQL(c, s)
  BY <1>1, <1>3 DEF LeastClosed, ClosedInMySQL
<1>5. ASSUME NEW right \in OnResource[c][a] PROVE right \in rights
  <2>1. PICK b \in s : <<b, right>> \in Facts(c)
    BY <1>4, <1>5, ReadingsAre DEF Reached
  <2>2. right \in Direct(c, Bare[b])
    BY <2>1 DEF Direct
  <2> QED
    BY <1>1, <2>2 DEF RightsOf
<1> QED
  BY <1>5

\* Where names are not shared, the names of a set closed in MySQL are closed.
LEMMA NeverTooMany ==
    ASSUME NEW c \in Catalogs, NEW a \in Accounts, OneHost(c, a),
           NEW rights, Least(c, Bare[a], rights)
    PROVE  rights \subseteq InPart[c][a]
<1>1. PICK roles \in SUBSET Roles : LeastClosed(c, Bare[a], roles) /\ rights = RightsOf(c, roles)
  BY DEF Least
<1>2. Data[c].granted \subseteq Accounts \X Accounts /\ Facts(c) \subseteq Accounts \X Rights
  BY CatalogsAssumption DEF Facts
<1>a. rights \subseteq Rights
  BY <1>1, GraphTypes DEF RightsOf
<1> SUFFICES ASSUME NEW right \in rights,
                    NEW s \in SUBSET Accounts, a \in s, ClosedInMySQL(c, s)
             PROVE  \E b \in s : <<b, right>> \in Facts(c)
  BY <1>a, ReadingsAre DEF Reached
<1>3. PICK role \in roles : right \in Direct(c, role)
  BY <1>1 DEF RightsOf
<1>4. PICK f \in Facts(c) : Bare[f[1]] = role /\ f[2] = right
  BY <1>3 DEF Direct
<1> DEFINE names == {Bare[b] : b \in s \cap (Named(c) \cup {a})}
<1>5. names \in SUBSET Roles /\ Bare[a] \in names
  BY BareAssumption
<1>6. ASSUME NEW r \in names, NEW g \in Data[c].granted, Bare[g[1]] = r
      PROVE  Bare[g[2]] \in names
  <2>1. PICK b \in s \cap (Named(c) \cup {a}) : r = Bare[b]
    OBVIOUS
  <2>2. g[1] \in Named(c) /\ g[2] \in Named(c)
    BY DEF Named
  <2>3. g[1] = b
    BY <1>6, <2>1, <2>2 DEF OneHost
  <2>4. g[2] \in s
    BY <2>1, <2>3 DEF ClosedInMySQL
  <2> QED
    BY <2>2, <2>4
<1>7. Closed(c, names)
  BY <1>6 DEF Closed, GrantedTo
<1>8. roles \subseteq names
  BY <1>1, <1>5, <1>7 DEF LeastClosed
<1>9. PICK b \in s \cap (Named(c) \cup {a}) : role = Bare[b]
  BY <1>8
<1>10. f[1] = b
  <2>1. f[1] \in Named(c)
    BY DEF Named
  <2> QED
    BY <1>4, <1>9, <2>1 DEF OneHost
<1>11. f = <<b, right>>
  BY <1>2, <1>4, <1>10
<1> QED
  BY <1>9, <1>11

\* The cache lacks nothing that grants on a Resource or its columns give through
\* any chain of roles, and where no two accounts of the catalog share a name it
\* holds nothing MySQL does not give at least in part (privilegeGraph, bareName).
THEOREM CacheAgreesWithMySQL == BuildSpec => []SnapshotAgreesWithMySQL
<1>1. IInv => SnapshotAgreesWithMySQL
  <2> SUFFICES ASSUME IInv, snapshot.version > 0, NEW a \in Accounts
               PROVE  /\ OnResource[snapshot.catalog][a] \subseteq snapshot.held[Bare[a]]
                      /\ OneHost(snapshot.catalog, a) =>
                            snapshot.held[Bare[a]] \subseteq InPart[snapshot.catalog][a]
    BY DEF SnapshotAgreesWithMySQL
  <2>1. Least(snapshot.catalog, Bare[a], snapshot.held[Bare[a]])
    BY BareAssumption DEF IInv, SnapshotInv
  <2>2. snapshot.catalog \in Catalogs
    BY DEF IInv, BuildTypeOK
  <2> QED
    BY <2>1, <2>2, NeverTooFew, NeverTooMany
<1> QED
  BY InitHolds, StepKeeps, <1>1, PTL DEF BuildSpec
=============================================================================
