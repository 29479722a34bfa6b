------------------------- MODULE SchemaReloadProofs ------------------------
(***************************************************************************)
(* Theorems about SchemaReload: the served snapshot never goes back, and a *)
(* request is answered from one schema that is no older than its arrival.  *)
(*                                                                         *)
(* The inductive invariant says what a half-finished catalog read may hold *)
(* (ReadInv) and what a request may have seen at each of its steps         *)
(* (WorkerInv).                                                            *)
(***************************************************************************)
EXTENDS SchemaReload, TLAPS

\* The answers gathered so far are between the served snapshot and the catalog.
ReadInv ==
    /\ \A i \in 1..Parts : snapshot[i] <= schema
    /\ \A i \in 1..read : snapshot[i] <= draft[i] /\ draft[i] <= schema

WorkerInv ==
    \A w \in Workers :
        /\ pc[w] = "idle" => used[w] = {}
        /\ pc[w] = "arrived" => used[w] = {} /\ NotOlder(arrival[w], snapshot)
        /\ pc[w] = "admitted" => used[w] = {admitted[w]} /\ NotOlder(arrival[w], admitted[w])

IInv == TypeOK /\ ReadInv /\ WorkerInv

-----------------------------------------------------------------------------
LEMMA BlankIsASnapshot == Blank \in Snapshots
BY BoundAssumption DEF Blank, Snapshots, Versions

\* A snapshot entry is a version, so it can be compared.
LEMMA VersionsCompare ==
    ASSUME NEW s \in Snapshots, NEW i \in 1..Parts
    PROVE  s[i] \in Nat
BY BoundAssumption DEF Snapshots, Versions

LEMMA NotOlderReflexive ==
    ASSUME NEW s \in Snapshots PROVE NotOlder(s, s)
BY VersionsCompare DEF NotOlder

LEMMA NotOlderTransitive ==
    ASSUME NEW s \in Snapshots, NEW t \in Snapshots, NEW u \in Snapshots,
           NotOlder(s, t), NotOlder(t, u)
    PROVE  NotOlder(s, u)
<1> SUFFICES ASSUME NEW i \in 1..Parts PROVE s[i] <= u[i]
    BY DEF NotOlder
<1>1. s[i] \in Nat /\ t[i] \in Nat /\ u[i] \in Nat
    BY VersionsCompare
<1>2. s[i] <= t[i] /\ t[i] <= u[i]
    BY DEF NotOlder
<1> QED BY <1>1, <1>2

-----------------------------------------------------------------------------
LEMMA InitIInv == Init => IInv
<1> SUFFICES ASSUME Init PROVE IInv
    OBVIOUS
<1>1. TypeOK
    <2> USE BlankIsASnapshot, PartsAssumption, BoundAssumption DEF Init
    <2>1. schema \in Versions /\ due \in [Signals -> Versions]
        BY DEF Versions, Signals
    <2>2. arrival \in [Workers -> Snapshots] /\ admitted \in [Workers -> Snapshots]
        OBVIOUS
    <2>3. used \in [Workers -> SUBSET Snapshots]
        OBVIOUS
    <2>4. sent \in 0..MaxSignals /\ taken \in 0..MaxSignals /\ excused \in 0..MaxSignals
        OBVIOUS
    <2>5. read \in 0..Parts /\ draft \in Snapshots /\ snapshot \in Snapshots
        OBVIOUS
    <2>6. /\ pc \in [Workers -> {"idle", "arrived", "admitted"}]
          /\ stage = "reading" /\ reader = "startup" /\ notified = FALSE
          /\ queue \in 0..1 /\ heard = {}
        OBVIOUS
    <2> HIDE DEF Init
    <2> QED BY <2>1, <2>2, <2>3, <2>4, <2>5, <2>6 DEF TypeOK
<1>2. ReadInv
    BY PartsAssumption DEF Init, ReadInv, Blank
<1>3. WorkerInv
    BY DEF Init, WorkerInv
<1> QED BY <1>1, <1>2, <1>3 DEF IInv

-----------------------------------------------------------------------------
(* Types.                                                                  *)

LEMMA NextKeepsTypes == TypeOK /\ [Next]_vars => TypeOK'
<1> SUFFICES ASSUME TypeOK, [Next]_vars PROVE TypeOK'
    OBVIOUS
<1> USE PartsAssumption, BoundAssumption DEF TypeOK
<1>1. CASE ChangeSchema
    BY <1>1 DEF ChangeSchema, bootVars, readVars, signalVars, workerVars, Versions
<1>2. CASE SendSignal
    BY <1>2 DEF SendSignal, bootVars, readVars, workerVars, Versions, Signals
<1>3. CASE ReadStatement
    <2>1. read' \in 0..Parts /\ draft' \in Snapshots
        BY <1>3 DEF ReadStatement, Snapshots
    <2> QED BY <1>3, <2>1 DEF ReadStatement, bootVars, signalVars, workerVars
<1>4. CASE BuildCache
    BY <1>4 DEF BuildCache, signalVars, workerVars
<1>5. CASE Exit
    BY <1>5 DEF Exit, readVars, signalVars, workerVars
<1>6. CASE Listen
    BY <1>6 DEF Listen, readVars, signalVars, workerVars
<1>7. CASE Serve
    BY <1>7 DEF Serve, readVars, signalVars, workerVars
<1>8. CASE Notify
    BY <1>8 DEF Notify, readVars, signalVars, workerVars
<1>9. CASE StartReload
    BY <1>9, BlankIsASnapshot DEF StartReload, bootVars, workerVars
<1>10. CASE Replace
    BY <1>10 DEF Replace, bootVars, signalVars, workerVars
<1>11. CASE ReloadFails
    BY <1>11 DEF ReloadFails, bootVars, workerVars
<1>12. ASSUME NEW w \in Workers, Arrive(w) PROVE TypeOK'
    BY <1>12 DEF Arrive, bootVars, readVars, signalVars
<1>13. ASSUME NEW w \in Workers, Admit(w) PROVE TypeOK'
    BY <1>13 DEF Admit, bootVars, readVars, signalVars
<1>14. ASSUME NEW w \in Workers, Plan(w) PROVE TypeOK'
    BY <1>14 DEF Plan, bootVars, readVars, signalVars
<1>15. ASSUME NEW w \in Workers, Respond(w) PROVE TypeOK'
    BY <1>15 DEF Respond, bootVars, readVars, signalVars
<1>16. CASE UNCHANGED vars
    BY <1>16 DEF vars, bootVars, readVars, signalVars, workerVars
<1> QED BY <1>1, <1>2, <1>3, <1>4, <1>5, <1>6, <1>7, <1>8, <1>9, <1>10, <1>11,
           <1>12, <1>13, <1>14, <1>15, <1>16
        DEF Next, Operator, Main, Reloading, Request, Exited

-----------------------------------------------------------------------------
(* The catalog read.                                                       *)

\* What an action must leave alone to keep ReadInv.
readFacts == <<schema, snapshot, read, draft>>

\* Only ChangeSchema, ReadStatement, StartReload and an installation do not.
LEMMA OthersKeepReadFacts ==
    ASSUME [Next]_vars
    PROVE  \/ ChangeSchema \/ ReadStatement \/ StartReload \/ BuildCache \/ Replace
           \/ UNCHANGED readFacts
<1> USE DEF readFacts, readVars
<1>1. SendSignal \/ Exit \/ Listen \/ Serve \/ Notify \/ ReloadFails => UNCHANGED readFacts
    BY DEF SendSignal, Exit, Listen, Serve, Notify, ReloadFails
<1>2. ASSUME NEW w \in Workers, Request(w) PROVE UNCHANGED readFacts
    BY <1>2 DEF Request, Arrive, Admit, Plan, Respond
<1>3. Exited \/ UNCHANGED vars => UNCHANGED readFacts
    BY DEF Exited, vars
<1> QED BY <1>1, <1>2, <1>3 DEF Next, Operator, Main, Reloading

\* An installation puts in a complete read, which is nowhere older.
LEMMA InstalledIsNewer ==
    ASSUME TypeOK, ReadInv, BuildCache \/ Replace
    PROVE  snapshot' = draft /\ NotOlder(snapshot, snapshot') /\ UNCHANGED <<schema, read, draft>>
BY PartsAssumption DEF TypeOK, ReadInv, BuildCache, Replace, NotOlder

LEMMA NextKeepsReadInv == TypeOK /\ ReadInv /\ [Next]_vars => ReadInv'
<1> SUFFICES ASSUME TypeOK, ReadInv, [Next]_vars PROVE ReadInv'
    OBVIOUS
<1> USE PartsAssumption, BoundAssumption
<1>1. \A i \in 1..Parts : snapshot[i] \in Nat /\ draft[i] \in Nat
    BY VersionsCompare DEF TypeOK
<1>2. schema \in Nat /\ read \in 0..Parts
    BY DEF TypeOK, Versions
<1>3. CASE ChangeSchema
    <2>1. schema' = schema + 1 /\ UNCHANGED <<snapshot, read, draft>>
        BY <1>3 DEF ChangeSchema, readVars
    <2> QED BY <1>1, <1>2, <2>1 DEF ReadInv
<1>4. CASE ReadStatement
    <2>1. /\ read' = read + 1 /\ read + 1 \in 1..Parts
          /\ draft' = [draft EXCEPT ![read + 1] = schema]
          /\ UNCHANGED <<schema, snapshot>>
        BY <1>2, <1>4 DEF ReadStatement
    <2>2. \A i \in 1..(read + 1) :
             i \in 1..Parts /\ draft'[i] = IF i = read + 1 THEN schema ELSE draft[i]
        BY <1>2, <2>1 DEF TypeOK, Snapshots
    <2> QED BY <1>1, <1>2, <2>1, <2>2 DEF ReadInv
<1>5. CASE StartReload
    BY <1>5 DEF StartReload, ReadInv
<1>6. CASE BuildCache \/ Replace
    <2>1. read = Parts
        BY <1>6 DEF BuildCache, Replace
    <2> QED BY <1>1, <1>2, <1>6, <2>1, InstalledIsNewer DEF ReadInv
<1>7. CASE UNCHANGED readFacts
    BY <1>7 DEF readFacts, ReadInv
<1> QED BY <1>3, <1>4, <1>5, <1>6, <1>7, OthersKeepReadFacts

\* A step replaces the snapshot by one that is nowhere older, or not at all.
LEMMA StepNeverOlder ==
    ASSUME TypeOK, ReadInv, [Next]_vars
    PROVE  NotOlder(snapshot, snapshot')
<1>1. CASE BuildCache \/ Replace
    BY <1>1, InstalledIsNewer
<1>2. CASE ChangeSchema \/ ReadStatement \/ StartReload \/ UNCHANGED readFacts
    <2>1. snapshot' = snapshot
        BY <1>2 DEF ChangeSchema, ReadStatement, StartReload, readFacts
    <2> QED BY <2>1, NotOlderReflexive DEF TypeOK
<1> QED BY <1>1, <1>2, OthersKeepReadFacts

-----------------------------------------------------------------------------
(* The requests.                                                           *)

LEMMA OthersKeepWorkers ==
    ASSUME [Next]_vars
    PROVE  (\E w \in Workers : Request(w)) \/ UNCHANGED workerVars
<1> USE DEF workerVars
<1>1. Operator \/ Main \/ Exit \/ Reloading \/ ReadStatement => UNCHANGED workerVars
    BY DEF Operator, ChangeSchema, SendSignal, Main, BuildCache, Listen, Serve, Exit,
           Reloading, Notify, StartReload, Replace, ReloadFails, ReadStatement
<1>2. Exited \/ UNCHANGED vars => UNCHANGED workerVars
    BY DEF Exited, vars
<1> QED BY <1>1, <1>2 DEF Next

LEMMA NextKeepsWorkerInv == IInv /\ [Next]_vars => WorkerInv'
<1> SUFFICES ASSUME IInv, [Next]_vars PROVE WorkerInv'
    OBVIOUS
<1>0. TypeOK /\ WorkerInv /\ TypeOK'
    BY NextKeepsTypes DEF IInv
<1>1. NotOlder(snapshot, snapshot')
    BY StepNeverOlder DEF IInv
<1>2. ASSUME NEW w \in Workers, Request(w) PROVE WorkerInv'
    <2>1. snapshot' = snapshot
        BY <1>2 DEF Request, Arrive, Admit, Plan, Respond
    <2>2. CASE Arrive(w)
        BY <1>0, <2>1, <2>2, NotOlderReflexive DEF Arrive, TypeOK, WorkerInv
    <2>3. CASE Admit(w)
        BY <1>0, <2>3 DEF Admit, TypeOK, WorkerInv
    <2>4. CASE Plan(w)
        BY <1>0, <2>4 DEF Plan, TypeOK, WorkerInv
    <2>5. CASE Respond(w)
        BY <1>0, <2>5 DEF Respond, TypeOK, WorkerInv
    <2> QED BY <1>2, <2>2, <2>3, <2>4, <2>5 DEF Request
<1>3. CASE UNCHANGED workerVars
    <2>1. UNCHANGED <<pc, arrival, admitted, used>>
        BY <1>3 DEF workerVars
    <2>2. \A w \in Workers : pc[w] = "arrived" => NotOlder(arrival[w], snapshot')
        BY <1>0, <1>1, NotOlderTransitive DEF TypeOK, WorkerInv
    <2> QED BY <1>0, <2>1, <2>2 DEF WorkerInv
<1> QED BY <1>2, <1>3, OthersKeepWorkers

-----------------------------------------------------------------------------
LEMMA Invariance == Spec => []IInv
<1>1. IInv /\ [Next]_vars => IInv'
    BY NextKeepsTypes, NextKeepsReadInv, NextKeepsWorkerInv DEF IInv
<1> QED BY InitIInv, <1>1, PTL DEF Spec

\* The types of the process, the reload and the requests hold in every state.
THEOREM TypeCorrect == Spec => []TypeOK
BY Invariance, PTL DEF IInv

\* No reload, whatever DDL runs under it and whatever fails, makes any part of
\* what serves the requests older.
THEOREM CacheNeverGoesBack == Spec => NeverOlder
<1>1. IInv /\ [Next]_vars => [NotOlder(snapshot, snapshot')]_snapshot
    BY StepNeverOlder DEF IInv
<1> QED BY Invariance, <1>1, PTL DEF Spec, NeverOlder

\* A request uses one schema, at least as new as the one that served when it
\* arrived, for any number of reloads beside it.
THEOREM RequestsSeeOneSchema == Spec => []OneFreshSchema
<1>1. IInv => OneFreshSchema
    BY DEF IInv, TypeOK, WorkerInv, OneFreshSchema
<1> QED BY Invariance, <1>1, PTL

=============================================================================
