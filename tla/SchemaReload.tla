---------------------------- MODULE SchemaReload ---------------------------
(***************************************************************************)
(* The schema cache over the life of the process: the start-up of          *)
(* cmd/myrest/main.go, the reloads SIGUSR1 asks for                        *)
(* (schemacache.Reloader, Cache.Replace), the catalog they read statement  *)
(* by statement while DDL goes on (mysqldb/catalog.go), and the requests   *)
(* that plan from one snapshot (httpapi/admission.go).                     *)
(*                                                                         *)
(* The catalog of MySQL is abstracted to a version: `schema' counts the    *)
(* DDL and GRANT statements that have run, and each part of a catalog      *)
(* read is the version at which its statement ran.  MySQL, the signals of  *)
(* the kernel and of the Go runtime are external.                          *)
(***************************************************************************)
EXTENDS Naturals, FiniteSets

CONSTANTS
    Workers,      \* the goroutines that serve HTTP requests
    Parts,        \* the number of statements of one catalog read
    MaxSchema,    \* bound on the DDL statements that run
    MaxSignals    \* bound on the SIGUSR1 that are sent

ASSUME PartsAssumption == Parts \in Nat \ {0}
ASSUME BoundAssumption == MaxSchema \in Nat /\ MaxSignals \in Nat

VARIABLES
    schema,       \* the version of MySQL's own catalog
    stage,        \* how far main has come
    notified,     \* signal.Notify has run: SIGUSR1 reaches the channel
    queue,        \* signals that wait in the channel, whose buffer is 1
    reader,       \* what reads the catalog now
    read,         \* the statements of the catalog read that have answered
    draft,        \* draft[i]: the version statement i answered from
    snapshot,     \* Cache.snapshot, part by part
    sent,         \* the number of SIGUSR1 sent since myrest listens
    due,          \* due[k]: the version when signal k was sent
    heard,        \* the signals sent after signal.Notify
    taken,        \* the signals sent when the current reload began
    excused,      \* the signals whose reload failed, with a line in the log
    pc,           \* pc[w]: what worker w does
    arrival,      \* arrival[w]: the snapshot in use when its request arrived
    admitted,     \* admitted[w]: the snapshot its admission carries
    used          \* used[w]: the snapshots its facts came from

bootVars    == <<stage, notified>>
readVars    == <<reader, read, draft>>
signalVars  == <<queue, sent, due, heard, taken, excused>>
workerVars  == <<pc, arrival, admitted, used>>
vars == <<schema, bootVars, readVars, snapshot, signalVars, workerVars>>

Versions == 0..MaxSchema
Signals  == 1..MaxSignals
Snapshots == [1..Parts -> Versions]
Blank == [i \in 1..Parts |-> 0]
Up == stage \in {"listening", "serving"}

TypeOK ==
    /\ schema \in Versions
    /\ stage \in {"reading", "built", "listening", "serving", "exited"}
    /\ notified \in BOOLEAN
    /\ queue \in 0..1
    /\ reader \in {"startup", "wait", "reload"}
    /\ read \in 0..Parts
    /\ draft \in Snapshots
    /\ snapshot \in Snapshots
    /\ sent \in 0..MaxSignals
    /\ due \in [Signals -> Versions]
    /\ heard \subseteq Signals
    /\ taken \in 0..MaxSignals
    /\ excused \in 0..MaxSignals
    /\ pc \in [Workers -> {"idle", "arrived", "admitted"}]
    /\ arrival \in [Workers -> Snapshots]
    /\ admitted \in [Workers -> Snapshots]
    /\ used \in [Workers -> SUBSET Snapshots]

Init ==
    /\ schema = 0
    /\ stage = "reading" /\ notified = FALSE
    /\ reader = "startup" /\ read = 0 /\ draft = Blank
    /\ snapshot = Blank
    /\ queue = 0 /\ sent = 0 /\ due = [k \in Signals |-> 0]
    /\ heard = {} /\ taken = 0 /\ excused = 0
    /\ pc = [w \in Workers |-> "idle"]
    /\ arrival = [w \in Workers |-> Blank]
    /\ admitted = [w \in Workers |-> Blank]
    /\ used = [w \in Workers |-> {}]

-----------------------------------------------------------------------------
(* The operator: DDL or a grant in MySQL, and SIGUSR1 to myrest.           *)

ChangeSchema ==
    /\ stage # "exited" /\ schema < MaxSchema
    /\ schema' = schema + 1
    /\ UNCHANGED <<bootVars, readVars, snapshot, signalVars, workerVars>>

\* The channel has room for every signal.
BugQueueEverySignal ==
    /\ Up /\ sent < MaxSignals
    /\ sent' = sent + 1
    /\ due' = [due EXCEPT ![sent + 1] = schema]
    /\ heard' = IF notified THEN heard \cup {sent + 1} ELSE heard
    /\ queue' = IF notified THEN queue + 1 ELSE queue
    /\ UNCHANGED <<schema, bootVars, readVars, snapshot, taken, excused, workerVars>>

\* The runtime drops a signal nobody is notified of, and signal.Notify drops
\* one the full channel has no room for.
SendSignal ==
    /\ Up /\ sent < MaxSignals
    /\ sent' = sent + 1
    /\ due' = [due EXCEPT ![sent + 1] = schema]
    /\ heard' = IF notified THEN heard \cup {sent + 1} ELSE heard
    /\ queue' = IF notified THEN 1 ELSE queue
    /\ UNCHANGED <<schema, bootVars, readVars, snapshot, taken, excused, workerVars>>

-----------------------------------------------------------------------------
(* readCatalog: one statement after another, in no transaction.            *)

ReadStatement ==
    /\ stage # "exited" /\ reader # "wait" /\ read < Parts
    /\ read' = read + 1
    /\ draft' = [draft EXCEPT ![read + 1] = schema]
    /\ UNCHANGED <<schema, bootVars, reader, snapshot, signalVars, workerVars>>

-----------------------------------------------------------------------------
(* main: read the catalog, listen, start reloadOnSignal, serve.            *)

BuildCache ==
    /\ stage = "reading" /\ read = Parts
    /\ snapshot' = draft
    /\ stage' = "built"
    /\ reader' = "wait"
    /\ UNCHANGED <<schema, notified, read, draft, signalVars, workerVars>>

\* log.Fatalf: the catalog, the address or the listener fails.
Exit ==
    /\ stage \in {"reading", "built", "serving"}
    /\ stage' = "exited"
    /\ UNCHANGED <<schema, notified, readVars, snapshot, signalVars, workerVars>>

Listen ==
    /\ stage = "built"
    /\ stage' = "listening"
    /\ UNCHANGED <<schema, notified, readVars, snapshot, signalVars, workerVars>>

\* The goroutine of reloadOnSignal asks for the signal when it first runs.
Notify ==
    /\ Up /\ ~notified
    /\ notified' = TRUE
    /\ UNCHANGED <<schema, stage, readVars, snapshot, signalVars, workerVars>>

Serve ==
    /\ stage = "listening"
    /\ stage' = "serving"
    /\ UNCHANGED <<schema, notified, readVars, snapshot, signalVars, workerVars>>

-----------------------------------------------------------------------------
(* reloadOnSignal: for range signals { reloader.Reload }.                  *)

\* The receive empties the channel before the catalog is read.
StartReload ==
    /\ Up /\ reader = "wait" /\ queue = 1
    /\ queue' = 0
    /\ reader' = "reload" /\ read' = 0 /\ draft' = Blank
    /\ taken' = sent
    /\ UNCHANGED <<schema, bootVars, snapshot, sent, due, heard, excused, workerVars>>

\* The channel is drained after the read: a signal sent meanwhile is lost.
BugReplaceAndDrain ==
    /\ Up /\ reader = "reload" /\ read = Parts
    /\ snapshot' = draft
    /\ reader' = "wait"
    /\ queue' = 0
    /\ UNCHANGED <<schema, bootVars, read, draft, sent, due, heard, taken, excused, workerVars>>

\* The cache is replaced by what an incomplete read has gathered.
BugReplaceEarly ==
    /\ Up /\ reader = "reload"
    /\ snapshot' = draft
    /\ reader' = "wait"
    /\ UNCHANGED <<schema, bootVars, read, draft, signalVars, workerVars>>

\* Cache.Replace: the snapshot is built first, then put in under the lock.
Replace ==
    /\ Up /\ reader = "reload" /\ read = Parts
    /\ snapshot' = draft
    /\ reader' = "wait"
    /\ UNCHANGED <<schema, bootVars, read, draft, signalVars, workerVars>>

\* The connection or a statement fails: the old snapshot stays, the log says
\* so, and no one tries again.
ReloadFails ==
    /\ Up /\ reader = "reload"
    /\ reader' = "wait"
    /\ excused' = taken
    /\ UNCHANGED <<schema, bootVars, read, draft, snapshot,
                   queue, sent, due, heard, taken, workerVars>>

-----------------------------------------------------------------------------
(* A request: admit takes the snapshot once; the embeds, the keys and the  *)
(* grants the request plans with come from the admission.                  *)

Arrive(w) ==
    /\ stage = "serving" /\ pc[w] = "idle"
    /\ pc' = [pc EXCEPT ![w] = "arrived"]
    /\ arrival' = [arrival EXCEPT ![w] = snapshot]
    /\ UNCHANGED <<schema, bootVars, readVars, snapshot, signalVars, admitted, used>>

Admit(w) ==
    /\ stage = "serving" /\ pc[w] = "arrived"
    /\ pc' = [pc EXCEPT ![w] = "admitted"]
    /\ admitted' = [admitted EXCEPT ![w] = snapshot]
    /\ used' = [used EXCEPT ![w] = {snapshot}]
    /\ UNCHANGED <<schema, bootVars, readVars, snapshot, signalVars, arrival>>

\* A later step asks the cache again (issue #230).
BugPlanFromCache(w) ==
    /\ stage = "serving" /\ pc[w] = "admitted"
    /\ used' = [used EXCEPT ![w] = @ \cup {snapshot}]
    /\ UNCHANGED <<schema, bootVars, readVars, snapshot, signalVars, pc, arrival, admitted>>

Plan(w) ==
    /\ stage = "serving" /\ pc[w] = "admitted"
    /\ used' = [used EXCEPT ![w] = @ \cup {admitted[w]}]
    /\ UNCHANGED <<schema, bootVars, readVars, snapshot, signalVars, pc, arrival, admitted>>

Respond(w) ==
    /\ stage = "serving" /\ pc[w] \in {"arrived", "admitted"}
    /\ pc' = [pc EXCEPT ![w] = "idle"]
    /\ used' = [used EXCEPT ![w] = {}]
    /\ UNCHANGED <<schema, bootVars, readVars, snapshot, signalVars, arrival, admitted>>

-----------------------------------------------------------------------------
Request(w) == Arrive(w) \/ Admit(w) \/ Plan(w) \/ Respond(w)
Main       == BuildCache \/ Listen \/ Serve
Reloading  == Notify \/ StartReload \/ Replace \/ ReloadFails
Operator   == ChangeSchema \/ SendSignal
\* The process has ended.
Exited     == stage = "exited" /\ UNCHANGED vars

Next ==
    \/ Operator \/ Main \/ Exit \/ Reloading \/ ReadStatement \/ Exited
    \/ \E w \in Workers : Request(w)

Spec == Init /\ [][Next]_vars

(***************************************************************************)
(* Fairness: main and the goroutine of reloadOnSignal are run by the Go    *)
(* scheduler, and a statement of the catalog answers or fails.  Nothing is *)
(* assumed of the operator or of the clients.                              *)
(***************************************************************************)
FairSpec == Spec /\ WF_vars(Main) /\ WF_vars(Reloading \/ ReadStatement)

-----------------------------------------------------------------------------
NotOlder(old, new) == \A i \in 1..Parts : old[i] <= new[i]

\* What serves the requests never goes back in time: no part of the snapshot
\* is replaced by an older one, whatever fails in between (reloader.go: "only
\* after a successful read").
NeverOlder == [][NotOlder(snapshot, snapshot')]_snapshot

\* A request is answered from one schema, however many reloads run beside it
\* (admission.go, issue #230), and that schema is no older than the one in use
\* when the request arrived (cache.go: "After it returns, Resource answers
\* from the new facts alone").
OneFreshSchema ==
    \A w \in Workers : \A s, t \in used[w] : s = t /\ NotOlder(arrival[w], s)

Reflects(k) == \A i \in 1..Parts : due[k] <= snapshot[i]

\* A SIGUSR1 the process is notified of is never lost, even one that comes
\* while a catalog is being read or while another waits: in the end every part
\* of the cache is as new as the catalog was when it was sent, unless the log
\* tells that its reload failed or the process has ended.
SignalHonoured ==
    \A k \in Signals : k \in heard ~> Reflects(k) \/ excused >= k \/ stage = "exited"

LastReloadSucceeded == reader = "wait" /\ excused < taken

\* ADR 0003: "after a successful reload the cache must match current catalog
\* and grant data", so all of its parts tell of one moment.
OnePicture == LastReloadSucceeded => \A i, j \in 1..Parts : snapshot[i] = snapshot[j]

=============================================================================
