---------------------------- MODULE RequestPool ----------------------------
(***************************************************************************)
(* The pool of authenticator connections and the statements that requests  *)
(* run on them: internal/mysqldb/pool.go, prerequest.go and tx.go.         *)
(*                                                                         *)
(* A request here is one use of a connection: a catalog read               *)
(* (Pool.Catalog), an ordinary read (onRequest) or a write or RPC unit     *)
(* (withRequestTx).  Every statement is a step of its own, so the steps of *)
(* the handler, of the goroutine with which database/sql watches the       *)
(* context of a transaction, of the other requests and of a network that   *)
(* drops connections interleave freely.                                    *)
(*                                                                         *)
(* database/sql, the driver and the MySQL session are external: they are   *)
(* modelled from how pool.go and tx.go use them.                           *)
(*                                                                         *)
(* An operator named Bug... is a faulty variant of the definition below    *)
(* it.  The specification never uses it: it is there to show which         *)
(* property notices the fault.                                             *)
(***************************************************************************)
EXTENDS TxEnd, Naturals, FiniteSets

CONSTANTS
    Requests,     \* uses of a connection, one HTTP request makes one or more
    Conns,        \* bound on the connections open at one time
    Roles,        \* the database roles requests may activate
    NoRole,       \* no active role: SET ROLE NONE
    AllRoles,     \* every role of the authenticator: SET ROLE ALL
    LoginRole,    \* what a fresh login has active (DEFAULT ROLE of the account)
    NoConn,       \* "holds no connection"
    MaxIdle,      \* idle connections database/sql keeps (its default is 2)
    PreRequest,   \* TRUE when db-pre-request names a hook
    TxEndMode,    \* the value of db-tx-end
    Jobs          \* what requests run: kind, role and Prefer: tx=

ASSUME NoConnAssumption    == NoConn \notin Conns
ASSUME RoleAssumption      == NoRole \notin Roles /\ AllRoles \notin Roles /\ NoRole # AllRoles
ASSUME LoginRoleAssumption == LoginRole = NoRole
ASSUME KnobAssumption      == PreRequest \in BOOLEAN /\ TxEndMode \in TxEndModes
ASSUME JobAssumption       == Jobs \subseteq [kind : {"catalog", "read", "unit"},
                                              role : Roles, prefer : TxPrefers]

VARIABLES
    job,      \* job[r]: what the request runs, as whom, and its Prefer: tx=
    pc,       \* pc[r]: the statement the handler runs next
    held,     \* held[r]: the connection it has checked out
    failed,   \* failed[r]: the handler is returning an error
    gone,     \* gone[r]: its context is done (the client went away)
    tx,       \* tx[r]: the sql.Tx of a unit
    effect,   \* effect[r]: what has become of the data the request changed
    place,    \* place[c]: where the pool has the connection
    live,     \* live[c]: the MySQL session exists
    active,   \* active[c]: the roles active in the session
    inTx      \* inTx[c]: a transaction is open in the session

handlerVars == <<job, pc, held, failed, gone>>
poolVars    == <<place, live, active, inTx>>
vars        == <<job, pc, held, failed, gone, tx, effect, place, live, active, inTx>>

Steps == {"new", "connect", "switch", "begin", "hook", "work", "end", "commit",
          "claim", "wire", "rollback", "clear", "close", "answer", "ok", "error"}
\* The steps between a successful SET ROLE and the deferred clean-up.
Serving == {"begin", "hook", "work", "end", "commit", "claim", "wire"}
\* The steps at which the handler has a connection checked out.
Holding == Serving \cup {"switch", "rollback", "clear", "close"}
TxStates == {"none", "open", "handler", "watcher", "released"}
Effects  == {"none", "open", "kept", "doubt", "undone"}
Places   == {"absent", "idle", "held", "bad"}

\* The types, and who holds a connection: a request between its checkout and
\* its conn.Close, on every path.
TypeOK ==
    /\ job \in [Requests -> Jobs]
    /\ pc \in [Requests -> Steps]
    /\ held \in [Requests -> Conns \cup {NoConn}]
    /\ \A r \in Requests : held[r] # NoConn <=> pc[r] \in Holding
    /\ failed \in [Requests -> BOOLEAN]
    /\ gone \in [Requests -> BOOLEAN]
    /\ tx \in [Requests -> TxStates]
    /\ effect \in [Requests -> Effects]
    /\ place \in [Conns -> Places]
    /\ live \in [Conns -> BOOLEAN]
    /\ active \in [Conns -> Roles \cup {NoRole, AllRoles}]
    /\ inTx \in [Conns -> BOOLEAN]

\* The roles a request activates: SET ROLE ALL for the catalog alone.
Wanted(r) == IF job[r].kind = "catalog" THEN AllRoles ELSE job[r].role
IsUnit(r) == job[r].kind = "unit"
Commits(r) == DecideCommit(TxEndMode, job[r].prefer)
Idle == {c \in Conns : place[c] = "idle"}

-----------------------------------------------------------------------------
(* Open logs in once and leaves that connection idle in the pool.          *)

Init ==
    /\ job \in [Requests -> Jobs]
    /\ pc = [r \in Requests |-> "new"]
    /\ held = [r \in Requests |-> NoConn]
    /\ failed = [r \in Requests |-> FALSE]
    /\ gone = [r \in Requests |-> FALSE]
    /\ tx = [r \in Requests |-> "none"]
    /\ effect = [r \in Requests |-> "none"]
    /\ \E c \in Conns :
          /\ place = [d \in Conns |-> IF d = c THEN "idle" ELSE "absent"]
          /\ live = [d \in Conns |-> d = c]
    /\ active = [c \in Conns |-> LoginRole]
    /\ inTx = [c \in Conns |-> FALSE]

-----------------------------------------------------------------------------
(* Control of the handler: where it goes next, with or without an error.   *)

Go(r, step) ==
    /\ pc' = [pc EXCEPT ![r] = step]
    /\ UNCHANGED <<job, held, failed, gone>>

Fail(r, step) ==
    /\ pc' = [pc EXCEPT ![r] = step]
    /\ failed' = [failed EXCEPT ![r] = TRUE]
    /\ UNCHANGED <<job, held, gone>>

\* A statement of r reaches MySQL only over a live session.
Reaches(r) == live[held[r]]
\* A statement of the unit is refused once its sql.Tx is done (ErrTxDone).
TxUsable(r) == IsUnit(r) => tx[r] = "open"

Arrive(r) ==
    /\ pc[r] = "new"
    /\ Go(r, "connect")
    /\ UNCHANGED <<tx, effect, poolVars>>

-----------------------------------------------------------------------------
(* onConnection: take a connection, activate the roles.                    *)

CheckOut(r, c) ==
    /\ pc' = [pc EXCEPT ![r] = "switch"]
    /\ held' = [held EXCEPT ![r] = c]
    /\ place' = [place EXCEPT ![c] = "held"]
    /\ UNCHANGED <<job, failed, gone, tx, effect>>

NoUsableIdle == \A c \in Conns : ~(place[c] = "idle" /\ live[c])

\* db.Conn gives an idle connection that still answers.
TakeIdle(r, c) ==
    /\ pc[r] = "connect"
    /\ place[c] = "idle" /\ live[c]
    /\ CheckOut(r, c)
    /\ UNCHANGED <<live, active, inTx>>

\* db.Conn finds no idle connection and logs in.
LogIn(r, c) ==
    /\ pc[r] = "connect"
    /\ NoUsableIdle /\ place[c] = "absent"
    /\ CheckOut(r, c)
    /\ live' = [live EXCEPT ![c] = TRUE]
    /\ active' = [active EXCEPT ![c] = LoginRole]
    /\ inTx' = [inTx EXCEPT ![c] = FALSE]

\* db.Conn gives no connection: the context is done or the login is refused.
ConnectFails(r) ==
    /\ pc[r] = "connect"
    /\ gone[r] \/ NoUsableIdle
    /\ Fail(r, "answer")
    /\ UNCHANGED <<tx, effect, poolVars>>

\* SET ROLE replaces the roles of the session.
SwitchRole(r) ==
    /\ pc[r] = "switch" /\ Reaches(r)
    /\ active' = [active EXCEPT ![held[r]] = Wanted(r)]
    /\ Go(r, CASE job[r].kind = "unit" -> "begin"
               [] job[r].kind = "read" -> "hook"
               [] OTHER -> "work")
    /\ UNCHANGED <<tx, effect, place, live, inTx>>

\* A failed SET ROLE is ignored and the request is served all the same.
BugServeUnswitched(r) ==
    /\ pc[r] = "switch"
    /\ Go(r, IF IsUnit(r) THEN "begin" ELSE "work")
    /\ UNCHANGED <<tx, effect, poolVars>>

\* The early return comes before the deferred conn.Close: a leak.
BugLeakConnection(r) ==
    /\ pc[r] = "switch"
    /\ Fail(r, "answer")
    /\ UNCHANGED <<tx, effect, poolVars>>

\* SET ROLE fails: onConnection returns before it defers the clean-up, so the
\* connection is released without SET ROLE NONE.
SwitchRoleFails(r) ==
    /\ pc[r] = "switch"
    /\ Fail(r, "close")
    /\ UNCHANGED <<tx, effect, poolVars>>

-----------------------------------------------------------------------------
(* withRequestTx and onRequest: begin, hook, work, and how they fail.      *)

Begin(r) ==
    /\ pc[r] = "begin" /\ Reaches(r)
    /\ inTx' = [inTx EXCEPT ![held[r]] = TRUE]
    /\ tx' = [tx EXCEPT ![r] = "open"]
    /\ Go(r, "hook")
    /\ UNCHANGED <<effect, place, live, active>>

BeginFails(r) ==
    /\ pc[r] = "begin"
    /\ Fail(r, "clear")
    /\ UNCHANGED <<tx, effect, poolVars>>

\* The hook changes data: inside the transaction of a unit, for good on an
\* ordinary read, which has no transaction.
RunHook(r) ==
    /\ pc[r] = "hook"
    /\ PreRequest => Reaches(r) /\ TxUsable(r)
    /\ effect' = IF PreRequest
                 THEN [effect EXCEPT ![r] = IF IsUnit(r) THEN "open" ELSE "kept"]
                 ELSE effect
    /\ Go(r, "work")
    /\ UNCHANGED <<tx, poolVars>>

\* One of the statements of the work; a unit may need several.
RunWork(r) ==
    /\ pc[r] = "work"
    /\ Reaches(r) /\ TxUsable(r)
    /\ effect' = IF IsUnit(r) THEN [effect EXCEPT ![r] = "open"] ELSE effect
    /\ \E step \in IF IsUnit(r) THEN {"work", "end"} ELSE {"clear"} : Go(r, step)
    /\ UNCHANGED <<tx, poolVars>>

\* The error of the hook or the work is lost.
BugSwallowError(r) ==
    /\ pc[r] \in {"hook", "work"}
    /\ pc[r] = "hook" => PreRequest
    /\ Go(r, IF IsUnit(r) THEN "end" ELSE "clear")
    /\ UNCHANGED <<tx, effect, poolVars>>

\* The hook or the work fails: MySQL or the driver refuses a statement, the
\* context is done, or the work itself refuses what it read.
ServeFails(r) ==
    /\ pc[r] \in {"hook", "work"}
    /\ pc[r] = "hook" => PreRequest
    /\ Fail(r, IF IsUnit(r) THEN "rollback" ELSE "clear")
    /\ UNCHANGED <<tx, effect, poolVars>>

\* A unit whose work is done: commit, or return nil to the deferred Rollback.
EndUnit(r) ==
    /\ pc[r] = "end"
    /\ Go(r, IF Commits(r) THEN "commit" ELSE "rollback")
    /\ UNCHANGED <<tx, effect, poolVars>>

-----------------------------------------------------------------------------
(* sql.Tx: Commit and Rollback, and the goroutine that rolls the           *)
(* transaction back when its context is done.  Whoever moves tx[r] from    *)
(* "open" alone talks to MySQL; the other gets ErrTxDone.                  *)

CommitStarts(r) ==
    /\ pc[r] = "commit" /\ ~gone[r]
    /\ Go(r, "claim")
    /\ UNCHANGED <<tx, effect, poolVars>>

\* The context is done, or the watcher took the transaction since Commit asked.
CommitRefused(r) ==
    /\ \/ pc[r] = "commit" /\ gone[r]
       \/ pc[r] = "claim" /\ tx[r] # "open"
    /\ Fail(r, "rollback")
    /\ UNCHANGED <<tx, effect, poolVars>>

CommitClaims(r) ==
    /\ pc[r] = "claim" /\ tx[r] = "open"
    /\ tx' = [tx EXCEPT ![r] = "handler"]
    /\ Go(r, "wire")
    /\ UNCHANGED <<effect, poolVars>>

Released(r) == tx' = [tx EXCEPT ![r] = "released"]

CommitLands(r) ==
    /\ pc[r] = "wire" /\ Reaches(r)
    /\ effect' = [effect EXCEPT ![r] = "kept"]
    /\ inTx' = [inTx EXCEPT ![held[r]] = FALSE]
    /\ Released(r)
    /\ Go(r, "clear")
    /\ UNCHANGED <<place, live, active>>

\* MySQL commits and the connection dies before the handler reads the reply.
CommitReplyLost(r) ==
    /\ pc[r] = "wire" /\ Reaches(r)
    /\ effect' = [effect EXCEPT ![r] = "doubt"]
    /\ inTx' = [inTx EXCEPT ![held[r]] = FALSE]
    /\ live' = [live EXCEPT ![held[r]] = FALSE]
    /\ Released(r)
    /\ Fail(r, "clear")
    /\ UNCHANGED <<place, active>>

CommitFails(r) ==
    /\ pc[r] = "wire" /\ ~Reaches(r)
    /\ Released(r)
    /\ Fail(r, "clear")
    /\ UNCHANGED <<effect, poolVars>>

\* ROLLBACK of the transaction of r, which a dead session has already lost.
UndoWork(r) ==
    /\ effect' = [effect EXCEPT ![r] = IF @ = "open" THEN "undone" ELSE @]
    /\ inTx' = [inTx EXCEPT ![held[r]] = FALSE]
    /\ Released(r)
    /\ UNCHANGED <<place, live, active>>

\* The deferred Rollback is missing.
BugNoRollback(r) ==
    /\ pc[r] = "rollback" /\ tx[r] = "open"
    /\ Go(r, "clear")
    /\ UNCHANGED <<tx, effect, poolVars>>

\* The deferred Rollback wins the transaction ...
RollbackRuns(r) ==
    /\ pc[r] = "rollback" /\ tx[r] = "open"
    /\ UndoWork(r)
    /\ Go(r, "clear")

\* ... or finds it done, and returns while the other may still be at work.
RollbackFindsDone(r) ==
    /\ pc[r] = "rollback" /\ tx[r] # "open"
    /\ Go(r, "clear")
    /\ UNCHANGED <<tx, effect, poolVars>>

WatcherClaims(r) ==
    /\ gone[r] /\ tx[r] = "open"
    /\ tx' = [tx EXCEPT ![r] = "watcher"]
    /\ UNCHANGED <<handlerVars, effect, poolVars>>

WatcherRollsBack(r) ==
    /\ tx[r] = "watcher"
    /\ UndoWork(r)
    /\ UNCHANGED handlerVars

-----------------------------------------------------------------------------
(* The deferred clean-up of onConnection, and the answer.                  *)

\* clearRolesOrDrop: SET ROLE NONE, under a context that is never done ...
ClearRoles(r) ==
    /\ pc[r] = "clear" /\ Reaches(r)
    /\ active' = [active EXCEPT ![held[r]] = NoRole]
    /\ Go(r, "close")
    /\ UNCHANGED <<tx, effect, place, live, inTx>>

\* A failed SET ROLE NONE is ignored.
BugKeepUncleared(r) ==
    /\ pc[r] = "clear"
    /\ Go(r, "close")
    /\ UNCHANGED <<tx, effect, poolVars>>

\* ... and when it fails the connection is marked unusable.
ClearFails(r) ==
    /\ pc[r] = "clear"
    /\ place' = [place EXCEPT ![held[r]] = "bad"]
    /\ Go(r, "close")
    /\ UNCHANGED <<tx, effect, live, active, inTx>>

\* The pool keeps a connection that is usable while it has room for it.
Keepable(c) == place[c] = "held" /\ live[c] /\ Cardinality(Idle) < MaxIdle

\* The connection is released while the watcher still rolls back.
BugCloseEarly(r) ==
    /\ pc[r] = "close"
    /\ LET c == held[r] IN
          /\ place' = [place EXCEPT ![c] = IF Keepable(c) THEN "idle" ELSE "absent"]
          /\ live' = [live EXCEPT ![c] = Keepable(c)]
    /\ pc' = [pc EXCEPT ![r] = "answer"]
    /\ held' = [held EXCEPT ![r] = NoConn]
    /\ UNCHANGED <<job, failed, gone, tx, effect, active, inTx>>

\* conn.Close waits until the sql.Tx has let the connection go.
Close(r) ==
    /\ pc[r] = "close" /\ tx[r] \in {"none", "released"}
    /\ LET c == held[r] IN
          /\ place' = [place EXCEPT ![c] = IF Keepable(c) THEN "idle" ELSE "absent"]
          /\ live' = [live EXCEPT ![c] = Keepable(c)]
    /\ pc' = [pc EXCEPT ![r] = "answer"]
    /\ held' = [held EXCEPT ![r] = NoConn]
    /\ UNCHANGED <<job, failed, gone, tx, effect, active, inTx>>

Answer(r) ==
    /\ pc[r] = "answer"
    /\ Go(r, IF failed[r] THEN "error" ELSE "ok")
    /\ UNCHANGED <<tx, effect, poolVars>>

-----------------------------------------------------------------------------
(* The environment: clients leave, sessions die.                           *)

ClientLeaves(r) ==
    /\ pc[r] \notin {"new", "ok", "error"} /\ ~gone[r]
    /\ job[r].kind # "catalog"       \* the catalog is read under Background
    /\ gone' = [gone EXCEPT ![r] = TRUE]
    /\ UNCHANGED <<job, pc, held, failed, tx, effect, poolVars>>

\* A session ends: the network drops it, MySQL kills it, or the driver closes
\* it because the context of its statement is done.  Its transaction is lost.
SessionDies(c) ==
    /\ live[c]
    /\ live' = [live EXCEPT ![c] = FALSE]
    /\ inTx' = [inTx EXCEPT ![c] = FALSE]
    /\ effect' = [r \in Requests |->
                    IF held[r] = c /\ effect[r] = "open" THEN "undone" ELSE effect[r]]
    /\ UNCHANGED <<handlerVars, tx, place, active>>

\* The pool drops an idle connection it finds dead.
DropDeadIdle(c) ==
    /\ place[c] = "idle" /\ ~live[c]
    /\ place' = [place EXCEPT ![c] = "absent"]
    /\ UNCHANGED <<handlerVars, tx, effect, live, active, inTx>>

-----------------------------------------------------------------------------
Handler(r) ==
    \/ Arrive(r) \/ ConnectFails(r)
    \/ \E c \in Conns : TakeIdle(r, c) \/ LogIn(r, c)
    \/ SwitchRole(r) \/ SwitchRoleFails(r)
    \/ Begin(r) \/ BeginFails(r)
    \/ RunHook(r) \/ RunWork(r) \/ ServeFails(r)
    \/ EndUnit(r) \/ CommitStarts(r) \/ CommitRefused(r) \/ CommitClaims(r)
    \/ CommitLands(r) \/ CommitReplyLost(r) \/ CommitFails(r)
    \/ RollbackRuns(r) \/ RollbackFindsDone(r)
    \/ ClearRoles(r) \/ ClearFails(r) \/ Close(r) \/ Answer(r)

Watcher(r) == WatcherClaims(r) \/ WatcherRollsBack(r)

Environment ==
    \/ \E r \in Requests : ClientLeaves(r)
    \/ \E c \in Conns : SessionDies(c) \/ DropDeadIdle(c)

\* Every request answered: the pool waits for the next one.
Quiet ==
    /\ \A r \in Requests : pc[r] \in {"ok", "error"}
    /\ UNCHANGED vars

Next ==
    \/ \E r \in Requests : Handler(r) \/ Watcher(r)
    \/ Environment
    \/ Quiet

Spec == Init /\ [][Next]_vars

(***************************************************************************)
(* Fairness: every statement returns, with a reply or an error, because    *)
(* the driver has a socket under it and a done context closes the socket;  *)
(* the handler and the watcher are goroutines the Go scheduler runs.       *)
(* Nothing is assumed of clients, of the network or of MySQL's replies.    *)
(***************************************************************************)
FairSpec ==
    /\ Spec
    /\ \A r \in Requests : WF_vars(Handler(r)) /\ WF_vars(Watcher(r))

-----------------------------------------------------------------------------
(* Safety.                                                                 *)

\* A connection that waits in the pool is powerless: no role is active in its
\* session and no transaction is open in it (pool.go 114-118 and ADR 0010).
\* The handler clears the roles while the watcher may still be rolling back.
IdlePowerless ==
    \A c \in Conns : place[c] = "idle" /\ live[c] => active[c] = NoRole /\ ~inTx[c]

\* Every statement of the hook, the work and the commit runs with exactly the
\* roles the request asked for, whoever used the connection before: "No
\* request can read with the roles of another request" (pool.go 114).
OwnRoleOnly ==
    \A r \in Requests : pc[r] \in Serving /\ live[held[r]] => active[held[r]] = Wanted(r)

\* When the handler answers, the fate of the work of a unit is sealed: nothing
\* it changed is still waiting in an open transaction for a later rollback.
SettledWhenAnswered ==
    \A r \in Requests : pc[r] \in {"answer", "ok", "error"} => effect[r] # "open"

-----------------------------------------------------------------------------
(* The promise: the units implement RequestUnit.                           *)

askOf == [r \in Requests |->
    IF pc[r] = "new" \/ ~IsUnit(r) THEN "none"
    ELSE IF Commits(r) THEN "keep" ELSE "discard"]
outcomeOf == [r \in Requests |->
    IF IsUnit(r) /\ effect[r] \in {"kept", "doubt", "undone"} THEN effect[r] ELSE "pending"]
answerOf == [r \in Requests |->
    IF IsUnit(r) /\ pc[r] \in {"ok", "error"} THEN pc[r] ELSE "none"]

Unit == INSTANCE RequestUnit WITH ask <- askOf, outcome <- outcomeOf, answer <- answerOf

\* Every write and RPC unit is atomic, keeps its work only when db-tx-end and
\* Prefer: tx= say so, and answers success only for the end it decided
\* (docs/transactions.md: "A failing write or RPC rolls back that unit").
UnitsAreAtomic == Unit!Spec

-----------------------------------------------------------------------------
(* Liveness.                                                               *)

\* Every request that arrives is answered, although Close waits for the
\* watcher and requests wait for one another's connections.
EveryRequestAnswered ==
    \A r \in Requests : pc[r] = "connect" ~> pc[r] \in {"ok", "error"}

\* No transaction stays open in a session, holding its locks, whoever the
\* handler and the watcher leave the rollback to.
TransactionsEnd == \A c \in Conns : inTx[c] ~> ~inTx[c]

=============================================================================
