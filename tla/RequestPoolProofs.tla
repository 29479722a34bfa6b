------------------------- MODULE RequestPoolProofs -------------------------
(***************************************************************************)
(* The safety properties of RequestPool hold for any number of requests,   *)
(* connections and roles, for every knob value and every set of jobs.      *)
(*                                                                         *)
(* IdlePowerless alone is not inductive: that the next Close leaves a      *)
(* powerless connection behind depends on who holds it (HoldersDistinct),  *)
(* on the roles it has when SET ROLE never ran (ReadyToRelease) and on     *)
(* which of handler and watcher finished the transaction (TxFollowsSteps,  *)
(* OpenTxHasOwner, OpenWorkIsLive).                                        *)
(***************************************************************************)
EXTENDS RequestPool, TLAPS

\* A sql.Tx nobody has finished on the wire.
Unfinished == {"open", "handler", "watcher"}
\* The steps of withRequestTx alone.
UnitSteps == {"begin", "end", "commit", "claim", "wire", "rollback"}

(* Roles: what is active in a session, wherever the connection is.         *)

\* No two requests hold the same connection, and a held one is not in the pool.
HoldersDistinct ==
    /\ \A r, s \in Requests : held[r] # NoConn /\ held[r] = held[s] => r = s
    /\ \A r \in Requests : held[r] # NoConn => place[held[r]] \in {"held", "bad"}

\* A connection that may go back to the pool, or has just come from it, has no
\* active role.
ReadyToRelease ==
    \A r \in Requests :
        pc[r] \in {"switch", "close"} /\ live[held[r]] /\ place[held[r]] = "held"
            => active[held[r]] = NoRole

RoleInv == HoldersDistinct /\ IdlePowerless /\ OwnRoleOnly /\ ReadyToRelease

(* Transactions: who finishes them, and what is left open.                 *)

\* Only a unit has a sql.Tx, and where its handler stands tells what it can be.
TxFollowsSteps ==
    \A r \in Requests :
        /\ ~IsUnit(r) => tx[r] = "none" /\ pc[r] \notin UnitSteps
        /\ pc[r] \in {"new", "connect", "switch", "begin"} => tx[r] = "none"
        /\ pc[r] = "wire" <=> tx[r] = "handler"
        /\ pc[r] \in {"clear", "close"} => tx[r] # "open"
        /\ pc[r] \in {"answer", "ok", "error"} => tx[r] \in {"none", "released"}

\* A transaction open in a live session belongs to the request that holds it.
OpenTxHasOwner ==
    \A c \in Conns : inTx[c] =>
        live[c] /\ \E r \in Requests : held[r] = c /\ tx[r] \in Unfinished

\* Work waiting in a transaction: its sql.Tx is unfinished, its session alive.
OpenWorkIsLive ==
    \A r \in Requests : effect[r] = "open" => tx[r] \in Unfinished /\ live[held[r]]

TxInv == TxFollowsSteps /\ OpenTxHasOwner /\ OpenWorkIsLive

\* The inductive invariant.
IInv == TypeOK /\ RoleInv /\ TxInv

\* The initial states satisfy the invariant.
LEMMA InitIInv == Init => IInv
  BY NoConnAssumption, RoleAssumption, LoginRoleAssumption, JobAssumption
     DEF Init, IInv, TypeOK, RoleInv, TxInv, HoldersDistinct, IdlePowerless,
         OwnRoleOnly, ReadyToRelease, TxFollowsSteps, OpenTxHasOwner,
         OpenWorkIsLive, Steps, Holding, Serving, UnitSteps, TxStates, Effects,
         Places, IsUnit

\* Every step of every actor preserves it: one case per action, one step per
\* part of the invariant.
LEMMA NextKeepsIInv == IInv /\ [Next]_vars => IInv'
<1> SUFFICES ASSUME IInv, [Next]_vars PROVE IInv'
  OBVIOUS
<1> USE NoConnAssumption, RoleAssumption, LoginRoleAssumption, JobAssumption
<1> USE DEF IInv, RoleInv, TxInv, Steps, Holding, Serving, TxStates, Effects,
            Places, Unfinished, UnitSteps, handlerVars, poolVars, Go, Fail,
            Released, Reaches, IsUnit, Wanted
<1>1. ASSUME NEW r \in Requests, Arrive(r)
      PROVE  IInv'
  <2>1. TypeOK'
    BY <1>1 DEF Arrive, TypeOK
  <2>2. RoleInv'
    BY <1>1 DEF Arrive, TypeOK, HoldersDistinct, IdlePowerless, OwnRoleOnly,
       ReadyToRelease
  <2>3. TxInv'
    BY <1>1 DEF Arrive, TypeOK, TxFollowsSteps, OpenTxHasOwner, OpenWorkIsLive
  <2> QED BY <2>1, <2>2, <2>3
<1>2. ASSUME NEW r \in Requests, NEW c \in Conns, TakeIdle(r, c)
      PROVE  IInv'
  <2>1. TypeOK'
    BY <1>2 DEF TakeIdle, CheckOut, TypeOK
  <2>2. RoleInv'
    BY <1>2 DEF TakeIdle, CheckOut, TypeOK, HoldersDistinct, IdlePowerless,
       OwnRoleOnly, ReadyToRelease
  <2>3. TxInv'
    BY <1>2 DEF TakeIdle, CheckOut, TypeOK, TxFollowsSteps, OpenTxHasOwner,
       OpenWorkIsLive, HoldersDistinct
  <2> QED BY <2>1, <2>2, <2>3
<1>3. ASSUME NEW r \in Requests, NEW c \in Conns, LogIn(r, c)
       PROVE  IInv'
  <2>1. TypeOK'
    BY <1>3 DEF LogIn, CheckOut, NoUsableIdle, TypeOK
  <2>2. RoleInv'
    BY <1>3 DEF LogIn, CheckOut, NoUsableIdle, TypeOK, HoldersDistinct, IdlePowerless, OwnRoleOnly,
           ReadyToRelease
  <2>3. TxInv'
    <3>1. TxFollowsSteps'
      BY <1>3 DEF LogIn, CheckOut, TypeOK, TxFollowsSteps
    <3>2. OpenWorkIsLive'
      BY <1>3 DEF LogIn, CheckOut, TypeOK, HoldersDistinct, TxFollowsSteps, OpenWorkIsLive
    <3>3. ASSUME NEW d \in Conns, inTx'[d]
          PROVE  live'[d] /\ \E s \in Requests : held'[s] = d /\ tx'[s] \in Unfinished
      <4>1. d # c /\ inTx[d]
        BY <1>3, <3>3 DEF LogIn, TypeOK
      <4>2. PICK s \in Requests : held[s] = d /\ tx[s] \in Unfinished
        BY <4>1 DEF OpenTxHasOwner
      <4>3. s # r
        BY <1>3, <4>2 DEF LogIn, TxFollowsSteps
      <4> QED BY <1>3, <4>1, <4>2, <4>3 DEF LogIn, CheckOut, TypeOK, OpenTxHasOwner
    <3> QED BY <3>1, <3>2, <3>3 DEF OpenTxHasOwner
  <2> QED BY <2>1, <2>2, <2>3
<1>4. ASSUME NEW r \in Requests, ConnectFails(r)
      PROVE  IInv'
  <2>1. TypeOK'
    BY <1>4 DEF ConnectFails, TypeOK
  <2>2. RoleInv'
    BY <1>4 DEF ConnectFails, TypeOK, HoldersDistinct, IdlePowerless,
       OwnRoleOnly, ReadyToRelease
  <2>3. TxInv'
    BY <1>4 DEF ConnectFails, TypeOK, TxFollowsSteps, OpenTxHasOwner,
       OpenWorkIsLive
  <2> QED BY <2>1, <2>2, <2>3
<1>5. ASSUME NEW r \in Requests, SwitchRole(r)
      PROVE  IInv'
  <2>1. TypeOK'
    <3>1. CASE job[r].kind = "unit"
      BY <1>5, <3>1 DEF SwitchRole, TypeOK
    <3>2. CASE job[r].kind # "unit"
      BY <1>5, <3>2 DEF SwitchRole, TypeOK
    <3> QED BY <3>1, <3>2
  <2>2. RoleInv'
    <3>1. CASE job[r].kind = "unit"
      BY <1>5, <3>1 DEF SwitchRole, TypeOK, HoldersDistinct, IdlePowerless,
         OwnRoleOnly, ReadyToRelease
    <3>2. CASE job[r].kind # "unit"
      BY <1>5, <3>2 DEF SwitchRole, TypeOK, HoldersDistinct, IdlePowerless,
         OwnRoleOnly, ReadyToRelease
    <3> QED BY <3>1, <3>2
  <2>3. TxInv'
    <3>1. CASE job[r].kind = "unit"
      BY <1>5, <3>1 DEF SwitchRole, TypeOK, TxFollowsSteps, OpenTxHasOwner,
         OpenWorkIsLive, HoldersDistinct
    <3>2. CASE job[r].kind # "unit"
      BY <1>5, <3>2 DEF SwitchRole, TypeOK, TxFollowsSteps, OpenTxHasOwner,
         OpenWorkIsLive, HoldersDistinct
    <3> QED BY <3>1, <3>2
  <2> QED BY <2>1, <2>2, <2>3
<1>6. ASSUME NEW r \in Requests, SwitchRoleFails(r)
      PROVE  IInv'
  <2>1. TypeOK'
    BY <1>6 DEF SwitchRoleFails, TypeOK
  <2>2. RoleInv'
    BY <1>6 DEF SwitchRoleFails, TypeOK, HoldersDistinct, IdlePowerless,
       OwnRoleOnly, ReadyToRelease
  <2>3. TxInv'
    BY <1>6 DEF SwitchRoleFails, TypeOK, TxFollowsSteps, OpenTxHasOwner,
       OpenWorkIsLive
  <2> QED BY <2>1, <2>2, <2>3
<1>7. ASSUME NEW r \in Requests, Begin(r)
       PROVE  IInv'
  <2>1. TypeOK'
    BY <1>7 DEF Begin, TypeOK
  <2>2. RoleInv'
    BY <1>7 DEF Begin, TypeOK, HoldersDistinct, IdlePowerless, OwnRoleOnly,
           ReadyToRelease
  <2>3. TxInv'
    <3>1. TxFollowsSteps' /\ OpenWorkIsLive'
      BY <1>7 DEF Begin, TypeOK, HoldersDistinct, TxFollowsSteps, OpenWorkIsLive
    <3>2. ASSUME NEW c \in Conns, inTx'[c]
          PROVE  live'[c] /\ \E s \in Requests : held'[s] = c /\ tx'[s] \in Unfinished
      <4>1. CASE c = held[r]
        BY <1>7, <4>1 DEF Begin, TypeOK
      <4>2. CASE c # held[r]
        BY <1>7, <3>2, <4>2 DEF Begin, TypeOK, TxFollowsSteps, OpenTxHasOwner
      <4> QED BY <4>1, <4>2
    <3> QED BY <3>1, <3>2 DEF OpenTxHasOwner
  <2> QED BY <2>1, <2>2, <2>3
<1>8. ASSUME NEW r \in Requests, BeginFails(r)
      PROVE  IInv'
  <2>1. TypeOK'
    BY <1>8 DEF BeginFails, TypeOK
  <2>2. RoleInv'
    BY <1>8 DEF BeginFails, TypeOK, HoldersDistinct, IdlePowerless,
       OwnRoleOnly, ReadyToRelease
  <2>3. TxInv'
    BY <1>8 DEF BeginFails, TypeOK, TxFollowsSteps, OpenTxHasOwner,
       OpenWorkIsLive
  <2> QED BY <2>1, <2>2, <2>3
<1>9. ASSUME NEW r \in Requests, RunHook(r)
      PROVE  IInv'
  <2>1. TypeOK'
    <3>1. CASE PreRequest
      BY <1>9, <3>1 DEF RunHook, TxUsable, TypeOK
    <3>2. CASE ~PreRequest
      BY <1>9, <3>2 DEF RunHook, TxUsable, TypeOK
    <3> QED BY <3>1, <3>2
  <2>2. RoleInv'
    <3>1. CASE PreRequest
      BY <1>9, <3>1 DEF RunHook, TxUsable, TypeOK, HoldersDistinct,
         IdlePowerless, OwnRoleOnly, ReadyToRelease
    <3>2. CASE ~PreRequest
      BY <1>9, <3>2 DEF RunHook, TxUsable, TypeOK, HoldersDistinct,
         IdlePowerless, OwnRoleOnly, ReadyToRelease
    <3> QED BY <3>1, <3>2
  <2>3. TxInv'
    <3>1. CASE PreRequest
      BY <1>9, <3>1 DEF RunHook, TxUsable, TypeOK, TxFollowsSteps,
         OpenTxHasOwner, OpenWorkIsLive, HoldersDistinct
    <3>2. CASE ~PreRequest
      BY <1>9, <3>2 DEF RunHook, TxUsable, TypeOK, TxFollowsSteps,
         OpenTxHasOwner, OpenWorkIsLive, HoldersDistinct
    <3> QED BY <3>1, <3>2
  <2> QED BY <2>1, <2>2, <2>3
<1>10. ASSUME NEW r \in Requests, RunWork(r)
      PROVE  IInv'
  <2>1. TypeOK'
    <3>1. CASE IsUnit(r)
      BY <1>10, <3>1 DEF RunWork, TxUsable, TypeOK
    <3>2. CASE ~IsUnit(r)
      BY <1>10, <3>2 DEF RunWork, TxUsable, TypeOK
    <3> QED BY <3>1, <3>2
  <2>2. RoleInv'
    <3>1. CASE IsUnit(r)
      BY <1>10, <3>1 DEF RunWork, TxUsable, TypeOK, HoldersDistinct,
         IdlePowerless, OwnRoleOnly, ReadyToRelease
    <3>2. CASE ~IsUnit(r)
      BY <1>10, <3>2 DEF RunWork, TxUsable, TypeOK, HoldersDistinct,
         IdlePowerless, OwnRoleOnly, ReadyToRelease
    <3> QED BY <3>1, <3>2
  <2>3. TxInv'
    <3>1. CASE IsUnit(r)
      BY <1>10, <3>1 DEF RunWork, TxUsable, TypeOK, TxFollowsSteps,
         OpenTxHasOwner, OpenWorkIsLive, HoldersDistinct
    <3>2. CASE ~IsUnit(r)
      BY <1>10, <3>2 DEF RunWork, TxUsable, TypeOK, TxFollowsSteps,
         OpenTxHasOwner, OpenWorkIsLive, HoldersDistinct
    <3> QED BY <3>1, <3>2
  <2> QED BY <2>1, <2>2, <2>3
<1>11. ASSUME NEW r \in Requests, ServeFails(r)
      PROVE  IInv'
  <2>1. TypeOK'
    <3>1. CASE IsUnit(r)
      BY <1>11, <3>1 DEF ServeFails, TypeOK
    <3>2. CASE ~IsUnit(r)
      BY <1>11, <3>2 DEF ServeFails, TypeOK
    <3> QED BY <3>1, <3>2
  <2>2. RoleInv'
    <3>1. CASE IsUnit(r)
      BY <1>11, <3>1 DEF ServeFails, TypeOK, HoldersDistinct, IdlePowerless,
         OwnRoleOnly, ReadyToRelease
    <3>2. CASE ~IsUnit(r)
      BY <1>11, <3>2 DEF ServeFails, TypeOK, HoldersDistinct, IdlePowerless,
         OwnRoleOnly, ReadyToRelease
    <3> QED BY <3>1, <3>2
  <2>3. TxInv'
    <3>1. CASE IsUnit(r)
      BY <1>11, <3>1 DEF ServeFails, TypeOK, TxFollowsSteps, OpenTxHasOwner,
         OpenWorkIsLive, HoldersDistinct
    <3>2. CASE ~IsUnit(r)
      BY <1>11, <3>2 DEF ServeFails, TypeOK, TxFollowsSteps, OpenTxHasOwner,
         OpenWorkIsLive, HoldersDistinct
    <3> QED BY <3>1, <3>2
  <2> QED BY <2>1, <2>2, <2>3
<1>12. ASSUME NEW r \in Requests, EndUnit(r)
      PROVE  IInv'
  <2>1. TypeOK'
    BY <1>12 DEF EndUnit, Commits, TypeOK
  <2>2. RoleInv'
    BY <1>12 DEF EndUnit, Commits, TypeOK, HoldersDistinct, IdlePowerless,
       OwnRoleOnly, ReadyToRelease
  <2>3. TxInv'
    BY <1>12 DEF EndUnit, Commits, TypeOK, TxFollowsSteps, OpenTxHasOwner,
       OpenWorkIsLive
  <2> QED BY <2>1, <2>2, <2>3
<1>13. ASSUME NEW r \in Requests, CommitStarts(r)
      PROVE  IInv'
  <2>1. TypeOK'
    BY <1>13 DEF CommitStarts, TypeOK
  <2>2. RoleInv'
    BY <1>13 DEF CommitStarts, TypeOK, HoldersDistinct, IdlePowerless,
       OwnRoleOnly, ReadyToRelease
  <2>3. TxInv'
    BY <1>13 DEF CommitStarts, TypeOK, TxFollowsSteps, OpenTxHasOwner,
       OpenWorkIsLive
  <2> QED BY <2>1, <2>2, <2>3
<1>14. ASSUME NEW r \in Requests, CommitRefused(r)
      PROVE  IInv'
  <2>1. TypeOK'
    BY <1>14 DEF CommitRefused, TypeOK
  <2>2. RoleInv'
    BY <1>14 DEF CommitRefused, TypeOK, HoldersDistinct, IdlePowerless,
       OwnRoleOnly, ReadyToRelease
  <2>3. TxInv'
    BY <1>14 DEF CommitRefused, TypeOK, TxFollowsSteps, OpenTxHasOwner,
       OpenWorkIsLive, HoldersDistinct
  <2> QED BY <2>1, <2>2, <2>3
<1>15. ASSUME NEW r \in Requests, CommitClaims(r)
      PROVE  IInv'
  <2>1. TypeOK'
    BY <1>15 DEF CommitClaims, TypeOK
  <2>2. RoleInv'
    BY <1>15 DEF CommitClaims, TypeOK, HoldersDistinct, IdlePowerless,
       OwnRoleOnly, ReadyToRelease
  <2>3. TxInv'
    BY <1>15 DEF CommitClaims, TypeOK, TxFollowsSteps, OpenTxHasOwner,
       OpenWorkIsLive, HoldersDistinct
  <2> QED BY <2>1, <2>2, <2>3
<1>16. ASSUME NEW r \in Requests, CommitLands(r)
      PROVE  IInv'
  <2>1. TypeOK'
    BY <1>16 DEF CommitLands, TypeOK
  <2>2. RoleInv'
    BY <1>16 DEF CommitLands, TypeOK, HoldersDistinct, IdlePowerless,
       OwnRoleOnly, ReadyToRelease
  <2>3. TxInv'
    BY <1>16 DEF CommitLands, TypeOK, TxFollowsSteps, OpenTxHasOwner,
       OpenWorkIsLive, HoldersDistinct
  <2> QED BY <2>1, <2>2, <2>3
<1>17. ASSUME NEW r \in Requests, CommitReplyLost(r)
      PROVE  IInv'
  <2>1. TypeOK'
    BY <1>17 DEF CommitReplyLost, TypeOK
  <2>2. RoleInv'
    BY <1>17 DEF CommitReplyLost, TypeOK, HoldersDistinct, IdlePowerless,
       OwnRoleOnly, ReadyToRelease
  <2>3. TxInv'
    BY <1>17 DEF CommitReplyLost, TypeOK, TxFollowsSteps, OpenTxHasOwner,
       OpenWorkIsLive, HoldersDistinct
  <2> QED BY <2>1, <2>2, <2>3
<1>18. ASSUME NEW r \in Requests, CommitFails(r)
      PROVE  IInv'
  <2>1. TypeOK'
    BY <1>18 DEF CommitFails, TypeOK
  <2>2. RoleInv'
    BY <1>18 DEF CommitFails, TypeOK, HoldersDistinct, IdlePowerless,
       OwnRoleOnly, ReadyToRelease
  <2>3. TxInv'
    BY <1>18 DEF CommitFails, TypeOK, TxFollowsSteps, OpenTxHasOwner,
       OpenWorkIsLive, HoldersDistinct
  <2> QED BY <2>1, <2>2, <2>3
<1>19. ASSUME NEW r \in Requests, RollbackRuns(r)
      PROVE  IInv'
  <2>1. TypeOK'
    BY <1>19 DEF RollbackRuns, UndoWork, TypeOK
  <2>2. RoleInv'
    BY <1>19 DEF RollbackRuns, UndoWork, TypeOK, HoldersDistinct,
       IdlePowerless, OwnRoleOnly, ReadyToRelease
  <2>3. TxInv'
    BY <1>19 DEF RollbackRuns, UndoWork, TypeOK, TxFollowsSteps,
       OpenTxHasOwner, OpenWorkIsLive, HoldersDistinct
  <2> QED BY <2>1, <2>2, <2>3
<1>20. ASSUME NEW r \in Requests, RollbackFindsDone(r)
      PROVE  IInv'
  <2>1. TypeOK'
    BY <1>20 DEF RollbackFindsDone, TypeOK
  <2>2. RoleInv'
    BY <1>20 DEF RollbackFindsDone, TypeOK, HoldersDistinct, IdlePowerless,
       OwnRoleOnly, ReadyToRelease
  <2>3. TxInv'
    BY <1>20 DEF RollbackFindsDone, TypeOK, TxFollowsSteps, OpenTxHasOwner,
       OpenWorkIsLive, HoldersDistinct
  <2> QED BY <2>1, <2>2, <2>3
<1>21. ASSUME NEW r \in Requests, ClearRoles(r)
      PROVE  IInv'
  <2>1. TypeOK'
    BY <1>21 DEF ClearRoles, TypeOK
  <2>2. RoleInv'
    BY <1>21 DEF ClearRoles, TypeOK, HoldersDistinct, IdlePowerless,
       OwnRoleOnly, ReadyToRelease
  <2>3. TxInv'
    BY <1>21 DEF ClearRoles, TypeOK, TxFollowsSteps, OpenTxHasOwner,
       OpenWorkIsLive, HoldersDistinct
  <2> QED BY <2>1, <2>2, <2>3
<1>22. ASSUME NEW r \in Requests, ClearFails(r)
      PROVE  IInv'
  <2>1. TypeOK'
    BY <1>22 DEF ClearFails, TypeOK
  <2>2. RoleInv'
    BY <1>22 DEF ClearFails, TypeOK, HoldersDistinct, IdlePowerless,
       OwnRoleOnly, ReadyToRelease
  <2>3. TxInv'
    BY <1>22 DEF ClearFails, TypeOK, TxFollowsSteps, OpenTxHasOwner,
       OpenWorkIsLive, HoldersDistinct
  <2> QED BY <2>1, <2>2, <2>3
<1>23. ASSUME NEW r \in Requests, Close(r)
      PROVE  IInv'
  <2>1. TypeOK'
    BY <1>23 DEF Close, Keepable, TypeOK
  <2>2. RoleInv'
    BY <1>23 DEF Close, Keepable, TypeOK, HoldersDistinct, IdlePowerless,
       OwnRoleOnly, ReadyToRelease, OpenTxHasOwner, TxFollowsSteps
  <2>3. TxInv'
    BY <1>23 DEF Close, Keepable, TypeOK, TxFollowsSteps, OpenTxHasOwner,
       OpenWorkIsLive, HoldersDistinct
  <2> QED BY <2>1, <2>2, <2>3
<1>24. ASSUME NEW r \in Requests, Answer(r)
      PROVE  IInv'
  <2>1. TypeOK'
    BY <1>24 DEF Answer, TypeOK
  <2>2. RoleInv'
    BY <1>24 DEF Answer, TypeOK, HoldersDistinct, IdlePowerless, OwnRoleOnly,
       ReadyToRelease
  <2>3. TxInv'
    BY <1>24 DEF Answer, TypeOK, TxFollowsSteps, OpenTxHasOwner,
       OpenWorkIsLive
  <2> QED BY <2>1, <2>2, <2>3
<1>25. ASSUME NEW r \in Requests, WatcherClaims(r)
      PROVE  IInv'
  <2>1. TypeOK'
    BY <1>25 DEF WatcherClaims, TypeOK
  <2>2. RoleInv'
    BY <1>25 DEF WatcherClaims, TypeOK, HoldersDistinct, IdlePowerless,
       OwnRoleOnly, ReadyToRelease
  <2>3. TxInv'
    BY <1>25 DEF WatcherClaims, TypeOK, TxFollowsSteps, OpenTxHasOwner,
       OpenWorkIsLive, HoldersDistinct
  <2> QED BY <2>1, <2>2, <2>3
<1>26. ASSUME NEW r \in Requests, WatcherRollsBack(r)
      PROVE  IInv'
  <2>1. TypeOK'
    BY <1>26 DEF WatcherRollsBack, UndoWork, TypeOK
  <2>2. RoleInv'
    BY <1>26 DEF WatcherRollsBack, UndoWork, TypeOK, HoldersDistinct,
       IdlePowerless, OwnRoleOnly, ReadyToRelease
  <2>3. TxInv'
    BY <1>26 DEF WatcherRollsBack, UndoWork, TypeOK, TxFollowsSteps,
       OpenTxHasOwner, OpenWorkIsLive, HoldersDistinct
  <2> QED BY <2>1, <2>2, <2>3
<1>27. ASSUME NEW r \in Requests, ClientLeaves(r)
      PROVE  IInv'
  <2>1. TypeOK'
    BY <1>27 DEF ClientLeaves, TypeOK
  <2>2. RoleInv'
    BY <1>27 DEF ClientLeaves, TypeOK, HoldersDistinct, IdlePowerless,
       OwnRoleOnly, ReadyToRelease
  <2>3. TxInv'
    BY <1>27 DEF ClientLeaves, TypeOK, TxFollowsSteps, OpenTxHasOwner,
       OpenWorkIsLive
  <2> QED BY <2>1, <2>2, <2>3
<1>28. ASSUME NEW c \in Conns, SessionDies(c)
      PROVE  IInv'
  <2>1. TypeOK'
    BY <1>28 DEF SessionDies, TypeOK
  <2>2. RoleInv'
    BY <1>28 DEF SessionDies, TypeOK, HoldersDistinct, IdlePowerless,
       OwnRoleOnly, ReadyToRelease
  <2>3. TxInv'
    BY <1>28 DEF SessionDies, TypeOK, TxFollowsSteps, OpenTxHasOwner,
       OpenWorkIsLive, HoldersDistinct
  <2> QED BY <2>1, <2>2, <2>3
<1>29. ASSUME NEW c \in Conns, DropDeadIdle(c)
      PROVE  IInv'
  <2>1. TypeOK'
    BY <1>29 DEF DropDeadIdle, TypeOK
  <2>2. RoleInv'
    BY <1>29 DEF DropDeadIdle, TypeOK, HoldersDistinct, IdlePowerless,
       OwnRoleOnly, ReadyToRelease
  <2>3. TxInv'
    BY <1>29 DEF DropDeadIdle, TypeOK, TxFollowsSteps, OpenTxHasOwner,
       OpenWorkIsLive, HoldersDistinct
  <2> QED BY <2>1, <2>2, <2>3
<1>30. CASE UNCHANGED vars
  BY <1>30 DEF vars, TypeOK, HoldersDistinct, IdlePowerless, OwnRoleOnly,
     ReadyToRelease, TxFollowsSteps, OpenTxHasOwner, OpenWorkIsLive
<1> QED
  BY <1>1, <1>2, <1>3, <1>4, <1>5, <1>6, <1>7, <1>8, <1>9, <1>10, <1>11,
     <1>12, <1>13, <1>14, <1>15, <1>16, <1>17, <1>18, <1>19, <1>20, <1>21,
     <1>22, <1>23, <1>24, <1>25, <1>26, <1>27, <1>28, <1>29, <1>30 DEF Next,
     Handler, Watcher, Environment, Quiet

\* The invariant holds in every reachable state.
LEMMA Invariance == Spec => []IInv
  BY InitIInv, NextKeepsIInv, PTL DEF Spec

\* Every variable keeps its type, and a request holds a connection exactly
\* between its checkout and its conn.Close, on every path of onConnection.
THEOREM TypeCorrect == Spec => []TypeOK
<1>1. IInv => TypeOK
  BY DEF IInv
<1> QED BY Invariance, <1>1, PTL

\* A connection that waits in the pool has no active role and no transaction,
\* whatever failed before (pool.go 114-118).
THEOREM PoolIsPowerless == Spec => []IdlePowerless
<1>1. IInv => IdlePowerless
  BY DEF IInv, RoleInv
<1> QED BY Invariance, <1>1, PTL

\* Every statement of a request runs with the roles that request asked for.
THEOREM RoleIsolation == Spec => []OwnRoleOnly
<1>1. IInv => OwnRoleOnly
  BY DEF IInv, RoleInv
<1> QED BY Invariance, <1>1, PTL

\* No answer leaves while the work of its unit waits in an open transaction.
THEOREM AnswersAreSettled == Spec => []SettledWhenAnswered
<1>1. IInv => SettledWhenAnswered
  BY DEF IInv, TxInv, TxFollowsSteps, OpenWorkIsLive, Unfinished, SettledWhenAnswered
<1> QED BY Invariance, <1>1, PTL

-----------------------------------------------------------------------------
(* RequestPool implements RequestUnit: whatever the handler, the watcher,  *)
(* the network and the clients do, each unit keeps its work at most once,  *)
(* only when its end says so, and is answered truthfully.                  *)

\* How far the handler and the data of one unit can be apart.
UnitOK(r) ==
    /\ pc[r] \in {"new", "connect", "switch", "begin"} => effect[r] = "none"
    /\ pc[r] \in {"new", "connect", "switch", "ok"} \cup Serving => ~failed[r]
    /\ pc[r] = "error" => failed[r]
    /\ pc[r] \in {"commit", "claim", "wire"} => Commits(r)
    /\ pc[r] \in {"end", "commit", "claim", "wire"} => effect[r] \in {"open", "undone"}
    /\ effect[r] \in {"kept", "doubt"} =>
          /\ Commits(r) /\ tx[r] = "released"
          /\ pc[r] \in {"clear", "close", "answer", "ok", "error"}
          /\ failed[r] <=> effect[r] = "doubt"
    /\ effect[r] = "undone" /\ tx[r] \in Unfinished => ~live[held[r]]
    /\ ~failed[r] /\ pc[r] = "rollback" =>
          ~Commits(r) /\ effect[r] \in {"open", "undone"}
    /\ ~failed[r] /\ pc[r] \in {"clear", "close", "answer", "ok"} =>
          IF Commits(r) THEN effect[r] = "kept" ELSE effect[r] \in {"open", "undone"}

UnitInv == \A r \in Requests : IsUnit(r) => UnitOK(r)

LEMMA InitUnitInv == Init => UnitInv
  BY DEF Init, UnitInv, UnitOK, Serving

\* Every step keeps each unit consistent.
LEMMA NextKeepsUnitInv == IInv /\ UnitInv /\ [Next]_vars => UnitInv'
<1> SUFFICES ASSUME IInv, UnitInv, [Next]_vars PROVE UnitInv'
  OBVIOUS
<1> USE NoConnAssumption
<1> USE DEF UnitInv, UnitOK, IInv, TxInv, TypeOK, TxFollowsSteps, Steps,
            Holding, Serving, Places, Unfinished, UnitSteps, handlerVars,
            poolVars, Go, Fail, Released, Reaches, IsUnit, Commits
<1>1. ASSUME NEW r \in Requests, Arrive(r)
      PROVE  UnitInv'
  BY <1>1 DEF Arrive
<1>2. ASSUME NEW r \in Requests, NEW c \in Conns, TakeIdle(r, c)
      PROVE  UnitInv'
  BY <1>2 DEF TakeIdle, CheckOut
<1>3. ASSUME NEW r \in Requests, NEW c \in Conns, LogIn(r, c)
      PROVE  UnitInv'
  BY <1>3 DEF LogIn, CheckOut, NoUsableIdle, RoleInv, HoldersDistinct
<1>4. ASSUME NEW r \in Requests, ConnectFails(r)
      PROVE  UnitInv'
  BY <1>4 DEF ConnectFails
<1>5. ASSUME NEW r \in Requests, SwitchRole(r)
      PROVE  UnitInv'
  BY <1>5 DEF SwitchRole
<1>6. ASSUME NEW r \in Requests, SwitchRoleFails(r)
      PROVE  UnitInv'
  BY <1>6 DEF SwitchRoleFails
<1>7. ASSUME NEW r \in Requests, Begin(r)
      PROVE  UnitInv'
  BY <1>7 DEF Begin
<1>8. ASSUME NEW r \in Requests, BeginFails(r)
      PROVE  UnitInv'
  BY <1>8 DEF BeginFails
<1>9. ASSUME NEW r \in Requests, RunHook(r)
      PROVE  UnitInv'
  BY <1>9 DEF RunHook, TxUsable, RoleInv, HoldersDistinct
<1>10. ASSUME NEW r \in Requests, RunWork(r)
      PROVE  UnitInv'
  BY <1>10 DEF RunWork, TxUsable
<1>11. ASSUME NEW r \in Requests, ServeFails(r)
      PROVE  UnitInv'
  BY <1>11 DEF ServeFails
<1>12. ASSUME NEW r \in Requests, EndUnit(r)
      PROVE  UnitInv'
  BY <1>12 DEF EndUnit
<1>13. ASSUME NEW r \in Requests, CommitStarts(r)
      PROVE  UnitInv'
  BY <1>13 DEF CommitStarts
<1>14. ASSUME NEW r \in Requests, CommitRefused(r)
      PROVE  UnitInv'
  BY <1>14 DEF CommitRefused
<1>15. ASSUME NEW r \in Requests, CommitClaims(r)
      PROVE  UnitInv'
  BY <1>15 DEF CommitClaims
<1>16. ASSUME NEW r \in Requests, CommitLands(r)
      PROVE  UnitInv'
  BY <1>16 DEF CommitLands, OpenWorkIsLive
<1>17. ASSUME NEW r \in Requests, CommitReplyLost(r)
      PROVE  UnitInv'
  BY <1>17 DEF CommitReplyLost, RoleInv, HoldersDistinct, OpenWorkIsLive
<1>18. ASSUME NEW r \in Requests, CommitFails(r)
      PROVE  UnitInv'
  BY <1>18 DEF CommitFails, OpenWorkIsLive
<1>19. ASSUME NEW r \in Requests, RollbackRuns(r)
      PROVE  UnitInv'
  BY <1>19 DEF RollbackRuns, UndoWork, OpenWorkIsLive
<1>20. ASSUME NEW r \in Requests, RollbackFindsDone(r)
      PROVE  UnitInv'
  BY <1>20 DEF RollbackFindsDone
<1>21. ASSUME NEW r \in Requests, ClearRoles(r)
      PROVE  UnitInv'
  BY <1>21 DEF ClearRoles
<1>22. ASSUME NEW r \in Requests, ClearFails(r)
      PROVE  UnitInv'
  BY <1>22 DEF ClearFails
<1>23. ASSUME NEW r \in Requests, Close(r)
      PROVE  UnitInv'
  BY <1>23 DEF Close, Keepable, RoleInv, HoldersDistinct
<1>24. ASSUME NEW r \in Requests, Answer(r)
      PROVE  UnitInv'
  BY <1>24 DEF Answer
<1>25. ASSUME NEW r \in Requests, WatcherClaims(r)
      PROVE  UnitInv'
  BY <1>25 DEF WatcherClaims
<1>26. ASSUME NEW r \in Requests, WatcherRollsBack(r)
      PROVE  UnitInv'
  BY <1>26 DEF WatcherRollsBack, UndoWork, OpenWorkIsLive
<1>27. ASSUME NEW r \in Requests, ClientLeaves(r)
      PROVE  UnitInv'
  BY <1>27 DEF ClientLeaves
<1>28. ASSUME NEW c \in Conns, SessionDies(c)
      PROVE  UnitInv'
  BY <1>28 DEF SessionDies, OpenWorkIsLive
<1>29. ASSUME NEW c \in Conns, DropDeadIdle(c)
      PROVE  UnitInv'
  BY <1>29 DEF DropDeadIdle
<1>30. CASE UNCHANGED vars
  BY <1>30 DEF vars
<1> QED
  BY <1>1, <1>2, <1>3, <1>4, <1>5, <1>6, <1>7, <1>8, <1>9, <1>10, <1>11,
     <1>12, <1>13, <1>14, <1>15, <1>16, <1>17, <1>18, <1>19, <1>20, <1>21,
     <1>22, <1>23, <1>24, <1>25, <1>26, <1>27, <1>28, <1>29, <1>30 DEF Next,
     Handler, Watcher, Environment, Quiet

-----------------------------------------------------------------------------
(* The step simulation.                                                    *)

\* A step that moves no unit into or out of "new" or an answer, and settles
\* no work, is invisible to RequestUnit.
Invisible ==
    /\ \A r \in Requests : pc'[r] = "new" <=> pc[r] = "new"
    /\ \A r \in Requests : pc[r] \in {"ok", "error"} \/ pc'[r] \in {"ok", "error"}
                              => pc'[r] = pc[r]
    /\ \A r \in Requests : IsUnit(r) =>
          effect'[r] = effect[r] \/ {effect[r], effect'[r]} \subseteq {"none", "open"}

LEMMA InvisibleStutters ==
    ASSUME job' = job, Invisible
    PROVE  UNCHANGED Unit!unitVars
<1>1. askOf' = askOf
  BY DEF Invisible, askOf, IsUnit, Commits
<1>2. outcomeOf' = outcomeOf
  BY DEF Invisible, outcomeOf, IsUnit
<1>3. answerOf' = answerOf
  BY DEF Invisible, answerOf, IsUnit
<1> QED BY <1>1, <1>2, <1>3 DEF Unit!unitVars

LEMMA InitRefines == Init => Unit!Init
<1> SUFFICES ASSUME Init PROVE Unit!Init
  OBVIOUS
<1>1. askOf = [r \in Requests |-> "none"]
  BY DEF Init, askOf
<1>2. outcomeOf = [r \in Requests |-> "pending"]
  BY DEF Init, outcomeOf
<1>3. answerOf = [r \in Requests |-> "none"]
  BY DEF Init, answerOf
<1> QED BY <1>1, <1>2, <1>3 DEF Unit!Init

\* A step that seals the work of unit r, and changes nothing else the client
\* could know, is a Settle step.
LEMMA SealSettles ==
    ASSUME job' = job, pc' \in [Requests -> Steps],
           NEW r \in Requests, NEW o \in {"kept", "doubt", "undone"},
           IsUnit(r), pc[r] \notin {"new", "ok", "error"},
           pc'[r] \notin {"new", "ok", "error"},
           effect[r] \in {"none", "open"}, effect'[r] = o,
           o \in {"kept", "doubt"} => Commits(r),
           \A s \in Requests \ {r} : pc'[s] = pc[s] /\ effect'[s] = effect[s]
    PROVE  Unit!Settle(r)
<1>1. askOf' = askOf
  BY DEF askOf, IsUnit, Commits
<1>2. answerOf' = answerOf
  BY DEF answerOf, IsUnit
<1>3. outcomeOf' = [outcomeOf EXCEPT ![r] = o]
  BY DEF outcomeOf, IsUnit
<1>4. askOf[r] # "none" /\ outcomeOf[r] = "pending" /\ answerOf[r] = "none"
  BY DEF askOf, outcomeOf, answerOf
<1>5. o \in {"kept", "doubt"} => askOf[r] = "keep"
  BY DEF askOf
<1> QED BY <1>1, <1>2, <1>3, <1>4, <1>5 DEF Unit!Settle

\* The arrival of a unit is a Start step.
LEMMA ArrivalStarts ==
    ASSUME job' = job, effect' = effect, NEW r \in Requests, IsUnit(r),
           pc[r] = "new", pc'[r] = "connect",
           \A s \in Requests \ {r} : pc'[s] = pc[s]
    PROVE  Unit!Start(r)
<1>1. outcomeOf' = outcomeOf
  BY DEF outcomeOf, IsUnit
<1>2. answerOf' = answerOf
  BY DEF answerOf, IsUnit
<1>3. askOf[r] = "none"
  BY DEF askOf
<1>4. PICK a \in {"keep", "discard"} : askOf' = [askOf EXCEPT ![r] = a]
  <2>1. CASE Commits(r)
    <3>1. askOf' = [askOf EXCEPT ![r] = "keep"]
      BY <2>1 DEF askOf, IsUnit, Commits
    <3> QED BY <3>1
  <2>2. CASE ~Commits(r)
    <3>1. askOf' = [askOf EXCEPT ![r] = "discard"]
      BY <2>2 DEF askOf, IsUnit, Commits
    <3> QED BY <3>1
  <2> QED BY <2>1, <2>2
<1> QED BY <1>1, <1>2, <1>3, <1>4 DEF Unit!Start

\* The answer of a unit changes nothing else of what RequestUnit sees.
LEMMA ReplyAnswers ==
    ASSUME job' = job, effect' = effect, NEW r \in Requests, IsUnit(r),
           NEW a \in {"ok", "error"}, pc[r] = "answer", pc'[r] = a,
           \A s \in Requests \ {r} : pc'[s] = pc[s]
    PROVE  /\ answerOf' = [answerOf EXCEPT ![r] = a]
           /\ askOf' = askOf
           /\ outcomeOf' = outcomeOf
<1>1. answerOf' = [answerOf EXCEPT ![r] = a]
  BY DEF answerOf, IsUnit
<1>2. askOf' = askOf
  BY DEF askOf, IsUnit, Commits
<1>3. outcomeOf' = outcomeOf
  BY DEF outcomeOf, IsUnit
<1> QED BY <1>1, <1>2, <1>3

\* Every step is a step of RequestUnit, or invisible to it.
LEMMA StepRefines ==
    IInv /\ UnitInv /\ [Next]_vars => [Unit!Next]_(Unit!unitVars)
<1> SUFFICES ASSUME IInv, UnitInv, [Next]_vars
             PROVE  Unit!Next \/ UNCHANGED Unit!unitVars
  OBVIOUS
<1> USE NoConnAssumption
<1> USE DEF UnitInv, UnitOK, IInv, TxInv, TypeOK, TxFollowsSteps, OpenWorkIsLive,
            Steps, Holding, Serving, Unfinished, UnitSteps, handlerVars,
            poolVars, Go, Fail, Released, Reaches
<1>arrive. ASSUME NEW r \in Requests, Arrive(r)
           PROVE  Unit!Next \/ UNCHANGED Unit!unitVars
  <2>1. CASE IsUnit(r)
    <3>1. Unit!Start(r)
      BY <1>arrive, <2>1, ArrivalStarts DEF Arrive
    <3> QED BY <3>1 DEF Unit!Next
  <2>2. CASE ~IsUnit(r)
    <3>1. outcomeOf' = outcomeOf
      BY <1>arrive DEF Arrive, outcomeOf, IsUnit
    <3>2. answerOf' = answerOf
      BY <1>arrive DEF Arrive, answerOf, IsUnit
    <3>3. askOf' = askOf
      BY <1>arrive, <2>2 DEF Arrive, askOf, IsUnit, Commits
    <3> QED BY <3>1, <3>2, <3>3 DEF Unit!unitVars
  <2> QED BY <2>1, <2>2
<1>answer. ASSUME NEW r \in Requests, Answer(r)
           PROVE  Unit!Next \/ UNCHANGED Unit!unitVars
  <2>1. CASE IsUnit(r) /\ failed[r]
    <3>1. /\ answerOf' = [answerOf EXCEPT ![r] = "error"]
          /\ askOf' = askOf /\ outcomeOf' = outcomeOf
      BY <1>answer, <2>1, ReplyAnswers DEF Answer
    <3>2. askOf[r] # "none" /\ answerOf[r] = "none" /\ outcomeOf[r] # "kept"
      BY <1>answer, <2>1 DEF Answer, askOf, outcomeOf, answerOf
    <3>3. Unit!AnswerError(r)
      BY <3>1, <3>2 DEF Unit!AnswerError
    <3> QED BY <3>3 DEF Unit!Next
  <2>2. CASE IsUnit(r) /\ ~failed[r]
    <3>1. /\ answerOf' = [answerOf EXCEPT ![r] = "ok"]
          /\ askOf' = askOf /\ outcomeOf' = outcomeOf
      BY <1>answer, <2>2, ReplyAnswers DEF Answer
    <3>2. effect[r] # "open"
      BY <1>answer DEF Answer
    <3>3. answerOf[r] = "none"
      BY <1>answer DEF Answer, answerOf
    <3>4. \/ askOf[r] = "keep" /\ outcomeOf[r] = "kept"
          \/ askOf[r] = "discard" /\ outcomeOf[r] = "undone"
      BY <1>answer, <2>2, <3>2 DEF Answer, askOf, outcomeOf
    <3>5. Unit!AnswerOk(r)
      BY <3>1, <3>3, <3>4 DEF Unit!AnswerOk
    <3> QED BY <3>5 DEF Unit!Next
  <2>3. CASE ~IsUnit(r)
    <3>1. askOf' = askOf
      BY <1>answer DEF Answer, askOf, IsUnit, Commits
    <3>2. outcomeOf' = outcomeOf
      BY <1>answer DEF Answer, outcomeOf, IsUnit
    <3>3. answerOf' = answerOf
      BY <1>answer, <2>3 DEF Answer, answerOf, IsUnit
    <3> QED BY <3>1, <3>2, <3>3 DEF Unit!unitVars
  <2> QED BY <2>1, <2>2, <2>3
<1>lands. ASSUME NEW r \in Requests, CommitLands(r)
          PROVE  Unit!Next
  <2>1. IsUnit(r) /\ effect[r] = "open" /\ Commits(r)
    BY <1>lands DEF CommitLands
  <2>2. Unit!Settle(r)
    BY <1>lands, <2>1, SealSettles DEF CommitLands
  <2> QED BY <2>2 DEF Unit!Next
<1>lost. ASSUME NEW r \in Requests, CommitReplyLost(r)
         PROVE  Unit!Next
  <2>1. IsUnit(r) /\ effect[r] = "open" /\ Commits(r)
    BY <1>lost DEF CommitReplyLost
  <2>2. Unit!Settle(r)
    BY <1>lost, <2>1, SealSettles DEF CommitReplyLost
  <2> QED BY <2>2 DEF Unit!Next
<1>undo. ASSUME NEW r \in Requests, RollbackRuns(r) \/ WatcherRollsBack(r)
         PROVE  Unit!Next \/ UNCHANGED Unit!unitVars
  <2>1. IsUnit(r) /\ pc[r] \notin {"new", "ok", "error"}
    BY <1>undo DEF RollbackRuns, WatcherRollsBack
  <2>2. CASE effect[r] = "open"
    <3>1. Unit!Settle(r)
      BY <1>undo, <2>1, <2>2, SealSettles DEF RollbackRuns, WatcherRollsBack, UndoWork
    <3> QED BY <3>1 DEF Unit!Next
  <2>3. CASE effect[r] # "open"
    <3>1. job' = job /\ Invisible
      BY <1>undo, <2>1, <2>3 DEF RollbackRuns, WatcherRollsBack, UndoWork, Invisible
    <3> QED BY <3>1, InvisibleStutters
  <2> QED BY <2>2, <2>3
<1>dies. ASSUME NEW c \in Conns, SessionDies(c)
         PROVE  Unit!Next \/ UNCHANGED Unit!unitVars
  <2>1. CASE \E r \in Requests : IsUnit(r) /\ held[r] = c /\ effect[r] = "open"
    <3>1. PICK r \in Requests : IsUnit(r) /\ held[r] = c /\ effect[r] = "open"
      BY <2>1
    <3>2. \A s \in Requests \ {r} : held[s] # c
      BY <3>1 DEF RoleInv, HoldersDistinct
    <3>3. Unit!Settle(r)
      BY <1>dies, <3>1, <3>2, SealSettles DEF SessionDies
    <3> QED BY <3>3 DEF Unit!Next
  <2>2. CASE \A r \in Requests : ~(IsUnit(r) /\ held[r] = c /\ effect[r] = "open")
    <3>1. job' = job /\ Invisible
      BY <1>dies, <2>2 DEF SessionDies, Invisible
    <3> QED BY <3>1, InvisibleStutters
  <2> QED BY <2>1, <2>2
<1>1. ASSUME NEW r \in Requests, NEW c \in Conns, TakeIdle(r, c)
      PROVE  UNCHANGED Unit!unitVars
  <2>1. job' = job /\ Invisible
    BY <1>1 DEF TakeIdle, CheckOut, Invisible
  <2> QED BY <2>1, InvisibleStutters
<1>2. ASSUME NEW r \in Requests, NEW c \in Conns, LogIn(r, c)
      PROVE  UNCHANGED Unit!unitVars
  <2>1. job' = job /\ Invisible
    BY <1>2 DEF LogIn, CheckOut, NoUsableIdle, Invisible
  <2> QED BY <2>1, InvisibleStutters
<1>3. ASSUME NEW r \in Requests, ConnectFails(r)
      PROVE  UNCHANGED Unit!unitVars
  <2>1. job' = job /\ Invisible
    BY <1>3 DEF ConnectFails, Invisible
  <2> QED BY <2>1, InvisibleStutters
<1>4. ASSUME NEW r \in Requests, SwitchRole(r)
      PROVE  UNCHANGED Unit!unitVars
  <2>1. job' = job /\ Invisible
    BY <1>4 DEF SwitchRole, Invisible
  <2> QED BY <2>1, InvisibleStutters
<1>5. ASSUME NEW r \in Requests, SwitchRoleFails(r)
      PROVE  UNCHANGED Unit!unitVars
  <2>1. job' = job /\ Invisible
    BY <1>5 DEF SwitchRoleFails, Invisible
  <2> QED BY <2>1, InvisibleStutters
<1>6. ASSUME NEW r \in Requests, Begin(r)
      PROVE  UNCHANGED Unit!unitVars
  <2>1. job' = job /\ Invisible
    BY <1>6 DEF Begin, Invisible
  <2> QED BY <2>1, InvisibleStutters
<1>7. ASSUME NEW r \in Requests, BeginFails(r)
      PROVE  UNCHANGED Unit!unitVars
  <2>1. job' = job /\ Invisible
    BY <1>7 DEF BeginFails, Invisible
  <2> QED BY <2>1, InvisibleStutters
<1>8. ASSUME NEW r \in Requests, RunHook(r)
      PROVE  UNCHANGED Unit!unitVars
  <2>1. IsUnit(r) /\ effect' # effect => effect[r] \in {"none", "open"}
    <3> SUFFICES ASSUME IsUnit(r), effect' # effect PROVE effect[r] \in {"none", "open"}
      OBVIOUS
    <3>1. PreRequest /\ live[held[r]] /\ tx[r] = "open"
      BY <1>8 DEF RunHook, TxUsable
    <3>2. effect[r] \in Effects
      OBVIOUS
    <3> QED BY <3>1, <3>2 DEF Effects
  <2>2. /\ job' = job
        /\ \A s \in Requests : pc'[s] = IF s = r THEN pc'[r] ELSE pc[s]
        /\ pc[r] \notin {"new", "ok", "error"} /\ pc'[r] \notin {"new", "ok", "error"}
    BY <1>8 DEF RunHook
  <2>3. \A s \in Requests : IsUnit(s) =>
           effect'[s] = effect[s] \/ {effect[s], effect'[s]} \subseteq {"none", "open"}
    BY <1>8, <2>1 DEF RunHook
  <2> QED BY <2>2, <2>3, InvisibleStutters DEF Invisible
<1>9. ASSUME NEW r \in Requests, RunWork(r)
      PROVE  UNCHANGED Unit!unitVars
  <2>1. IsUnit(r) /\ effect' # effect => effect[r] \in {"none", "open"}
    <3> SUFFICES ASSUME IsUnit(r), effect' # effect PROVE effect[r] \in {"none", "open"}
      OBVIOUS
    <3>1. live[held[r]] /\ tx[r] = "open"
      BY <1>9 DEF RunWork, TxUsable
    <3>2. effect[r] \in Effects
      OBVIOUS
    <3> QED BY <3>1, <3>2 DEF Effects
  <2>2. /\ job' = job
        /\ \A s \in Requests : pc'[s] = IF s = r THEN pc'[r] ELSE pc[s]
        /\ pc[r] \notin {"new", "ok", "error"} /\ pc'[r] \notin {"new", "ok", "error"}
    BY <1>9 DEF RunWork
  <2>3. \A s \in Requests : IsUnit(s) =>
           effect'[s] = effect[s] \/ {effect[s], effect'[s]} \subseteq {"none", "open"}
    BY <1>9, <2>1 DEF RunWork
  <2> QED BY <2>2, <2>3, InvisibleStutters DEF Invisible
<1>10. ASSUME NEW r \in Requests, ServeFails(r)
      PROVE  UNCHANGED Unit!unitVars
  <2>1. job' = job /\ Invisible
    BY <1>10 DEF ServeFails, IsUnit, Invisible
  <2> QED BY <2>1, InvisibleStutters
<1>11. ASSUME NEW r \in Requests, EndUnit(r)
      PROVE  UNCHANGED Unit!unitVars
  <2>1. job' = job /\ Invisible
    BY <1>11 DEF EndUnit, Commits, Invisible
  <2> QED BY <2>1, InvisibleStutters
<1>12. ASSUME NEW r \in Requests, CommitStarts(r)
      PROVE  UNCHANGED Unit!unitVars
  <2>1. job' = job /\ Invisible
    BY <1>12 DEF CommitStarts, Invisible
  <2> QED BY <2>1, InvisibleStutters
<1>13. ASSUME NEW r \in Requests, CommitRefused(r)
      PROVE  UNCHANGED Unit!unitVars
  <2>1. job' = job /\ Invisible
    BY <1>13 DEF CommitRefused, Invisible
  <2> QED BY <2>1, InvisibleStutters
<1>14. ASSUME NEW r \in Requests, CommitClaims(r)
      PROVE  UNCHANGED Unit!unitVars
  <2>1. job' = job /\ Invisible
    BY <1>14 DEF CommitClaims, Invisible
  <2> QED BY <2>1, InvisibleStutters
<1>15. ASSUME NEW r \in Requests, CommitFails(r)
      PROVE  UNCHANGED Unit!unitVars
  <2>1. job' = job /\ Invisible
    BY <1>15 DEF CommitFails, Invisible
  <2> QED BY <2>1, InvisibleStutters
<1>16. ASSUME NEW r \in Requests, RollbackFindsDone(r)
      PROVE  UNCHANGED Unit!unitVars
  <2>1. job' = job /\ Invisible
    BY <1>16 DEF RollbackFindsDone, Invisible
  <2> QED BY <2>1, InvisibleStutters
<1>17. ASSUME NEW r \in Requests, ClearRoles(r)
      PROVE  UNCHANGED Unit!unitVars
  <2>1. job' = job /\ Invisible
    BY <1>17 DEF ClearRoles, Invisible
  <2> QED BY <2>1, InvisibleStutters
<1>18. ASSUME NEW r \in Requests, ClearFails(r)
      PROVE  UNCHANGED Unit!unitVars
  <2>1. job' = job /\ Invisible
    BY <1>18 DEF ClearFails, Invisible
  <2> QED BY <2>1, InvisibleStutters
<1>19. ASSUME NEW r \in Requests, Close(r)
      PROVE  UNCHANGED Unit!unitVars
  <2>1. job' = job /\ Invisible
    BY <1>19 DEF Close, Keepable, Invisible
  <2> QED BY <2>1, InvisibleStutters
<1>20. ASSUME NEW r \in Requests, WatcherClaims(r)
      PROVE  UNCHANGED Unit!unitVars
  <2>1. job' = job /\ Invisible
    BY <1>20 DEF WatcherClaims, Invisible
  <2> QED BY <2>1, InvisibleStutters
<1>21. ASSUME NEW r \in Requests, ClientLeaves(r)
      PROVE  UNCHANGED Unit!unitVars
  <2>1. job' = job /\ Invisible
    BY <1>21 DEF ClientLeaves, Invisible
  <2> QED BY <2>1, InvisibleStutters
<1>22. ASSUME NEW c \in Conns, DropDeadIdle(c)
      PROVE  UNCHANGED Unit!unitVars
  <2>1. job' = job /\ Invisible
    BY <1>22 DEF DropDeadIdle, Invisible
  <2> QED BY <2>1, InvisibleStutters
<1>23. CASE UNCHANGED vars
  <2>1. job' = job /\ Invisible
    BY <1>23 DEF vars, Invisible
  <2> QED BY <2>1, InvisibleStutters
<1> QED
  BY <1>arrive, <1>answer, <1>lands, <1>lost, <1>undo, <1>dies, <1>1, <1>2,
     <1>3, <1>4, <1>5, <1>6, <1>7, <1>8, <1>9, <1>10, <1>11, <1>12, <1>13,
     <1>14, <1>15, <1>16, <1>17, <1>18, <1>19, <1>20, <1>21, <1>22, <1>23 DEF
     Next, Handler, Watcher, Environment, Quiet

\* The write and RPC units of the pool keep the promise of RequestUnit: atomic,
\* kept only as db-tx-end and Prefer: tx= decide, answered truthfully.
THEOREM UnitsKeepThePromise == Spec => UnitsAreAtomic
<1>1. Spec => []UnitInv
  <2>1. Spec => []IInv
    BY Invariance
  <2> QED BY <2>1, InitUnitInv, NextKeepsUnitInv, PTL DEF Spec
<1> QED BY Invariance, <1>1, InitRefines, StepRefines, PTL
        DEF Spec, UnitsAreAtomic, Unit!Spec
====
