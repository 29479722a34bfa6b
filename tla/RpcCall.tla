------------------------------ MODULE RpcCall ------------------------------
(***************************************************************************)
(* One RPC call, from the checks of rpcexec.Service.Execute over the       *)
(* routine's own statements in MySQL (mysqldb/call.go) to the answer       *)
(* (httpapi/rpc.go), with the end of the unit in between: what a call      *)
(* keeps, and what it tells the client about it.                           *)
(*                                                                         *)
(* How units share connections, lose them and end under a client that      *)
(* leaves is in RequestPool; here the unit is the call's own transaction.  *)
(* The routine is external: a sequence of statements that write, send a    *)
(* result set, raise an error, or lose a deadlock, on which MySQL rolls    *)
(* the whole transaction back.  Rows are abstracted to their number.       *)
(*                                                                         *)
(* An operator named Bug... is a faulty variant of the definition below    *)
(* it, which the specification does not use.                               *)
(***************************************************************************)
EXTENDS TxEnd, Naturals, Sequences

CONSTANTS
    Bodies,       \* the bodies of the routines
    MaxCount,     \* bound on the rows of a result set
    MaxRows       \* db-max-rows

ASSUME BodyAssumption  == Bodies \subseteq Seq({"write", "select", "raise", "deadlock"})
ASSUME CountAssumption == MaxCount \in Nat /\ MaxRows \in Nat

VARIABLES
    call,         \* the routine and what the request asks of it
    mode,         \* db-tx-end
    pc,           \* the next step
    at,           \* the routine statement that runs next
    tabular,      \* the routine has sent a result set
    count,        \* the rows of its first result set
    shaped,       \* the rows left after filters and pagination
    raised,       \* the routine ended with an error
    effect,       \* what has become of the data it wrote
    answer,       \* the status and body the client gets
    applied       \* the tx= of Preference-Applied, or ""

vars == <<call, mode, pc, at, tabular, count, shaped, raised, effect, answer, applied>>

Features == {"none", "filter", "badcolumn", "embed"}
Calls ==
    [kind : {"FUNCTION", "PROCEDURE"}, readSafe : BOOLEAN, body : Bodies,
     get : BOOLEAN, args : {"named", "wrong"},
     repr : {"array", "csv", "object"}, feature : Features, prefer : TxPrefers]

\* The statement of a function never sends a result set of its own.
Sends(body)  == \E i \in 1..Len(body) : body[i] = "select"
Callable(c)  == c.kind = "FUNCTION" => ~Sends(c.body)

TypeOK ==
    /\ call \in Calls /\ mode \in TxEndModes
    /\ pc \in {"check", "run", "outputs", "validate", "end", "undo", "shape", "done"}
    /\ at \in 1..(Len(call.body) + 1)
    /\ tabular \in BOOLEAN /\ raised \in BOOLEAN
    /\ count \in 0..MaxCount /\ shaped \in 0..count
    /\ effect \in {"none", "open", "kept", "undone"}
    /\ answer \in {"none", "error", "rows", "object", "scalar"}
    /\ applied \in TxPrefers
    /\ effect = "open" => pc \in {"run", "outputs", "validate", "end", "undo"}

Init ==
    /\ call \in {c \in Calls : Callable(c)}
    /\ mode \in TxEndModes
    /\ pc = "check" /\ at = 1
    /\ tabular = FALSE /\ count = 0 /\ shaped = 0
    /\ raised = FALSE /\ effect = "none"
    /\ answer = "none" /\ applied = ""

-----------------------------------------------------------------------------
Go(step) == pc' = step
Answer(body) == pc' = "done" /\ answer' = body

RowOnly     == call.repr # "array"
RowFeatures == call.feature # "none"
\* ValidateCardinality: one object needs exactly one row.
Fits(n)     == call.repr = "object" => n = 1

-----------------------------------------------------------------------------
(* Service.Execute: refusals before anything runs.                         *)

Admissible == (call.get => call.readSafe) /\ call.args = "named"

Refuse ==
    /\ pc = "check" /\ ~Admissible
    /\ Answer("error")
    /\ UNCHANGED <<call, mode, at, tabular, count, shaped, raised, effect, applied>>

\* withRequestTx begins the unit and the routine is called in it.
Begin ==
    /\ pc = "check" /\ Admissible
    /\ Go("run")
    /\ UNCHANGED <<call, mode, at, tabular, count, shaped, raised, effect, answer, applied>>

-----------------------------------------------------------------------------
(* callRoutine: the statements of the routine.                             *)

Runs(statement) == pc = "run" /\ at <= Len(call.body) /\ call.body[at] = statement

RunWrite ==
    /\ Runs("write")
    /\ effect' = "open" /\ at' = at + 1
    /\ UNCHANGED <<call, mode, pc, tabular, count, shaped, raised, answer, applied>>

\* The first result set is kept, the others are drained.
RunSelect ==
    /\ Runs("select")
    /\ at' = at + 1
    /\ IF tabular THEN UNCHANGED <<tabular, count>>
       ELSE tabular' = TRUE /\ count' \in 0..MaxCount
    /\ UNCHANGED <<call, mode, pc, shaped, raised, effect, answer, applied>>

\* An error is the result of the call, unless a result set came before it: the
\* loop that drains the others ends at the error and nobody asks for it.
RunRaise ==
    /\ Runs("raise")
    /\ raised' = TRUE
    /\ Go(IF tabular THEN "validate" ELSE "undo")
    /\ UNCHANGED <<call, mode, at, tabular, count, shaped, effect, answer, applied>>

\* MySQL rolls the transaction back before it reports a deadlock.
RunDeadlock ==
    /\ Runs("deadlock")
    /\ raised' = TRUE
    /\ effect' = IF effect = "open" THEN "undone" ELSE effect
    /\ Go(IF tabular THEN "validate" ELSE "undo")
    /\ UNCHANGED <<call, mode, at, tabular, count, shaped, answer, applied>>

RoutineEnds ==
    /\ pc = "run" /\ at > Len(call.body)
    /\ Go(IF tabular \/ call.kind = "FUNCTION" THEN "validate" ELSE "outputs")
    /\ UNCHANGED <<call, mode, at, tabular, count, shaped, raised, effect, answer, applied>>

\* A procedure without a result set: its OUT and INOUT variables are read, and
\* a value of theirs may not convert.
ReadOutputs ==
    /\ pc = "outputs"
    /\ \E step \in {"validate", "undo"} : Go(step)
    /\ UNCHANGED <<call, mode, at, tabular, count, shaped, raised, effect, answer, applied>>

-----------------------------------------------------------------------------
(* The representation is validated inside the unit.                        *)

\* The rows that Shape leaves: db-max-rows, filters and pages take rows away.
ShapedCounts ==
    LET most == IF count < MaxRows THEN count ELSE MaxRows IN
    IF RowFeatures THEN 0..most ELSE {most}

\* No row, no column to miss.
ColumnsFound == call.feature = "badcolumn" => count = 0

\* No validator is built for a representation alone.
BugValidateFeaturesOnly ==
    /\ pc = "validate"
    /\ \E n \in ShapedCounts :
          /\ shaped' = n
          /\ Go(IF ~RowFeatures THEN "end"
                ELSE IF tabular /\ ColumnsFound /\ Fits(n) THEN "end" ELSE "undo")
    /\ UNCHANGED <<call, mode, at, tabular, count, raised, effect, answer, applied>>

\* representationCheck.validate; nothing to check is nothing to refuse.
Validate ==
    /\ pc = "validate"
    /\ \E n \in ShapedCounts :
          /\ shaped' = n
          /\ Go(IF ~RowOnly /\ ~RowFeatures THEN "end"
                ELSE IF tabular /\ ColumnsFound /\ Fits(n) THEN "end" ELSE "undo")
    /\ UNCHANGED <<call, mode, at, tabular, count, raised, effect, answer, applied>>

-----------------------------------------------------------------------------
(* The end of the unit.                                                    *)

\* The deferred Rollback is missing.
BugNoRollback ==
    /\ pc = "undo"
    /\ Answer("error")
    /\ UNCHANGED <<call, mode, at, tabular, count, shaped, raised, effect, applied>>

\* The deferred Rollback, and the error goes to the client.
Undo ==
    /\ pc = "undo"
    /\ effect' = IF effect = "open" THEN "undone" ELSE effect
    /\ Answer("error")
    /\ UNCHANGED <<call, mode, at, tabular, count, shaped, raised, applied>>

Applied == IF DecideApplied(mode, call.prefer) THEN call.prefer ELSE ""

\* The unit ends by db-tx-end alone; Prefer: tx= is announced all the same.
BugIgnorePrefer ==
    /\ pc = "end"
    /\ effect' = IF effect # "open" THEN effect
                 ELSE IF DecideCommit(mode, "") THEN "kept" ELSE "undone"
    /\ applied' = Applied
    /\ Go("shape")
    /\ UNCHANGED <<call, mode, at, tabular, count, shaped, raised, answer>>

\* DecideTxEnd, twice: in withRequestTx for the end, in Execute for the header.
EndUnit ==
    /\ pc = "end"
    /\ effect' = IF effect # "open" THEN effect
                 ELSE IF DecideCommit(mode, call.prefer) THEN "kept" ELSE "undone"
    /\ applied' = Applied
    /\ Go("shape")
    /\ UNCHANGED <<call, mode, at, tabular, count, shaped, raised, answer>>

\* COMMIT fails, and with it the call.
CommitFails ==
    /\ pc = "end" /\ DecideCommit(mode, call.prefer)
    /\ Go("undo")
    /\ UNCHANGED <<call, mode, at, tabular, count, shaped, raised, effect, answer, applied>>

-----------------------------------------------------------------------------
(* invokeRoutine after the unit: shape the rows, answer.                   *)

\* Embeds are planned and read now, after the end of the unit.
EmbedFails ==
    /\ pc = "shape" /\ tabular /\ call.feature = "embed"
    /\ Answer("error")
    /\ UNCHANGED <<call, mode, at, tabular, count, shaped, raised, effect, applied>>

AnswerRows ==
    /\ pc = "shape" /\ tabular
    /\ Answer(IF ColumnsFound /\ Fits(shaped) THEN "rows" ELSE "error")
    /\ UNCHANGED <<call, mode, at, tabular, count, shaped, raised, effect, applied>>

\* writeScalarRPC, for the value of a function or the outputs of a procedure.
AnswerValue ==
    /\ pc = "shape" /\ ~tabular
    /\ Answer(IF RowOnly THEN "error"
              ELSE IF call.kind = "FUNCTION" THEN "scalar" ELSE "object")
    /\ UNCHANGED <<call, mode, at, tabular, count, shaped, raised, effect, applied>>

Finished == pc = "done" /\ UNCHANGED vars

Next ==
    \/ Refuse \/ Begin
    \/ RunWrite \/ RunSelect \/ RunRaise \/ RunDeadlock \/ RoutineEnds \/ ReadOutputs
    \/ Validate \/ Undo \/ EndUnit \/ CommitFails
    \/ EmbedFails \/ AnswerRows \/ AnswerValue \/ Finished

Spec == Init /\ [][Next]_vars

-----------------------------------------------------------------------------
\* A refusal keeps nothing, whatever refuses: the checks before the call, the
\* routine's own error, its outputs, the representation or the COMMIT ("Refuse
\* before commit", call.go 39, issue #175).  Embeds are the exception: they are
\* planned and read after the unit has ended.
NoLateRefusal ==
    answer = "error" /\ call.feature # "embed" => effect # "kept"

Successful == answer \in {"rows", "object", "scalar"}
\* What a client takes from a success: Preference-Applied, or in its absence the
\* default of db-tx-end (docs/transactions.md, "db-tx-end values").
AnnouncedKept ==
    applied = "commit" \/ (applied = "" /\ mode \in {"commit", "commit-allow-override"})

\* The routine lost a deadlock after its first result set: MySQL has rolled the
\* unit back, and the loop of callProcedure (call.go 116) does not see it.
LostDeadlock == raised /\ at <= Len(call.body) /\ call.body[at] = "deadlock"

\* What a successful call wrote is kept only if the answer says so, and if the
\* answer says so it is kept, also when the routine raised an error that nobody
\* asked for.  The one exception is a deadlock that is lost after the first
\* result set: nothing is kept, and the answer may say otherwise.
EndAsAnnounced ==
    Successful /\ effect # "none" =>
        /\ effect = "kept" => AnnouncedKept
        /\ AnnouncedKept => effect = "kept" \/ LostDeadlock

\* docs/transactions.md: "A failing write or RPC rolls back that unit".  The
\* routine failed, so nothing it wrote is kept.
FailedRoutineRollsBack == raised => effect # "kept"

=============================================================================
