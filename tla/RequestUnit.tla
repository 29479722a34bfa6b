---------------------------- MODULE RequestUnit ----------------------------
(***************************************************************************)
(* What a write or RPC request promises its client, with no connection,    *)
(* session or goroutine in sight (docs/transactions.md, "Request units"):  *)
(* the work of a unit becomes permanent at most once and as a whole, only  *)
(* when the configuration says so, and the answer tells the truth about it.*)
(* The one honest exception is a unit whose connection dies at COMMIT: the *)
(* work is permanent and the client is told it failed.                     *)
(***************************************************************************)
CONSTANT Requests

VARIABLES
    ask,      \* ask[r]: what the unit must do with its work, once known
    outcome,  \* outcome[r]: what has become of the work of the unit
    answer    \* answer[r]: what the client was told

unitVars == <<ask, outcome, answer>>

Asks     == {"none", "keep", "discard"}
Outcomes == {"pending", "kept", "doubt", "undone"}
Answers  == {"none", "ok", "error"}

Init ==
    /\ ask = [r \in Requests |-> "none"]
    /\ outcome = [r \in Requests |-> "pending"]
    /\ answer = [r \in Requests |-> "none"]

\* A unit starts; db-tx-end and Prefer: tx= have settled what it asks for.
Start(r) ==
    /\ ask[r] = "none"
    /\ \E a \in {"keep", "discard"} : ask' = [ask EXCEPT ![r] = a]
    /\ UNCHANGED <<outcome, answer>>

\* The work of the unit becomes permanent, or is undone, before the answer.
Settle(r) ==
    /\ ask[r] # "none" /\ outcome[r] = "pending" /\ answer[r] = "none"
    /\ \E o \in {"kept", "doubt", "undone"} :
          /\ o \in {"kept", "doubt"} => ask[r] = "keep"
          /\ outcome' = [outcome EXCEPT ![r] = o]
    /\ UNCHANGED <<ask, answer>>

\* Success is answered only for work that ended the way the unit asked.
AnswerOk(r) ==
    /\ answer[r] = "none"
    /\ \/ ask[r] = "keep" /\ outcome[r] = "kept"
       \/ ask[r] = "discard" /\ outcome[r] = "undone"
    /\ answer' = [answer EXCEPT ![r] = "ok"]
    /\ UNCHANGED <<ask, outcome>>

\* Failure is answered only for work that is not known to be permanent.
AnswerError(r) ==
    /\ ask[r] # "none" /\ answer[r] = "none"
    /\ outcome[r] # "kept"
    /\ answer' = [answer EXCEPT ![r] = "error"]
    /\ UNCHANGED <<ask, outcome>>

Next == \E r \in Requests : Start(r) \/ Settle(r) \/ AnswerOk(r) \/ AnswerError(r)

Spec == Init /\ [][Next]_unitVars
=============================================================================
