--------------------------- MODULE RpcCallProofs ---------------------------
(***************************************************************************)
(* Theorems about RpcCall, for every set of routines and every cap on      *)
(* rows: no refusal comes too late, and the end of a unit is announced as  *)
(* it happened.                                                            *)
(*                                                                         *)
(* IInv adds what the unit's last check leaves behind: once the validator  *)
(* has passed, the answer that is written after the end of the unit can    *)
(* only fail on an embed, and the end that is announced is the one decided.*)
(***************************************************************************)
EXTENDS RpcCall, TLAPS

\* What the answer will check again after the unit has passed already inside.
Presentable == IF tabular THEN ColumnsFound /\ Fits(shaped) ELSE ~RowOnly

ValidatedInv ==
    /\ pc \in {"check", "run"} => shaped = 0
    /\ effect = "kept" => pc \in {"shape", "done"}
    /\ pc = "done" => answer # "none"
    /\ answer # "none" => pc = "done"
    /\ pc \in {"end", "shape"} => Presentable
    /\ answer = "error" /\ call.feature # "embed" => effect # "kept"

\* What is undone early is undone by a deadlock; any other work meets the end
\* that was decided.
EndInv ==
    /\ raised => pc \notin {"check", "run"}
    /\ pc = "shape" \/ Successful =>
          /\ applied = Applied
          /\ effect # "none" =>
                \/ effect = IF DecideCommit(mode, call.prefer) THEN "kept" ELSE "undone"
                \/ LostDeadlock /\ effect = "undone"
    /\ effect = "undone" => pc \in {"shape", "done"} \/ LostDeadlock

IInv == TypeOK /\ ValidatedInv /\ EndInv

-----------------------------------------------------------------------------
\* The announcement names the end that was decided.
LEMMA AnnouncedIsDecided ==
    ASSUME NEW m \in TxEndModes, NEW p \in TxPrefers
    PROVE  DecideCommit(m, p) <=>
              LET a == IF DecideApplied(m, p) THEN p ELSE "" IN
              \/ a = "commit"
              \/ a = "" /\ m \in {"commit", "commit-allow-override"}
<1>1. m \in {"commit", "commit-allow-override", "rollback", "rollback-allow-override"}
    BY DEF TxEndModes
<1>2. p \in {"", "commit", "rollback"}
    BY DEF TxPrefers
<1> QED BY <1>1, <1>2 DEF DecideCommit, DecideApplied, OverrideModes

LEMMA AppliedIsAPrefer ==
    ASSUME TypeOK PROVE Applied \in TxPrefers
BY DEF TypeOK, Calls, Applied, TxPrefers

\* Shape takes rows away and adds none.
LEMMA ShapedIsFewer ==
    ASSUME TypeOK, NEW n \in ShapedCounts PROVE n \in 0..count
BY CountAssumption DEF TypeOK, ShapedCounts

-----------------------------------------------------------------------------
LEMMA InitIInv == Init => IInv
<1> SUFFICES ASSUME Init PROVE IInv
    OBVIOUS
<1>1. TypeOK
    <2>1. call \in Calls /\ mode \in TxEndModes
        BY DEF Init
    <2>2. at \in 1..(Len(call.body) + 1)
        <3>1. Len(call.body) \in Nat
            BY <2>1, BodyAssumption DEF Calls
        <3>2. at = 1
            BY DEF Init
        <3> QED BY <3>1, <3>2
    <2>3. count \in 0..MaxCount /\ shaped \in 0..count
        <3>1. count = 0 /\ shaped = 0
            BY DEF Init
        <3> QED BY <3>1, CountAssumption
    <2> QED BY <2>1, <2>2, <2>3 DEF Init, TypeOK, TxPrefers
<1>2. ValidatedInv /\ EndInv
    BY DEF Init, ValidatedInv, EndInv, Successful, LostDeadlock
<1> QED BY <1>1, <1>2 DEF IInv

LEMMA NextKeepsIInv == IInv /\ [Next]_vars => IInv'
<1> SUFFICES ASSUME IInv, [Next]_vars PROVE IInv'
    OBVIOUS
<1>0. TypeOK /\ ValidatedInv /\ EndInv
    BY DEF IInv
<1>a. Len(call.body) \in Nat
    BY <1>0, BodyAssumption DEF TypeOK, Calls
<1> USE <1>0, <1>a, CountAssumption
    DEF IInv, Go, Answer, Presentable, ColumnsFound, Fits, RowOnly, Applied,
        Successful, LostDeadlock
<1>1. CASE Refuse
    BY <1>1 DEF Refuse, TypeOK, ValidatedInv, EndInv
<1>2. CASE Begin
    <2>1. TypeOK'
        BY <1>2 DEF Begin, TypeOK
    <2>2. ValidatedInv'
        BY <1>2 DEF Begin, ValidatedInv
    <2>3. EndInv'
        BY <1>2 DEF Begin, EndInv, ValidatedInv
    <2> QED BY <2>1, <2>2, <2>3
<1>3. CASE RunWrite
    <2>1. TypeOK'
        BY <1>3 DEF RunWrite, Runs, TypeOK
    <2>2. ValidatedInv'
        BY <1>3 DEF RunWrite, Runs, ValidatedInv
    <2>3. EndInv'
        BY <1>3 DEF RunWrite, Runs, EndInv, ValidatedInv
    <2> QED BY <2>1, <2>2, <2>3
<1>4. CASE RunSelect
    <2>1. TypeOK'
        <3>1. at' = at + 1 /\ at <= Len(call.body) /\ at \in Nat
            BY <1>4 DEF RunSelect, Runs, TypeOK
        <3>2. at' \in 1..(Len(call.body) + 1)
            BY <3>1 DEF TypeOK
        <3>3. shaped = 0 /\ tabular' \in BOOLEAN /\ count' \in 0..MaxCount
            BY <1>4 DEF RunSelect, Runs, TypeOK, ValidatedInv
        <3>4. UNCHANGED <<call, mode, pc, shaped, raised, effect, answer, applied>>
            BY <1>4 DEF RunSelect
        <3>5. pc = "run"
            BY <1>4 DEF RunSelect, Runs
        <3> QED BY <3>2, <3>3, <3>4, <3>5 DEF TypeOK
    <2>2. ValidatedInv'
        BY <1>4 DEF RunSelect, Runs, ValidatedInv
    <2>3. EndInv'
        BY <1>4 DEF RunSelect, Runs, EndInv, ValidatedInv
    <2> QED BY <2>1, <2>2, <2>3
<1>5. CASE RunRaise
    BY <1>5 DEF RunRaise, Runs, TypeOK, ValidatedInv, EndInv
<1>6. CASE RunDeadlock
    BY <1>6 DEF RunDeadlock, Runs, TypeOK, ValidatedInv, EndInv
<1>7. CASE RoutineEnds
    BY <1>7 DEF RoutineEnds, TypeOK, ValidatedInv, EndInv
<1>8. CASE ReadOutputs
    BY <1>8 DEF ReadOutputs, TypeOK, ValidatedInv, EndInv
<1>9. CASE Validate
    <2>1. PICK n \in ShapedCounts :
             /\ shaped' = n
             /\ pc' = IF ~RowOnly /\ ~RowFeatures THEN "end"
                      ELSE IF tabular /\ ColumnsFound /\ Fits(n) THEN "end" ELSE "undo"
        BY <1>9 DEF Validate
    <2>2. n \in 0..count
        BY ShapedIsFewer
    <2>3. /\ pc = "validate"
          /\ UNCHANGED <<call, mode, at, tabular, count, raised, effect, answer, applied>>
        BY <1>9 DEF Validate
    <2>4. TypeOK'
        BY <2>1, <2>2, <2>3 DEF TypeOK
    <2>5. ValidatedInv'
        BY <2>1, <2>3 DEF ValidatedInv, RowFeatures
    <2>6. EndInv'
        BY <2>1, <2>3 DEF EndInv, ValidatedInv
    <2> QED BY <2>4, <2>5, <2>6
<1>10. CASE Undo
    BY <1>10 DEF Undo, TypeOK, ValidatedInv, EndInv
<1>11. CASE EndUnit
    <2>1. TypeOK'
        BY <1>11, AppliedIsAPrefer DEF EndUnit, TypeOK
    <2>2. ValidatedInv'
        BY <1>11 DEF EndUnit, ValidatedInv
    <2>3. EndInv'
        BY <1>11 DEF EndUnit, EndInv, ValidatedInv, TypeOK
    <2> QED BY <2>1, <2>2, <2>3
<1>12. CASE CommitFails
    BY <1>12 DEF CommitFails, TypeOK, ValidatedInv, EndInv
<1>13. CASE EmbedFails
    BY <1>13 DEF EmbedFails, TypeOK, ValidatedInv, EndInv
<1>14. CASE AnswerRows
    BY <1>14 DEF AnswerRows, TypeOK, ValidatedInv, EndInv
<1>15. CASE AnswerValue
    BY <1>15 DEF AnswerValue, TypeOK, ValidatedInv, EndInv
<1>16. CASE Finished \/ UNCHANGED vars
    <2>1. TypeOK'
        BY <1>16 DEF Finished, vars, TypeOK
    <2>2. ValidatedInv'
        BY <1>16 DEF Finished, vars, ValidatedInv
    <2>3. EndInv'
        <3>1. UNCHANGED <<call, mode, pc, at, raised, effect, answer, applied>>
            BY <1>16 DEF Finished, vars
        <3>2. DecideCommit(mode, call.prefer)' = DecideCommit(mode, call.prefer)
            BY <3>1
        <3> QED BY <3>1, <3>2 DEF EndInv
    <2> QED BY <2>1, <2>2, <2>3
<1> QED BY <1>1, <1>2, <1>3, <1>4, <1>5, <1>6, <1>7, <1>8, <1>9, <1>10, <1>11,
           <1>12, <1>13, <1>14, <1>15, <1>16 DEF Next

LEMMA Invariance == Spec => []IInv
BY InitIInv, NextKeepsIInv, PTL DEF Spec

-----------------------------------------------------------------------------
\* The types of a call, and no work of an answered call left in the open.
THEOREM TypeCorrect == Spec => []TypeOK
BY Invariance, PTL DEF IInv

\* Whatever the routine does and whatever the request asks of its rows, short
\* of embeds, a call that is refused keeps nothing.
THEOREM RefusedBeforeCommit == Spec => []NoLateRefusal
<1>1. IInv => NoLateRefusal
    BY DEF IInv, ValidatedInv, NoLateRefusal
<1> QED BY Invariance, <1>1, PTL

\* Preference-Applied and db-tx-end together tell the client exactly when the
\* work of a routine is kept, also after an error of the routine that nobody
\* asked for; a deadlock lost after the first result set is the one exception.
THEOREM EndIsAnnounced == Spec => []EndAsAnnounced
<1>1. IInv => EndAsAnnounced
    <2> SUFFICES ASSUME IInv, Successful, effect # "none"
                 PROVE  /\ effect = "kept" => AnnouncedKept
                        /\ AnnouncedKept => effect = "kept" \/ LostDeadlock
        BY DEF EndAsAnnounced
    <2>1. mode \in TxEndModes /\ call.prefer \in TxPrefers
        BY DEF IInv, TypeOK, Calls
    <2>2. /\ applied = IF DecideApplied(mode, call.prefer) THEN call.prefer ELSE ""
          /\ \/ effect = IF DecideCommit(mode, call.prefer) THEN "kept" ELSE "undone"
             \/ LostDeadlock /\ effect = "undone"
        BY DEF IInv, EndInv, Applied
    <2>3. AnnouncedKept <=> DecideCommit(mode, call.prefer)
        BY <2>1, <2>2, AnnouncedIsDecided DEF AnnouncedKept
    <2> QED BY <2>2, <2>3
<1> QED BY Invariance, <1>1, PTL

=============================================================================
