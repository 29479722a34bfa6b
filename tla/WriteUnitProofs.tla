-------------------------- MODULE WriteUnitProofs --------------------------
(***************************************************************************)
(* Theorems about WriteUnit, for every table, every set of units and every *)
(* set of requests: the types, that max-affected bounds what a transaction *)
(* changes, that PUT tells an insert from an update, that a refusal comes  *)
(* before the end, and that POST returns the rows it wrote.                *)
(*                                                                         *)
(* The argument: a row that a unit has written is locked (LockInv), so it  *)
(* keeps its committed value until the unit ends, and what the statement   *)
(* counted when it ran (LimitInv) is still what End publishes.  The keys   *)
(* that POST lists are those of its rows (PostInv): what it has read back  *)
(* by them is what it wrote, and passes the checks made later (AnswerInv). *)
(***************************************************************************)
EXTENDS WriteUnit, FiniteSetTheorems, SequenceTheorems, TLAPS

BodyRow == [key : BodyKeys, val : Vals]

\* An INSERT that runs, or is about to, has a row to send.
InsertInv == \A u \in Units :
    /\ pc[u] = "write" /\ ask[u].action = "insert" => left[u] # <<>>
    /\ pc[u] = "place" => todo[u] # <<>> /\ ask[u].action = "insert"
    /\ pc[u] = "placed" => ask[u].action = "insert"
    /\ pc[u] = "reread" => ask[u].action \in {"insert", "update"}

\* A unit that has sent no UPDATE, DELETE or upsert has written nothing.
FreshInv == \A u \in Units :
    /\ pc[u] \in {"read", "keys"} => draft[u] = Clean /\ ask[u].action # "insert"
    /\ pc[u] = "write" /\ ask[u].action # "insert" => draft[u] = Clean

\* A row is written by one unit at a time.
LockInv == \A u, v \in Units : u # v =>
    \A k \in Keys : draft[u][k] = Untouched \/ draft[v][k] = Untouched

\* What the end of the unit would change in the table, and create in it.
Changing(u) == {k \in Keys : row[k] # None /\ View(u, k) # row[k]}
Creating(u) == {k \in Keys : row[k] = None /\ View(u, k) # None}

\* After the statement, the unit changes no more rows than max-affected.
LimitInv == \A u \in Units :
    pc[u] \in {"reread", "end"} /\ Limited(u) =>
        /\ Cardinality(Changing(u)) <= ask[u].max
        /\ ask[u].action = "upsert" => Cardinality(Changing(u) \cup Creating(u)) <= ask[u].max

IInv == TypeOK /\ InsertInv /\ FreshInv /\ LockInv

-----------------------------------------------------------------------------
(* Helpers.                                                                *)

LEMMA AskTypes ==
    ASSUME TypeOK, NEW u \in Units
    PROVE  /\ ask[u] \in Asks /\ ask[u].action \in Actions
           /\ ask[u].rows \in Seq(BodyRow)
           /\ ask[u].action \in {"insert", "upsert"} => ask[u].rows # <<>>
           /\ ask[u].action = "upsert" => Len(ask[u].rows) = 1 /\ ask[u].rows[1].key \in Keys
           /\ ask[u].match \subseteq Vals /\ ask[u].patch \in [key : Keys \cup {None}, val : Vals]
           /\ ask[u].max = None \/ ask[u].max \in Nat
           /\ ask[u].tx \in TxPrefers
BY AskAssumption DEF TypeOK, BodyRow

LEMMA UpsertRowType ==
    ASSUME TypeOK, NEW u \in Units, ask[u].action = "upsert"
    PROVE  ask[u].rows[1].key \in Keys /\ ask[u].rows[1].val \in Vals
<1>1. ask[u].rows \in Seq(BodyRow) /\ Len(ask[u].rows) = 1
    BY AskTypes
<1>2. ask[u].rows[1] \in BodyRow
    BY <1>1, ElementOfSeq
<1> QED BY <1>2, AskTypes DEF BodyRow

LEMMA ViewType ==
    ASSUME TypeOK, NEW u \in Units, NEW k \in Keys
    PROVE  View(u, k) \in Vals \cup {None}
BY DEF TypeOK, View

LEMMA RowsOfType ==
    ASSUME TypeOK, NEW u \in Units, NEW ks
    PROVE  RowsOf(u, ks) \in SUBSET (Keys \X Vals)
BY ViewType DEF RowsOf

LEMMA MatchingType ==
    ASSUME TypeOK, NEW u \in Units
    PROVE  Matching(u) \subseteq Keys /\ Cardinality(Matching(u)) \in Nat
<1>1. Matching(u) \subseteq Keys
    BY DEF Matching
<1> QED BY <1>1, FS_Subset, FS_CardinalityType, KeyAssumption

LEMMA BatchType ==
    ASSUME TypeOK, InsertInv, NEW u \in Units, pc[u] = "write", ask[u].action = "insert"
    PROVE  /\ Batch(u) \in Seq(BodyRow) /\ Len(Batch(u)) \in 1 .. Len(left[u])
           /\ Len(left[u]) \in Nat
<1>1. left[u] \in Seq(BodyRow) /\ left[u] # <<>>
    BY DEF TypeOK, InsertInv, BodyRow
<1>2. Len(left[u]) \in Nat \ {0} /\ Head(left[u]) \in BodyRow
    BY <1>1, EmptySeq, HeadTailProperties
<1>3. <<Head(left[u])>> \in Seq(BodyRow) /\ Len(<<Head(left[u])>>) = 1
    BY <1>2
<1> QED BY <1>1, <1>2, <1>3 DEF Batch

LEMMA GeneratedCount ==
    ASSUME NEW batch, NEW i \in Int
    PROVE  GeneratedUpTo(batch, i) \in Nat
<1> DEFINE G == {j \in 1 .. i : Generated(batch[j])}
<1>1. IsFiniteSet(1 .. i) /\ G \in SUBSET (1 .. i)
    BY FS_Interval
<1>2. IsFiniteSet(G)
    BY <1>1, FS_Subset
<1>3. Cardinality(G) \in Nat
    BY <1>2, FS_CardinalityType
<1> QED BY <1>3 DEF GeneratedUpTo

LEMMA ExplicitKeyType ==
    ASSUME NEW r \in BodyRow, Explicit(r)
    PROVE  r.key \in Nat
<1>1. r.key \in BodyKeys /\ r.key # None
    BY DEF Explicit, BodyRow
<1>2. CASE r.key \in Keys
    BY <1>2, KeyAssumption
<1>3. CASE r.key = 0
    BY <1>3
<1> QED BY <1>1, <1>2, <1>3 DEF BodyKeys

LEMMA ListedType ==
    ASSUME nextAuto \in Nat, NEW batch \in Seq(BodyRow)
    PROVE  ListedKeys(batch) \subseteq Nat
<1>1. Len(batch) \in Nat /\ DOMAIN batch = 1 .. Len(batch)
    BY LenProperties
<1>2. ASSUME NEW i \in DOMAIN batch PROVE batch[i] \in BodyRow
    BY <1>1, ElementOfSeq
<1>3. CASE AllExplicit(batch)
    <2>1. ASSUME NEW i \in DOMAIN batch PROVE batch[i].key \in Nat
        BY <1>2, <1>3, ExplicitKeyType DEF AllExplicit
    <2>2. ListedKeys(batch) = {batch[i].key : i \in DOMAIN batch}
        BY <1>3 DEF ListedKeys
    <2> QED BY <2>1, <2>2
<1>4. CASE ~AllExplicit(batch)
    BY <1>1, <1>4 DEF ListedKeys
<1> QED BY <1>3, <1>4

-----------------------------------------------------------------------------
(* The steps a unit takes, each with what it preserves.                    *)

LEMMA InitIInv == Init => IInv
<1> SUFFICES ASSUME Init PROVE IInv
    OBVIOUS
<1>1. <<>> \in Seq(BodyRow) /\ <<>> \in Seq([key : Keys, val : Vals])
    BY EmptySeq
<1>2. Clean \in [Keys -> Vals \cup {None, Untouched}]
    BY DEF Clean
<1>3. nextAuto \in Nat
    BY KeyAssumption DEF Init
<1>4. TypeOK
    BY <1>1, <1>2, <1>3 DEF Init, TypeOK, Steps, Answers, BodyRow
<1>5. InsertInv /\ FreshInv
    BY DEF Init, InsertInv, FreshInv
<1>6. LockInv
    BY DEF Init, LockInv, Clean
<1> QED BY <1>4, <1>5, <1>6 DEF IInv

\* A rollback keeps the invariant and leaves nothing locked.
LEMMA RollBackKeeps ==
    ASSUME IInv, NEW u \in Units, NEW e \in {"refused", "failed"}, RollBack(u, e)
    PROVE  IInv'
<1> USE DEF IInv, RollBack, Go, unitVars
<1>1. Clean \in [Keys -> Vals \cup {None, Untouched}]
    BY DEF Clean
<1>2. TypeOK'
    BY <1>1 DEF TypeOK, Steps, Answers, Open
<1>3. InsertInv' /\ FreshInv'
    BY DEF TypeOK, InsertInv, FreshInv
<1>4. LockInv'
    BY DEF TypeOK, LockInv, Clean
<1> QED BY <1>2, <1>3, <1>4

\* A step of u that writes no row and goes on to a statement it may run.
LEMMA QuietStepKeeps ==
    ASSUME IInv, NEW u \in Units, TypeOK',
           UNCHANGED <<ask, draft>>,
           NEW step, pc' = [pc EXCEPT ![u] = step],
           step = "write" /\ ask[u].action # "insert" => draft[u] = Clean,
           step \in {"read", "keys"} => draft[u] = Clean /\ ask[u].action # "insert",
           step = "write" /\ ask[u].action = "insert" => left'[u] # <<>>,
           step = "place" => todo'[u] # <<>> /\ ask[u].action = "insert",
           step = "placed" => ask[u].action = "insert",
           step = "reread" => ask[u].action \in {"insert", "update"},
           \A v \in Units \ {u} : left'[v] = left[v] /\ todo'[v] = todo[v]
    PROVE  IInv'
<1>1. InsertInv'
    BY DEF IInv, TypeOK, InsertInv
<1>2. FreshInv'
    BY DEF IInv, TypeOK, FreshInv
<1>3. LockInv'
    BY DEF IInv, LockInv
<1> QED BY <1>1, <1>2, <1>3 DEF IInv

LEMMA CheckKeeps == ASSUME IInv, NEW u \in Units, Check(u) PROVE IInv'
<1> USE DEF unitVars, Go
<1>0. TypeOK
    BY DEF IInv
<1>c. draft[u] = Clean
    BY <1>0 DEF Check, TypeOK, Open
<1>1. CASE Refusable(u)
    <2>1. /\ pc' = [pc EXCEPT ![u] = "done"]
          /\ UNCHANGED <<ask, draft, left, todo, keys, count, body, inserted, row, nextAuto>>
          /\ answer' = [answer EXCEPT ![u] = "refused"]
        BY <1>1 DEF Check
    <2>2. TypeOK'
        BY <1>0, <1>c, <2>1 DEF TypeOK, Steps, Answers
    <2> QED BY <2>1, <2>2, QuietStepKeeps
<1>2. CASE ~Refusable(u)
    <2>1. PICK step \in {"read", "keys", "write"} :
            /\ pc' = [pc EXCEPT ![u] = step]
            /\ step # "write" => ask[u].action # "insert"
            /\ left' = [left EXCEPT ![u] = ask[u].rows]
            /\ UNCHANGED <<ask, draft, answer, todo, keys, count, body, inserted, row, nextAuto>>
        BY <1>2 DEF Check
    <2>2. ask[u].rows \in Seq(BodyRow) /\ (ask[u].action = "insert" => ask[u].rows # <<>>)
        BY <1>0, AskTypes
    <2>3. TypeOK'
        BY <1>0, <1>c, <2>1, <2>2 DEF TypeOK, Steps, BodyRow
    <2>4. left'[u] = ask[u].rows /\ \A v \in Units \ {u} : left'[v] = left[v]
        BY <1>0, <2>1 DEF TypeOK
    <2> QED BY <1>c, <2>1, <2>2, <2>3, <2>4, QuietStepKeeps
<1> QED BY <1>1, <1>2

LEMMA ReadDeleteKeeps == ASSUME IInv, NEW u \in Units, ReadDelete(u) PROVE IInv'
<1> DEFINE before == RowsOf(u, Matching(u))
<1>0. TypeOK
    BY DEF IInv
<1>1. CASE Valid(u, Cardinality(before))
    <2>1. /\ pc' = [pc EXCEPT ![u] = "write"]
          /\ body' = [body EXCEPT ![u] = before]
          /\ UNCHANGED <<ask, left, todo, keys, count, inserted, draft, answer, row, nextAuto>>
        BY <1>1 DEF ReadDelete, Go
    <2>2. before \in SUBSET (Keys \X Vals)
        BY <1>0, RowsOfType
    <2>3. TypeOK'
        BY <1>0, <2>1, <2>2 DEF TypeOK, Steps, Open
    <2>4. draft[u] = Clean /\ ask[u].action # "insert"
        BY DEF ReadDelete, IInv, FreshInv
    <2> QED BY <2>1, <2>3, <2>4, QuietStepKeeps
<1>2. CASE ~Valid(u, Cardinality(before))
    BY <1>2, RollBackKeeps DEF ReadDelete
<1> QED BY <1>1, <1>2

LEMMA SelectKeysKeeps == ASSUME IInv, NEW u \in Units, SelectKeys(u) PROVE IInv'
<1>0. TypeOK
    BY DEF IInv
<1>1. /\ pc' = [pc EXCEPT ![u] = "write"]
      /\ count' = [count EXCEPT ![u] = Cardinality(Matching(u))]
      /\ UNCHANGED <<ask, left, todo, body, inserted, draft, answer, row, nextAuto>>
    BY DEF SelectKeys, Go
<1>2. PICK ks : keys' = [keys EXCEPT ![u] = ks] /\ ks \subseteq Nat
    <2> DEFINE patch == ask[u].patch
               ks == IF patch.key = None THEN Matching(u) ELSE {patch.key : k \in Matching(u)}
    <2>1. keys' = [keys EXCEPT ![u] = ks]
        BY DEF SelectKeys
    <2>2. patch.key \in Keys \cup {None} /\ Matching(u) \subseteq Keys
        BY <1>0, AskTypes, MatchingType
    <2>3. ks \subseteq Nat
        BY <2>2, KeyAssumption
    <2> QED BY <2>1, <2>3
<1>3. TypeOK'
    BY <1>0, <1>1, <1>2, MatchingType DEF TypeOK, Steps, Open
<1>4. draft[u] = Clean /\ ask[u].action # "insert"
    BY DEF SelectKeys, IInv, FreshInv
<1> QED BY <1>1, <1>3, <1>4, QuietStepKeeps

LEMMA StartInsertKeeps == ASSUME IInv, NEW u \in Units, StartInsert(u) PROVE IInv'
<1> DEFINE batch == Batch(u)
           n == Len(batch)
           t == [i \in 1 .. n |-> [key |-> KeyOf(batch, i), val |-> batch[i].val]]
<1>0. TypeOK /\ InsertInv /\ pc[u] = "write" /\ ask[u].action = "insert"
    BY DEF IInv, StartInsert
<1>1. batch \in Seq(BodyRow) /\ n \in 1 .. Len(left[u]) /\ Len(left[u]) \in Nat
    BY <1>0, BatchType
<1>2. t \in Seq([key : Keys, val : Vals]) /\ t # <<>>
    <2>1. DOMAIN batch = 1 .. n
        BY <1>1, LenProperties
    <2>2. \A i \in 1 .. n : KeyOf(batch, i) \in Keys /\ batch[i].val \in Vals
        <3> SUFFICES ASSUME NEW i \in 1 .. n PROVE KeyOf(batch, i) \in Keys /\ batch[i].val \in Vals
            OBVIOUS
        <3>1. KeyOf(batch, i) \in Keys
            BY <2>1 DEF StartInsert
        <3>2. batch[i] \in BodyRow
            BY <1>1, ElementOfSeq
        <3> QED BY <3>1, <3>2, KeyAssumption DEF BodyRow
    <2>3. n \in Nat /\ n # 0
        BY <1>1
    <2>4. t \in [1 .. n -> [key : Keys, val : Vals]]
        BY <2>2
    <2>5. t \in Seq([key : Keys, val : Vals])
        BY <2>3, <2>4, SeqDef
    <2>6. Len(t) = n
        BY <2>3, <2>4, <2>5
    <2> QED BY <2>3, <2>5, <2>6, EmptySeq
<1>3. SubSeq(left[u], n + 1, Len(left[u])) \in Seq(BodyRow)
    <2>1. left[u] \in Seq(BodyRow)
        BY <1>0 DEF TypeOK, BodyRow
    <2>2. \A i \in n + 1 .. Len(left[u]) : left[u][i] \in BodyRow
        BY <1>1, <2>1, ElementOfSeq
    <2> QED BY <1>1, <2>2, SubSeqProperties
<1>4. nextAuto' \in Nat
    <2>1. GeneratedUpTo(batch, n) \in Nat
        BY <1>1, GeneratedCount
    <2>2. nextAuto' = nextAuto + AutoStep * GeneratedUpTo(batch, n)
        BY DEF StartInsert
    <2> QED BY <1>0, <2>1, <2>2, StepAssumption DEF TypeOK
<1>5. keys' \in [Units -> SUBSET Nat] /\ count' \in [Units -> Nat]
    <2>1. ListedKeys(batch) \subseteq Nat
        BY <1>0, <1>1, ListedType DEF TypeOK
    <2>2. CASE WantsKeys(u)
        <3>1. keys' = [keys EXCEPT ![u] = @ \cup ListedKeys(batch)]
              /\ count' = [count EXCEPT ![u] = @ + n]
            BY <2>2 DEF StartInsert
        <3> QED BY <1>0, <1>1, <2>1, <3>1 DEF TypeOK
    <2>3. CASE ~WantsKeys(u)
        BY <1>0, <2>3 DEF StartInsert, TypeOK
    <2> QED BY <2>2, <2>3
<1>6. /\ todo' = [todo EXCEPT ![u] = t]
      /\ left' = [left EXCEPT ![u] = SubSeq(left[u], n + 1, Len(left[u]))]
      /\ pc' = [pc EXCEPT ![u] = "place"]
      /\ UNCHANGED <<ask, body, inserted, draft, answer, row>>
    BY <1>0 DEF StartInsert, Go, TypeOK
<1>7. TypeOK'
    BY <1>0, <1>2, <1>3, <1>4, <1>5, <1>6 DEF TypeOK, Steps, Open, BodyRow
<1>8. todo'[u] # <<>> /\ \A v \in Units \ {u} : left'[v] = left[v] /\ todo'[v] = todo[v]
    BY <1>0, <1>2, <1>6 DEF TypeOK
<1> QED BY <1>0, <1>6, <1>7, <1>8, QuietStepKeeps

\* A step of u that writes rows it may write.
LEMMA WritingStepKeeps ==
    ASSUME IInv, NEW u \in Units, TypeOK', UNCHANGED ask,
           NEW d \in [Keys -> Vals \cup {None, Untouched}],
           draft' = [draft EXCEPT ![u] = d],
           \A k \in Keys : d[k] = draft[u][k] \/ Free(u, k),
           NEW step, pc' = [pc EXCEPT ![u] = step],
           step \notin {"read", "keys"},
           step \in {"write", "place", "placed"} => ask[u].action = "insert",
           step = "reread" => ask[u].action = "update",
           step = "write" => left'[u] # <<>>,
           step = "place" => todo'[u] # <<>>,
           \A v \in Units \ {u} : left'[v] = left[v] /\ todo'[v] = todo[v]
    PROVE  IInv'
<1>1. InsertInv'
    BY DEF IInv, TypeOK, InsertInv
<1>2. FreshInv'
    BY DEF IInv, TypeOK, FreshInv
<1>3. LockInv'
    <2> SUFFICES ASSUME NEW v \in Units, NEW w \in Units, v # w, NEW k \in Keys
                 PROVE  draft'[v][k] = Untouched \/ draft'[w][k] = Untouched
        BY DEF LockInv
    <2>1. draft[v][k] = Untouched \/ draft[w][k] = Untouched
        BY DEF IInv, LockInv
    <2>2. CASE v = u
        BY <2>1, <2>2 DEF IInv, TypeOK, Free
    <2>3. CASE w = u
        BY <2>1, <2>3 DEF IInv, TypeOK, Free
    <2>4. CASE v # u /\ w # u
        BY <2>1, <2>4 DEF IInv, TypeOK
    <2> QED BY <2>2, <2>3, <2>4
<1> QED BY <1>1, <1>2, <1>3 DEF IInv

LEMMA PlaceRowKeeps == ASSUME IInv, NEW u \in Units, PlaceRow(u) PROVE IInv'
<1> DEFINE k == Head(todo[u]).key
           held == View(u, k)
           val == IF OnDuplicate(u) = "ignored" /\ held # None THEN held ELSE Head(todo[u]).val
           d == [draft[u] EXCEPT ![k] = val]
<1>0. /\ TypeOK /\ pc[u] = "place" /\ ask[u].action = "insert"
      /\ todo[u] # <<>> /\ todo[u] \in Seq([key : Keys, val : Vals])
    BY DEF IInv, PlaceRow, InsertInv, TypeOK
<1>1. Head(todo[u]) \in [key : Keys, val : Vals] /\ Tail(todo[u]) \in Seq([key : Keys, val : Vals])
      /\ Len(Tail(todo[u])) = Len(todo[u]) - 1 /\ Len(todo[u]) \in Nat
    BY <1>0, HeadTailProperties, LenProperties
<1>2. PICK step \in {"place", "write", "placed"} :
        /\ pc' = [pc EXCEPT ![u] = step]
        /\ step = "place" => Len(todo[u]) > 1
        /\ step = "write" => left[u] # <<>>
    BY DEF PlaceRow, Go
<1>3. todo' = [todo EXCEPT ![u] = Tail(todo[u])] /\ draft' = [draft EXCEPT ![u] = d]
      /\ nextAuto' \in {k + 1, nextAuto} /\ Free(u, k)
      /\ UNCHANGED <<ask, left, keys, count, body, inserted, answer, row>>
    BY <1>0 DEF PlaceRow, unitVars, TypeOK
<1>4. d \in [Keys -> Vals \cup {None, Untouched}]
    <2>1. draft[u] \in [Keys -> Vals \cup {None, Untouched}]
        BY <1>0 DEF TypeOK
    <2>2. k \in Keys /\ val \in Vals
        BY <1>0, <1>1, ViewType
    <2> QED BY <2>1, <2>2
<1>5. TypeOK'
    <2>1. nextAuto' \in Nat
        BY <1>0, <1>1, <1>3, KeyAssumption DEF TypeOK
    <2>2. Tail(todo[u]) \in Seq([key : Keys, val : Vals])
        BY <1>1
    <2> HIDE DEF d
    <2>3. todo' \in [Units -> Seq([key : Keys, val : Vals])]
        BY <1>0, <1>3, <2>2 DEF TypeOK
    <2>4. pc' \in [Units -> Steps] /\ \A v \in Units : draft'[v] # Clean => pc'[v] \in Open
        BY <1>0, <1>2, <1>3 DEF TypeOK, Steps, Open
    <2>5. draft' \in [Units -> [Keys -> Vals \cup {None, Untouched}]]
        BY <1>0, <1>3, <1>4 DEF TypeOK
    <2> QED BY <1>0, <1>3, <2>1, <2>3, <2>4, <2>5 DEF TypeOK
<1>6. step = "place" => todo'[u] # <<>>
    <2>1. todo'[u] = Tail(todo[u])
        BY <1>0, <1>3 DEF TypeOK
    <2>2. ASSUME step = "place" PROVE Len(Tail(todo[u])) # 0
        <3>1. PICK m \in Nat : m = Len(todo[u]) /\ Len(Tail(todo[u])) = m - 1
            BY <1>1
        <3>2. m > 1
            BY <1>2, <2>2, <3>1
        <3>3. m - 1 # 0
            BY <3>2
        <3> QED BY <3>1, <3>3
    <2> QED BY <2>1, <2>2, EmptySeq
<1>7. \A v \in Units \ {u} : left'[v] = left[v] /\ todo'[v] = todo[v]
    BY <1>0, <1>3 DEF TypeOK
<1>8. \A j \in Keys : d[j] = draft[u][j] \/ Free(u, j)
    BY <1>0, <1>3 DEF TypeOK
<1> HIDE DEF k, held, val, d
<1>9. \A j \in Keys : d[j] = draft[u][j] \/ Free(u, j)
    BY <1>8
<1>10. step \notin {"read", "keys", "reread"}
    BY <1>2
<1>11. step \in {"write", "place", "placed"} => ask[u].action = "insert"
    BY <1>0
<1>12. step = "write" => left'[u] # <<>>
    BY <1>2, <1>3
<1> QED BY <1>2, <1>3, <1>4, <1>5, <1>6, <1>7, <1>9, <1>10, <1>11, <1>12, WritingStepKeeps

LEMMA FinishInsertKeeps == ASSUME IInv, NEW u \in Units, FinishInsert(u) PROVE IInv'
<1>0. /\ TypeOK /\ draft[u] \in [Keys -> Vals \cup {None, Untouched}]
      /\ ask[u].action = "insert"
    BY DEF IInv, TypeOK, FinishInsert, InsertInv
<1>1. CASE WantsKeys(u) /\ ~Identifiable(u)
    BY <1>1, RollBackKeeps DEF FinishInsert
<1>2. CASE ~(WantsKeys(u) /\ ~Identifiable(u))
    <2>1. PICK step \in {"reread", "end"} :
            /\ pc' = [pc EXCEPT ![u] = step]
            /\ UNCHANGED <<ask, left, todo, unitVars, draft, answer, row, nextAuto>>
        BY <1>2 DEF FinishInsert, Go
    <2>2. TypeOK'
        BY <1>0, <2>1 DEF TypeOK, Steps, Open, unitVars
    <2> QED BY <1>0, <2>1, <2>2, QuietStepKeeps DEF unitVars
<1> QED BY <1>1, <1>2

LEMMA RereadKeeps == ASSUME IInv, NEW u \in Units, Reread(u) PROVE IInv'
<1> DEFINE found == RowsOf(u, keys[u])
           fits == Cardinality(found) = count[u] /\ Valid(u, Cardinality(found))
<1>0. TypeOK
    BY DEF IInv
<1>1. CASE fits
    <2>1. /\ pc' = [pc EXCEPT ![u] = "end"]
          /\ body' = [body EXCEPT ![u] = found]
          /\ UNCHANGED <<ask, left, todo, keys, count, inserted, draft, answer, row, nextAuto>>
        BY <1>1 DEF Reread, Go
    <2>2. found \in SUBSET (Keys \X Vals)
        BY <1>0, RowsOfType
    <2>3. TypeOK'
        BY <1>0, <2>1, <2>2 DEF TypeOK, Steps, Open
    <2> QED BY <2>1, <2>3, QuietStepKeeps
<1>2. CASE ~fits
    BY <1>2, RollBackKeeps DEF Reread
<1> QED BY <1>1, <1>2

LEMMA FailsKeeps == ASSUME IInv, NEW u \in Units, Fails(u) PROVE IInv'
BY RollBackKeeps DEF Fails

LEMMA RespondKeeps == ASSUME IInv, NEW u \in Units, Respond(u) PROVE IInv'
<1>0. TypeOK /\ draft[u] = Clean
    BY DEF IInv, TypeOK, Respond, Open
<1>1. PICK a \in Answers :
        /\ answer' = [answer EXCEPT ![u] = a]
        /\ pc' = [pc EXCEPT ![u] = "done"]
        /\ UNCHANGED <<ask, left, todo, unitVars, draft, row, nextAuto>>
    BY DEF Respond, Go, Answers
<1>2. TypeOK'
    BY <1>0, <1>1 DEF TypeOK, Steps, Open, unitVars
<1> QED BY <1>1, <1>2, QuietStepKeeps DEF unitVars

LEMMA EndKeeps == ASSUME IInv, NEW u \in Units, End(u) PROVE IInv'
<1>0. TypeOK
    BY DEF IInv
<1>1. Clean \in [Keys -> Vals \cup {None, Untouched}]
    BY DEF Clean
<1>2. row' \in [Keys -> Vals \cup {None}]
    BY <1>0, ViewType DEF End, TypeOK
<1>3. /\ pc' = [pc EXCEPT ![u] = "respond"] /\ draft' = [draft EXCEPT ![u] = Clean]
      /\ UNCHANGED <<ask, left, todo, unitVars, answer, nextAuto>>
    BY DEF End, Go
<1>4. TypeOK'
    BY <1>0, <1>1, <1>2, <1>3 DEF TypeOK, Steps, Open, unitVars
<1>5. InsertInv' /\ FreshInv'
    BY <1>0, <1>3 DEF IInv, InsertInv, FreshInv, TypeOK
<1>6. LockInv'
    BY <1>0, <1>3 DEF IInv, LockInv, Clean, TypeOK
<1> QED BY <1>4, <1>5, <1>6 DEF IInv

\* What execTxWrite leaves, when it does not refuse.
LEMMA WriteKeeps ==
    ASSUME IInv, NEW u \in Units, NEW n, NEW changes \in [Keys -> Vals \cup {None, Untouched}],
           \A k \in Keys : changes[k] = draft[u][k] \/ Free(u, k),
           NEW tells \in BOOLEAN, NEW next \in {"reread", "end"},
           next = "reread" => ask[u].action = "update",
           Write(u, n, changes, tells, next), pc[u] \in Open
    PROVE  IInv'
<1>0. TypeOK
    BY DEF IInv
<1>1. CASE OverMax(u, n)
    BY <1>1, RollBackKeeps DEF Write
<1>2. CASE ~OverMax(u, n)
    <2>1. /\ draft' = [draft EXCEPT ![u] = changes]
          /\ inserted' = [inserted EXCEPT ![u] = tells]
          /\ pc' = [pc EXCEPT ![u] = next]
          /\ UNCHANGED <<ask, left, todo, keys, count, body, answer, row, nextAuto>>
        BY <1>2 DEF Write, Go
    <2>2. TypeOK'
        BY <1>0, <2>1 DEF TypeOK, Steps, Open
    <2> QED BY <2>1, <2>2, WritingStepKeeps
<1> QED BY <1>1, <1>2

LEMMA PatchedType ==
    ASSUME TypeOK, NEW u \in Units, draft[u] = Clean
    PROVE  LET rows == Matching(u)
               changes == Patched(u, rows)
               patch == ask[u].patch IN
           /\ changes \in [Keys -> Vals \cup {None, Untouched}]
           /\ \A k \in Keys : changes[k] # Untouched => k \in rows \/ (rows # {} /\ k = patch.key)
<1>1. ask[u].patch.val \in Vals /\ draft[u] \in [Keys -> Vals \cup {None, Untouched}]
    BY AskTypes DEF TypeOK
<1> QED BY <1>1 DEF Patched, Clean

LEMMA UpdateKeeps == ASSUME IInv, NEW u \in Units, Update(u) PROVE IInv'
<1> DEFINE rows == Matching(u)
           changes == Patched(u, rows)
           n == Cardinality({k \in rows : changes[k] # View(u, k)})
           next == IF Represents(u) THEN "reread" ELSE "end"
<1>0. TypeOK /\ draft[u] = Clean /\ pc[u] \in Open
    BY DEF IInv, FreshInv, Update, Open
<1>1. Write(u, n, changes, FALSE, next) /\ next \in {"reread", "end"}
      /\ ask[u].action = "update"
    BY DEF Update
<1>2. \A k \in Keys : changes[k] = draft[u][k] \/ Free(u, k)
    <2> SUFFICES ASSUME NEW k \in Keys, changes[k] # Untouched PROVE Free(u, k)
        BY <1>0 DEF Clean
    <2>1. k \in rows \/ (rows # {} /\ k = ask[u].patch.key)
        BY <1>0, PatchedType
    <2>2. k \in rows => Free(u, k)
        BY DEF Update
    <2>3. ASSUME rows # {}, k = ask[u].patch.key PROVE Free(u, k)
        <3>1. k # None
            BY KeyAssumption, MarkAssumption
        <3>2. Patchable(u, rows)
            BY DEF Update
        <3>3. PICK j \in rows : rows = {j} /\ (k = j \/ (View(u, k) = None /\ Free(u, k)))
            BY <2>3, <3>1, <3>2 DEF Patchable
        <3> QED BY <2>2, <3>3
    <2> QED BY <2>1, <2>2, <2>3
<1>3. changes \in [Keys -> Vals \cup {None, Untouched}]
    BY <1>0, PatchedType
<1> HIDE DEF changes, n, next
<1> QED BY <1>0, <1>1, <1>2, <1>3, WriteKeeps

LEMMA DeleteKeeps == ASSUME IInv, NEW u \in Units, Delete(u) PROVE IInv'
<1> DEFINE rows == Matching(u)
           changes == [k \in Keys |-> IF k \in rows THEN None ELSE draft[u][k]]
<1>0. TypeOK /\ draft[u] \in [Keys -> Vals \cup {None, Untouched}] /\ pc[u] \in Open
    BY DEF IInv, TypeOK, Delete, Open
<1>1. Write(u, Cardinality(rows), changes, FALSE, "end") /\ \A k \in rows : Free(u, k)
    BY DEF Delete
<1>2. changes \in [Keys -> Vals \cup {None, Untouched}]
    BY <1>0
<1>3. \A k \in Keys : changes[k] = draft[u][k] \/ Free(u, k)
    BY <1>1
<1> HIDE DEF changes
<1> QED BY <1>0, <1>1, <1>2, <1>3, WriteKeeps

LEMMA UpsertKeeps == ASSUME IInv, NEW u \in Units, Upsert(u) PROVE IInv'
<1> DEFINE new == ask[u].rows[1]
           held == View(u, new.key)
           after == IF OnDuplicate(u) = "ignored" /\ held # None THEN held ELSE new.val
           changes == [draft[u] EXCEPT ![new.key] = after]
           n == IF held = after THEN 0 ELSE 1
<1>0. /\ TypeOK /\ draft[u] \in [Keys -> Vals \cup {None, Untouched}] /\ pc[u] \in Open
      /\ ask[u].action = "upsert"
    BY DEF IInv, TypeOK, Upsert, Open
<1>1. new.key \in Keys /\ new.val \in Vals /\ held \in Vals \cup {None}
    BY <1>0, UpsertRowType, ViewType
<1>2. Write(u, n, changes, TellsInserted(held, after), "end") /\ Free(u, new.key)
    BY DEF Upsert
<1>3. changes \in [Keys -> Vals \cup {None, Untouched}]
    BY <1>0, <1>1
<1>4. \A k \in Keys : changes[k] = draft[u][k] \/ Free(u, k)
    BY <1>0, <1>2
<1>5. TellsInserted(held, after) \in BOOLEAN
    BY DEF TellsInserted
<1> HIDE DEF changes, n, held, after
<1> QED BY <1>0, <1>2, <1>3, <1>4, <1>5, WriteKeeps

LEMMA NextKeepsIInv == IInv /\ [Next]_vars => IInv'
<1> SUFFICES ASSUME IInv, [Next]_vars PROVE IInv'
    OBVIOUS
<1>1. ASSUME NEW u \in Units, Check(u) \/ Statement(u) \/ Fails(u) \/ End(u) \/ Respond(u)
      PROVE  IInv'
    BY <1>1, CheckKeeps, ReadDeleteKeeps, SelectKeysKeeps, StartInsertKeeps, PlaceRowKeeps,
       FinishInsertKeeps, UpdateKeeps, DeleteKeeps, UpsertKeeps, RereadKeeps, FailsKeeps,
       EndKeeps, RespondKeeps DEF Statement
<1>2. CASE UNCHANGED vars
    BY <1>2 DEF IInv, TypeOK, InsertInv, FreshInv, LockInv, vars
<1> QED BY <1>1, <1>2 DEF Next, Quiet

\* Every variable of the units keeps its type, and a row stays locked only
\* while the transaction that wrote it is open.
THEOREM TypeCorrect == Spec => []TypeOK
<1>1. IInv => TypeOK
    BY DEF IInv
<1> QED BY <1>1, InitIInv, NextKeepsIInv, PTL DEF Spec

-----------------------------------------------------------------------------
(* max-affected bounds what the unit changes.                              *)

\* A row another unit ends with was not this unit's, so what this unit would
\* change stays the same.
LEMMA EndOfAnother ==
    ASSUME IInv, NEW u \in Units, NEW v \in Units, u # v, End(v)
    PROVE  /\ Changing(u)' = Changing(u)
           /\ Creating(u)' = Creating(u)
           /\ \A k \in Touched(u) : row'[k] = row[k]
<1>0. TypeOK /\ draft'[u] = draft[u]
    BY DEF IInv, End, TypeOK
<1>1. ASSUME NEW k \in Keys, draft[u][k] # Untouched PROVE row'[k] = row[k]
    <2>1. draft[v][k] = Untouched
        BY <1>1 DEF IInv, LockInv
    <2> QED BY <1>0, <2>1 DEF End, View, TypeOK
<1>2. ASSUME NEW k \in Keys
      PROVE  /\ (row'[k] # None /\ View(u, k)' # row'[k]) <=> (row[k] # None /\ View(u, k) # row[k])
             /\ (row'[k] = None /\ View(u, k)' # None) <=> (row[k] = None /\ View(u, k) # None)
    <2>1. CASE draft[u][k] = Untouched
        BY <1>0, <2>1 DEF View
    <2>2. CASE draft[u][k] # Untouched
        BY <1>0, <1>1, <2>2 DEF View
    <2> QED BY <2>1, <2>2
<1>3. Changing(u)' = Changing(u) /\ Creating(u)' = Creating(u)
    BY <1>2 DEF Changing, Creating
<1> QED BY <1>1, <1>3 DEF Touched

LEMMA ChangesAreFinite ==
    ASSUME NEW u
    PROVE  /\ IsFiniteSet(Changing(u)) /\ Cardinality(Changing(u)) \in Nat
           /\ IsFiniteSet(Creating(u)) /\ Cardinality(Creating(u)) \in Nat
           /\ IsFiniteSet(Changing(u) \cup Creating(u))
           /\ Cardinality(Changing(u) \cup Creating(u)) \in Nat
<1>1. Changing(u) \subseteq Keys /\ Creating(u) \subseteq Keys
      /\ Changing(u) \cup Creating(u) \subseteq Keys
    BY DEF Changing, Creating
<1> QED BY <1>1, FS_Subset, FS_CardinalityType, KeyAssumption

\* What each statement leaves to be changed is what it counted.
LEMMA UpdateChanges ==
    ASSUME IInv, NEW u \in Units, Update(u), draft'[u] = Patched(u, Matching(u)), row' = row
    PROVE  Changing(u)' \subseteq {k \in Matching(u) : Patched(u, Matching(u))[k] # View(u, k)}
<1> DEFINE rows == Matching(u)
           changes == Patched(u, rows)
<1>0. TypeOK /\ draft[u] = Clean
    BY DEF IInv, FreshInv, Update
<1> SUFFICES ASSUME NEW k \in Keys, row'[k] # None, View(u, k)' # row'[k]
             PROVE  k \in rows /\ changes[k] # View(u, k)
    BY DEF Changing
<1>1. changes[k] # Untouched /\ changes[k] # row[k]
    BY DEF View
<1>2. View(u, k) = row[k]
    BY <1>0 DEF View, Clean
<1>3. k \in rows
    <2>1. k \in rows \/ (rows # {} /\ k = ask[u].patch.key)
        BY <1>0, <1>1, PatchedType
    <2>2. ASSUME rows # {}, k = ask[u].patch.key PROVE k \in rows
        <3>1. k # None
            BY KeyAssumption, MarkAssumption
        <3>2. PICK j \in rows : k = j \/ View(u, k) = None
            BY <2>2, <3>1 DEF Update, Patchable
        <3> QED BY <1>2, <3>2
    <2> QED BY <2>1, <2>2
<1> QED BY <1>1, <1>2, <1>3

LEMMA DeleteChanges ==
    ASSUME IInv, NEW u \in Units, Delete(u), row' = row,
           draft'[u] = [k \in Keys |-> IF k \in Matching(u) THEN None ELSE draft[u][k]]
    PROVE  Changing(u)' \subseteq Matching(u)
<1>0. draft[u] = Clean
    BY DEF IInv, FreshInv, Delete
<1> QED BY <1>0 DEF Changing, View, Clean

LEMMA UpsertChanges ==
    ASSUME IInv, NEW u \in Units, Upsert(u), row' = row,
           NEW k \in Keys, NEW after, after # Untouched, draft'[u] = [draft[u] EXCEPT ![k] = after]
    PROVE  /\ Changing(u)' \cup Creating(u)' \subseteq {k}
           /\ View(u, k) = after => Changing(u)' \cup Creating(u)' = {}
           /\ Touched(u)' = {k}
           /\ View(u, k) = row[k]
<1>0. draft[u] = Clean
    BY DEF IInv, FreshInv, Upsert
<1>1. \A j \in Keys : draft'[u][j] = IF j = k THEN after ELSE Untouched
    BY <1>0 DEF Clean
<1>2. View(u, k) = row[k]
    BY <1>0 DEF View, Clean
<1>3. \A j \in Keys : View(u, j)' = IF j = k THEN after ELSE row[j]
    BY <1>1 DEF View
<1>4. Touched(u)' = {k}
    BY <1>1 DEF Touched
<1> QED BY <1>2, <1>3, <1>4 DEF Changing, Creating

UnitStep(u) == Check(u) \/ Statement(u) \/ Fails(u) \/ End(u) \/ Respond(u)

\* Only End changes the table, and a step of a unit is its own.
LEMMA OtherStep ==
    ASSUME IInv, NEW u \in Units, NEW v \in Units, u # v, UnitStep(v)
    PROVE  /\ ask' = ask /\ pc'[u] = pc[u] /\ inserted'[u] = inserted[u] /\ draft'[u] = draft[u]
           /\ Changing(u)' = Changing(u) /\ Creating(u)' = Creating(u)
           /\ \A k \in Touched(u) : row'[k] = row[k]
<1>1. ask' = ask /\ pc'[u] = pc[u] /\ inserted'[u] = inserted[u] /\ draft'[u] = draft[u]
    <2> USE DEF IInv, TypeOK, Go, RollBack, Write, unitVars
    <2>1. CASE Check(v) \/ ReadDelete(v) \/ SelectKeys(v)
        BY <2>1 DEF Check, ReadDelete, SelectKeys
    <2>2. CASE StartInsert(v) \/ PlaceRow(v) \/ FinishInsert(v)
        BY <2>2 DEF StartInsert, PlaceRow, FinishInsert
    <2>3. CASE Update(v) \/ Delete(v) \/ Upsert(v)
        BY <2>3 DEF Update, Delete, Upsert
    <2>4. CASE Reread(v) \/ Fails(v) \/ End(v) \/ Respond(v)
        BY <2>4 DEF Reread, Fails, End, Respond
    <2> QED BY <2>1, <2>2, <2>3, <2>4 DEF UnitStep, Statement
<1>2. CASE End(v)
    BY <1>1, <1>2, EndOfAnother
<1>3. CASE ~End(v)
    <2>1. row' = row
        BY <1>3 DEF UnitStep, Statement, Check, ReadDelete, SelectKeys, StartInsert, PlaceRow,
            FinishInsert, Update, Delete, Upsert, Reread, Fails, Respond, RollBack, Write
    <2> QED BY <1>1, <2>1 DEF Changing, Creating, View
<1> QED BY <1>1, <1>2, <1>3

\* A step of u that has made its statement, or makes it now.
LEMMA OwnStep ==
    ASSUME IInv, LimitInv, NEW u \in Units, UnitStep(u),
           pc'[u] \in {"reread", "end"}, Limited(u)
    PROVE  /\ Cardinality(Changing(u)') <= ask[u].max
           /\ ask[u].action = "upsert" => Cardinality(Changing(u)' \cup Creating(u)') <= ask[u].max
<1>0. TypeOK /\ ask[u].action # "insert" /\ ask[u].max \in Nat
    BY AskTypes DEF IInv, Limited
<1>1. Reread(u) \/ Update(u) \/ Delete(u) \/ Upsert(u)
    <2>1. ~Check(u) /\ ~ReadDelete(u) /\ ~SelectKeys(u) /\ ~StartInsert(u)
        BY <1>0 DEF Check, ReadDelete, SelectKeys, StartInsert, RollBack, Go, TypeOK
    <2>2. ~PlaceRow(u) /\ ~FinishInsert(u)
        BY <1>0 DEF PlaceRow, FinishInsert, IInv, InsertInv
    <2>3. ~Fails(u) /\ ~End(u) /\ ~Respond(u)
        BY <1>0 DEF Fails, End, Respond, RollBack, Go, TypeOK
    <2> QED BY <2>1, <2>2, <2>3 DEF UnitStep, Statement
<1>2. CASE Reread(u)
    <2>1. UNCHANGED <<ask, draft, row>>
        BY <1>0, <1>2 DEF Reread, RollBack, Go, TypeOK
    <2>2. pc[u] = "reread"
        BY <1>2 DEF Reread
    <2> QED BY <2>1, <2>2 DEF LimitInv, Changing, Creating, View
<1>3. CASE Update(u)
    <2> DEFINE rows == Matching(u)
               changes == Patched(u, rows)
               C == {k \in rows : changes[k] # View(u, k)}
    <2>1. Write(u, Cardinality(C), changes, FALSE, IF Represents(u) THEN "reread" ELSE "end")
          /\ ask[u].action = "update"
        BY <1>3 DEF Update
    <2>2. ~OverMax(u, Cardinality(C)) /\ draft'[u] = changes /\ row' = row
        BY <1>0, <2>1 DEF Write, RollBack, Go, TypeOK
    <2>3. Changing(u)' \subseteq C
        BY <1>3, <2>2, UpdateChanges
    <2>4. IsFiniteSet(C) /\ Cardinality(C) \in Nat
        <3>1. C \subseteq Keys
            BY DEF Matching
        <3> QED BY <3>1, FS_Subset, FS_CardinalityType, KeyAssumption
    <2>5. Cardinality(C) <= ask[u].max
        BY <1>0, <2>2, <2>4 DEF OverMax
    <2>6. Cardinality(Changing(u)') <= Cardinality(C) /\ Cardinality(Changing(u)') \in Nat
        BY <2>3, <2>4, FS_Subset, FS_CardinalityType
    <2> HIDE DEF C
    <2> QED BY <1>0, <2>1, <2>4, <2>5, <2>6
<1>4. CASE Delete(u)
    <2> DEFINE rows == Matching(u)
               changes == [k \in Keys |-> IF k \in rows THEN None ELSE draft[u][k]]
    <2>1. Write(u, Cardinality(rows), changes, FALSE, "end") /\ ask[u].action = "delete"
        BY <1>4 DEF Delete
    <2>2. ~OverMax(u, Cardinality(rows)) /\ draft'[u] = changes /\ row' = row
        BY <1>0, <2>1 DEF Write, RollBack, Go, TypeOK
    <2>3. Changing(u)' \subseteq rows
        BY <1>4, <2>2, DeleteChanges
    <2>4. IsFiniteSet(rows) /\ Cardinality(rows) \in Nat
        BY FS_Subset, FS_CardinalityType, KeyAssumption DEF Matching
    <2>5. Cardinality(rows) <= ask[u].max
        BY <1>0, <2>2, <2>4 DEF OverMax
    <2>6. Cardinality(Changing(u)') <= Cardinality(rows) /\ Cardinality(Changing(u)') \in Nat
        BY <2>3, <2>4, FS_Subset, FS_CardinalityType
    <2> HIDE DEF rows
    <2> QED BY <1>0, <2>1, <2>4, <2>5, <2>6
<1>5. CASE Upsert(u)
    <2> DEFINE new == ask[u].rows[1]
               held == View(u, new.key)
               after == IF OnDuplicate(u) = "ignored" /\ held # None THEN held ELSE new.val
               n == IF held = after THEN 0 ELSE 1
               S == Changing(u)' \cup Creating(u)'
    <2>1. Write(u, n, [draft[u] EXCEPT ![new.key] = after], TellsInserted(held, after), "end")
          /\ ask[u].action = "upsert"
        BY <1>5 DEF Upsert
    <2>2. ~OverMax(u, n) /\ draft'[u] = [draft[u] EXCEPT ![new.key] = after] /\ row' = row
        BY <1>0, <2>1 DEF Write, RollBack, Go, TypeOK
    <2>3. new.key \in Keys /\ after # Untouched
        <3>1. new.key \in Keys /\ new.val \in Vals /\ held \in Vals \cup {None}
            BY <1>0, <2>1, UpsertRowType, ViewType
        <3> QED BY <3>1, MarkAssumption
    <2>4. S \subseteq {new.key} /\ (held = after => S = {})
        <3> HIDE DEF after, new
        <3>1. /\ Changing(u)' \cup Creating(u)' \subseteq {new.key}
              /\ View(u, new.key) = after => Changing(u)' \cup Creating(u)' = {}
            BY <1>5, <2>2, <2>3, UpsertChanges
        <3> QED BY <3>1
    <2>5. n <= ask[u].max
        BY <1>0, <2>2 DEF OverMax
    <2>6. IsFiniteSet(S) /\ Cardinality(S) <= n /\ Cardinality(S) \in Nat
        <3>1. CASE held = after
            BY <2>4, <3>1, FS_EmptySet
        <3>2. CASE held # after
            <4>1. IsFiniteSet({new.key}) /\ Cardinality({new.key}) = 1
                BY FS_Singleton
            <4>2. S \in SUBSET {new.key}
                BY <2>4
            <4> HIDE DEF S
            <4>3. IsFiniteSet(S) /\ Cardinality(S) <= 1
                BY <4>1, <4>2, FS_Subset
            <4> QED BY <3>2, <4>3, FS_CardinalityType
        <3> QED BY <3>1, <3>2
    <2>7. Cardinality(Changing(u)') <= Cardinality(S) /\ Cardinality(Changing(u)') \in Nat
        BY <2>6, FS_Subset, FS_CardinalityType
    <2>8. n \in Nat
        OBVIOUS
    <2> HIDE DEF n, S
    <2>9. Cardinality(S) <= ask[u].max /\ Cardinality(Changing(u)') <= ask[u].max
        BY <1>0, <2>5, <2>6, <2>7, <2>8
    <2> QED BY <2>9 DEF S
<1> QED BY <1>1, <1>2, <1>3, <1>4, <1>5

LEMMA NextKeepsLimit == IInv /\ LimitInv /\ [Next]_vars => LimitInv'
<1> SUFFICES ASSUME IInv, LimitInv, [Next]_vars, NEW u \in Units,
                    pc'[u] \in {"reread", "end"}, Limited(u)'
             PROVE  /\ Cardinality(Changing(u)') <= ask'[u].max
                    /\ ask'[u].action = "upsert" =>
                          Cardinality(Changing(u)' \cup Creating(u)') <= ask'[u].max
    BY DEF LimitInv
<1>1. ASSUME NEW v \in Units, UnitStep(v), v # u
      PROVE  /\ Cardinality(Changing(u)') <= ask'[u].max
             /\ ask'[u].action = "upsert" =>
                   Cardinality(Changing(u)' \cup Creating(u)') <= ask'[u].max
    BY <1>1, OtherStep DEF LimitInv, Limited
<1>2. CASE UnitStep(u)
    <2>1. ask' = ask
        BY <1>2 DEF UnitStep, Statement, Check, ReadDelete, SelectKeys, StartInsert, PlaceRow,
            FinishInsert, Update, Delete, Upsert, Reread, Fails, End, Respond, RollBack, Write
    <2> QED BY <1>2, <2>1, OwnStep DEF Limited
<1>3. CASE UNCHANGED vars
    BY <1>3 DEF vars, LimitInv, Limited, Changing, Creating, View
<1> QED BY <1>1, <1>2, <1>3 DEF Next, Quiet, UnitStep

\* handling=strict with max-affected=n: no transaction that ends changes more
\* than n rows, whatever the other units did between its statements.
THEOREM MaxAffectedBounds == Spec => NeverOverMax
<1>1. Init => LimitInv
    BY DEF Init, LimitInv
<1>2. IInv /\ LimitInv /\ [Next]_vars =>
        [\A u \in Units : pc[u] = "end" /\ pc'[u] = "respond" /\ Limited(u) =>
            /\ Cardinality(Removed) <= ask[u].max
            /\ ask[u].action = "upsert" => Cardinality(Removed \cup Created) <= ask[u].max]_vars
    <2> SUFFICES ASSUME IInv, LimitInv, [Next]_vars, NEW u \in Units,
                        pc[u] = "end", pc'[u] = "respond", Limited(u)
                 PROVE  /\ Cardinality(Removed) <= ask[u].max
                        /\ ask[u].action = "upsert" =>
                              Cardinality(Removed \cup Created) <= ask[u].max
        OBVIOUS
    <2>0. TypeOK /\ ask[u].max \in Nat
        BY AskTypes DEF IInv, Limited
    <2>1. End(u)
        <3>1. ASSUME NEW v \in Units, UnitStep(v) PROVE v = u
            <4>1. v # u => pc'[u] = pc[u]
                BY <3>1, OtherStep
            <4> QED BY <4>1
        <3>2. UnitStep(u)
            <4>1. ~Quiet /\ ~UNCHANGED vars
                BY DEF Quiet, vars
            <4>2. PICK v \in Units : UnitStep(v)
                BY <4>1 DEF Next, UnitStep
            <4> QED BY <3>1, <4>2
        <3>3. ~Fails(u)
            BY <2>0 DEF Fails, RollBack, Go, TypeOK
        <3>4. ~Check(u) /\ ~Statement(u) /\ ~Respond(u)
            BY DEF Check, Statement, ReadDelete, SelectKeys, StartInsert, PlaceRow,
                FinishInsert, Update, Delete, Upsert, Reread, Respond
        <3> QED BY <3>2, <3>3, <3>4 DEF UnitStep
    <2>2. Removed \subseteq Changing(u) /\ Created \subseteq Creating(u)
        BY <2>1 DEF End, Removed, Created, Changing, Creating
    <2>3. Cardinality(Removed) <= Cardinality(Changing(u)) /\ Cardinality(Removed) \in Nat
        BY <2>2, ChangesAreFinite, FS_Subset, FS_CardinalityType
    <2>4. /\ Cardinality(Removed \cup Created) <= Cardinality(Changing(u) \cup Creating(u))
          /\ Cardinality(Removed \cup Created) \in Nat
        <3>1. Removed \cup Created \in SUBSET (Changing(u) \cup Creating(u))
            BY <2>2
        <3> QED BY <3>1, ChangesAreFinite, FS_Subset, FS_CardinalityType
    <2>5. /\ Cardinality(Changing(u)) \in Nat /\ Cardinality(Changing(u) \cup Creating(u)) \in Nat
          /\ Cardinality(Changing(u)) <= ask[u].max
          /\ ask[u].action = "upsert" => Cardinality(Changing(u) \cup Creating(u)) <= ask[u].max
        BY ChangesAreFinite DEF LimitInv
    <2> QED BY <2>0, <2>3, <2>4, <2>5
<1> QED BY <1>1, <1>2, InitIInv, NextKeepsIInv, NextKeepsLimit, PTL DEF Spec, NeverOverMax

-----------------------------------------------------------------------------
\* PUT tells the row it creates from the row it finds, because the row it has
\* locked keeps its committed value until the transaction ends.
THEOREM PutTells == Spec => []PutTellsInserted
<1>1. Init => PutTellsInserted
    BY DEF Init, PutTellsInserted
<1>2. IInv /\ PutTellsInserted /\ [Next]_vars => PutTellsInserted'
    <2> SUFFICES ASSUME IInv, PutTellsInserted, [Next]_vars, NEW u \in Units,
                        pc'[u] = "end", ask'[u].action = "upsert"
                 PROVE  inserted'[u] <=> \E k \in Touched(u)' : row'[k] = None
        BY DEF PutTellsInserted
    <2>0. TypeOK
        BY DEF IInv
    <2>1. ASSUME NEW v \in Units, UnitStep(v), v # u
          PROVE  inserted'[u] <=> \E k \in Touched(u)' : row'[k] = None
        <3>1. /\ ask' = ask /\ pc'[u] = pc[u] /\ inserted'[u] = inserted[u]
              /\ draft'[u] = draft[u] /\ \A k \in Touched(u) : row'[k] = row[k]
            BY <2>1, OtherStep
        <3>2. Touched(u)' = Touched(u)
            BY <3>1 DEF Touched
        <3> QED BY <3>1, <3>2 DEF PutTellsInserted
    <2>2. CASE UnitStep(u)
        <3>0. ask' = ask
            BY <2>2 DEF UnitStep, Statement, Check, ReadDelete, SelectKeys, StartInsert, PlaceRow,
                FinishInsert, Update, Delete, Upsert, Reread, Fails, End, Respond, RollBack, Write
        <3>1. CASE Upsert(u)
            <4> DEFINE new == ask[u].rows[1]
                       held == View(u, new.key)
                       after == IF OnDuplicate(u) = "ignored" /\ held # None THEN held ELSE new.val
            <4>1. PICK n : Write(u, n, [draft[u] EXCEPT ![new.key] = after],
                                 TellsInserted(held, after), "end")
                BY <3>1 DEF Upsert
            <4>2. /\ draft'[u] = [draft[u] EXCEPT ![new.key] = after] /\ row' = row
                  /\ inserted'[u] = TellsInserted(held, after)
                BY <2>0, <4>1 DEF Write, RollBack, Go, TypeOK
            <4>3. new.key \in Keys /\ after # Untouched
                <5>1. new.key \in Keys /\ new.val \in Vals /\ held \in Vals \cup {None}
                    BY <2>0, <3>0, UpsertRowType, ViewType
                <5> QED BY <5>1, MarkAssumption
            <4>4. Touched(u)' = {new.key} /\ held = row[new.key]
                <5> HIDE DEF after, new
                <5>1. Touched(u)' = {new.key} /\ View(u, new.key) = row[new.key]
                    BY <3>1, <4>2, <4>3, UpsertChanges
                <5> QED BY <5>1
            <4> QED BY <4>2, <4>4 DEF TellsInserted
        <3>2. CASE ~Upsert(u)
            <4>1. ~Check(u) /\ ~ReadDelete(u) /\ ~SelectKeys(u) /\ ~StartInsert(u)
                BY <2>0 DEF Check, ReadDelete, SelectKeys, StartInsert, RollBack, Go, TypeOK
            <4>2. ~PlaceRow(u) /\ ~FinishInsert(u) /\ ~Update(u) /\ ~Delete(u)
                BY <3>0 DEF PlaceRow, FinishInsert, Update, Delete, IInv, InsertInv
            <4>3. ~Fails(u) /\ ~End(u) /\ ~Respond(u)
                BY <2>0 DEF Fails, End, Respond, RollBack, Go, TypeOK
            <4>4. Reread(u)
                BY <2>2, <3>2, <4>1, <4>2, <4>3 DEF UnitStep, Statement
            <4> QED BY <3>0, <4>4 DEF IInv, InsertInv, Reread
        <3> QED BY <3>1, <3>2
    <2>3. CASE UNCHANGED vars
        BY <2>3 DEF vars, PutTellsInserted, Touched
    <2> QED BY <2>1, <2>2, <2>3 DEF Next, Quiet, UnitStep
<1> QED BY <1>1, <1>2, InitIInv, NextKeepsIInv, PTL DEF Spec

-----------------------------------------------------------------------------
(* What the client is told.                                                *)

\* A representation that has been read is one that can be given: the singular
\* object has its one row, and no row lacks a selected column.
Answerable(u) ==
    /\ pc[u] = "keys" => ask[u].action = "update"
    /\ pc[u] \in Open \cup {"respond"} /\ Represents(u) => ask[u].action # "upsert"
    /\ Represents(u) /\ (pc[u] \in {"end", "respond"} \/ (pc[u] = "write" /\ ask[u].action = "delete")) =>
          Valid(u, Cardinality(body[u]))
AnswerInv == \A u \in Units : Answerable(u)

\* What a step of one unit leaves another.
LEMMA OtherState ==
    ASSUME TypeOK, NEW u \in Units, NEW v \in Units, u # v, UnitStep(v)
    PROVE  /\ ask' = ask /\ pc'[u] = pc[u] /\ left'[u] = left[u] /\ todo'[u] = todo[u]
           /\ keys'[u] = keys[u] /\ count'[u] = count[u] /\ body'[u] = body[u]
           /\ draft'[u] = draft[u] /\ answer'[u] = answer[u]
<1> USE DEF TypeOK, Go, RollBack, Write, unitVars
<1>1. CASE Check(v) \/ ReadDelete(v) \/ SelectKeys(v)
    BY <1>1 DEF Check, ReadDelete, SelectKeys
<1>2. CASE StartInsert(v)
    BY <1>2 DEF StartInsert
<1>3. CASE PlaceRow(v) \/ FinishInsert(v)
    BY <1>3 DEF PlaceRow, FinishInsert
<1>4. CASE Update(v) \/ Delete(v) \/ Upsert(v)
    BY <1>4 DEF Update, Delete, Upsert
<1>5. CASE Reread(v) \/ Fails(v) \/ End(v) \/ Respond(v)
    BY <1>5 DEF Reread, Fails, End, Respond
<1> QED BY <1>1, <1>2, <1>3, <1>4, <1>5 DEF UnitStep, Statement

LEMMA SameAsk ==
    ASSUME NEW u \in Units, UnitStep(u)
    PROVE  ask' = ask
BY DEF UnitStep, Statement, Check, ReadDelete, SelectKeys, StartInsert, PlaceRow,
    FinishInsert, Update, Delete, Upsert, Reread, Fails, End, Respond, RollBack, Write

\* A step of u keeps what its answer rests on.
LEMMA OwnAnswer ==
    ASSUME IInv, AnswerInv, NEW u \in Units, UnitStep(u)
    PROVE  /\ pc'[u] = "keys" => ask[u].action = "update"
           /\ pc'[u] \in Open \cup {"respond"} /\ Represents(u) => ask[u].action # "upsert"
           /\ Represents(u) /\ (pc'[u] \in {"end", "respond"}
                                \/ (pc'[u] = "write" /\ ask[u].action = "delete")) =>
                 Valid(u, Cardinality(body'[u]))
<1> USE DEF Go
<1>0. TypeOK
    BY DEF IInv
<1>1. ASSUME NEW e, RollBack(u, e) PROVE pc'[u] = "done"
    BY <1>0, <1>1 DEF RollBack, TypeOK
<1>2. CASE Check(u)
    <2>1. CASE Refusable(u)
        BY <1>0, <1>2, <2>1 DEF Check, TypeOK, Open
    <2>2. CASE ~Refusable(u)
        <3>1. pc'[u] = CASE Represents(u) /\ ask[u].action = "delete" -> "read"
                         [] Represents(u) /\ ask[u].action = "update" -> "keys"
                         [] OTHER -> "write"
            BY <1>0, <1>2, <2>2 DEF Check, TypeOK
        <3>2. Represents(u) => ask[u].action # "upsert"
            BY <2>2 DEF Refusable, CannotRepresent
        <3> QED BY <3>1, <3>2
    <2> QED BY <2>1, <2>2
<1>3. CASE ReadDelete(u)
    <2>1. CASE Valid(u, Cardinality(RowsOf(u, Matching(u))))
        <3>1. pc'[u] = "write" /\ body'[u] = RowsOf(u, Matching(u)) /\ pc[u] = "read"
            BY <1>0, <1>3, <2>1 DEF ReadDelete, TypeOK
        <3> QED BY <2>1, <3>1 DEF AnswerInv, Answerable, Open
    <2>2. CASE ~Valid(u, Cardinality(RowsOf(u, Matching(u))))
        BY <1>1, <1>3, <2>2 DEF ReadDelete, Open
    <2> QED BY <2>1, <2>2
<1>4. CASE SelectKeys(u)
    <2>1. pc'[u] = "write" /\ pc[u] = "keys"
        BY <1>0, <1>4 DEF SelectKeys, TypeOK
    <2> QED BY <2>1 DEF AnswerInv, Answerable
<1>5. CASE StartInsert(u) \/ PlaceRow(u)
    <2>1. pc'[u] \in {"place", "write", "placed"} /\ ask[u].action = "insert"
        BY <1>0, <1>5 DEF StartInsert, PlaceRow, TypeOK, IInv, InsertInv
    <2> QED BY <2>1
<1>6. CASE FinishInsert(u)
    <2>1. ask[u].action = "insert" /\ pc'[u] \in {"done", IF Represents(u) THEN "reread" ELSE "end"}
        BY <1>0, <1>1, <1>6 DEF FinishInsert, TypeOK, IInv, InsertInv
    <2> QED BY <2>1
<1>7. CASE Update(u) \/ Delete(u) \/ Upsert(u)
    <2>1. ASSUME NEW n, NEW c, NEW t, NEW next, Write(u, n, c, t, next)
          PROVE  pc'[u] \in {"done", next} /\ body'[u] = body[u]
        BY <1>0, <1>1, <2>1 DEF Write, RollBack, unitVars, TypeOK
    <2>2. /\ pc[u] = "write" /\ ask[u].action \in {"update", "delete", "upsert"} /\ body'[u] = body[u]
          /\ pc'[u] \in {"done", IF Represents(u) /\ ask[u].action = "update" THEN "reread" ELSE "end"}
        BY <1>7, <2>1 DEF Update, Delete, Upsert
    <2> QED BY <2>2 DEF AnswerInv, Answerable, Open
<1>8. CASE Reread(u)
    <2> DEFINE found == RowsOf(u, keys[u])
               fits == Cardinality(found) = count[u] /\ Valid(u, Cardinality(found))
    <2>1. CASE fits
        <3>1. pc'[u] = "end" /\ body'[u] = found /\ ask[u].action \in {"insert", "update"}
            BY <1>0, <1>8, <2>1 DEF Reread, TypeOK, IInv, InsertInv
        <3> QED BY <2>1, <3>1
    <2>2. CASE ~fits
        BY <1>1, <1>8, <2>2 DEF Reread, Open
    <2> QED BY <2>1, <2>2
<1>9. CASE End(u)
    <2>1. pc[u] = "end" /\ pc'[u] = "respond" /\ body'[u] = body[u]
        BY <1>0, <1>9 DEF End, TypeOK, unitVars
    <2> QED BY <2>1 DEF AnswerInv, Answerable, Open
<1>10. CASE Fails(u) \/ Respond(u)
    <2>1. pc'[u] = "done"
        BY <1>0, <1>1, <1>10 DEF Fails, Respond, TypeOK
    <2> QED BY <2>1 DEF Open
<1> QED BY <1>2, <1>3, <1>4, <1>5, <1>6, <1>7, <1>8, <1>9, <1>10 DEF UnitStep, Statement

LEMMA NextKeepsAnswer == IInv /\ AnswerInv /\ [Next]_vars => AnswerInv'
<1> SUFFICES ASSUME IInv, AnswerInv, [Next]_vars, NEW u \in Units
             PROVE  Answerable(u)'
    BY DEF AnswerInv
<1>1. ASSUME NEW v \in Units, UnitStep(v), v # u
      PROVE  ask' = ask /\ pc'[u] = pc[u] /\ body'[u] = body[u]
    BY <1>1, OtherState DEF IInv
<1>3. CASE UnitStep(u)
    <2>1. ask' = ask
        BY <1>3, SameAsk
    <2> QED BY <1>3, <2>1, OwnAnswer DEF Answerable, Open, Valid, Represents
<1>4. CASE ask' = ask /\ pc'[u] = pc[u] /\ body'[u] = body[u]
    BY <1>4 DEF AnswerInv, Answerable, Open, Valid, Represents
<1>5. CASE UNCHANGED vars
    BY <1>4, <1>5 DEF vars
<1> QED BY <1>1, <1>3, <1>4, <1>5 DEF Next, Quiet, UnitStep

\* What the client is told was refused has not been committed: the rows that
\* were read in the transaction pass every check that is made after it.
THEOREM RefusesBeforeEnd == Spec => RefusedBeforeEnd
<1>1. Init => AnswerInv
    BY DEF Init, AnswerInv, Answerable, Open
<1>2. IInv /\ AnswerInv /\ [Next]_vars =>
        [\A u \in Units : answer'[u] = "refused" /\ answer[u] # "refused" => pc[u] # "respond"]_vars
    <2> SUFFICES ASSUME IInv, AnswerInv, [Next]_vars, NEW u \in Units, pc[u] = "respond",
                        answer'[u] = "refused", answer[u] # "refused"
                 PROVE  FALSE
        OBVIOUS
    <2>0. TypeOK
        BY DEF IInv
    <2>1. ~Quiet /\ ~UNCHANGED vars
        BY DEF Quiet, vars
    <2>2. PICK v \in Units : UnitStep(v)
        BY <2>1 DEF Next, UnitStep
    <2>3. v = u
        BY <2>0, <2>2, OtherState
    <2>4. Respond(u)
        BY <2>2, <2>3 DEF UnitStep, Statement, Check, ReadDelete, SelectKeys, StartInsert, PlaceRow,
            FinishInsert, Update, Delete, Upsert, Reread, Fails, End, Open
    <2>5. Represents(u) => Valid(u, Cardinality(body[u]))
        BY DEF AnswerInv, Answerable
    <2>6. \E nested \in BOOLEAN : answer'[u] =
            CASE ~nested -> "broken"
              [] Represents(u) -> IF Valid(u, Cardinality(body[u])) THEN "rows" ELSE "refused"
              [] ask[u].action = "insert" \/ inserted[u] -> "created"
              [] OTHER -> "noContent"
        BY <2>0, <2>4 DEF Respond, TypeOK
    <2>7. answer'[u] \in {"broken", "rows", "created", "noContent"}
        BY <2>5, <2>6
    <2> QED BY <2>7
<1> QED BY <1>1, <1>2, InitIInv, NextKeepsIInv, NextKeepsAnswer, PTL DEF Spec, RefusedBeforeEnd

-----------------------------------------------------------------------------
(* The rows a POST answers with.                                           *)

TodoKeys(u) == {todo[u][i].key : i \in DOMAIN todo[u]}

\* A POST that asks for its rows: it lists keys and ignores no duplicate; what
\* is not sent yet is part of its body, and what it has placed is a row.
Posting(u) == Represents(u) /\ ask[u].action = "insert" =>
    /\ pc[u] = "new" => keys[u] = {} /\ count[u] = 0
    /\ pc[u] \notin {"done", "place"} => todo[u] = <<>>
    /\ pc[u] \in Open => WantsKeys(u) /\ OnDuplicate(u) # "ignored"
    /\ AllExplicit(ask[u].rows) => AllExplicit(left[u])
    /\ NoneExplicit(ask[u].rows) => NoneExplicit(left[u])
    /\ \A k \in Touched(u) : draft[u][k] # None
    /\ pc[u] \in {"reread", "end"} => Identifiable(u)

\* The keys it has listed, if they can be told.  Unless the body names the key
\* 0, for which MySQL generates one, they are those of the rows placed and of
\* the rows to place; and no more were listed than counted.
Listing(u) ==
    /\ Represents(u) /\ ask[u].action = "insert" /\ Identifiable(u)
    /\ pc[u] \in {"write", "place", "placed", "reread"}
Listed(u) == Listing(u) =>
    /\ IsFiniteSet(keys[u]) /\ Cardinality(keys[u]) <= count[u]
    /\ 0 \notin keys[u] => keys[u] = Touched(u) \cup TodoKeys(u)

Returned(u) == pc[u] = "end" /\ Represents(u) /\ ask[u].action = "insert" =>
    body[u] = {<<k, draft[u][k]>> : k \in Touched(u)}

Posted(u) == Posting(u) /\ Listed(u) /\ Returned(u)
PostInv == \A u \in Units : Posted(u)

\* When every row of a statement names a key, or none does, the keys listed are
\* those MySQL gives the rows, unless one of them is 0.
LEMMA ListedAreGiven ==
    ASSUME nextAuto \in Nat, NEW batch \in Seq(BodyRow),
           AllExplicit(batch) \/ NoneExplicit(batch)
    PROVE  /\ IsFiniteSet(ListedKeys(batch)) /\ Cardinality(ListedKeys(batch)) <= Len(batch)
           /\ 0 \notin ListedKeys(batch) =>
                 ListedKeys(batch) = {KeyOf(batch, i) : i \in 1 .. Len(batch)}
<1> DEFINE n == Len(batch)
           listed == IF AllExplicit(batch) THEN [i \in 1 .. n |-> batch[i].key]
                     ELSE [i \in 1 .. n |-> nextAuto + i - 1]
<1>1. n \in Nat /\ DOMAIN batch = 1 .. n
    BY LenProperties
<1>2. IsFiniteSet(ListedKeys(batch)) /\ Cardinality(ListedKeys(batch)) <= n
    <2>1. DOMAIN listed = 1 .. n /\ ListedKeys(batch) = {listed[i] : i \in 1 .. n}
        BY <1>1 DEF ListedKeys
    <2>2. listed \in [1 .. n -> ListedKeys(batch)]
        BY <1>1 DEF ListedKeys
    <2> HIDE DEF listed
    <2>3. listed \in Surjection(1 .. n, ListedKeys(batch))
        BY <2>1, <2>2 DEF Surjection
    <2>4. IsFiniteSet(1 .. n) /\ Cardinality(1 .. n) = n
        BY <1>1, FS_Interval
    <2> QED BY <2>3, <2>4, FS_Surjection
<1>3. CASE AllExplicit(batch)
    <2> SUFFICES ASSUME 0 \notin ListedKeys(batch), NEW i \in 1 .. n
                 PROVE  KeyOf(batch, i) = batch[i].key
        BY <1>1, <1>2, <1>3 DEF ListedKeys
    <2>1. batch[i].key \in ListedKeys(batch)
        BY <1>1, <1>3 DEF ListedKeys
    <2>2. batch[i].key # None /\ batch[i].key # 0
        BY <1>1, <1>3, <2>1 DEF AllExplicit, Explicit
    <2> QED BY <2>2 DEF KeyOf, Generated
<1>4. CASE ~AllExplicit(batch)
    <2> SUFFICES ASSUME NEW i \in 1 .. n
                 PROVE  KeyOf(batch, i) = nextAuto + i - 1
        BY <1>1, <1>2, <1>4 DEF ListedKeys
    <2>1. \A j \in 1 .. n : Generated(batch[j])
        BY <1>1, <1>4 DEF NoneExplicit, Explicit, Generated
    <2>2. {j \in 1 .. i - 1 : Generated(batch[j])} = 1 .. i - 1
        BY <1>1, <2>1
    <2>3. Cardinality(1 .. i - 1) = i - 1
        BY <1>1, FS_Interval
    <2>4. GeneratedUpTo(batch, i - 1) = i - 1
        BY <2>2, <2>3 DEF GeneratedUpTo
    <2> QED BY <1>1, <2>1, <2>4, StepAssumption DEF KeyOf
<1> QED BY <1>2, <1>3, <1>4

\* A statement of a POST whose keys can be told is one of those.
LEMMA BatchIsUniform ==
    ASSUME TypeOK, InsertInv, NEW u \in Units, Posting(u), pc[u] = "write", Listing(u)
    PROVE  AllExplicit(Batch(u)) \/ NoneExplicit(Batch(u))
<1>1. ask[u].action = "insert"
    BY DEF Listing
<1>2. CASE PerRow(u)
    <2>1. DOMAIN Batch(u) = {1}
        BY <1>2 DEF Batch
    <2> QED BY <2>1 DEF AllExplicit, NoneExplicit
<1>3. CASE ~PerRow(u)
    <2>1. AllExplicit(left[u]) \/ NoneExplicit(left[u])
        BY <1>3 DEF Listing, Identifiable, Posting
    <2> QED BY <1>3, <2>1 DEF Batch
<1> QED BY <1>2, <1>3

LEMMA OtherPosted ==
    ASSUME NEW u \in Units, Posted(u), ask' = ask, pc'[u] = pc[u], left'[u] = left[u],
           todo'[u] = todo[u], keys'[u] = keys[u], count'[u] = count[u], body'[u] = body[u],
           draft'[u] = draft[u]
    PROVE  Posted(u)'
<1>1. /\ Represents(u)' <=> Represents(u)
      /\ WantsKeys(u)' <=> WantsKeys(u)
      /\ OnDuplicate(u)' = OnDuplicate(u)
    BY DEF Represents, WantsKeys, OnDuplicate
<1>2. Touched(u)' = Touched(u) /\ TodoKeys(u)' = TodoKeys(u)
    BY DEF Touched, TodoKeys
<1>3. Identifiable(u)' <=> Identifiable(u)
    BY <1>1 DEF Identifiable, PerRow, AllExplicit, NoneExplicit, Explicit
<1>4. Posting(u)'
    BY <1>1, <1>2, <1>3 DEF Posted, Posting, Open, AllExplicit, NoneExplicit, Explicit
<1>5. Listed(u)'
    BY <1>1, <1>2, <1>3 DEF Posted, Listed, Listing
<1>6. Returned(u)'
    BY <1>1, <1>2 DEF Posted, Returned
<1> QED BY <1>4, <1>5, <1>6 DEF Posted

\* A unit that is no POST with a representation says nothing of these.
LEMMA NoPost ==
    ASSUME NEW u \in Units, ask' = ask, ~Represents(u) \/ ask[u].action # "insert"
    PROVE  Posted(u)'
BY DEF Posted, Posting, Listed, Listing, Returned, Represents

\* The end of the unit, or of its transaction.
LEMMA QuitPosted ==
    ASSUME NEW u \in Units, Posted(u), ask' = ask, left'[u] = left[u], todo'[u] = todo[u],
           draft'[u] = Clean,
           pc'[u] = "done" \/ (pc'[u] = "respond" /\ pc[u] = "end")
    PROVE  Posted(u)'
<1>1. Touched(u)' = {}
    BY DEF Touched, Clean
<1>2. Posting(u)'
    BY <1>1 DEF Posted, Posting, Open, AllExplicit, NoneExplicit, Explicit, Represents
<1> QED BY <1>2 DEF Posted, Listed, Listing, Returned

LEMMA CheckPosted == ASSUME IInv, NEW u \in Units, Posted(u), Check(u) PROVE Posted(u)'
<1> USE DEF Go, unitVars
<1>0. TypeOK /\ draft[u] = Clean /\ pc[u] = "new"
    BY DEF IInv, TypeOK, Check, Open
<1>1. CASE Refusable(u)
    <2>1. pc'[u] = "done" /\ ask' = ask /\ left' = left /\ todo' = todo /\ draft' = draft
        BY <1>0, <1>1 DEF Check, TypeOK
    <2> QED BY <1>0, <2>1, QuitPosted
<1>2. CASE ~Refusable(u)
    <2>1. /\ ask' = ask /\ todo' = todo /\ draft' = draft /\ keys' = keys /\ count' = count
          /\ left'[u] = ask[u].rows
          /\ ask[u].action = "insert" => pc'[u] = "write"
        BY <1>0, <1>2 DEF Check, TypeOK
    <2>2. CASE Represents(u) /\ ask[u].action = "insert"
        <3>1. Touched(u)' = {} /\ keys'[u] = {} /\ count'[u] = 0 /\ todo'[u] = <<>> /\ pc'[u] = "write"
            BY <1>0, <2>1, <2>2 DEF Touched, Clean, Posted, Posting
        <3>2. WantsKeys(u) /\ OnDuplicate(u) # "ignored"
            BY <1>2, <2>2 DEF Refusable, CannotRepresent, WantsKeys, OnDuplicate, Represents
        <3>3. WantsKeys(u)' /\ OnDuplicate(u)' # "ignored"
            BY <2>1, <3>2 DEF WantsKeys, OnDuplicate
        <3>4. Posting(u)'
            BY <2>1, <3>1, <3>3 DEF Posting, Open, AllExplicit, NoneExplicit, Explicit
        <3>5. TodoKeys(u)' = {}
            BY <3>1 DEF TodoKeys
        <3>6. Listed(u)'
            BY <3>1, <3>5, FS_EmptySet DEF Listed
        <3> QED BY <3>1, <3>4, <3>6 DEF Posted, Returned
    <2>3. CASE ~(Represents(u) /\ ask[u].action = "insert")
        BY <2>1, <2>3, NoPost
    <2> QED BY <2>2, <2>3
<1> QED BY <1>1, <1>2

LEMMA RollBackPosted ==
    ASSUME TypeOK, NEW u \in Units, Posted(u), NEW e, RollBack(u, e)
    PROVE  Posted(u)'
<1>1. pc'[u] = "done" /\ ask' = ask /\ left' = left /\ todo' = todo /\ draft'[u] = Clean
    BY DEF RollBack, Go, TypeOK
<1> QED BY <1>1, QuitPosted

LEMMA StartInsertPosted == ASSUME IInv, NEW u \in Units, Posted(u), StartInsert(u) PROVE Posted(u)'
<1> DEFINE batch == Batch(u)
           n == Len(batch)
           t == [i \in 1 .. n |-> [key |-> KeyOf(batch, i), val |-> batch[i].val]]
<1>0. TypeOK /\ InsertInv /\ pc[u] = "write" /\ ask[u].action = "insert"
    BY DEF IInv, StartInsert
<1>1. /\ batch \in Seq(BodyRow) /\ n \in 1 .. Len(left[u]) /\ Len(left[u]) \in Nat
      /\ left[u] \in Seq(BodyRow)
    BY <1>0, BatchType DEF TypeOK, BodyRow
<1>2. /\ ask' = ask /\ pc'[u] = "place" /\ draft' = draft
      /\ todo'[u] = t
      /\ left'[u] = SubSeq(left[u], n + 1, Len(left[u]))
      /\ WantsKeys(u) => keys'[u] = keys[u] \cup ListedKeys(batch) /\ count'[u] = count[u] + n
    BY <1>0 DEF StartInsert, Go, TypeOK
<1>3. CASE Represents(u) /\ ask[u].action = "insert"
    <2>1. WantsKeys(u) /\ OnDuplicate(u) # "ignored" /\ todo[u] = <<>>
        BY <1>0, <1>3 DEF Posted, Posting, Open
    <2>2. /\ WantsKeys(u)' /\ OnDuplicate(u)' # "ignored" /\ Touched(u)' = Touched(u)
          /\ Represents(u)' /\ (Identifiable(u)' <=> Identifiable(u))
        <3>1. WantsKeys(u)' /\ OnDuplicate(u)' = OnDuplicate(u) /\ Represents(u)'
            BY <1>2, <1>3, <2>1 DEF WantsKeys, OnDuplicate, Represents
        <3>2. Touched(u)' = Touched(u)
            BY <1>2 DEF Touched
        <3> QED BY <1>2, <2>1, <3>1, <3>2 DEF Identifiable, PerRow, AllExplicit, NoneExplicit, Explicit
    <2>3. /\ AllExplicit(left[u]) => AllExplicit(left'[u])
          /\ NoneExplicit(left[u]) => NoneExplicit(left'[u])
        <3>1. DOMAIN left[u] = 1 .. Len(left[u])
            BY <1>1, LenProperties
        <3>2. \A i \in n + 1 .. Len(left[u]) : left[u][i] \in BodyRow
            BY <1>1, ElementOfSeq
        <3>3. DOMAIN left'[u] \subseteq 1 .. Len(left[u]) - n
              /\ \A i \in DOMAIN left'[u] : left'[u][i] = left[u][n + i]
            BY <1>1, <1>2
        <3>4. \A i \in DOMAIN left'[u] : n + i \in DOMAIN left[u]
            BY <1>1, <3>1, <3>3
        <3> QED BY <3>3, <3>4 DEF AllExplicit, NoneExplicit
    <2>4. Posting(u)'
        BY <1>2, <1>3, <2>2, <2>3 DEF Posted, Posting, AllExplicit, NoneExplicit, Explicit
    <2>5. Listed(u)'
        <3> SUFFICES ASSUME Identifiable(u)
                     PROVE  /\ IsFiniteSet(keys'[u]) /\ Cardinality(keys'[u]) <= count'[u]
                            /\ 0 \notin keys'[u] => keys'[u] = Touched(u) \cup TodoKeys(u)'
            BY <2>2 DEF Listed, Listing
        <3>1. Listing(u)
            BY <1>0, <1>3 DEF Listing
        <3>2. AllExplicit(batch) \/ NoneExplicit(batch)
            BY <1>0, <3>1, BatchIsUniform DEF Posted
        <3>3. /\ IsFiniteSet(ListedKeys(batch)) /\ Cardinality(ListedKeys(batch)) <= n
              /\ 0 \notin ListedKeys(batch) => ListedKeys(batch) = {KeyOf(batch, i) : i \in 1 .. n}
            BY <1>0, <1>1, <3>2, ListedAreGiven DEF TypeOK
        <3>4. TodoKeys(u) = {} /\ TodoKeys(u)' = {KeyOf(batch, i) : i \in 1 .. n}
            BY <1>2, <2>1 DEF TodoKeys
        <3>5. /\ IsFiniteSet(keys[u]) /\ Cardinality(keys[u]) <= count[u] /\ count[u] \in Nat
              /\ 0 \notin keys[u] => keys[u] = Touched(u)
            BY <1>0, <3>1, <3>4 DEF Posted, Listed, TypeOK
        <3> HIDE DEF batch, n, t
        <3>6. /\ IsFiniteSet(keys[u] \cup ListedKeys(batch))
              /\ Cardinality(keys[u] \cup ListedKeys(batch)) <= count[u] + n
            <4>1. IsFiniteSet(keys[u] \cap ListedKeys(batch))
                BY <3>3, FS_Subset
            <4>2. /\ Cardinality(keys[u] \cap ListedKeys(batch)) \in Nat
                  /\ Cardinality(keys[u]) \in Nat /\ Cardinality(ListedKeys(batch)) \in Nat
                BY <3>3, <3>5, <4>1, FS_CardinalityType
            <4>3. /\ IsFiniteSet(keys[u] \cup ListedKeys(batch))
                  /\ Cardinality(keys[u] \cup ListedKeys(batch)) =
                        Cardinality(keys[u]) + Cardinality(ListedKeys(batch))
                        - Cardinality(keys[u] \cap ListedKeys(batch))
                BY <3>3, <3>5, FS_Union
            <4> QED BY <1>1, <3>3, <3>5, <4>2, <4>3
        <3> QED BY <1>2, <2>1, <3>3, <3>4, <3>5, <3>6
    <2>6. Returned(u)'
        BY <1>2 DEF Returned
    <2> QED BY <2>4, <2>5, <2>6 DEF Posted
<1>4. CASE ~(Represents(u) /\ ask[u].action = "insert")
    BY <1>2, <1>4, NoPost
<1> QED BY <1>3, <1>4

LEMMA PlaceRowPosted == ASSUME IInv, NEW u \in Units, Posted(u), PlaceRow(u) PROVE Posted(u)'
<1> DEFINE k == Head(todo[u]).key
           held == View(u, k)
           val == IF OnDuplicate(u) = "ignored" /\ held # None THEN held ELSE Head(todo[u]).val
<1>0. /\ TypeOK /\ pc[u] = "place" /\ ask[u].action = "insert"
      /\ todo[u] # <<>> /\ todo[u] \in Seq([key : Keys, val : Vals])
    BY DEF IInv, PlaceRow, InsertInv, TypeOK
<1>1. /\ Head(todo[u]) \in [key : Keys, val : Vals] /\ Tail(todo[u]) \in Seq([key : Keys, val : Vals])
      /\ Len(Tail(todo[u])) = Len(todo[u]) - 1 /\ Len(todo[u]) \in Nat \ {0}
      /\ \A i \in 1 .. Len(Tail(todo[u])) : Tail(todo[u])[i] = todo[u][i + 1]
      /\ Head(todo[u]) = todo[u][1]
    <2>1. Len(todo[u]) \in Nat \ {0}
        BY <1>0, EmptySeq
    <2>2. Head(todo[u]) = todo[u][1]
        BY <1>0, <2>1
    <2> QED BY <1>0, <2>1, <2>2, HeadTailProperties
<1>2. /\ ask' = ask /\ left' = left /\ keys' = keys /\ count' = count /\ body' = body
      /\ todo'[u] = Tail(todo[u]) /\ draft'[u] = [draft[u] EXCEPT ![k] = val]
      /\ pc'[u] = IF Len(todo[u]) > 1 THEN "place" ELSE IF left[u] # <<>> THEN "write" ELSE "placed"
    BY <1>0 DEF PlaceRow, Go, unitVars, TypeOK
<1>3. CASE Represents(u) /\ ask[u].action = "insert"
    <2>1. WantsKeys(u) /\ OnDuplicate(u) # "ignored"
        BY <1>0, <1>3 DEF Posted, Posting, Open
    <2>2. /\ WantsKeys(u)' /\ OnDuplicate(u)' # "ignored" /\ Represents(u)'
          /\ (Identifiable(u)' <=> Identifiable(u))
        <3>1. WantsKeys(u)' /\ OnDuplicate(u)' = OnDuplicate(u) /\ Represents(u)'
            BY <1>2, <1>3, <2>1 DEF WantsKeys, OnDuplicate, Represents
        <3> QED BY <1>2, <2>1, <3>1 DEF Identifiable, PerRow, AllExplicit, NoneExplicit, Explicit
    <2>3. val \in Vals /\ k \in Keys
        BY <1>1, <2>1
    <2>4. draft[u] \in [Keys -> Vals \cup {None, Untouched}]
        BY <1>0 DEF TypeOK
    <2> HIDE DEF val, k, held
    <2>5. \A j \in Keys : draft'[u][j] = IF j = k THEN val ELSE draft[u][j]
        BY <1>2, <2>4
    <2>6. val # Untouched /\ val # None
        BY <2>3, MarkAssumption
    <2>7. Touched(u)' = Touched(u) \cup {k}
        BY <2>3, <2>5, <2>6 DEF Touched
    <2>8. TodoKeys(u) = TodoKeys(u)' \cup {k}
        <3>1. DOMAIN todo[u] = 1 .. Len(todo[u])
              /\ DOMAIN Tail(todo[u]) = 1 .. Len(Tail(todo[u]))
            BY <1>0, <1>1, LenProperties
        <3>2. TodoKeys(u)' = {todo[u][i + 1].key : i \in 1 .. Len(todo[u]) - 1}
            <4>1. \A i \in 1 .. Len(todo[u]) - 1 : todo'[u][i] = todo[u][i + 1]
                BY <1>1, <1>2
            <4>2. DOMAIN todo'[u] = 1 .. Len(todo[u]) - 1
                BY <1>1, <1>2, <3>1
            <4> QED BY <4>1, <4>2 DEF TodoKeys
        <3>3. ASSUME NEW i \in 1 .. Len(todo[u])
              PROVE  i = 1 \/ \E j \in 1 .. Len(todo[u]) - 1 : i = j + 1
            <4>1. i # 1 => i - 1 \in 1 .. Len(todo[u]) - 1 /\ i = (i - 1) + 1
                BY <1>1
            <4> QED BY <4>1
        <3>4. \A j \in 1 .. Len(todo[u]) - 1 : j + 1 \in 1 .. Len(todo[u])
            BY <1>1
        <3>5. 1 \in 1 .. Len(todo[u])
            BY <1>1
        <3>6. TodoKeys(u) = {todo[u][i].key : i \in 1 .. Len(todo[u])}
            BY <3>1 DEF TodoKeys
        <3>7. k = todo[u][1].key
            BY <1>1 DEF k
        <3> QED BY <3>2, <3>3, <3>4, <3>5, <3>6, <3>7
    <2>9. pc'[u] # "place" => todo'[u] = <<>>
        <3>1. pc'[u] # "place" => Len(todo[u]) = 1
            <4>1. PICK m \in Nat \ {0} : m = Len(todo[u])
                BY <1>1
            <4>2. m > 1 \/ m = 1
                OBVIOUS
            <4> QED BY <1>2, <4>1, <4>2
        <3>2. Len(todo[u]) = 1 => Len(Tail(todo[u])) = 0
            BY <1>1
        <3> QED BY <1>1, <1>2, <3>1, <3>2, EmptySeq
    <2>10. \A j \in Touched(u)' : draft'[u][j] # None
        BY <1>3, <2>5, <2>6, <2>7 DEF Posted, Posting, Touched
    <2>11. pc'[u] \in {"place", "write", "placed"}
        BY <1>2
    <2>12. Posting(u)'
        BY <1>2, <1>3, <2>2, <2>9, <2>10, <2>11 DEF Posted, Posting, AllExplicit, NoneExplicit, Explicit
    <2>13. Listed(u)'
        BY <1>0, <1>2, <1>3, <2>2, <2>7, <2>8 DEF Posted, Listed, Listing
    <2> QED BY <2>11, <2>12, <2>13 DEF Posted, Returned
<1>4. CASE ~(Represents(u) /\ ask[u].action = "insert")
    BY <1>2, <1>4, NoPost
<1> QED BY <1>3, <1>4

LEMMA FinishInsertPosted == ASSUME IInv, NEW u \in Units, Posted(u), FinishInsert(u) PROVE Posted(u)'
<1>0. TypeOK /\ pc[u] = "placed"
    BY DEF IInv, FinishInsert
<1>1. CASE WantsKeys(u) /\ ~Identifiable(u)
    BY <1>0, <1>1, RollBackPosted DEF FinishInsert
<1>2. CASE ~(WantsKeys(u) /\ ~Identifiable(u))
    <2>1. /\ UNCHANGED <<ask, left, todo, keys, count, body, draft>>
          /\ pc'[u] = IF Represents(u) THEN "reread" ELSE "end"
        BY <1>0, <1>2 DEF FinishInsert, Go, unitVars, TypeOK
    <2>2. CASE Represents(u) /\ ask[u].action = "insert"
        <3>1. WantsKeys(u) /\ Identifiable(u) /\ todo[u] = <<>> /\ OnDuplicate(u) # "ignored"
            BY <1>0, <1>2, <2>2 DEF Posted, Posting, Open
        <3>2. WantsKeys(u)' /\ OnDuplicate(u)' = OnDuplicate(u) /\ Represents(u)'
            BY <2>1, <2>2, <3>1 DEF WantsKeys, OnDuplicate, Represents
        <3>3. Identifiable(u)'
            BY <2>1, <3>1, <3>2 DEF Identifiable, PerRow, AllExplicit, NoneExplicit, Explicit
        <3>4. Touched(u)' = Touched(u) /\ TodoKeys(u)' = TodoKeys(u)
            BY <2>1 DEF Touched, TodoKeys
        <3>5. Posting(u)'
            BY <2>1, <2>2, <3>1, <3>2, <3>3, <3>4
            DEF Posted, Posting, AllExplicit, NoneExplicit, Explicit
        <3>6. Listing(u)
            BY <1>0, <2>2, <3>1 DEF Listing
        <3>7. Listed(u)'
            BY <2>1, <3>4, <3>6 DEF Posted, Listed
        <3> QED BY <2>1, <2>2, <3>5, <3>7 DEF Posted, Returned
    <2>3. CASE ~(Represents(u) /\ ask[u].action = "insert")
        BY <2>1, <2>3, NoPost
    <2> QED BY <2>2, <2>3
<1> QED BY <1>1, <1>2

\* A row is found for every key that was counted only when every key listed is
\* a key of the table: then no key is 0, and the rows are those placed.
LEMMA FoundArePlaced ==
    ASSUME IInv, NEW u \in Units, Posted(u), pc[u] = "reread",
           Represents(u), ask[u].action = "insert",
           Cardinality(RowsOf(u, keys[u])) = count[u]
    PROVE  RowsOf(u, keys[u]) = {<<k, draft[u][k]>> : k \in Touched(u)}
<1> DEFINE P == {k \in keys[u] \cap Keys : View(u, k) # None}
           f == [k \in P |-> <<k, View(u, k)>>]
<1>0. TypeOK
    BY DEF IInv
<1>1. /\ IsFiniteSet(keys[u]) /\ Cardinality(keys[u]) <= count[u] /\ count[u] \in Nat
      /\ 0 \notin keys[u] => keys[u] = Touched(u) \cup TodoKeys(u)
      /\ todo[u] = <<>>
      /\ \A k \in Touched(u) : draft[u][k] # None
    BY <1>0 DEF Posted, Posting, Listed, Listing, TypeOK
<1>2. IsFiniteSet(P) /\ Cardinality(RowsOf(u, keys[u])) <= Cardinality(P) /\ Cardinality(P) \in Nat
    <2>1. P \in SUBSET keys[u]
        OBVIOUS
    <2>2. IsFiniteSet(P)
        BY <1>1, <2>1, FS_Subset
    <2>3. RowsOf(u, keys[u]) = {<<k, View(u, k)>> : k \in P}
        BY DEF RowsOf
    <2>4. f \in [P -> RowsOf(u, keys[u])] /\ \A r \in RowsOf(u, keys[u]) : \E k \in P : f[k] = r
        <3> HIDE DEF P
        <3> QED BY <2>3
    <2> HIDE DEF P, f
    <2>5. f \in Surjection(P, RowsOf(u, keys[u]))
        BY <2>4 DEF Surjection
    <2>6. Cardinality(RowsOf(u, keys[u])) <= Cardinality(P)
        BY <2>2, <2>5, FS_Surjection
    <2> QED BY <2>2, <2>6, FS_CardinalityType
<1>3. 0 \notin keys[u]
    <2> SUFFICES ASSUME 0 \in keys[u] PROVE FALSE
        OBVIOUS
    <2>1. P \in SUBSET (keys[u] \ {0})
        BY KeyAssumption
    <2>2. IsFiniteSet(keys[u] \ {0}) /\ Cardinality(keys[u] \ {0}) = Cardinality(keys[u]) - 1
        BY <1>1, FS_RemoveElement
    <2> HIDE DEF P
    <2>3. Cardinality(P) <= Cardinality(keys[u] \ {0})
        BY <2>1, <2>2, FS_Subset
    <2>4. Cardinality(keys[u]) \in Nat
        BY <1>1, FS_CardinalityType
    <2> QED BY <1>1, <1>2, <2>2, <2>3, <2>4
<1>4. keys[u] = Touched(u)
    <2>1. TodoKeys(u) = {}
        BY <1>1 DEF TodoKeys
    <2> QED BY <1>1, <1>3, <2>1
<1>5. Touched(u) \subseteq Keys /\ \A k \in Touched(u) : View(u, k) = draft[u][k]
    BY DEF Touched, View
<1> QED BY <1>1, <1>4, <1>5 DEF RowsOf

LEMMA RereadPosted == ASSUME IInv, NEW u \in Units, Posted(u), Reread(u) PROVE Posted(u)'
<1> DEFINE found == RowsOf(u, keys[u])
           fits == Cardinality(found) = count[u] /\ Valid(u, Cardinality(found))
<1>0. TypeOK /\ pc[u] = "reread"
    BY DEF IInv, Reread
<1>1. CASE fits
    <2>1. /\ UNCHANGED <<ask, left, todo, keys, count, draft>>
          /\ pc'[u] = "end" /\ body'[u] = found
        BY <1>0, <1>1 DEF Reread, Go, TypeOK
    <2>2. CASE Represents(u) /\ ask[u].action = "insert"
        <3>1. WantsKeys(u) /\ Identifiable(u) /\ OnDuplicate(u) # "ignored"
            BY <1>0, <2>2 DEF Posted, Posting, Open
        <3>2. WantsKeys(u)' /\ OnDuplicate(u)' = OnDuplicate(u) /\ Represents(u)'
            BY <2>1, <2>2, <3>1 DEF WantsKeys, OnDuplicate, Represents
        <3>3. Identifiable(u)'
            BY <2>1, <3>1, <3>2 DEF Identifiable, PerRow, AllExplicit, NoneExplicit, Explicit
        <3>4. Touched(u)' = Touched(u)
            BY <2>1 DEF Touched
        <3>5. Posting(u)'
            BY <1>0, <2>1, <2>2, <3>1, <3>2, <3>3, <3>4
            DEF Posted, Posting, AllExplicit, NoneExplicit, Explicit
        <3>6. found = {<<k, draft[u][k]>> : k \in Touched(u)}
            BY <1>0, <1>1, <2>2, FoundArePlaced
        <3> QED BY <2>1, <3>4, <3>5, <3>6 DEF Posted, Returned, Listed, Listing
    <2>3. CASE ~(Represents(u) /\ ask[u].action = "insert")
        BY <2>1, <2>3, NoPost
    <2> QED BY <2>2, <2>3
<1>2. CASE ~fits
    BY <1>0, <1>2, RollBackPosted DEF Reread
<1> QED BY <1>1, <1>2

LEMMA NextKeepsPost == IInv /\ PostInv /\ [Next]_vars => PostInv'
<1> SUFFICES ASSUME IInv, PostInv, [Next]_vars, NEW u \in Units
             PROVE  Posted(u)'
    BY DEF PostInv
<1>0. TypeOK /\ Posted(u)
    BY DEF IInv, PostInv
<1>1. ASSUME NEW v \in Units, UnitStep(v), v # u PROVE Posted(u)'
    BY <1>0, <1>1, OtherState, OtherPosted
<1>2. CASE UnitStep(u)
    <2>1. ask' = ask
        BY <1>2, SameAsk
    <2>2. CASE Check(u) \/ StartInsert(u) \/ PlaceRow(u) \/ FinishInsert(u) \/ Reread(u)
        BY <1>0, <2>2, CheckPosted, StartInsertPosted, PlaceRowPosted, FinishInsertPosted, RereadPosted
    <2>3. CASE ReadDelete(u) \/ SelectKeys(u) \/ Update(u) \/ Delete(u) \/ Upsert(u)
        <3>1. ask[u].action # "insert"
            BY <2>3 DEF ReadDelete, SelectKeys, Update, Delete, Upsert, IInv, FreshInv
        <3> QED BY <2>1, <3>1, NoPost
    <2>4. CASE Fails(u)
        BY <1>0, <2>4, RollBackPosted DEF Fails
    <2>5. CASE End(u)
        <3>1. /\ left' = left /\ todo' = todo /\ draft'[u] = Clean
              /\ pc'[u] = "respond" /\ pc[u] = "end"
            BY <1>0, <2>5 DEF End, Go, TypeOK
        <3> QED BY <1>0, <2>1, <3>1, QuitPosted
    <2>6. CASE Respond(u)
        <3>1. /\ left' = left /\ todo' = todo /\ draft'[u] = Clean /\ pc'[u] = "done"
            BY <1>0, <2>6 DEF Respond, Go, TypeOK, Open
        <3> QED BY <1>0, <2>1, <3>1, QuitPosted
    <2> QED BY <1>2, <2>2, <2>3, <2>4, <2>5, <2>6 DEF UnitStep, Statement
<1>3. CASE UNCHANGED vars
    BY <1>0, <1>3, OtherPosted DEF vars
<1> QED BY <1>1, <1>2, <1>3 DEF Next, Quiet, UnitStep

\* A POST answers with the rows it wrote: a row is found for each key it listed
\* only if the keys it listed are those of the rows it placed.
THEOREM InsertsAreReturned == Spec => []InsertsReturned
<1>1. Init => PostInv
    <2> SUFFICES ASSUME Init, NEW u \in Units PROVE Posted(u)
        BY DEF PostInv
    <2>1. Touched(u) = {} /\ left[u] = <<>>
        BY DEF Init, Touched, Clean
    <2> QED BY <2>1 DEF Init, Posted, Posting, Listed, Listing, Returned, Open, AllExplicit, NoneExplicit
<1>2. PostInv => InsertsReturned
    BY DEF PostInv, Posted, Returned, InsertsReturned
<1> QED BY <1>1, <1>2, InitIInv, NextKeepsIInv, NextKeepsPost, PTL DEF Spec

=============================================================================
