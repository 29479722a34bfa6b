----------------------------- MODULE WriteUnit -----------------------------
(***************************************************************************)
(* What the POST, PATCH, DELETE and PUT units do to one table, and what    *)
(* they tell the client: internal/writeexec/executor.go, the statements of *)
(* internal/mysqldb/write.go and the handlers of internal/httpapi/write.go.*)
(*                                                                         *)
(* Units run side by side at READ COMMITTED: a plain SELECT reads the      *)
(* committed rows and the unit's own changes, a statement that writes      *)
(* takes row locks until the unit ends, and a row locked by another unit   *)
(* makes it wait.  So what a unit reads to answer with and what it changes *)
(* come from two moments.  How the transaction itself begins, commits and  *)
(* is rolled back is the subject of RequestPool.                           *)
(*                                                                         *)
(* The table has a one-column AUTO_INCREMENT primary key and one other     *)
(* column.  InnoDB is external, modelled from how write.go uses it.        *)
(*                                                                         *)
(* An operator named Bug... is a faulty variant of the definition below    *)
(* it, which the specification never uses.                                 *)
(***************************************************************************)
EXTENDS TxEnd, Integers, Sequences, FiniteSets

CONSTANTS
    Units,        \* the write requests
    Keys,         \* the primary key values the table may hold
    Vals,         \* the values of the other column
    None,         \* no row, no key, no limit
    Untouched,    \* a row the unit has not written
    AutoStep,     \* auto_increment_increment
    HasKey,       \* the schema cache knows the PRIMARY KEY
    TxEndMode,    \* the value of db-tx-end
    Asks          \* what the requests ask for

Actions == {"insert", "update", "delete", "upsert"}
\* A key in a body: absent or null (None), or a value; MySQL generates a key
\* for 0 as it does for none.
BodyKeys == Keys \cup {0, None}

ASSUME KeyAssumption == IsFiniteSet(Keys) /\ Keys \subseteq Nat \ {0}
ASSUME MarkAssumption ==
    /\ None \notin Vals /\ None \notin Nat
    /\ Untouched \notin Vals /\ Untouched # None
ASSUME KnobAssumption == HasKey \in BOOLEAN /\ TxEndMode \in TxEndModes
\* consecutiveAutoKeys counts up by one from the first key of a statement.
ASSUME StepAssumption == AutoStep = 1
ASSUME AskAssumption == \A a \in Asks :
    /\ a.action \in Actions
    /\ a.rows \in Seq([key : BodyKeys, val : Vals])
    /\ a.action \in {"insert", "upsert"} => a.rows # <<>>
    /\ a.action = "upsert" => Len(a.rows) = 1 /\ a.rows[1].key \in Keys
    /\ a.match \subseteq Vals /\ a.patch \in [key : Keys \cup {None}, val : Vals]
    /\ a.filtered \in BOOLEAN /\ a.allRows \in BOOLEAN
    /\ a.strict \in BOOLEAN /\ a.invalid \in BOOLEAN
    /\ a.max = None \/ a.max \in Nat
    /\ a.return \in {"minimal", "headers-only", "representation"}
    /\ a.resolution \in {"none", "merge", "ignore", "bad"}
    /\ a.canSelect \in BOOLEAN /\ a.singular \in BOOLEAN
    /\ a.unknown \in BOOLEAN /\ a.embed \in BOOLEAN
    /\ a.tx \in TxPrefers

VARIABLES
    ask,      \* ask[u]: the request, as the handler parsed it
    pc,       \* pc[u]: the statement the unit runs next
    left,     \* left[u]: the body rows of an insert no statement has sent yet
    todo,     \* todo[u]: the rows the running INSERT still has to place
    keys,     \* keys[u]: the primary keys the unit will answer with
    count,    \* count[u]: how many keys it listed, repeats included
    body,     \* body[u]: the rows of the representation, as <<key, value>>
    inserted, \* inserted[u]: RowsAffected told the upsert that it inserted
    draft,    \* draft[u]: the rows the unit has written and not committed
    answer,   \* answer[u]: what the client is told
    row,      \* row[k]: the committed row with key k
    nextAuto  \* the next key AUTO_INCREMENT gives

unitVars == <<keys, count, body, inserted>>
vars == <<ask, pc, left, todo, keys, count, body, inserted, draft, answer, row, nextAuto>>

Steps == {"new", "read", "keys", "write", "place", "placed", "reread", "end",
          "respond", "done"}
Answers == {"none", "refused", "failed", "created", "noContent", "rows", "broken"}
\* The steps at which the transaction of the unit is open.
Open == {"read", "keys", "write", "place", "placed", "reread", "end"}

Clean == [k \in Keys |-> Untouched]

\* The types; a row is locked only while the transaction that wrote it is open.
TypeOK ==
    /\ ask \in [Units -> Asks]
    /\ pc \in [Units -> Steps]
    /\ left \in [Units -> Seq([key : BodyKeys, val : Vals])]
    /\ todo \in [Units -> Seq([key : Keys, val : Vals])]
    /\ keys \in [Units -> SUBSET Nat]
    /\ count \in [Units -> Nat]
    /\ body \in [Units -> SUBSET (Keys \X Vals)]
    /\ inserted \in [Units -> BOOLEAN]
    /\ draft \in [Units -> [Keys -> Vals \cup {None, Untouched}]]
    /\ \A u \in Units : draft[u] # Clean => pc[u] \in Open
    /\ answer \in [Units -> Answers]
    /\ row \in [Keys -> Vals \cup {None}]
    /\ nextAuto \in Nat

-----------------------------------------------------------------------------
(* What a request asks for.                                                *)

Represents(u) == ask[u].return = "representation"
WantsKeys(u) == HasKey /\ ask[u].return \in {"headers-only", "representation"}
\* writeOptions: the limit, and what a duplicate key does.
Limited(u) == ask[u].strict /\ ask[u].action # "insert" /\ ask[u].max # None
OnDuplicate(u) ==
    CASE ask[u].resolution = "ignore" -> "ignored"
      [] ask[u].resolution = "merge" \/ ask[u].action = "upsert" -> "merges"
      [] OTHER -> "fails"
OverMax(u, n) == Limited(u) /\ n > ask[u].max

\* representationProblem: the shapes that cannot be represented honestly.
CannotRepresent(u) ==
    \/ ask[u].action = "upsert"
    \/ ~HasKey /\ ask[u].action \in {"insert", "update"}
    \/ ~ask[u].canSelect
    \/ ask[u].action = "insert" /\ ask[u].resolution = "ignore"

\* The checks of the handlers and of checkIntent, before BEGIN, and those of
\* insertRows, before the first statement.
Refusable(u) ==
    \/ ask[u].strict /\ ask[u].invalid
    \/ ask[u].action \in {"update", "delete"} /\ ~ask[u].filtered /\ ~ask[u].allRows
    \/ ask[u].action \in {"insert", "upsert"} /\ ask[u].resolution = "bad"
    \/ ~HasKey /\ (ask[u].action = "upsert" \/ ask[u].resolution = "merge")
    \/ Represents(u) /\ CannotRepresent(u)

\* validate: the singular object needs one row, and Project meets a column the
\* rows do not have only when there is a row.
Valid(u, n) == (ask[u].singular => n = 1) /\ (ask[u].unknown => n = 0)

-----------------------------------------------------------------------------
(* The table as the unit sees it, and the locks on it.                     *)

Touched(u) == {k \in Keys : draft[u][k] # Untouched}
View(u, k) == IF draft[u][k] = Untouched THEN row[k] ELSE draft[u][k]
Free(u, k) == \A v \in Units \ {u} : draft[v][k] = Untouched
Matching(u) ==
    {k \in Keys : View(u, k) # None /\ (ask[u].filtered => View(u, k) \in ask[u].match)}
RowsOf(u, ks) == {<<k, View(u, k)>> : k \in {k \in ks \cap Keys : View(u, k) # None}}

Init ==
    /\ ask \in [Units -> Asks]
    /\ pc = [u \in Units |-> "new"]
    /\ left = [u \in Units |-> <<>>]
    /\ todo = [u \in Units |-> <<>>]
    /\ keys = [u \in Units |-> {}]
    /\ count = [u \in Units |-> 0]
    /\ body = [u \in Units |-> {}]
    /\ inserted = [u \in Units |-> FALSE]
    /\ draft = [u \in Units |-> Clean]
    /\ answer = [u \in Units |-> "none"]
    /\ row \in [Keys -> Vals \cup {None}]
    /\ nextAuto \in Keys /\ \A k \in Keys : row[k] # None => k < nextAuto

-----------------------------------------------------------------------------
(* The end of a unit.                                                      *)

Go(u, step) == pc' = [pc EXCEPT ![u] = step]

\* The work returns an error: ROLLBACK, and the error is the answer.
RollBack(u, error) ==
    /\ Go(u, "done")
    /\ answer' = [answer EXCEPT ![u] = error]
    /\ draft' = [draft EXCEPT ![u] = Clean]
    /\ UNCHANGED <<ask, left, todo, unitVars, row, nextAuto>>

\* The error is answered and the transaction stays open.
BugFails(u) ==
    /\ pc[u] \in Open
    /\ Go(u, "done")
    /\ answer' = [answer EXCEPT ![u] = "failed"]
    /\ UNCHANGED <<ask, left, todo, unitVars, draft, row, nextAuto>>

\* A statement fails: a constraint, a duplicate key, a lock wait that times
\* out, a deadlock, a lost connection, a client that has gone.
Fails(u) == pc[u] \in Open /\ RollBack(u, "failed")

\* withRequestTx ends the unit as db-tx-end and Prefer: tx= decide.
End(u) ==
    /\ pc[u] = "end"
    /\ row' = IF DecideCommit(TxEndMode, ask[u].tx)
              THEN [k \in Keys |-> View(u, k)] ELSE row
    /\ draft' = [draft EXCEPT ![u] = Clean]
    /\ Go(u, "respond")
    /\ UNCHANGED <<ask, left, todo, unitVars, answer, nextAuto>>

-----------------------------------------------------------------------------
(* Before the unit, and the reads it starts with.                          *)

Check(u) ==
    /\ pc[u] = "new"
    /\ IF Refusable(u)
       THEN /\ Go(u, "done")
            /\ answer' = [answer EXCEPT ![u] = "refused"]
            /\ UNCHANGED left
       ELSE /\ Go(u, CASE Represents(u) /\ ask[u].action = "delete" -> "read"
                       [] Represents(u) /\ ask[u].action = "update" -> "keys"
                       [] OTHER -> "write")
            /\ left' = [left EXCEPT ![u] = ask[u].rows]
            /\ UNCHANGED answer
    /\ UNCHANGED <<ask, todo, unitVars, draft, row, nextAuto>>

\* ReadDelete: the rows a DELETE will answer with are read before it runs.
ReadDelete(u) ==
    /\ pc[u] = "read"
    /\ LET before == RowsOf(u, Matching(u)) IN
          IF Valid(u, Cardinality(before))
          THEN /\ body' = [body EXCEPT ![u] = before]
               /\ Go(u, "write")
               /\ UNCHANGED <<ask, left, todo, keys, count, inserted, draft, answer, row, nextAuto>>
          ELSE RollBack(u, "refused")

\* selectKeyMaps: the keys a PATCH will answer with are read before it runs,
\* and hold the key the patch sets (updatedKeysWithPatch).
SelectKeys(u) ==
    /\ pc[u] = "keys"
    /\ LET patch == ask[u].patch IN
          keys' = [keys EXCEPT ![u] =
                     IF patch.key = None THEN Matching(u)
                     ELSE {patch.key : k \in Matching(u)}]
    /\ count' = [count EXCEPT ![u] = Cardinality(Matching(u))]
    /\ Go(u, "write")
    /\ UNCHANGED <<ask, left, todo, body, inserted, draft, answer, row, nextAuto>>

-----------------------------------------------------------------------------
(* INSERT.                                                                 *)

Explicit(r) == r.key # None
Generated(r) == r.key \in {0, None}
AllExplicit(batch) == \A i \in DOMAIN batch : Explicit(batch[i])
NoneExplicit(batch) == \A i \in DOMAIN batch : ~Explicit(batch[i])

\* usePerRowKeys: explicit and missing keys are mixed, so every row is sent in
\* a statement of its own.
PerRow(u) ==
    /\ WantsKeys(u) /\ OnDuplicate(u) = "fails"
    /\ ~AllExplicit(ask[u].rows) /\ ~NoneExplicit(ask[u].rows)

\* The rows the next INSERT of the unit sends.
Batch(u) == IF PerRow(u) THEN <<Head(left[u])>> ELSE left[u]

\* The keys MySQL gives the rows of a statement: the generated ones follow one
\* another by AutoStep.
GeneratedUpTo(batch, i) == Cardinality({j \in 1 .. i : Generated(batch[j])})
KeyOf(batch, i) ==
    IF Generated(batch[i]) THEN nextAuto + AutoStep * GeneratedUpTo(batch, i - 1)
    ELSE batch[i].key

\* keysFromBody, else the keys counted up from LastInsertId.
ListedKeys(batch) ==
    IF AllExplicit(batch) THEN {batch[i].key : i \in DOMAIN batch}
    ELSE {nextAuto + i - 1 : i \in DOMAIN batch}

\* An INSERT starts: InnoDB reserves the generated keys of the whole statement.
StartInsert(u) ==
    /\ pc[u] = "write" /\ ask[u].action = "insert"
    /\ LET batch == Batch(u) IN
          /\ \A i \in DOMAIN batch : KeyOf(batch, i) \in Keys      \* the bound on keys
          /\ todo' = [todo EXCEPT ![u] =
                [i \in 1 .. Len(batch) |-> [key |-> KeyOf(batch, i), val |-> batch[i].val]]]
          /\ left' = [left EXCEPT ![u] = SubSeq(@, Len(batch) + 1, Len(@))]
          /\ nextAuto' = nextAuto + AutoStep * GeneratedUpTo(batch, Len(batch))
          /\ IF WantsKeys(u)
             THEN /\ keys' = [keys EXCEPT ![u] = @ \cup ListedKeys(batch)]
                  /\ count' = [count EXCEPT ![u] = @ + Len(batch)]
             ELSE UNCHANGED <<keys, count>>
    /\ Go(u, "place")
    /\ UNCHANGED <<ask, body, inserted, draft, answer, row>>

\* The INSERT places its next row, waiting for the lock on its key.
PlaceRow(u) ==
    /\ pc[u] = "place"
    /\ LET k == Head(todo[u]).key
           held == View(u, k) IN
          /\ Free(u, k)
          /\ OnDuplicate(u) = "fails" => held = None
          /\ draft' = [draft EXCEPT ![u][k] =
                IF OnDuplicate(u) = "ignored" /\ held # None THEN held ELSE Head(todo[u]).val]
          /\ nextAuto' = IF k >= nextAuto THEN k + 1 ELSE nextAuto
    /\ todo' = [todo EXCEPT ![u] = Tail(@)]
    /\ Go(u, IF Len(todo[u]) > 1 THEN "place"
             ELSE IF left[u] # <<>> THEN "write" ELSE "placed")
    /\ UNCHANGED <<ask, left, unitVars, answer, row>>

\* Keys are counted up whatever the body holds.
BugAlwaysIdentifiable(u) == TRUE

\* insertedKeys: the keys are those of the body, or all generated by a plain
\* INSERT; otherwise they cannot be told.
Identifiable(u) ==
    \/ PerRow(u) \/ AllExplicit(ask[u].rows)
    \/ OnDuplicate(u) = "fails" /\ NoneExplicit(ask[u].rows)

FinishInsert(u) ==
    /\ pc[u] = "placed"
    /\ IF WantsKeys(u) /\ ~Identifiable(u)
       THEN RollBack(u, "refused")
       ELSE /\ Go(u, IF Represents(u) THEN "reread" ELSE "end")
            /\ UNCHANGED <<ask, left, todo, unitVars, draft, answer, row, nextAuto>>

-----------------------------------------------------------------------------
(* UPDATE, DELETE and the upsert of PUT.                                   *)

\* Only the keys read before the statement count against the limit.
BugCountListed(u, n, changes, tells, next) ==
    IF OverMax(u, count[u]) THEN RollBack(u, "refused")
    ELSE /\ draft' = [draft EXCEPT ![u] = changes]
         /\ inserted' = [inserted EXCEPT ![u] = tells]
         /\ Go(u, next)
         /\ UNCHANGED <<ask, left, todo, keys, count, body, answer, row, nextAuto>>

\* The statement has changed n rows: more than max-affected refuse the unit.
Write(u, n, changes, tells, next) ==
    IF OverMax(u, n) THEN RollBack(u, "refused")
    ELSE /\ draft' = [draft EXCEPT ![u] = changes]
         /\ inserted' = [inserted EXCEPT ![u] = tells]
         /\ Go(u, next)
         /\ UNCHANGED <<ask, left, todo, keys, count, body, answer, row, nextAuto>>

\* A row that is patched with a key moves to it: one row at most, and to a key
\* no other row has.
Patchable(u, rows) ==
    LET to == ask[u].patch.key IN
    to # None /\ rows # {} =>
        \E k \in rows : rows = {k} /\ (to = k \/ (View(u, to) = None /\ Free(u, to)))

Patched(u, rows) ==
    LET patch == ask[u].patch IN
    [k \in Keys |->
        IF rows # {} /\ k = patch.key THEN patch.val
        ELSE IF k \notin rows THEN draft[u][k]
        ELSE IF patch.key = None THEN patch.val ELSE None]

\* updateRows: RowsAffected counts the rows that change.
Update(u) ==
    /\ pc[u] = "write" /\ ask[u].action = "update"
    /\ LET rows == Matching(u)
           changes == Patched(u, rows) IN
          /\ \A k \in rows : Free(u, k)
          /\ Patchable(u, rows)
          /\ Write(u, Cardinality({k \in rows : changes[k] # View(u, k)}), changes,
                   FALSE, IF Represents(u) THEN "reread" ELSE "end")

\* deleteRows.
Delete(u) ==
    /\ pc[u] = "write" /\ ask[u].action = "delete"
    /\ LET rows == Matching(u) IN
          /\ \A k \in rows : Free(u, k)
          /\ Write(u, Cardinality(rows),
                   [k \in Keys |-> IF k \in rows THEN None ELSE draft[u][k]], FALSE, "end")

\* Any affected row is taken for an inserted one.
BugAffectedIsInserted(before, after) == before # after

\* upsertRow: ON DUPLICATE KEY UPDATE affects 1 row for an insert, 2 for an
\* update, 0 for no change; only 1 is an insert.
TellsInserted(before, after) == before = None

Upsert(u) ==
    /\ pc[u] = "write" /\ ask[u].action = "upsert"
    /\ LET new == ask[u].rows[1]
           held == View(u, new.key)
           after == IF OnDuplicate(u) = "ignored" /\ held # None THEN held ELSE new.val IN
          /\ Free(u, new.key)
          /\ Write(u, IF held = after THEN 0 ELSE 1,
                   [draft[u] EXCEPT ![new.key] = after], TellsInserted(held, after), "end")

-----------------------------------------------------------------------------
(* The representation and the answer.                                      *)

\* The rows are not validated before the unit ends.
BugRereadOnly(u) ==
    /\ pc[u] = "reread"
    /\ body' = [body EXCEPT ![u] = RowsOf(u, keys[u])]
    /\ Go(u, "end")
    /\ UNCHANGED <<ask, left, todo, keys, count, inserted, draft, answer, row, nextAuto>>

\* selectByKeys, and the checks after it: one row for every key, and validate.
Reread(u) ==
    /\ pc[u] = "reread"
    /\ LET found == RowsOf(u, keys[u]) IN
          IF Cardinality(found) = count[u] /\ Valid(u, Cardinality(found))
          THEN /\ body' = [body EXCEPT ![u] = found]
               /\ Go(u, "end")
               /\ UNCHANGED <<ask, left, todo, keys, count, inserted, draft, answer, row, nextAuto>>
          ELSE RollBack(u, "refused")

\* Children are nested by reads of their own, after the unit has ended; they
\* may fail.  Project and Format then check the rows once more.
Respond(u) ==
    /\ pc[u] = "respond"
    /\ \E nested \in IF Represents(u) /\ ask[u].embed /\ body[u] # {} THEN BOOLEAN ELSE {TRUE} :
          answer' = [answer EXCEPT ![u] =
              CASE ~nested -> "broken"
                [] Represents(u) -> IF Valid(u, Cardinality(body[u])) THEN "rows" ELSE "refused"
                [] ask[u].action = "insert" \/ inserted[u] -> "created"
                [] OTHER -> "noContent"]
    /\ Go(u, "done")
    /\ UNCHANGED <<ask, left, todo, unitVars, draft, row, nextAuto>>

-----------------------------------------------------------------------------
Statement(u) ==
    \/ ReadDelete(u) \/ SelectKeys(u)
    \/ StartInsert(u) \/ PlaceRow(u) \/ FinishInsert(u)
    \/ Update(u) \/ Delete(u) \/ Upsert(u) \/ Reread(u)

Quiet == (\A u \in Units : pc[u] = "done") /\ UNCHANGED vars

Next ==
    \/ \E u \in Units : Check(u) \/ Statement(u) \/ Fails(u) \/ End(u) \/ Respond(u)
    \/ Quiet

Spec == Init /\ [][Next]_vars

-----------------------------------------------------------------------------
(* Properties.                                                             *)

\* However the other units change the rows between the statements of a PATCH,
\* DELETE or PUT, the transaction that ends under handling=strict with a
\* max-affected changes no more rows of the table than that (docs/write.md:
\* "would change more than n rows refuses with PGRST124 and rolls back").  A
\* row that is patched to another key is one row.
Removed == {k \in Keys : row[k] # None /\ row'[k] # row[k]}
Created == {k \in Keys : row[k] = None /\ row'[k] # None}
NeverOverMax == [][
    \A u \in Units : pc[u] = "end" /\ pc'[u] = "respond" /\ Limited(u) =>
        /\ Cardinality(Removed) <= ask[u].max
        /\ ask[u].action = "upsert" => Cardinality(Removed \cup Created) <= ask[u].max
    ]_vars

\* A POST that answers with a representation answers with the rows it wrote,
\* all of them and no other, whatever keys other units take meanwhile and
\* however the body mixes explicit and generated keys (docs/write.md: "Insert,
\* resolve primary-key values ..., SELECT by those keys").
InsertsReturned ==
    \A u \in Units : pc[u] = "end" /\ Represents(u) /\ ask[u].action = "insert" =>
        body[u] = {<<k, draft[u][k]>> : k \in Touched(u)}

\* A refusal comes before the end of the transaction: what the client is told
\* was refused is not in the table (docs/write.md: "refuses with MYREST001 and
\* does not write").  Only the embeds, read after the unit, fail it too late.
RefusedBeforeEnd == [][
    \A u \in Units : answer'[u] = "refused" /\ answer[u] # "refused" => pc[u] # "respond"
    ]_vars

\* PUT answers 201 for the row it creates and 204 for the row it finds, even
\* when another unit puts or deletes the row first (docs/write.md: "PUT -> 201
\* on insert, 204 on update/ignore").
PutTellsInserted ==
    \A u \in Units : pc[u] = "end" /\ ask[u].action = "upsert" =>
        (inserted[u] <=> \E k \in Touched(u) : row[k] = None)

\* docs/write.md 111: a representation holds the affected rows, or is refused.
RepresentationIsAffected ==
    \A u \in Units : pc[u] = "end" /\ Represents(u) /\ ask[u].action \in {"update", "delete"} =>
        {r[1] : r \in body[u]} =
            {k \in Touched(u) : ask[u].action = "delete" \/ draft[u][k] # None}

=============================================================================
