----------------------------- MODULE TableRead -----------------------------
(***************************************************************************)
(* One GET of a table, or of the row set of a routine, with one embedded   *)
(* relationship, beside other clients that write: readWithEmbeds and       *)
(* writeRead of internal/httpapi/read.go, the embeds of                    *)
(* internal/httpapi/embed.go, the statements of internal/mysqldb/read.go   *)
(* and the row sets of internal/readquery/shape.go.                        *)
(*                                                                         *)
(* A read is no transaction: the count, the rows and each level of an      *)
(* embed are statements of their own, and every statement sees the rows    *)
(* committed when it runs.  The rows are those of an origin table with a   *)
(* nullable reference ref to the target, a target table with a nullable    *)
(* reference owner to the origin, and a join table between the two; a      *)
(* request embeds through one of the three.                                *)
(*                                                                         *)
(* An operator named Bug... is a faulty variant of the definition below    *)
(* it, which the specification never uses.                                 *)
(***************************************************************************)
EXTENDS RangeWindow, RowFilter

CONSTANTS
    OriginIds,    \* primary keys the origin table may hold
    TargetIds,    \* primary keys the target table may hold
    Gone,         \* no row with this key
    MaxWrites,    \* how often others write while the request runs
    Cases         \* the requests, each with the rows it starts from

ASSUME KeyAssumption ==
    /\ OriginIds \subseteq Nat /\ IsFiniteSet(OriginIds)
    /\ TargetIds \subseteq Nat
\* A word counts the rows of a table.
ASSUME SizeAssumption == Cardinality(OriginIds) <= Top
ASSUME MarkAssumption == Gone \notin Int /\ Gone # Null /\ MaxWrites \in Nat

Embeds == {"none", "toOne", "toMany", "manyToMany"}

\* A request as the parser leaves it; aliasOrigin and aliasTarget say that the
\* select gives the key column of that side another name.
Requests(conditions) ==
    [surface : {"table", "rowset"}, head : BOOLEAN, singular : BOOLEAN,
     range : Ranges \cup {None}, window : Windows, maxRows : Optional,
     exact : BOOLEAN, desc : BOOLEAN, condition : conditions,
     embed : Embeds, match : SUBSET TargetIds, child : Windows, aggregate : BOOLEAN,
     joinReadable : BOOLEAN, aliasOrigin : BOOLEAN, aliasTarget : BOOLEAN]

OriginTables == [OriginIds -> TargetIds \cup {Null, Gone}]
TargetTables == [TargetIds -> OriginIds \cup {Null, Gone}]
JoinTables == SUBSET (OriginIds \X TargetIds)

\* The foreign keys MySQL enforces.
Sound(o, t, l) ==
    /\ \A i \in OriginIds : o[i] \in TargetIds => t[o[i]] # Gone
    /\ \A j \in TargetIds : t[j] \in OriginIds => o[t[j]] # Gone
    /\ \A p \in l : o[p[1]] # Gone /\ t[p[2]] # Gone

Unconditional == [filters |-> {}, groups |-> {}]
Conditions == {c.req.condition : c \in Cases}

ASSUME CaseAssumption == \A c \in Cases :
    /\ c.req \in Requests(Conditions)
    /\ c.req.condition \in [filters : SUBSET Filters(Int), groups : SUBSET Groups(Int)]
    /\ c.origin \in OriginTables /\ c.target \in TargetTables /\ c.link \in JoinTables
    /\ Sound(c.origin, c.target, c.link)

VARIABLES
    req,      \* the request
    pc,       \* the step it runs next
    origin,   \* the committed rows: origin[i] is the reference of row i
    target,   \* target[j] is the owner of row j
    link,     \* the join table
    total,    \* what the COUNT gave
    parents,  \* the rows of the page, as [id, ref]
    links,    \* the join rows read for the parents
    pending,  \* the parents whose aggregate is not read yet
    nested,   \* nested[i]: the related rows put under parent i
    answer,   \* what the client is told
    was,      \* history: the pairs related at some time of the request
    writes    \* history: how often others wrote since the request came in

tables == <<origin, target, link>>
readVars == <<req, pc, total, parents, links, pending, nested, answer>>
vars == <<readVars, tables, was, writes>>

Steps == {"new", "count", "select", "links", "related", "each", "respond", "done"}
NoAnswer == [status |-> 0, rows |-> {}, range |-> None]
Refusal(status) == [status |-> status, rows |-> {}, range |-> None]
Bare == [i \in OriginIds |-> {}]
Parents == [id : OriginIds, ref : TargetIds \cup {Null}]

-----------------------------------------------------------------------------
(* The rows of the tables, and the pairs the embed of the request relates. *)

OriginRows == {[id |-> i, ref |-> origin[i]] : i \in {i \in OriginIds : origin[i] # Gone}}
TargetRows == {j \in TargetIds : target[j] # Gone}

RelatedNow(e, o, t, l) ==
    CASE e = "toOne" -> {p \in OriginIds \X TargetIds : o[p[1]] = p[2]}
      [] e = "toMany" -> {p \in OriginIds \X TargetIds : t[p[2]] = p[1]}
      [] e = "manyToMany" -> l
      [] OTHER -> {}

Init ==
    \E c \in Cases :
        /\ req = c.req /\ origin = c.origin /\ target = c.target /\ link = c.link
        /\ pc = "new" /\ total = None /\ parents = {} /\ links = {} /\ pending = {}
        /\ nested = Bare /\ answer = NoAnswer /\ writes = 0
        /\ was = RelatedNow(c.req.embed, c.origin, c.target, c.link)

-----------------------------------------------------------------------------
(* The window of the request.                                              *)

\* applyRequestRange: the header bounds GET only.
Bounded == ~req.head /\ req.range # None
Window == IF Bounded THEN Meet(req.window, req.range) ELSE req.window
Page == [offset |-> Window.offset, limit |-> EffectiveLimit(Window.limit, req.maxRows)]

\* The types; the window of a read in progress is one of words.
TypeOK ==
    /\ req \in Requests(Conditions) /\ pc \in Steps
    /\ origin \in OriginTables /\ target \in TargetTables /\ link \in JoinTables
    /\ total \in Nat \cup {None} /\ parents \in SUBSET Parents
    /\ links \in SUBSET (OriginIds \X TargetIds) /\ pending \in SUBSET OriginIds
    /\ nested \in [OriginIds -> SUBSET TargetIds]
    /\ answer.status \in {0, 200, 206, 400, 406, 416, 500}
    /\ answer.rows \in SUBSET OriginIds
    /\ pc \notin {"new", "done"} => Window \in Windows
    /\ was \in SUBSET (OriginIds \X TargetIds) /\ writes \in 0 .. MaxWrites

\* The parse refuses a window that cannot be met; the count, when one is asked
\* for, runs before the rows.
Parse ==
    /\ pc = "new"
    /\ IF Bounded /\ Unsatisfiable(req.window, req.range)
       THEN answer' = Refusal(416) /\ pc' = "done"
       ELSE /\ pc' = IF req.exact /\ req.surface = "table" THEN "count" ELSE "select"
            /\ UNCHANGED answer
    /\ UNCHANGED <<req, total, parents, links, pending, nested, tables, was, writes>>

\* exactTotal
Matching == {r \in OriginRows : SqlKeeps(r.ref, req.condition)}
Count ==
    /\ pc = "count"
    /\ total' = Cardinality(Matching)
    /\ pc' = "select"
    /\ UNCHANGED <<req, parents, links, pending, nested, answer, tables, was, writes>>

\* The rows of S on the page.  No two rows share an id.
OnPage(S) == LET ids == PageOf({r.id : r \in S}, Page, req.desc) IN {r \in S : r.id \in ids}

\* nestOneEmbed: no parent, no read.
AfterRows(ps) ==
    IF ps = {} \/ req.embed = "none" THEN "respond"
    ELSE IF req.embed = "manyToMany" THEN "links" ELSE "related"

\* selectRows
SelectRows ==
    /\ pc = "select" /\ req.surface = "table"
    /\ parents' = OnPage(Matching)
    /\ pc' = AfterRows(parents')
    /\ UNCHANGED <<req, total, links, pending, nested, answer, tables, was, writes>>

\* Shape: the routine gave the rows, which are filtered, counted, put in order
\* and paged in memory.
ShapeRows ==
    LET kept == {r \in OriginRows : RowMatches(r.ref, req.condition)} IN
    /\ pc = "select" /\ req.surface = "rowset"
    /\ parents' = OnPage(kept)
    /\ total' = IF req.exact THEN Cardinality(kept) ELSE None
    /\ pc' = AfterRows(parents')
    /\ UNCHANGED <<req, links, pending, nested, answer, tables, was, writes>>

-----------------------------------------------------------------------------
(* The embed.                                                              *)

\* rowKey of a row whose key column is NULL or not there is the empty key.
\* withJoinColumns and ensureColumns add no key column the select names
\* already, under its own name or another; a row set is projected last.
OriginKey(p) ==
    IF req.aliasOrigin /\ req.surface = "table" THEN Null
    ELSE IF req.embed = "toOne" THEN p.ref ELSE p.id
TargetColumn(j) == IF req.embed = "toMany" THEN target[j] ELSE j
TargetKey(j) == IF req.aliasTarget THEN Null ELSE TargetColumn(j)
\* uniqueKeyTuples
Keys == {OriginKey(p) : p \in parents} \ {Null}

\* loadManyToManyLinks
ReadLinks ==
    /\ pc = "links"
    /\ IF ~req.joinReadable
       THEN answer' = Refusal(400) /\ pc' = "done" /\ UNCHANGED <<links, pending>>
       ELSE /\ links' = {l \in link : l[1] \in Keys}
            /\ pending' = IF req.aggregate THEN {p.id : p \in parents} ELSE {}
            /\ pc' = IF req.aggregate THEN "each" ELSE "related"
            /\ UNCHANGED answer
    /\ UNCHANGED <<req, total, parents, nested, tables, was, writes>>

\* readByKeys: the related rows of all the parents in one statement.
Wanted == IF req.embed = "manyToMany" THEN {l[2] : l \in links} ELSE Keys
Related == {j \in TargetRows : TargetColumn(j) \in Wanted /\ j \in req.match}

BugGroupOf(key) ==
    {j \in Related :
        IF req.embed = "manyToMany" THEN \E l \in links : l[2] = TargetKey(j)
        ELSE TargetKey(j) = key}
\* groupRows, indexRows and groupManyToMany.
GroupOf(key) ==
    {j \in Related :
        IF req.embed = "manyToMany" THEN <<key, TargetKey(j)>> \in links
        ELSE TargetKey(j) = key}

\* pageRows, after grouping; an aggregate is one row.
Paged(S) ==
    IF req.aggregate THEN IF InWindow(req.child, 0) THEN S ELSE {}
    ELSE PageOf(S, req.child, req.desc)

\* nestToOne keeps one row of a key, the others every row.
Nested(p) ==
    LET group == GroupOf(OriginKey(p))
    IN  IF req.embed # "toOne" THEN {Paged(group)}
        ELSE IF group = {} THEN {{}} ELSE {{j} : j \in group}
ReadRelated ==
    /\ pc = "related"
    /\ nested' \in [OriginIds -> SUBSET TargetIds]
    /\ \A i \in OriginIds :
         \/ \E p \in parents : p.id = i /\ nested'[i] \in Nested(p)
         \/ nested'[i] = {} /\ \A p \in parents : p.id # i
    /\ pc' = "respond"
    /\ UNCHANGED <<req, total, parents, links, pending, answer, tables, was, writes>>

\* readManyToManyAggregates: one statement for each parent, over its targets.
ReadAggregate(p) ==
    /\ pc = "each" /\ p.id \in pending
    /\ nested' = [nested EXCEPT ![p.id] = Paged(
           {j \in TargetRows : <<OriginKey(p), j>> \in links /\ j \in req.match})]
    /\ pending' = pending \ {p.id}
    /\ UNCHANGED <<req, pc, total, parents, links, answer, tables, was, writes>>
AggregatesRead ==
    /\ pc = "each" /\ pending = {}
    /\ pc' = "respond"
    /\ UNCHANGED <<req, total, parents, links, pending, nested, answer, tables, was, writes>>

-----------------------------------------------------------------------------
(* The answer.                                                             *)

\* writeRead
Respond ==
    LET n == Cardinality(parents) IN
    /\ pc = "respond"
    /\ answer' = IF req.singular /\ n # 1 THEN Refusal(406)
                 ELSE [status |-> ReadStatus(Window, n, total),
                       rows |-> {p.id : p \in parents},
                       range |-> ContentRange(Window, n, total)]
    /\ pc' = "done"
    /\ UNCHANGED <<req, total, parents, links, pending, nested, tables, was, writes>>

\* A statement fails: the request ends with an error of the database.
Fail ==
    /\ pc \in {"count", "select", "links", "related", "each"}
    /\ answer' = Refusal(500)
    /\ pc' = "done"
    /\ UNCHANGED <<req, total, parents, links, pending, nested, tables, was, writes>>

\* Another client changes one row, within the foreign keys.
Write ==
    /\ pc \notin {"new", "done"} /\ writes < MaxWrites
    /\ \/ \E i \in OriginIds, v \in TargetIds \cup {Null, Gone} :
             origin' = [origin EXCEPT ![i] = v] /\ UNCHANGED <<target, link>>
       \/ \E j \in TargetIds, v \in OriginIds \cup {Null, Gone} :
             target' = [target EXCEPT ![j] = v] /\ UNCHANGED <<origin, link>>
       \/ \E p \in OriginIds \X TargetIds :
             /\ link' = IF p \in link THEN link \ {p} ELSE link \cup {p}
             /\ UNCHANGED <<origin, target>>
    /\ Sound(origin', target', link')
    /\ was' = was \cup RelatedNow(req.embed, origin', target', link')
    /\ writes' = writes + 1
    /\ UNCHANGED readVars

Done == pc = "done" /\ UNCHANGED vars

Next ==
    \/ Parse \/ Count \/ SelectRows \/ ShapeRows
    \/ ReadLinks \/ ReadRelated \/ (\E p \in parents : ReadAggregate(p)) \/ AggregatesRead
    \/ Respond \/ Fail \/ Write \/ Done

Spec == Init /\ [][Next]_vars

-----------------------------------------------------------------------------
(* Properties.                                                             *)

Quiet == writes = 0
Answered == answer.status \in {200, 206}
KeysKept == ~req.aliasOrigin /\ ~req.aliasTarget

\* 0-18446744073709551615 asks for every row, but the number of its rows is no
\* word (range.go:38): it gives no row at all.
WholeRange == req.range = [first |-> 0, last |-> Top]
              /\ req.window = [offset |-> 0, limit |-> None]

\* ApplyRange leaves exactly the rows that are both in the window of the query
\* and in the Range header, and refuses only when no row is in both; limit=0
\* asks for no row and keeps that meaning.
WindowIsIntersection ==
    Bounded /\ req.window.limit # 0 /\ ~WholeRange =>
        IF Unsatisfiable(req.window, req.range)
        THEN \A i \in Word : ~(InWindow(req.window, i) /\ InRange(req.range, i))
        ELSE \A i \in Word :
               InWindow(Window, i) <=> InWindow(req.window, i) /\ InRange(req.range, i)

\* What the request asks for: of the rows the condition makes true, in the order
\* asked for, those in the window and in the Range, and the first db-max-rows.
MatchingIds == {r.id : r \in Matching}
Before(S, i) == {k \in S : IF req.desc THEN k > i ELSE k < i}
Asked(i) ==
    LET at == Cardinality(Before(MatchingIds, i))
    IN  /\ i \in MatchingIds /\ InWindow(req.window, at)
        /\ Bounded => InRange(req.range, at) \/ req.window.limit = 0
RowsAsked ==
    LET asked == {i \in OriginIds : Asked(i)}
    IN  {i \in asked : req.maxRows = None \/ Cardinality(Before(asked, i)) < req.maxRows}
\* What the embed should nest under parent i.
ChildrenAsked(i) ==
    LET related == {j \in req.match :
                      <<i, j>> \in RelatedNow(req.embed, origin, target, link)}
    IN  IF req.embed = "toOne" THEN related ELSE Paged(related)

AnswersQuery ==
    /\ answer.rows = RowsAsked
    /\ \A i \in answer.rows : nested[i] = ChildrenAsked(i)

\* When nobody writes during the request, the statements of a table read
\* together answer the one question the query asks: its rows, its page and its
\* order, each with its related rows (readWithEmbeds, nestEmbeds).
QuietReadIsJoin ==
    Quiet /\ Answered /\ req.surface = "table" /\ KeysKept /\ ~WholeRange => AnswersQuery

\* A row set of a routine is filtered, ordered, paged and embedded in memory as
\* the same rows in a table would be, as long as no filter meets a NULL (Shape).
RowSetReadsLikeTable ==
    /\ Quiet /\ Answered /\ req.surface = "rowset" /\ ~req.aliasTarget /\ ~WholeRange
    /\ req.condition = Unconditional \/ \A i \in OriginIds : origin[i] # Null
    => AnswersQuery

\* With an exact count, 206 says that rows were left out, Content-Range counts
\* all the matching rows and names the places of those given (readStatus,
\* contentRange); without a count the status is 200.
StatusTellsWhole ==
    Quiet /\ Answered /\ req.surface = "table" /\ ~WholeRange =>
        /\ answer.range.of = IF req.exact THEN Cardinality(MatchingIds) ELSE None
        /\ answer.status = 206 <=> req.exact /\ answer.rows # MatchingIds
        /\ {Cardinality(Before(MatchingIds, i)) : i \in answer.rows} =
             IF answer.rows = {} THEN {} ELSE answer.range.from .. answer.range.to

\* Whatever others write between the statements, a row is nested only under a
\* row it was related to at some time of the request.
ChildrenWereRelated ==
    KeysKept => \A i \in OriginIds : \A j \in nested[i] : <<i, j>> \in was

\* docs/embed.md:43, "myrest never invents a relationship": for any select.
NeverInvents == \A i \in OriginIds : \A j \in nested[i] : <<i, j>> \in was
=============================================================================
