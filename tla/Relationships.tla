--------------------------- MODULE Relationships ---------------------------
(* The declared relationships of a catalog and the resolution of an embed      *)
(* (src/internal/schemacache/relationship.go), the hints a PGRST201 answer     *)
(* proposes (src/internal/httpapi/embed.go), and the table that can own the    *)
(* embeds of a routine's rows (src/internal/httpapi/rpc.go).                   *)
(*                                                                             *)
(* A catalog here has tables, fks (a sequence: the order of the catalog), pk   *)
(* and columns (sets of names by table), and routines. A foreign key is        *)
(* [name, table, cols, ref, refcols].                                          *)
EXTENDS Naturals, Sequences, FiniteSets

CONSTANT None       \* no hint, no join table

\* relationshipFromFK.
ToOne(fk) ==
    [card |-> "many-to-one", name |-> fk.name, origin |-> fk.table, target |-> fk.ref,
     ocols |-> fk.cols, tcols |-> fk.refcols, join |-> None, jo |-> {}, jt |-> {}]
ToMany(fk) ==
    [card |-> "one-to-many", name |-> fk.name, origin |-> fk.ref, target |-> fk.table,
     ocols |-> fk.refcols, tcols |-> fk.cols, join |-> None, jo |-> {}, jt |-> {}]

\* joinTableFKs: the last foreign key of the join table to each end.
LastTo(c, join, end) ==
    LET at == {i \in DOMAIN c.fks : c.fks[i].table = join /\ c.fks[i].ref = end}
    IN  c.fks[CHOOSE i \in at : \A j \in at : j <= i]
Joins(c, join, end) == \E i \in DOMAIN c.fks : c.fks[i].table = join /\ c.fks[i].ref = end

\* A faulty variant: any table with the two foreign keys joins its ends.
BugPkCoversFKs(c, join, origin, target) == TRUE

\* pkCoversFKs.
PkCoversFKs(c, join, origin, target) ==
    LastTo(c, join, origin).cols \cup LastTo(c, join, target).cols \subseteq c.pk[join]

ManyToMany(c, origin, target) ==
    {[card |-> "many-to-many", name |-> join, origin |-> origin, target |-> target,
      ocols |-> c.pk[origin], tcols |-> c.pk[target], join |-> join,
      jo |-> LastTo(c, join, origin).cols, jt |-> LastTo(c, join, target).cols] :
        join \in {j \in c.tables \ {origin, target} :
                     /\ Joins(c, j, origin) /\ Joins(c, j, target)
                     /\ PkCoversFKs(c, j, origin, target)}}

\* A self-referential foreign key is in both sets: its two directions.
RelationshipsOf(c, origin, target) ==
    LET fks == {c.fks[i] : i \in DOMAIN c.fks}
    IN  {ToOne(fk) : fk \in {f \in fks : f.table = origin /\ f.ref = target}}
        \cup {ToMany(fk) : fk \in {f \in fks : f.table = target /\ f.ref = origin}}
        \cup ManyToMany(c, origin, target)

\* selfHintMatches: the constraint names the way up, a key column the way down.
SelfHintMatches(rel, hint) ==
    IF rel.card = "many-to-one" THEN rel.name = hint ELSE hint \in rel.tcols

HintMatches(rel, hint) ==
    rel.name = hint \/ hint \in rel.ocols \cup rel.tcols \cup rel.jo \cup rel.jt

\* filterByHint.
FilterByHint(candidates, hint) ==
    {rel \in candidates : IF rel.origin = rel.target THEN SelfHintMatches(rel, hint)
                          ELSE HintMatches(rel, hint)}

\* The relationships an ask [target, hint, spread] can mean; readable says which
\* tables the role may select from.
Candidates(c, readable, origin, ask) ==
    IF ask.target \notin c.tables \cap readable THEN {}
    ELSE IF ask.hint = None THEN RelationshipsOf(c, origin, ask.target)
    ELSE FilterByHint(RelationshipsOf(c, origin, ask.target), ask.hint)

\* ResolveEmbedIn; a spread is refused after it resolves.
Resolve(c, readable, origin, ask) ==
    LET options == Candidates(c, readable, origin, ask)
    IN  [answer |-> IF ask.target \in c.routines \ c.tables THEN "computed"
                    ELSE CASE Cardinality(options) = 1 -> IF ask.spread THEN "spread" ELSE "found"
                           [] options = {} -> "missing"
                           [] OTHER -> "ambiguous",
         options |-> options]

\* A faulty variant: each option is proposed by its name.
BugOptionHint(origin, rel) == {rel.name}

\* optionHint. The two directions of a self-referential key share its name.
OptionHint(origin, rel) ==
    IF rel.card = "one-to-many" /\ rel.target = origin /\ Cardinality(rel.tcols) = 1
      THEN rel.tcols
      ELSE {rel.name}

\* planEmbeds over a path of asks, each nested in the one before it: the first
\* that does not resolve decides.
StepAnswer(c, readable, from, path, i) ==
    Resolve(c, readable, IF i = 1 THEN from ELSE path[i - 1].target, path[i])
PlanEmbeds(c, readable, from, path) ==
    LET Finds(i) == StepAnswer(c, readable, from, path, i).answer = "found"
    IN  IF \A i \in DOMAIN path : Finds(i)
          THEN [answer |-> "found", at |-> 0,
                options |-> UNION {StepAnswer(c, readable, from, path, i).options :
                                      i \in DOMAIN path}]
          ELSE LET first == CHOOSE i \in DOMAIN path : ~Finds(i) /\ \A j \in 1 .. i - 1 : Finds(j)
                   step == StepAnswer(c, readable, from, path, first)
               IN  [answer |-> step.answer, at |-> first, options |-> step.options]

\* The asks of an RPC are resolved from a table that can own its rows: every
\* column of the rows is the table's, the embeds plan from it, and the rows
\* hold the keys of the first. columns is {} when there are no rows.
RowSetOrigins(c, readable, columns, path) ==
    {t \in c.tables \cap readable :
        /\ columns \subseteq c.columns[t]
        /\ PlanEmbeds(c, readable, t, path).answer = "found"
        /\ LET keys == UNION {rel.ocols : rel \in StepAnswer(c, readable, t, path, 1).options}
           IN  columns = {} \/ keys \subseteq columns}

\* tightestColumnCover: of several tables one with the fewest columns. They
\* come in the order of a Go map, so a tie may fall either way.
Tightest(c, tables) ==
    {t \in tables : \A u \in tables : Cardinality(c.columns[t]) <= Cardinality(c.columns[u])}

\* noRowSetOrigin: the failed plan of one of the tables that cover the columns.
RowSetFailures(c, readable, columns, path) ==
    LET failed == {PlanEmbeds(c, readable, t, path).answer :
                      t \in {u \in c.tables \cap readable : columns \subseteq c.columns[u]}}
                  \ {"found"}
    IN  IF failed = {} THEN {"missing"} ELSE failed
=============================================================================
