----------------------------- MODULE RowFilter -----------------------------
(***************************************************************************)
(* Which rows a query's filters and logical groups keep, in the two places *)
(* that decide it: the WHERE clause of a table read                        *)
(* (internal/mysqldb/filter_sql.go and query_sql.go; the truth of SQL is   *)
(* external) and the filter in memory of an RPC row set                    *)
(* (internal/readquery/shape.go).                                          *)
(*                                                                         *)
(* A filter compares one column; its values are numbers or Null.  Text     *)
(* operators (like, ilike), JSON paths and collations are left out.        *)
(*                                                                         *)
(* An operator named Bug... is a faulty variant of the definition below    *)
(* it, which no specification uses.                                        *)
(***************************************************************************)
EXTENDS Integers

CONSTANTS Null     \* SQL NULL

ASSUME NullAssumption == Null \notin Int

\* Op is written as in the query string; isdistinct may name Null, and is names
\* a state of the column.
Comparisons == {"eq", "neq", "gt", "gte", "lt", "lte"}
Filters(values) ==
    [op : Comparisons, value : values, negated : BOOLEAN]
    \cup [op : {"in"}, value : SUBSET values, negated : BOOLEAN]
    \cup [op : {"is"}, value : {"null", "not_null", "unknown"}, negated : BOOLEAN]
    \cup [op : {"isdistinct"}, value : values \cup {Null}, negated : BOOLEAN]

\* The logical groups of a query, and those in them: and, or, and their negations.
InnerGroups(values) == [or : BOOLEAN, negated : BOOLEAN, filters : SUBSET Filters(values)]
Groups(values) == [or : BOOLEAN, negated : BOOLEAN, filters : SUBSET Filters(values),
                   groups : SUBSET InnerGroups(values)]

\* What a comparison of two numbers says.
Compares(op, v, w) ==
    CASE op = "eq" -> v = w
      [] op = "neq" -> v # w
      [] op = "gt" -> v > w
      [] op = "gte" -> v >= w
      [] op = "lt" -> v < w
      [] op = "lte" -> v <= w

-----------------------------------------------------------------------------
(* The WHERE clause: a condition is true, false or unknown.                *)

Truth(b) == IF b THEN "true" ELSE "false"
Not3(t) == CASE t = "true" -> "false" [] t = "false" -> "true" [] OTHER -> "unknown"
And3(T) == IF "false" \in T THEN "false" ELSE IF "unknown" \in T THEN "unknown" ELSE "true"
Or3(T) == IF "true" \in T THEN "true" ELSE IF "unknown" \in T THEN "unknown" ELSE "false"
Negate3(t, negated) == IF negated THEN Not3(t) ELSE t

\* filterSQL: comparisonSQL, inSQL, isSQL and distinctSQL.
SqlFilter(v, f) ==
    CASE f.op \in Comparisons ->
           Negate3(IF v = Null THEN "unknown" ELSE Truth(Compares(f.op, v, f.value)), f.negated)
      [] f.op = "in" ->
           Negate3(IF f.value = {} THEN "false" ELSE
                   IF v = Null THEN "unknown" ELSE Truth(v \in f.value), f.negated)
      [] f.op = "is" -> Truth(((v = Null) = (f.value # "not_null")) # f.negated)
      [] f.op = "isdistinct" -> Truth((v # f.value) # f.negated)

Join3(or, T) == IF or THEN Or3(T) ELSE And3(T)

\* groupSQL, for a group in a group and for a group of the query.
SqlInner(v, g) ==
    Negate3(Join3(g.or, {SqlFilter(v, f) : f \in g.filters}), g.negated)
SqlGroup(v, g) ==
    Negate3(Join3(g.or, {SqlFilter(v, f) : f \in g.filters}
                        \cup {SqlInner(v, n) : n \in g.groups}), g.negated)

\* buildWhere: every filter and every group; a row must make it true.
SqlKeeps(v, c) ==
    And3({SqlFilter(v, f) : f \in c.filters} \cup {SqlGroup(v, g) : g \in c.groups}) = "true"

-----------------------------------------------------------------------------
(* The filter in memory: a filter matches or does not.                     *)

\* compareValue: a comparison with a NULL fails, and so its negation holds.
CompareValue(v, f) ==
    CASE f.op = "eq" -> v = f.value
      [] f.op = "neq" -> v # f.value
      [] f.op \in {"gt", "gte", "lt", "lte"} -> v # Null /\ Compares(f.op, v, f.value)
      [] f.op = "in" -> v \in f.value
      [] f.op = "is" -> IF f.value = "not_null" THEN v # Null ELSE v = Null
      [] f.op = "isdistinct" -> v # f.value
MatchFilter(v, f) == CompareValue(v, f) # f.negated

\* matchOrGroup and matchGroup.
JoinMatches(or, B) == IF or THEN TRUE \in B ELSE FALSE \notin B
MatchInner(v, g) ==
    JoinMatches(g.or, {MatchFilter(v, f) : f \in g.filters}) # g.negated
BugMatchGroup(v, g) ==
    JoinMatches(g.or, {MatchFilter(v, f) : f \in g.filters}
                      \cup {MatchInner(v, [n EXCEPT !.negated = FALSE]) : n \in g.groups})
    # g.negated
MatchGroup(v, g) ==
    JoinMatches(g.or, {MatchFilter(v, f) : f \in g.filters}
                      \cup {MatchInner(v, n) : n \in g.groups}) # g.negated

\* rowMatches
RowMatches(v, c) ==
    /\ \A f \in c.filters : MatchFilter(v, f)
    /\ \A g \in c.groups : MatchGroup(v, g)
=============================================================================
