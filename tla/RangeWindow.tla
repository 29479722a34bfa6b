---------------------------- MODULE RangeWindow ----------------------------
(***************************************************************************)
(* Which rows of the matching rows an ordinary read gives: limit and       *)
(* offset of the query, the Range header (internal/readquery/range.go),    *)
(* db-max-rows (query.go) and the LIMIT and OFFSET of the statement        *)
(* (internal/mysqldb/query_sql.go), in unsigned words, and the status and  *)
(* Content-Range that tell the client about it (internal/httpapi/read.go). *)
(*                                                                         *)
(* An operator named Bug... is a faulty variant of the definition below    *)
(* it, which no specification uses.                                        *)
(***************************************************************************)
EXTENDS Integers, FiniteSets

CONSTANTS
    Top,    \* the largest word, 2^64 - 1 in the code
    None    \* no limit, no last row, no header

ASSUME TopAssumption == Top \in Nat \ {0}
ASSUME NoneAssumption == None \notin Int

Word == 0 .. Top
Optional == Word \cup {None}
BugWrapped(n) == n
\* What a word holds of a number: the arithmetic of the code wraps around.
Wrapped(n) == n % (Top + 1)

Windows == [offset : Word, limit : Optional]
\* A Range header names the first row, and perhaps the last, both inclusive.
Ranges == [first : Word, last : Optional]

\* The rows of the list of all matching rows, counted from 0, in a window.
InWindow(w, i) == w.offset <= i /\ (w.limit = None \/ i < w.offset + w.limit)
InRange(r, i) == r.first <= i /\ (r.last = None \/ i <= r.last)

-----------------------------------------------------------------------------
\* limitEnd: the last row of the window, None when nothing bounds it or the
\* bound lies beyond the largest word.
LimitEnd(w) ==
    IF w.limit \in {None, 0} \/ w.limit - 1 > Top - w.offset THEN None
    ELSE w.offset + w.limit - 1

Sooner(a, b) == IF a = None \/ (b # None /\ b < a) THEN b ELSE a
Later(a, b) == IF a < b THEN b ELSE a

BugMeet(w, r) ==
    LET end == Sooner(LimitEnd(w), r.last)
        first == Later(r.first, w.offset)
    IN  IF w.limit = 0 THEN w
        ELSE [offset |-> first,
              limit |-> IF end = None THEN w.limit ELSE Wrapped(end - r.first + 1)]
\* The window after the Range header r: limit 0 is kept as it is.
Meet(w, r) ==
    LET end == Sooner(LimitEnd(w), r.last)
        first == Later(r.first, w.offset)
    IN  IF w.limit = 0 THEN w
        ELSE [offset |-> first,
              limit |-> IF end = None THEN w.limit ELSE Wrapped(end - first + 1)]

\* ApplyRange: the bounds of the header cross, or miss those of the query.
Crossed(w, r) == w.limit # 0 /\ r.last # None /\ r.first > r.last
Missed(w, r) ==
    LET end == Sooner(LimitEnd(w), r.last)
    IN  w.limit # 0 /\ end # None /\ Later(r.first, w.offset) > end
Unsatisfiable(w, r) == Crossed(w, r) \/ Missed(w, r)

BugEffectiveLimit(limit, maxRows) == IF limit = None THEN maxRows ELSE limit
\* EffectiveLimit: the limit of the client, capped by db-max-rows.
EffectiveLimit(limit, maxRows) == Sooner(limit, maxRows)

-----------------------------------------------------------------------------
\* pageSQL and pageRowSet: the members of S in the window, S in the order asked
\* for.  An order names the rank of every member.
Rank(S, x, desc) == Cardinality({y \in S : IF desc THEN y > x ELSE y < x})
PageOf(S, w, desc) == {x \in S : InWindow(w, Rank(S, x, desc))}

\* contentRange: from, to and of, None where the header holds an asterisk.
ContentRange(w, n, total) ==
    [from |-> IF n = 0 THEN None ELSE w.offset,
     to |-> IF n = 0 THEN None ELSE w.offset + n - 1,
     of |-> total]

BugReadStatus(w, n, total) == IF total = None \/ n = total THEN 200 ELSE
                              IF n > 0 /\ w.offset + n = total THEN 200 ELSE 206
\* readStatus: 206 when the total is known and the rows are not all of it.
ReadStatus(w, n, total) ==
    IF \/ total = None
       \/ n = 0 /\ total = 0
       \/ n > 0 /\ w.offset = 0 /\ n = total
    THEN 200 ELSE 206

=============================================================================
