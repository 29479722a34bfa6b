-------------------------- MODULE TableReadProofs --------------------------
(***************************************************************************)
(* What holds of table reads for every word size, every table, every       *)
(* request and any number of writes beside it: the window, what is nested  *)
(* below a row, and, while nobody writes, that the answer is the one the   *)
(* query asks for.                                                         *)
(***************************************************************************)
EXTENDS TableRead, FiniteSetTheorems, TLAPS

-----------------------------------------------------------------------------
(* The window.                                                             *)

\* The last row of a window is a word, and no row behind it is in the window.
LEMMA LimitEndBounds ==
    ASSUME NEW w \in Windows, w.limit # 0
    PROVE  /\ LimitEnd(w) \in Optional
           /\ \A i \in Word : InWindow(w, i) <=>
                w.offset <= i /\ (LimitEnd(w) = None \/ i <= LimitEnd(w))
<1>1. CASE w.limit = None
    BY <1>1, TopAssumption, NoneAssumption
       DEF LimitEnd, InWindow, Windows, Optional, Word
<1>2. CASE w.limit # None
    <2>1. w.limit \in 1 .. Top /\ w.offset \in 0 .. Top
        BY <1>2 DEF Windows, Optional, Word
    <2>2. CASE w.limit - 1 > Top - w.offset
        BY <2>1, <2>2, <1>2, TopAssumption, NoneAssumption
           DEF LimitEnd, InWindow, Optional, Word
    <2>3. CASE ~(w.limit - 1 > Top - w.offset)
        BY <2>1, <2>3, <1>2, TopAssumption, NoneAssumption
           DEF LimitEnd, InWindow, Optional, Word
    <2> QED BY <2>2, <2>3
<1> QED BY <1>1, <1>2

\* Where the request can be met, the window left by the Range header is one of
\* words, and holds the rows that are in both.
LEMMA MeetIsIntersection ==
    ASSUME NEW w \in Windows, NEW r \in Ranges, w.limit # 0, ~Unsatisfiable(w, r),
           ~(r = [first |-> 0, last |-> Top] /\ w = [offset |-> 0, limit |-> None])
    PROVE  \A i \in Word : InWindow(Meet(w, r), i) <=> InWindow(w, i) /\ InRange(r, i)
<1> DEFINE stop == LimitEnd(w)
           end == Sooner(stop, r.last)
           first == Later(r.first, w.offset)
<1>1. /\ stop \in Optional
      /\ \A i \in Word : InWindow(w, i) <=> w.offset <= i /\ (stop = None \/ i <= stop)
    BY LimitEndBounds
<1>2. /\ w.offset \in 0 .. Top /\ r.first \in 0 .. Top /\ r.last \in (0 .. Top) \cup {None}
      /\ w.limit \in (0 .. Top) \cup {None}
    BY DEF Windows, Ranges, Optional, Word
<1>3. /\ first \in 0 .. Top
      /\ \A i \in Word : first <= i <=> r.first <= i /\ w.offset <= i
    BY <1>2, TopAssumption DEF Later, Word
<1>4. /\ end \in (0 .. Top) \cup {None}
      /\ \A i \in Word : (end = None \/ i <= end) <=>
            (stop = None \/ i <= stop) /\ (r.last = None \/ i <= r.last)
    BY <1>1, <1>2, TopAssumption, NoneAssumption DEF Sooner, Optional, Word
<1>5. Meet(w, r) = [offset |-> first,
                    limit |-> IF end = None THEN w.limit ELSE Wrapped(end - first + 1)]
    BY DEF Meet
<1>6. end # None => first <= end
    BY <1>2, <1>3, <1>4, TopAssumption DEF Unsatisfiable, Missed
<1>7. \A i \in Word : InWindow(w, i) /\ InRange(r, i) <=>
                      first <= i /\ (end = None \/ i <= end)
    BY <1>1, <1>3, <1>4 DEF InRange
<1> HIDE DEF stop, end, first
<1>8. CASE end = None
    <2>1. stop = None /\ r.last = None
        BY <1>8, <1>1, <1>2, NoneAssumption, TopAssumption DEF end, Sooner, Optional, Word
    <2>2. \A i \in Word : w.limit = None \/ i < w.offset + w.limit
        BY <2>1, <1>2, TopAssumption, NoneAssumption DEF stop, LimitEnd, Word
    <2>3. \A i \in Word : first <= i => w.limit = None \/ i < first + w.limit
        <3>1. w.offset <= first
            BY <1>2, TopAssumption DEF first, Later
        <3> QED BY <3>1, <2>2, <1>2, <1>3, TopAssumption, NoneAssumption DEF Word
    <2>4. Meet(w, r) = [offset |-> first, limit |-> w.limit]
        BY <1>5, <1>8
    <2> QED BY <1>7, <2>3, <2>4, <1>8 DEF InWindow
<1>9. CASE end # None
    <2>1. end \in 0 .. Top /\ first \in 0 .. Top /\ first <= end
        BY <1>3, <1>4, <1>6, <1>9
    <2>2. ~(first = 0 /\ end = Top)
        <3> SUFFICES ASSUME first = 0, end = Top PROVE FALSE
            OBVIOUS
        <3>1. w.offset = 0 /\ r.first = 0
            BY <1>2, TopAssumption DEF first, Later
        <3>2. CASE w.limit = None
            <4>1. stop = None
                BY <3>2 DEF stop, LimitEnd
            <4>2. r.last = Top
                BY <4>1, TopAssumption, NoneAssumption DEF end, Sooner
            <4>3. r = [first |-> 0, last |-> Top]
                BY <3>1, <4>2 DEF Ranges
            <4>4. w = [offset |-> 0, limit |-> None]
                BY <3>1, <3>2 DEF Windows
            <4> QED BY <4>3, <4>4
        <3>3. CASE w.limit # None
            <4>1. stop = w.limit - 1 /\ stop < Top /\ stop \in Int
                BY <1>2, <3>1, <3>3, TopAssumption, NoneAssumption DEF stop, LimitEnd
            <4>2. end <= stop
                BY <4>1, <1>2, TopAssumption, NoneAssumption DEF end, Sooner
            <4> QED BY <4>1, <4>2, TopAssumption
        <3> QED BY <3>2, <3>3
    <2>3. end - first + 1 \in 1 .. Top
        BY <2>1, <2>2, TopAssumption
    <2>4. Wrapped(end - first + 1) = end - first + 1
        BY <2>3, TopAssumption DEF Wrapped
    <2>5. Meet(w, r) = [offset |-> first, limit |-> end - first + 1]
        BY <1>5, <1>9, <2>4
    <2>6. end - first + 1 # None
        BY <2>3, NoneAssumption
    <2>7. \A i \in Word : InWindow(Meet(w, r), i) <=> first <= i /\ i < first + (end - first + 1)
        BY <2>5, <2>6 DEF InWindow
    <2>8. \A i \in Word : i < first + (end - first + 1) <=> i <= end
        BY <2>1, TopAssumption DEF Word
    <2> QED BY <2>7, <2>8, <1>7, <1>9
<1> QED BY <1>8, <1>9

\* A window that cannot be met shares no row with the Range header.
LEMMA UnsatisfiableIsEmpty ==
    ASSUME NEW w \in Windows, NEW r \in Ranges, Unsatisfiable(w, r)
    PROVE  \A i \in Word : ~(InWindow(w, i) /\ InRange(r, i))
<1>1. w.limit # 0
    BY DEF Unsatisfiable, Crossed, Missed
<1>2. /\ w.offset \in 0 .. Top /\ r.first \in 0 .. Top /\ r.last \in (0 .. Top) \cup {None}
      /\ LimitEnd(w) \in (0 .. Top) \cup {None}
    BY <1>1, LimitEndBounds DEF Windows, Ranges, Optional, Word
<1> SUFFICES ASSUME NEW i \in Word, InWindow(w, i), InRange(r, i) PROVE FALSE
    OBVIOUS
<1>3. /\ w.offset <= i /\ (LimitEnd(w) = None \/ i <= LimitEnd(w))
      /\ r.first <= i /\ (r.last = None \/ i <= r.last) /\ i \in 0 .. Top
    BY <1>1, LimitEndBounds DEF InRange, Word
<1>4. ~Crossed(w, r)
    BY <1>2, <1>3, TopAssumption DEF Crossed
<1>5. ~Missed(w, r)
    <2>1. Later(r.first, w.offset) <= i
        BY <1>2, <1>3, TopAssumption DEF Later
    <2>2. Sooner(LimitEnd(w), r.last) = None \/ i <= Sooner(LimitEnd(w), r.last)
        BY <1>2, <1>3 DEF Sooner
    <2>3. Sooner(LimitEnd(w), r.last) \in (0 .. Top) \cup {None}
          /\ Later(r.first, w.offset) \in 0 .. Top
        BY <1>2 DEF Sooner, Later
    <2> QED BY <1>3, <2>1, <2>2, <2>3, TopAssumption DEF Missed
<1> QED BY <1>4, <1>5 DEF Unsatisfiable

-----------------------------------------------------------------------------
(* The two filters.                                                        *)

\* A negated filter or group, of a known truth.
LEMMA NegationAgrees ==
    ASSUME NEW b \in BOOLEAN, NEW negated \in BOOLEAN
    PROVE  Negate3(Truth(b), negated) = Truth(b # negated)
BY DEF Negate3, Not3, Truth

\* A filter says the same in SQL and in memory of a value that is not NULL.
LEMMA FilterAgrees ==
    ASSUME NEW v \in Int, NEW f \in Filters(Int)
    PROVE  SqlFilter(v, f) = Truth(MatchFilter(v, f))
<1>1. v # Null /\ f.negated \in BOOLEAN
    BY NullAssumption DEF Filters
<1>2. CASE f.op \in Comparisons
    <2>1. f.op \notin {"in", "is", "isdistinct"} /\ f.value \in Int
        BY <1>2 DEF Comparisons, Filters
    <2>2. CompareValue(v, f) = Compares(f.op, v, f.value)
        BY <1>1, <1>2, <2>1 DEF CompareValue, Compares, Comparisons
    <2>3. SqlFilter(v, f) = Negate3(Truth(Compares(f.op, v, f.value)), f.negated)
        BY <1>1, <1>2, <2>1 DEF SqlFilter
    <2> DEFINE b == Compares(f.op, v, f.value)
    <2>4. /\ f.op = "eq" => b = (v = f.value)
          /\ f.op = "neq" => b = (v # f.value)
          /\ f.op = "gt" => b = (v > f.value)
          /\ f.op = "gte" => b = (v >= f.value)
          /\ f.op = "lt" => b = (v < f.value)
          /\ f.op = "lte" => b = (v <= f.value)
        BY DEF Compares
    <2> HIDE DEF b
    <2>5. b \in BOOLEAN
        <3>1. CASE f.op = "eq"
            BY <2>4, <3>1
        <3>2. CASE f.op = "neq"
            BY <2>4, <3>2
        <3>3. CASE f.op = "gt"
            BY <2>4, <3>3
        <3>4. CASE f.op = "gte"
            BY <2>4, <3>4
        <3>5. CASE f.op = "lt"
            BY <2>4, <3>5
        <3>6. CASE f.op = "lte"
            BY <2>4, <3>6
        <3> QED BY <1>2, <3>1, <3>2, <3>3, <3>4, <3>5, <3>6 DEF Comparisons
    <2>6. Negate3(Truth(b), f.negated) = Truth(b # f.negated)
        BY <1>1, <2>5, NegationAgrees
    <2> QED BY <2>2, <2>3, <2>6 DEF MatchFilter, b
<1>3. CASE f.op = "in"
    BY <1>1, <1>3 DEF SqlFilter, MatchFilter, CompareValue, Negate3, Not3, Truth, Comparisons
<1>4. CASE f.op = "is"
    BY <1>1, <1>4 DEF SqlFilter, MatchFilter, CompareValue, Truth, Comparisons
<1>5. CASE f.op = "isdistinct"
    BY <1>1, <1>5 DEF SqlFilter, MatchFilter, CompareValue, Truth, Comparisons
<1> QED BY <1>2, <1>3, <1>4, <1>5 DEF Filters

\* What the disjunction and the conjunction of known truths say.
LEMMA JoinAgrees ==
    ASSUME NEW B \in SUBSET BOOLEAN, NEW or \in BOOLEAN, NEW negated \in BOOLEAN
    PROVE  Negate3(Join3(or, {Truth(b) : b \in B}), negated) = Truth(JoinMatches(or, B) # negated)
<1>1. /\ "true" \in {Truth(b) : b \in B} <=> TRUE \in B
      /\ "false" \in {Truth(b) : b \in B} <=> FALSE \in B
      /\ "unknown" \notin {Truth(b) : b \in B}
    BY DEF Truth
<1>2. Join3(or, {Truth(b) : b \in B}) = Truth(JoinMatches(or, B))
    BY <1>1 DEF Join3, And3, Or3, JoinMatches, Truth
<1> DEFINE m == JoinMatches(or, B)
<1>3. CASE or
    <2>1. m = (TRUE \in B)
        BY <1>3 DEF JoinMatches
    <2> HIDE DEF m
    <2>2. m \in BOOLEAN
        BY <2>1
    <2>3. Negate3(Truth(m), negated) = Truth(m # negated)
        BY <2>2, NegationAgrees
    <2> QED BY <2>3, <1>2 DEF m
<1>4. CASE ~or
    <2>1. m = (FALSE \notin B)
        BY <1>4 DEF JoinMatches
    <2> HIDE DEF m
    <2>2. m \in BOOLEAN
        BY <2>1
    <2>3. Negate3(Truth(m), negated) = Truth(m # negated)
        BY <2>2, NegationAgrees
    <2> QED BY <2>3, <1>2 DEF m
<1> QED BY <1>3, <1>4

\* A group inside a group says the same in SQL and in memory.
LEMMA InnerAgrees ==
    ASSUME NEW v \in Int, NEW g \in InnerGroups(Int)
    PROVE  SqlInner(v, g) = Truth(MatchInner(v, g))
<1> DEFINE B == {MatchFilter(v, f) : f \in g.filters}
<1>1. B \in SUBSET BOOLEAN
    BY DEF MatchFilter
<1>2. {SqlFilter(v, f) : f \in g.filters} = {Truth(b) : b \in B}
    BY FilterAgrees DEF InnerGroups
<1>3. g.or \in BOOLEAN /\ g.negated \in BOOLEAN
    BY DEF InnerGroups
<1> HIDE DEF B
<1>4. Negate3(Join3(g.or, {Truth(b) : b \in B}), g.negated)
      = Truth(JoinMatches(g.or, B) # g.negated)
    BY <1>1, <1>3, JoinAgrees
<1> QED BY <1>2, <1>4 DEF B, SqlInner, MatchInner

\* A group of the query says the same in SQL and in memory.
LEMMA GroupAgrees ==
    ASSUME NEW v \in Int, NEW g \in Groups(Int)
    PROVE  SqlGroup(v, g) = Truth(MatchGroup(v, g))
<1> DEFINE B == {MatchFilter(v, f) : f \in g.filters} \cup {MatchInner(v, n) : n \in g.groups}
<1>1. B \in SUBSET BOOLEAN
    BY DEF MatchFilter, MatchInner
<1>2. /\ \A f \in g.filters : SqlFilter(v, f) = Truth(MatchFilter(v, f))
      /\ \A n \in g.groups : SqlInner(v, n) = Truth(MatchInner(v, n))
    BY FilterAgrees, InnerAgrees DEF Groups
<1>3. {SqlFilter(v, f) : f \in g.filters} \cup {SqlInner(v, n) : n \in g.groups}
      = {Truth(b) : b \in B}
    BY <1>2
<1>4. g.or \in BOOLEAN /\ g.negated \in BOOLEAN
    BY DEF Groups
<1> HIDE DEF B
<1>5. Negate3(Join3(g.or, {Truth(b) : b \in B}), g.negated)
      = Truth(JoinMatches(g.or, B) # g.negated)
    BY <1>1, <1>4, JoinAgrees
<1> QED BY <1>3, <1>5 DEF B, SqlGroup, MatchGroup

\* A value that is not NULL is kept by the WHERE clause of a condition exactly
\* when the filter in memory keeps it, for every filter and every group.
THEOREM NullFreeFiltersAgree ==
    ASSUME NEW v \in Int, NEW c \in [filters : SUBSET Filters(Int), groups : SUBSET Groups(Int)]
    PROVE  SqlKeeps(v, c) <=> RowMatches(v, c)
<1> DEFINE T == {SqlFilter(v, f) : f \in c.filters} \cup {SqlGroup(v, g) : g \in c.groups}
<1>1. /\ \A f \in c.filters : SqlFilter(v, f) = Truth(MatchFilter(v, f))
      /\ \A g \in c.groups : SqlGroup(v, g) = Truth(MatchGroup(v, g))
    BY FilterAgrees, GroupAgrees
<1>2. "unknown" \notin T
    BY <1>1 DEF Truth
<1>3. "false" \notin T <=> RowMatches(v, c)
    BY <1>1 DEF Truth, RowMatches
<1> QED BY <1>2, <1>3 DEF SqlKeeps, And3

-----------------------------------------------------------------------------
(* The types.                                                              *)

\* What a case gives the initial state.
LEMMA CaseTypes ==
    ASSUME NEW c \in Cases
    PROVE  /\ c.req \in Requests(Conditions) /\ c.req.window \in Windows
           /\ c.origin \in OriginTables /\ c.target \in TargetTables /\ c.link \in JoinTables
BY CaseAssumption DEF Requests

\* The rows put under a parent are target rows, and the related pairs are pairs.
LEMMA NestedTypes ==
    /\ RelatedNow(req.embed, origin, target, link) \subseteq
            (OriginIds \X TargetIds) \cup link
    /\ \A S : Paged(S) \subseteq S
    /\ \A p : \A S \in Nested(p) : S \subseteq GroupOf(OriginKey(p))
<1>1. \A S : Paged(S) \subseteq S
    BY DEF Paged, PageOf
<1>2. \A p : \A S \in Nested(p) : S \subseteq GroupOf(OriginKey(p))
    BY <1>1 DEF Nested
<1>3. RelatedNow(req.embed, origin, target, link) \subseteq (OriginIds \X TargetIds) \cup link
    BY DEF RelatedNow
<1> QED BY <1>1, <1>2, <1>3

\* The window of a request that can be met is one of words.
LEMMA WindowTypes ==
    ASSUME req \in Requests(Conditions), ~(Bounded /\ Unsatisfiable(req.window, req.range))
    PROVE  Window \in Windows
<1>1. req.window \in Windows /\ req.range \in Ranges \cup {None}
    BY DEF Requests
<1>2. CASE ~Bounded
    BY <1>1, <1>2 DEF Window
<1>3. CASE Bounded
    <2>1. req.range \in Ranges
        BY <1>1, <1>3 DEF Bounded
    <2> DEFINE w == req.window
               r == req.range
               first == Later(r.first, w.offset)
    <2>2. w \in Windows /\ r \in Ranges
        BY <1>1, <2>1
    <2> HIDE DEF w, r
    <2>3. first \in Word
        BY <2>2, TopAssumption DEF Later, Windows, Ranges, Word
    <2> HIDE DEF first
    <2>4. CASE w.limit = 0
        <3>1. Meet(w, r) = w
            BY <2>4 DEF Meet
        <3> QED BY <3>1, <2>2, <1>3 DEF Window, w, r
    <2>5. CASE w.limit # 0
        <3> DEFINE stop == Sooner(LimitEnd(w), r.last)
        <3>1. stop \in Optional
            BY <2>2, <2>5, LimitEndBounds DEF Sooner, Ranges
        <3> HIDE DEF stop
        <3>2. Meet(w, r) = [offset |-> first,
                            limit |-> IF stop = None THEN w.limit ELSE Wrapped(stop - first + 1)]
            BY <2>5 DEF Meet, first, stop
        <3>3. stop # None => Wrapped(stop - first + 1) \in Word
            BY <3>1, <2>3, TopAssumption DEF Wrapped, Optional, Word
        <3>4. w.limit \in Optional
            BY <2>2 DEF Windows
        <3>5. Meet(w, r) \in Windows
            BY <3>2, <3>3, <3>4, <2>3 DEF Windows, Optional
        <3> QED BY <3>5, <1>3 DEF Window, w, r
    <2> QED BY <2>4, <2>5
<1> QED BY <1>2, <1>3

\* The rows on the page are rows of the table.
LEMMA OnPageTypes ==
    \A S : OnPage(S) \subseteq S
BY DEF OnPage

\* The initial states satisfy the types.
LEMMA InitTypes == Init => TypeOK
<1> SUFFICES ASSUME Init PROVE TypeOK
    OBVIOUS
<1>1. PICK c \in Cases :
        /\ req = c.req /\ origin = c.origin /\ target = c.target /\ link = c.link
        /\ was = RelatedNow(c.req.embed, c.origin, c.target, c.link)
    BY DEF Init
<1>2. /\ pc = "new" /\ total = None /\ parents = {} /\ links = {} /\ pending = {}
      /\ nested = Bare /\ answer = NoAnswer /\ writes = 0
    BY DEF Init
<1>3. /\ req \in Requests(Conditions) /\ origin \in OriginTables
      /\ target \in TargetTables /\ link \in JoinTables
    BY <1>1, CaseTypes
<1>4. was \in SUBSET (OriginIds \X TargetIds)
    BY <1>1, <1>3 DEF RelatedNow, JoinTables
<1>5. 0 \in 0 .. MaxWrites
    BY MarkAssumption
<1> QED BY <1>2, <1>3, <1>4, <1>5 DEF TypeOK, Steps, Bare, NoAnswer

\* Every step keeps the types.
LEMMA StepTypes == TypeOK /\ [Next]_vars => TypeOK'
<1> SUFFICES ASSUME TypeOK, [Next]_vars PROVE TypeOK'
    OBVIOUS
<1> USE DEF TypeOK, Steps
<1>0. \A S : S \subseteq OriginRows => Cardinality(S) \in Nat
    <2>1. IsFiniteSet({i \in OriginIds : origin[i] # Gone})
        BY KeyAssumption, FS_Subset
    <2>2. IsFiniteSet(OriginRows)
        <3> DEFINE ids == {i \in OriginIds : origin[i] # Gone}
                   row == [i \in ids |-> [id |-> i, ref |-> origin[i]]]
        <3>1. row \in Surjection(ids, OriginRows)
            BY DEF OriginRows, Surjection
        <3> HIDE DEF row
        <3> QED BY <2>1, <3>1, FS_Surjection
    <2> QED BY <2>2, FS_Subset, FS_CardinalityType
<1>1. \A r \in OriginRows : r \in Parents
    BY DEF OriginRows, Parents, OriginTables
<1>2. ASSUME UNCHANGED req, pc' \notin {"new", "done"}, pc \notin {"new", "done"}
      PROVE  Window' \in Windows
    BY <1>2 DEF Window, Bounded
<1>3. CASE Parse
    <2>1. CASE Bounded /\ Unsatisfiable(req.window, req.range)
        BY <1>3, <2>1 DEF Parse, Refusal, tables
    <2>2. CASE ~(Bounded /\ Unsatisfiable(req.window, req.range))
        <3>1. Window' \in Windows
            BY <1>3, <2>2, WindowTypes DEF Parse, Window, Bounded
        <3> QED BY <1>3, <2>2, <3>1 DEF Parse, tables
    <2> QED BY <2>1, <2>2
<1>4. CASE Count
    <2>1. Cardinality(Matching) \in Nat
        BY <1>0 DEF Matching
    <2> QED BY <1>2, <1>4, <2>1 DEF Count, tables
<1>5. CASE SelectRows
    <2>1. parents' \in SUBSET Parents
        BY <1>1, <1>5, OnPageTypes DEF SelectRows, Matching
    <2>2. pc' \in {"respond", "links", "related"}
        BY <1>5 DEF SelectRows, AfterRows
    <2> QED BY <1>2, <1>5, <2>1, <2>2 DEF SelectRows, tables
<1>6. CASE ShapeRows
    <2> DEFINE kept == {r \in OriginRows : RowMatches(r.ref, req.condition)}
    <2>1. Cardinality(kept) \in Nat
        BY <1>0
    <2>2. parents' \in SUBSET Parents
        BY <1>1, <1>6, OnPageTypes DEF ShapeRows
    <2>3. pc' \in {"respond", "links", "related"}
        BY <1>6 DEF ShapeRows, AfterRows
    <2>4. total' \in Nat \cup {None}
        BY <1>6, <2>1 DEF ShapeRows
    <2> QED BY <1>2, <1>6, <2>2, <2>3, <2>4 DEF ShapeRows, tables
<1>7. CASE ReadLinks
    <2>1. CASE ~req.joinReadable
        BY <1>7, <2>1 DEF ReadLinks, Refusal, tables
    <2>2. CASE req.joinReadable
        <3>1. links' \in SUBSET (OriginIds \X TargetIds)
            BY <1>7, <2>2 DEF ReadLinks, JoinTables, tables
        <3>2. pending' \in SUBSET OriginIds
            BY <1>7, <2>2 DEF ReadLinks, Parents
        <3>3. pc' \in {"each", "related"}
            BY <1>7, <2>2 DEF ReadLinks
        <3> QED BY <1>2, <1>7, <2>2, <3>1, <3>2, <3>3 DEF ReadLinks, tables
    <2> QED BY <2>1, <2>2
<1>8. CASE ReadRelated
    BY <1>2, <1>8 DEF ReadRelated, tables
<1>9. CASE \E p \in parents : ReadAggregate(p)
    <2>1. PICK p \in parents : ReadAggregate(p)
        BY <1>9
    <2> DEFINE found == {j \in TargetRows : <<OriginKey(p), j>> \in links /\ j \in req.match}
    <2>2. Paged(found) \in SUBSET TargetIds
        BY NestedTypes DEF TargetRows
    <2>3. nested' \in [OriginIds -> SUBSET TargetIds]
        BY <2>1, <2>2 DEF ReadAggregate
    <2> QED BY <1>2, <2>1, <2>3 DEF ReadAggregate, tables
<1>10. CASE AggregatesRead
    BY <1>2, <1>10 DEF AggregatesRead, tables
<1>11. CASE Respond
    <2>1. answer'.status \in {200, 206, 406}
        BY <1>11 DEF Respond, Refusal, ReadStatus
    <2>2. answer'.rows \in SUBSET OriginIds
        BY <1>11 DEF Respond, Refusal, Parents
    <2> QED BY <1>11, <2>1, <2>2 DEF Respond, tables
<1>12. CASE Fail
    BY <1>12 DEF Fail, Refusal, tables
<1>13. CASE Write
    <2>1. origin' \in OriginTables /\ target' \in TargetTables /\ link' \in JoinTables
        BY <1>13 DEF Write, OriginTables, TargetTables, JoinTables
    <2>2. was' \in SUBSET (OriginIds \X TargetIds)
        BY <1>13, <2>1 DEF Write, RelatedNow, JoinTables, readVars
    <2>3. writes' \in 0 .. MaxWrites
        BY <1>13, MarkAssumption DEF Write
    <2> QED BY <1>2, <1>13, <2>1, <2>2, <2>3 DEF Write, readVars
<1>14. CASE UNCHANGED vars
    BY <1>2, <1>14 DEF vars, readVars, tables, Window, Bounded
<1> QED BY <1>3, <1>4, <1>5, <1>6, <1>7, <1>8, <1>9, <1>10, <1>11, <1>12, <1>13, <1>14
        DEF Next, Done

\* The types hold in every reachable state.
THEOREM TypeCorrect == Spec => []TypeOK
BY InitTypes, StepTypes, PTL DEF Spec

-----------------------------------------------------------------------------
(* The window of the request.                                              *)

\* In every reachable state, for every word size: ApplyRange leaves exactly the
\* rows that are both in the window of the query and in the Range header.
THEOREM WindowCorrect == Spec => []WindowIsIntersection
<1>1. TypeOK => WindowIsIntersection
    <2> SUFFICES ASSUME TypeOK, Bounded, req.window.limit # 0, ~WholeRange
                 PROVE  IF Unsatisfiable(req.window, req.range)
                        THEN \A i \in Word :
                               ~(InWindow(req.window, i) /\ InRange(req.range, i))
                        ELSE \A i \in Word :
                               InWindow(Window, i) <=>
                                   InWindow(req.window, i) /\ InRange(req.range, i)
        BY DEF WindowIsIntersection
    <2>1. req.window \in Windows /\ req.range \in Ranges
        BY DEF TypeOK, Requests, Bounded
    <2>2. Window = Meet(req.window, req.range)
        BY DEF Window
    <2> QED BY <2>1, <2>2, MeetIsIntersection, UnsatisfiableIsEmpty DEF WholeRange
<1> QED BY <1>1, TypeCorrect, PTL

-----------------------------------------------------------------------------
(* What is nested.                                                         *)

\* Every pair a step works with was related: the pairs of now, those the page
\* and the join rows were read with, and those nested already.
PageWasRelated ==
    req.embed = "toOne" => \A p \in parents : p.ref # Null => <<p.id, p.ref>> \in was
LinksWereRelated ==
    /\ pc \in {"links", "each"} => req.embed = "manyToMany"
    /\ pc = "related" => req.embed # "none"
    /\ links \subseteq was
HistoryOK ==
    /\ RelatedNow(req.embed, origin, target, link) \subseteq was
    /\ PageWasRelated /\ LinksWereRelated /\ ChildrenWereRelated
IInv == TypeOK /\ HistoryOK

\* The initial states relate what the tables relate.
LEMMA InitHistory == Init => HistoryOK
<1> SUFFICES ASSUME Init PROVE HistoryOK
    OBVIOUS
<1>1. was = RelatedNow(req.embed, origin, target, link)
    BY DEF Init
<1>2. parents = {} /\ links = {} /\ nested = Bare /\ pc = "new"
    BY DEF Init
<1> QED BY <1>1, <1>2
        DEF HistoryOK, PageWasRelated, LinksWereRelated, ChildrenWereRelated, Bare

\* The rows a page is made of carry the reference they have.
LEMMA PageStep ==
    ASSUME IInv, NEW S \in SUBSET OriginRows, parents' = OnPage(S),
           pc' = AfterRows(parents'), UNCHANGED <<req, links, nested, tables, was>>
    PROVE  HistoryOK'
<1> USE DEF IInv, HistoryOK
<1>1. parents' \subseteq OriginRows
    BY OnPageTypes
<1>2. req.embed = "toOne" => \A r \in OriginRows : r.ref # Null => <<r.id, r.ref>> \in was
    <2> SUFFICES ASSUME req.embed = "toOne", NEW r \in OriginRows, r.ref # Null
                 PROVE  <<r.id, r.ref>> \in was
        OBVIOUS
    <2>1. r.id \in OriginIds /\ r.ref = origin[r.id] /\ r.ref \in TargetIds
        BY DEF OriginRows, TypeOK, OriginTables
    <2>2. <<r.id, r.ref>> \in RelatedNow(req.embed, origin, target, link)
        BY <2>1 DEF RelatedNow
    <2> QED BY <2>2
<1>3. PageWasRelated'
    BY <1>1, <1>2 DEF PageWasRelated
<1>4. LinksWereRelated'
    BY DEF LinksWereRelated, AfterRows
<1>5. ChildrenWereRelated'
    BY DEF ChildrenWereRelated, KeysKept
<1> QED BY <1>3, <1>4, <1>5 DEF tables

\* What the one read of all the related rows puts under a parent.
LEMMA RelatedStep == IInv /\ ReadRelated => HistoryOK'
<1> SUFFICES ASSUME IInv, ReadRelated PROVE HistoryOK'
    OBVIOUS
<1> USE DEF IInv, HistoryOK
<1>1. UNCHANGED <<req, parents, links, origin, target, link, was>> /\ pc' = "respond"
    BY DEF ReadRelated, tables
<1>2. ASSUME KeysKept, NEW p \in parents, NEW j \in GroupOf(OriginKey(p))
      PROVE  <<p.id, j>> \in was
    <2>1. /\ p.id \in OriginIds /\ p.ref \in TargetIds \cup {Null}
          /\ j \in TargetIds /\ target[j] # Gone /\ TargetKey(j) = TargetColumn(j)
        BY <1>2 DEF TypeOK, Parents, GroupOf, Related, TargetRows, TargetKey, KeysKept
    <2>2. CASE req.embed = "toOne"
        <3>1. j = p.ref
            BY <1>2, <2>1, <2>2 DEF GroupOf, OriginKey, TargetColumn, KeysKept
        <3>2. p.ref # Null
            BY <3>1, <2>1, KeyAssumption, NullAssumption
        <3> QED BY <2>2, <3>1, <3>2 DEF PageWasRelated
    <2>3. CASE req.embed = "toMany"
        <3>1. target[j] = p.id
            BY <1>2, <2>1, <2>3 DEF GroupOf, OriginKey, TargetColumn, KeysKept
        <3>2. <<p.id, j>> \in RelatedNow(req.embed, origin, target, link)
            BY <2>1, <2>3, <3>1 DEF RelatedNow
        <3> QED BY <3>2
    <2>4. CASE req.embed = "manyToMany"
        <3>1. <<p.id, j>> \in links
            BY <1>2, <2>1, <2>4 DEF GroupOf, OriginKey, TargetColumn, KeysKept
        <3> QED BY <3>1 DEF LinksWereRelated
    <2>5. CASE req.embed = "none"
        BY <2>5 DEF ReadRelated, LinksWereRelated
    <2> QED BY <2>2, <2>3, <2>4, <2>5 DEF TypeOK, Requests, Embeds
<1>3. ChildrenWereRelated'
    <2> SUFFICES ASSUME KeysKept, NEW i \in OriginIds, NEW j \in nested'[i]
                 PROVE  <<i, j>> \in was
        BY <1>1 DEF ChildrenWereRelated, KeysKept
    <2>1. PICK p \in parents : p.id = i /\ nested'[i] \in Nested(p)
        BY DEF ReadRelated
    <2>2. j \in GroupOf(OriginKey(p))
        BY <2>1, NestedTypes
    <2> QED BY <1>2, <2>1, <2>2
<1> QED BY <1>1, <1>3 DEF PageWasRelated, LinksWereRelated

\* What one aggregate read puts under its parent.
LEMMA AggregateStep ==
    ASSUME IInv, NEW p \in parents, ReadAggregate(p)
    PROVE  HistoryOK'
<1> USE DEF IInv, HistoryOK
<1>1. UNCHANGED <<req, pc, parents, links, origin, target, link, was>>
    BY DEF ReadAggregate, tables
<1> DEFINE found == {j \in TargetRows : <<OriginKey(p), j>> \in links /\ j \in req.match}
<1>2. nested' = [nested EXCEPT ![p.id] = Paged(found)] /\ Paged(found) \subseteq found
    BY NestedTypes DEF ReadAggregate
<1>3. KeysKept => \A j \in found : <<p.id, j>> \in was
    <2> SUFFICES ASSUME KeysKept, NEW j \in found PROVE <<p.id, j>> \in was
        OBVIOUS
    <2>1. req.embed = "manyToMany"
        BY DEF ReadAggregate, LinksWereRelated
    <2>2. OriginKey(p) = p.id
        BY <2>1 DEF OriginKey, KeysKept
    <2> QED BY <2>2 DEF LinksWereRelated
<1> HIDE DEF found
<1>4. ChildrenWereRelated'
    <2> SUFFICES ASSUME KeysKept, NEW i \in OriginIds, NEW j \in nested'[i]
                 PROVE  <<i, j>> \in was
        BY <1>1 DEF ChildrenWereRelated, KeysKept
    <2>1. CASE i = p.id
        <3>1. nested'[i] = Paged(found)
            BY <1>2, <2>1 DEF TypeOK
        <3> QED BY <1>2, <1>3, <2>1, <3>1
    <2>2. CASE i # p.id
        <3>1. nested'[i] = nested[i]
            BY <1>2, <2>2 DEF TypeOK
        <3> QED BY <3>1 DEF ChildrenWereRelated
    <2> QED BY <2>1, <2>2
<1> QED BY <1>1, <1>4 DEF PageWasRelated, LinksWereRelated

\* Every step keeps the history.
LEMMA StepHistory == IInv /\ [Next]_vars => HistoryOK'
<1> SUFFICES ASSUME IInv, [Next]_vars PROVE HistoryOK'
    OBVIOUS
<1> USE DEF IInv, HistoryOK
<1> DEFINE Kept == UNCHANGED <<req, parents, nested, origin, target, link, was>>
<1>1. ASSUME Kept, LinksWereRelated' PROVE HistoryOK'
    BY <1>1 DEF PageWasRelated, ChildrenWereRelated, KeysKept
<1>2. CASE Parse
    BY <1>1, <1>2 DEF Parse, LinksWereRelated, tables
<1>3. CASE Count
    BY <1>1, <1>3 DEF Count, LinksWereRelated, tables
<1>4. CASE SelectRows
    BY <1>4, PageStep DEF SelectRows, Matching
<1>5. CASE ShapeRows
    BY <1>5, PageStep DEF ShapeRows
<1>6. CASE ReadLinks
    <2>1. req.embed = "manyToMany" /\ link \subseteq was
        BY <1>6 DEF ReadLinks, LinksWereRelated, RelatedNow
    <2>2. LinksWereRelated'
        BY <1>6, <2>1 DEF ReadLinks, LinksWereRelated
    <2> QED BY <1>1, <1>6, <2>2 DEF ReadLinks, tables
<1>7. CASE ReadRelated
    BY <1>7, RelatedStep
<1>8. CASE \E p \in parents : ReadAggregate(p)
    BY <1>8, AggregateStep
<1>9. CASE AggregatesRead
    BY <1>1, <1>9 DEF AggregatesRead, LinksWereRelated, tables
<1>10. CASE Respond
    BY <1>1, <1>10 DEF Respond, LinksWereRelated, tables
<1>11. CASE Fail
    BY <1>1, <1>11 DEF Fail, LinksWereRelated, tables
<1>12. CASE Write
    <2>1. UNCHANGED <<req, pc, parents, links, nested>> /\ was \subseteq was'
        BY <1>12 DEF Write, readVars
    <2>2. RelatedNow(req.embed, origin', target', link') \subseteq was'
        BY <1>12 DEF Write
    <2>3. PageWasRelated' /\ LinksWereRelated' /\ ChildrenWereRelated'
        BY <2>1 DEF PageWasRelated, LinksWereRelated, ChildrenWereRelated, KeysKept
    <2> QED BY <2>1, <2>2, <2>3
<1>13. CASE UNCHANGED vars
    BY <1>1, <1>13 DEF vars, readVars, tables, LinksWereRelated
<1> QED BY <1>2, <1>3, <1>4, <1>5, <1>6, <1>7, <1>8, <1>9, <1>10, <1>11, <1>12, <1>13
        DEF Next, Done

\* Whatever others write, and however often, a row is nested only under a row
\* it was related to at some time of the request.
THEOREM NestedWasRelated == Spec => []ChildrenWereRelated
<1>1. Init => IInv
    BY InitTypes, InitHistory DEF IInv
<1>2. IInv /\ [Next]_vars => IInv'
    BY StepTypes, StepHistory DEF IInv
<1>3. IInv => ChildrenWereRelated
    BY DEF IInv, HistoryOK
<1> QED BY <1>1, <1>2, <1>3, PTL DEF Spec

-----------------------------------------------------------------------------
(* The places of the members of a finite set of numbers in an order.       *)

Precedes(x, y, desc) == IF desc THEN x > y ELSE x < y

\* A member has as many members before it as its place says, and the places of
\* two members are in the order of the members.
LEMMA RankOrder ==
    ASSUME NEW M \in SUBSET Nat, IsFiniteSet(M), NEW desc \in BOOLEAN
    PROVE  /\ \A x \in M : Rank(M, x, desc) \in 0 .. Cardinality(M) - 1
           /\ \A x, y \in M : Rank(M, x, desc) < Rank(M, y, desc) <=> Precedes(x, y, desc)
<1> DEFINE B(x) == {k \in M : Precedes(k, x, desc)}
<1>1. ASSUME NEW x \in M
      PROVE  /\ IsFiniteSet(B(x)) /\ Rank(M, x, desc) = Cardinality(B(x))
             /\ Rank(M, x, desc) \in 0 .. Cardinality(M) - 1 /\ Rank(M, x, desc) \in Nat
    <2>1. B(x) = {k \in M : IF desc THEN k > x ELSE k < x}
        BY DEF Precedes
    <2>2. B(x) \in SUBSET M /\ x \notin B(x)
        BY DEF Precedes
    <2>3. Rank(M, x, desc) = Cardinality(B(x))
        BY <2>1 DEF Rank
    <2> HIDE DEF B
    <2>4. IsFiniteSet(B(x)) /\ Cardinality(B(x)) <= Cardinality(M) /\ Cardinality(B(x)) # Cardinality(M)
        BY <2>2, FS_Subset
    <2>5. Cardinality(B(x)) \in Nat /\ Cardinality(M) \in Nat
        BY <2>4, FS_CardinalityType
    <2> QED BY <2>3, <2>4, <2>5
<1>2. ASSUME NEW x \in M, NEW y \in M, Precedes(x, y, desc)
      PROVE  Rank(M, x, desc) < Rank(M, y, desc)
    <2>1. B(x) \in SUBSET B(y) /\ x \in B(y) /\ x \notin B(x)
        <3>1. x \in Nat /\ y \in Nat
            OBVIOUS
        <3>2. ASSUME NEW k \in Nat, Precedes(k, x, desc) PROVE Precedes(k, y, desc)
            BY <1>2, <3>1, <3>2 DEF Precedes
        <3>3. ~Precedes(x, x, desc)
            BY <3>1 DEF Precedes
        <3> QED BY <1>2, <3>2, <3>3
    <2>2. IsFiniteSet(B(x)) /\ IsFiniteSet(B(y))
        BY <1>1
    <2>3. Rank(M, x, desc) = Cardinality(B(x)) /\ Rank(M, y, desc) = Cardinality(B(y))
        BY <1>1
    <2> HIDE DEF B
    <2>4. Cardinality(B(x)) <= Cardinality(B(y)) /\ Cardinality(B(x)) # Cardinality(B(y))
        BY <2>1, <2>2, FS_Subset
    <2>5. Cardinality(B(x)) \in Nat /\ Cardinality(B(y)) \in Nat
        BY <2>2, FS_CardinalityType
    <2> QED BY <2>3, <2>4, <2>5
<1> HIDE DEF B
<1>3. ASSUME NEW x \in M, NEW y \in M, Rank(M, x, desc) < Rank(M, y, desc)
      PROVE  Precedes(x, y, desc)
    <2>1. Rank(M, x, desc) \in Int /\ Rank(M, y, desc) \in Int
        BY <1>1
    <2>2. ~Precedes(y, x, desc) /\ x # y
        BY <1>2, <1>3, <2>1
    <2> QED BY <2>2 DEF Precedes
<1> QED BY <1>1, <1>2, <1>3

\* Every place is taken, by one member.
LEMMA RankIsPlace ==
    ASSUME NEW M \in SUBSET Nat, IsFiniteSet(M), NEW desc \in BOOLEAN
    PROVE  /\ \A r \in 0 .. Cardinality(M) - 1 : \E x \in M : Rank(M, x, desc) = r
           /\ \A x, y \in M : Rank(M, x, desc) = Rank(M, y, desc) => x = y
<1> DEFINE n == Cardinality(M)
           place == [x \in M |-> Rank(M, x, desc)]
<1>1. n \in Nat
    BY FS_CardinalityType
<1>2. /\ \A x \in M : Rank(M, x, desc) \in 0 .. n - 1
      /\ \A x, y \in M : Rank(M, x, desc) < Rank(M, y, desc) <=> Precedes(x, y, desc)
    BY RankOrder
<1>3. \A x, y \in M : Rank(M, x, desc) = Rank(M, y, desc) => x = y
    <2> SUFFICES ASSUME NEW x \in M, NEW y \in M, Rank(M, x, desc) = Rank(M, y, desc), x # y
                 PROVE  FALSE
        OBVIOUS
    <2>1. Precedes(x, y, desc) \/ Precedes(y, x, desc)
        BY DEF Precedes
    <2>2. Rank(M, x, desc) \in Int
        BY <1>2
    <2> QED BY <1>2, <2>1, <2>2
<1>4. IsFiniteSet(0 .. n - 1) /\ Cardinality(0 .. n - 1) = n
    <2> HIDE DEF n
    <2>1. n - 1 \in Int /\ 0 \in Int
        BY <1>1
    <2>2. /\ IsFiniteSet(0 .. n - 1)
          /\ Cardinality(0 .. n - 1) = IF 0 > n - 1 THEN 0 ELSE (n - 1) - 0 + 1
        BY <2>1, FS_Interval
    <2> QED BY <1>1, <2>2
<1>5. place \in Injection(M, 0 .. n - 1)
    <2>1. place \in [M -> 0 .. n - 1]
        BY <1>2
    <2>2. \A x, y \in M : place[x] = place[y] => x = y
        BY <1>3
    <2> HIDE DEF place, n
    <2> QED BY <2>1, <2>2 DEF Injection, IsInjective
<1> HIDE DEF n, place
<1>6. place \in Surjection(M, 0 .. n - 1)
    BY <1>4, <1>5, FS_Injection DEF n
<1>7. \A r \in 0 .. n - 1 : \E x \in M : place[x] = r
    BY <1>6 DEF Surjection
<1> QED BY <1>3, <1>7 DEF n, place

\* As many members are at some places as there are places.
LEMMA PlacesTaken ==
    ASSUME NEW M \in SUBSET Nat, IsFiniteSet(M), NEW desc \in BOOLEAN,
           NEW T \in SUBSET (0 .. Cardinality(M) - 1),
           NEW at, at = {x \in M : Rank(M, x, desc) \in T}
    PROVE  /\ IsFiniteSet(at) /\ IsFiniteSet(T) /\ Cardinality(at) = Cardinality(T)
           /\ \A r \in T : \E x \in at : Rank(M, x, desc) = r
<1> DEFINE place == [x \in at |-> Rank(M, x, desc)]
<1>1. /\ \A r \in 0 .. Cardinality(M) - 1 : \E x \in M : Rank(M, x, desc) = r
      /\ \A x, y \in M : Rank(M, x, desc) = Rank(M, y, desc) => x = y
    BY RankIsPlace
<1>2. \A r \in T : \E x \in at : Rank(M, x, desc) = r
    BY <1>1
<1>3. at \in SUBSET M
    OBVIOUS
<1>4. place \in Injection(at, T) /\ place \in Surjection(at, T)
    <2>1. place \in [at -> T] /\ (\A x, y \in at : place[x] = place[y] => x = y)
        BY <1>1
    <2>2. \A r \in T : \E x \in at : place[x] = r
        BY <1>2
    <2> HIDE DEF place
    <2> QED BY <2>1, <2>2 DEF Injection, IsInjective, Surjection
<1> HIDE DEF place
<1>6. IsFiniteSet(at)
    BY <1>3, FS_Subset
<1>7. IsFiniteSet(T) /\ Cardinality(T) = Cardinality(at)
    BY <1>4, <1>6, FS_Surjection
<1> QED BY <1>2, <1>6, <1>7

\* Of the members from the place o on, as many are before a member as its place
\* is behind o.
LEMMA RankInPart ==
    ASSUME NEW M \in SUBSET Nat, IsFiniteSet(M), NEW desc \in BOOLEAN, NEW o \in Nat,
           NEW A \in SUBSET M, NEW x \in A, o <= Rank(M, x, desc),
           \A k \in M : Precedes(k, x, desc) => (k \in A <=> o <= Rank(M, k, desc))
    PROVE  Rank(A, x, desc) = Rank(M, x, desc) - o
<1> DEFINE r == Rank(M, x, desc)
           T == o .. r - 1
<1>1. /\ \A k \in M : Rank(M, k, desc) \in 0 .. Cardinality(M) - 1
      /\ \A k, y \in M : Rank(M, k, desc) < Rank(M, y, desc) <=> Precedes(k, y, desc)
    BY RankOrder
<1>2. x \in M /\ r \in Nat /\ r \in 0 .. Cardinality(M) - 1 /\ Cardinality(M) \in Nat
    BY <1>1, FS_CardinalityType
<1>3. T \in SUBSET (0 .. Cardinality(M) - 1)
    BY <1>2
<1>4. {k \in M : Rank(M, k, desc) \in T} = {k \in A : Precedes(k, x, desc)}
    <2>1. ASSUME NEW k \in M
          PROVE  Rank(M, k, desc) \in T <=> k \in A /\ Precedes(k, x, desc)
        <3>1. Rank(M, k, desc) \in Nat /\ (Rank(M, k, desc) < r <=> Precedes(k, x, desc))
            BY <1>1, <1>2
        <3>2. Rank(M, k, desc) \in T <=> o <= Rank(M, k, desc) /\ Rank(M, k, desc) < r
            BY <1>2, <3>1
        <3> QED BY <3>1, <3>2
    <2> QED BY <2>1
<1>5. Cardinality({k \in M : Rank(M, k, desc) \in T}) = Cardinality(T)
    <2> DEFINE at == {k \in M : Rank(M, k, desc) \in T}
    <2> HIDE DEF T
    <2>1. Cardinality(at) = Cardinality(T)
        BY <1>3, PlacesTaken
    <2> QED BY <2>1
<1>6. Cardinality(T) = r - o
    <2>1. r - 1 \in Int /\ o \in Int
        BY <1>2
    <2> HIDE DEF r
    <2>2. Cardinality(o .. r - 1) = IF o > r - 1 THEN 0 ELSE (r - 1) - o + 1
        BY <2>1, FS_Interval
    <2> QED BY <1>2, <2>2 DEF r
<1>7. Rank(A, x, desc) = Cardinality({k \in A : Precedes(k, x, desc)})
    BY DEF Rank, Precedes
<1> QED BY <1>4, <1>5, <1>6, <1>7

-----------------------------------------------------------------------------
(* What a read answers with when nobody writes beside it.                  *)

\* The parse has let the request through; its rows are read; its children are.
Live == pc \notin {"new", "done"} \/ Answered
PageRead == pc \in {"links", "related", "each", "respond"} \/ Answered
ChildrenRead == pc = "respond" \/ Answered

\* The rows the condition keeps, in SQL or in memory.
Kept == IF req.surface = "table" THEN Matching
        ELSE {r \in OriginRows : RowMatches(r.ref, req.condition)}
\* The embed meets its key columns under their own names.
KeysMet == ~req.aliasTarget /\ (req.surface = "table" => ~req.aliasOrigin)

\* The foreign keys hold, and only a request that can be met is answered.
Told == [status |-> ReadStatus(Window, Cardinality(parents), total),
         rows |-> {p.id : p \in parents},
         range |-> ContentRange(Window, Cardinality(parents), total)]
AnswerInv ==
    /\ Sound(origin, target, link)
    /\ Live => Window \in Windows /\ ~(Bounded /\ Unsatisfiable(req.window, req.range))
    /\ pc # "done" => answer = NoAnswer
    /\ Answered => answer = Told

\* What the statements so far have read is what one statement would read now.
CountInv == req.surface = "table" =>
    /\ pc = "new" => total = None
    /\ pc = "count" => req.exact
    /\ pc = "select" \/ PageRead => total = IF req.exact THEN Cardinality(Matching) ELSE None
PageInv == PageRead => parents = OnPage(Kept)
LinksInv ==
    /\ pc = "each" => req.aggregate
    /\ pc = "each" \/ (pc = "related" /\ req.embed = "manyToMany") =>
          links = {l \in link : l[1] \in Keys}
NestedInv ==
    /\ pc \notin {"each", "respond", "done"} => nested = Bare
    /\ KeysMet /\ (pc = "each" \/ ChildrenRead) => \A p \in parents :
          (pc = "each" /\ p.id \in pending) \/ nested[p.id] = ChildrenAsked(p.id)
QuietInv == Quiet => CountInv /\ PageInv /\ LinksInv /\ NestedInv

\* What Requests says of the request.
LEMMA RequestTypes ==
    ASSUME TypeOK
    PROVE  /\ req.window \in Windows /\ req.range \in Ranges \cup {None}
           /\ req.maxRows \in Optional /\ req.desc \in BOOLEAN /\ req.exact \in BOOLEAN
           /\ req.surface \in {"table", "rowset"} /\ req.embed \in Embeds
           /\ req.match \in SUBSET TargetIds /\ req.condition \in Conditions
           /\ req.aggregate \in BOOLEAN
BY DEF TypeOK, Requests

\* Rows and their ids, of which a word can count the number.
LEMMA IdsOfRows ==
    ASSUME TypeOK, NEW S \in SUBSET OriginRows, NEW ids, ids = {r.id : r \in S}
    PROVE  /\ IsFiniteSet(S) /\ IsFiniteSet(ids) /\ Cardinality(S) = Cardinality(ids)
           /\ Cardinality(ids) \in 0 .. Top /\ ids \in SUBSET Nat /\ ids \in SUBSET OriginIds
<1> DEFINE id == [r \in S |-> r.id]
<1>1. \A r \in S : r.id \in OriginIds /\ r = [id |-> r.id, ref |-> origin[r.id]]
    BY DEF OriginRows
<1>2. ids \in SUBSET OriginIds /\ ids \in SUBSET Nat
    BY <1>1, KeyAssumption
<1>3. IsFiniteSet(ids) /\ Cardinality(ids) <= Cardinality(OriginIds)
    BY <1>2, FS_Subset, KeyAssumption
<1>4. Cardinality(ids) \in Nat /\ Cardinality(OriginIds) \in Nat
    BY <1>3, FS_CardinalityType, KeyAssumption
<1>5. id \in Injection(S, ids) /\ id \in Surjection(S, ids)
    <2>1. id \in [S -> ids] /\ \A i \in ids : \E r \in S : id[r] = i
        OBVIOUS
    <2>2. \A r, s \in S : id[r] = id[s] => r = s
        BY <1>1
    <2> HIDE DEF id
    <2> QED BY <2>1, <2>2 DEF Injection, IsInjective, Surjection
<1> HIDE DEF id
<1>6. IsFiniteSet(S) /\ Cardinality(S) = Cardinality(ids)
    BY <1>3, <1>5, FS_Injection
<1> QED BY <1>2, <1>3, <1>4, <1>6, SizeAssumption, TopAssumption

LEMMA MatchingIdsTypes ==
    ASSUME TypeOK
    PROVE  /\ IsFiniteSet(MatchingIds) /\ Cardinality(Matching) = Cardinality(MatchingIds)
           /\ Cardinality(MatchingIds) \in 0 .. Top /\ MatchingIds \in SUBSET Nat
           /\ MatchingIds \in SUBSET OriginIds
<1>1. Matching \in SUBSET OriginRows
    BY DEF Matching
<1> QED BY <1>1, IdsOfRows DEF MatchingIds

\* The window of the request holds the places that are in the window of the
\* query and in the Range header.
LEMMA WindowAsked ==
    ASSUME TypeOK, AnswerInv, Live, ~WholeRange, NEW i \in Word
    PROVE  InWindow(Window, i) <=>
             /\ InWindow(req.window, i)
             /\ Bounded => InRange(req.range, i) \/ req.window.limit = 0
<1>1. CASE ~Bounded
    BY <1>1 DEF Window
<1>2. CASE Bounded /\ req.window.limit = 0
    BY <1>2 DEF Window, Meet
<1>3. CASE Bounded /\ req.window.limit # 0
    <2>1. req.window \in Windows /\ req.range \in Ranges
        BY <1>3, RequestTypes DEF Bounded
    <2>2. ~Unsatisfiable(req.window, req.range)
        BY <1>3 DEF AnswerInv
    <2>3. Window = Meet(req.window, req.range)
        BY <1>3 DEF Window
    <2> QED BY <1>3, <2>1, <2>2, <2>3, MeetIsIntersection DEF WholeRange
<1> QED BY <1>1, <1>2, <1>3

\* db-max-rows keeps the first rows of a window.
LEMMA CappedWindow ==
    ASSUME NEW w \in Windows, NEW m \in Optional, NEW r \in Nat, NEW page,
           page = [offset |-> w.offset, limit |-> EffectiveLimit(w.limit, m)]
    PROVE  InWindow(page, r) <=> InWindow(w, r) /\ (m = None \/ r - w.offset < m)
<1>1. w.offset \in Nat /\ w.limit \in Nat \cup {None} /\ m \in Nat \cup {None}
    BY TopAssumption DEF Windows, Optional, Word
<1>2. page.offset = w.offset /\ page.limit = EffectiveLimit(w.limit, m)
    OBVIOUS
<1>3. CASE w.limit = None
    BY <1>1, <1>2, <1>3, NoneAssumption DEF InWindow, EffectiveLimit, Sooner
<1>4. CASE m = None
    BY <1>1, <1>2, <1>4, NoneAssumption DEF InWindow, EffectiveLimit, Sooner
<1>5. CASE w.limit # None /\ m # None
    BY <1>1, <1>2, <1>5, NoneAssumption DEF InWindow, EffectiveLimit, Sooner
<1> QED BY <1>3, <1>4, <1>5

LEMMA PageTypes ==
    ASSUME TypeOK, AnswerInv, Live
    PROVE  /\ Window \in Windows /\ Window.offset \in Nat /\ req.maxRows \in Optional
           /\ Page.offset = Window.offset
           /\ Page.limit = EffectiveLimit(Window.limit, req.maxRows)
           /\ Page.limit \in Nat \cup {None}
<1>1. Window \in Windows /\ req.maxRows \in Optional
    BY RequestTypes DEF AnswerInv
<1>2. Window.offset \in Nat /\ Window.limit \in Optional
    BY <1>1, TopAssumption DEF Windows, Word
<1>3. Page.offset = Window.offset /\ Page.limit = EffectiveLimit(Window.limit, req.maxRows)
    BY DEF Page
<1>4. EffectiveLimit(Window.limit, req.maxRows) \in Optional
    BY <1>1, <1>2 DEF EffectiveLimit, Sooner
<1> QED BY <1>1, <1>2, <1>3, <1>4, TopAssumption DEF Optional, Word

\* The page of the matching rows holds the rows asked for.
LEMMA PageIsAsked ==
    ASSUME TypeOK, AnswerInv, Live, ~WholeRange
    PROVE  PageOf(MatchingIds, Page, req.desc) = RowsAsked
<1> DEFINE M == MatchingIds
           r(i) == Rank(M, i, req.desc)
           A == {i \in OriginIds : Asked(i)}
<1>1. /\ IsFiniteSet(M) /\ Cardinality(M) \in 0 .. Top /\ M \in SUBSET Nat
      /\ M \in SUBSET OriginIds /\ req.desc \in BOOLEAN
    BY MatchingIdsTypes, RequestTypes
<1>2. /\ \A x \in M : r(x) \in 0 .. Cardinality(M) - 1
      /\ \A x, y \in M : r(x) < r(y) <=> Precedes(x, y, req.desc)
    <2> HIDE DEF M
    <2> QED BY <1>1, RankOrder
<1>3. \A i \in M : r(i) \in Word /\ r(i) \in Nat
    <2> SUFFICES ASSUME NEW i \in M PROVE r(i) \in Word /\ r(i) \in Nat
        OBVIOUS
    <2>1. r(i) \in 0 .. Cardinality(M) - 1 /\ Cardinality(M) \in 0 .. Top
        BY <1>1, <1>2
    <2> HIDE DEF r, M
    <2> QED BY <2>1, TopAssumption DEF Word
<1>4. \A S, i : Cardinality(Before(S, i)) = Rank(S, i, req.desc)
    BY DEF Before, Rank
<1>5. A = {i \in M : InWindow(Window, r(i))}
    <2>1. ASSUME NEW i \in M PROVE Asked(i) <=> InWindow(Window, r(i))
        <3>1. InWindow(Window, r(i)) <=>
                /\ InWindow(req.window, r(i))
                /\ Bounded => InRange(req.range, r(i)) \/ req.window.limit = 0
            <4> HIDE DEF r
            <4> QED BY <1>3, WindowAsked
        <3>2. Cardinality(Before(MatchingIds, i)) = r(i)
            BY <1>4
        <3> HIDE DEF r
        <3> QED BY <3>1, <3>2 DEF Asked
    <2>2. \A i : Asked(i) => i \in M
        BY DEF Asked
    <2> QED BY <1>1, <2>1, <2>2
<1>6. Window \in Windows /\ Window.offset \in Nat /\ req.maxRows \in Optional
      /\ Window.limit \in Nat \cup {None}
    BY PageTypes, TopAssumption DEF Windows, Optional, Word
<1>7. ASSUME NEW i \in A PROVE Rank(A, i, req.desc) = r(i) - Window.offset
    <2>1. i \in M /\ Window.offset <= r(i) /\ (Window.limit = None \/ r(i) < Window.offset + Window.limit)
        BY <1>5 DEF InWindow
    <2>2. ASSUME NEW k \in M, Precedes(k, i, req.desc)
          PROVE  k \in A <=> Window.offset <= r(k)
        <3>1. r(k) < r(i) /\ r(k) \in Nat /\ r(i) \in Nat
            BY <1>2, <1>3, <2>1, <2>2
        <3>2. Window.limit = None \/ r(k) < Window.offset + Window.limit
            <4> HIDE DEF r
            <4> QED BY <1>6, <2>1, <3>1
        <3>3. k \in A <=> InWindow(Window, r(k))
            BY <1>5
        <3> QED BY <3>2, <3>3 DEF InWindow
    <2>3. A \in SUBSET M
        BY <1>5
    <2> HIDE DEF A, M
    <2> QED BY <1>1, <1>6, <2>1, <2>2, <2>3, RankInPart
<1>8. RowsAsked = {i \in A : req.maxRows = None \/ Rank(A, i, req.desc) < req.maxRows}
    BY <1>4 DEF RowsAsked
<1>9. ASSUME NEW i \in M
      PROVE  InWindow(Page, r(i)) <=> InWindow(Window, r(i))
                /\ (req.maxRows = None \/ r(i) - Window.offset < req.maxRows)
    <2>1. Page = [offset |-> Window.offset, limit |-> EffectiveLimit(Window.limit, req.maxRows)]
        BY DEF Page
    <2>2. r(i) \in Nat
        BY <1>3
    <2> HIDE DEF r
    <2> QED BY <1>6, <2>1, <2>2, CappedWindow
<1>10. PageOf(M, Page, req.desc) = {i \in M : InWindow(Page, r(i))}
    BY DEF PageOf
<1>11. RowsAsked = {i \in M : InWindow(Window, r(i))
                       /\ (req.maxRows = None \/ r(i) - Window.offset < req.maxRows)}
    <2>1. A \in SUBSET M /\ \A i \in M : i \in A <=> InWindow(Window, r(i))
        BY <1>5
    <2> HIDE DEF A, M, r
    <2> QED BY <1>7, <1>8, <2>1
<1> HIDE DEF r, M, A
<1>12. PageOf(M, Page, req.desc) = RowsAsked
    BY <1>9, <1>10, <1>11
<1> QED BY <1>12 DEF M

\* The ids of the rows on a page are the page of the ids.
LEMMA OnPageIds ==
    ASSUME NEW S
    PROVE  {p.id : p \in OnPage(S)} = PageOf({r.id : r \in S}, Page, req.desc)
<1> DEFINE ids == PageOf({r.id : r \in S}, Page, req.desc)
<1>1. ids \subseteq {r.id : r \in S}
    BY DEF PageOf
<1>2. OnPage(S) = {r \in S : r.id \in ids}
    BY DEF OnPage
<1> HIDE DEF ids
<1> QED BY <1>1, <1>2 DEF ids

\* The places of the rows on a page: they follow one another from the offset
\* on, as many as there are rows; and a page with all the rows starts at 0.
LEMMA PagePlaces ==
    ASSUME TypeOK, AnswerInv, Live, NEW P, P = PageOf(MatchingIds, Page, req.desc)
    PROVE  /\ IsFiniteSet(P) /\ P \in SUBSET MatchingIds
           /\ {Cardinality(Before(MatchingIds, i)) : i \in P} =
                IF P = {} THEN {}
                ELSE Window.offset .. Window.offset + Cardinality(P) - 1
           /\ P = MatchingIds /\ P # {} => Window.offset = 0
<1> DEFINE M == MatchingIds
           m == Cardinality(M)
           r(i) == Rank(M, i, req.desc)
           o == Window.offset
           l == Page.limit
           T == {p \in 0 .. m - 1 : InWindow(Page, p)}
           last == IF l = None \/ o + l > m THEN m - 1 ELSE o + l - 1
<1>1. /\ IsFiniteSet(M) /\ m \in Nat /\ M \in SUBSET Nat /\ req.desc \in BOOLEAN
    BY MatchingIdsTypes, RequestTypes, TopAssumption
<1>2. Page.offset = o /\ o \in Nat /\ l \in Nat \cup {None}
    BY PageTypes
<1>3. \A i \in M : r(i) \in 0 .. m - 1
    <2> HIDE DEF M
    <2> QED BY <1>1, RankOrder
<1>4. P = {i \in M : r(i) \in T}
    BY <1>3 DEF PageOf
<1>5. last \in Int /\ T = o .. last
    <2>1. ASSUME NEW p \in Nat PROVE p \in T <=> p \in o .. last
        <3>1. p \in T <=> p <= m - 1 /\ o <= p /\ (l = None \/ p < o + l)
            <4> HIDE DEF m, o, l
            <4> QED BY <1>1, <1>2 DEF InWindow, l
        <3> HIDE DEF m, o, l, T
        <3>2. CASE l = None
            BY <1>1, <1>2, <3>1, <3>2
        <3>3. CASE l # None
            BY <1>1, <1>2, <3>1, <3>3
        <3> QED BY <3>2, <3>3
    <2>2. last \in Int /\ \A p \in o .. last : p \in Nat
        <3> HIDE DEF m, o, l
        <3>1. CASE l = None
            BY <1>1, <1>2, <3>1
        <3>2. CASE l # None
            BY <1>1, <1>2, <3>2
        <3> QED BY <3>1, <3>2
    <2>3. \A p \in T : p \in Nat
        OBVIOUS
    <2> HIDE DEF T, last
    <2> QED BY <2>1, <2>2, <2>3
<1> HIDE DEF last
<1>6. /\ IsFiniteSet(P) /\ Cardinality(P) = Cardinality(T)
      /\ {r(i) : i \in P} = T
    <2>1. T \in SUBSET (0 .. m - 1)
        OBVIOUS
    <2>2. P = {x \in M : Rank(M, x, req.desc) \in T}
        BY <1>4
    <2> HIDE DEF T, M
    <2>3. IsFiniteSet(P) /\ Cardinality(P) = Cardinality(T)
        BY <1>1, <2>1, <2>2, PlacesTaken
    <2>4. \A p \in T : \E x \in P : Rank(M, x, req.desc) = p
        <3>1. \A p \in 0 .. m - 1 : \E x \in M : Rank(M, x, req.desc) = p
            BY <1>1, RankIsPlace
        <3> HIDE DEF m
        <3> QED BY <2>1, <2>2, <3>1
    <2>5. \A x \in P : Rank(M, x, req.desc) \in T
        BY <2>2
    <2> QED BY <2>3, <2>4, <2>5
<1>7. {Cardinality(Before(MatchingIds, i)) : i \in P} = T
    <2>1. \A i : Cardinality(Before(MatchingIds, i)) = r(i)
        BY DEF Before, Rank
    <2> HIDE DEF r, T, M
    <2> QED BY <1>6, <2>1
<1>8. Cardinality(T) = IF o > last THEN 0 ELSE last - o + 1
    <2> HIDE DEF T, o
    <2> QED BY <1>2, <1>5, FS_Interval
<1>9. P # {} => o <= last
    <2>1. P # {} => T # {}
        <3> HIDE DEF r, T
        <3> QED BY <1>6
    <2> HIDE DEF T, o
    <2> QED BY <1>2, <1>5, <2>1
<1>10. P # {} => o .. last = o .. o + Cardinality(P) - 1
    <2> HIDE DEF T, o
    <2>1. P # {} => o + Cardinality(P) - 1 = last
        BY <1>2, <1>5, <1>6, <1>8, <1>9
    <2> QED BY <2>1
<1>11. P = M /\ P # {} => o = 0
    <2> SUFFICES ASSUME P = M, P # {} PROVE o = 0
        OBVIOUS
    <2>1. m # 0
        BY <1>1, FS_EmptySet
    <2>2. 0 \in 0 .. m - 1
        <3> HIDE DEF m
        <3> QED BY <1>1, <2>1
    <2>3. \E x \in M : r(x) = 0
        <3> HIDE DEF M
        <3> QED BY <1>1, <2>2, RankIsPlace
    <2>4. 0 \in T
        <3> HIDE DEF r, T
        <3> QED BY <1>6, <2>3
    <2> HIDE DEF T, o
    <2> QED BY <1>2, <1>5, <2>4
<1>12. P \in SUBSET M
    <2> HIDE DEF r, T
    <2> QED BY <1>4
<1>13. P = {} => T = {}
    <2> HIDE DEF r, T
    <2> QED BY <1>6
<1> HIDE DEF r, T, M, m, l
<1>14. {Cardinality(Before(MatchingIds, i)) : i \in P} = IF P = {} THEN {} ELSE o .. o + Cardinality(P) - 1
    BY <1>5, <1>7, <1>10, <1>13
<1> QED BY <1>6, <1>11, <1>12, <1>14 DEF M

\* The status and the Content-Range of a page that is all that is asked.
LEMMA StatusOfPage ==
    ASSUME TypeOK, AnswerInv, Answered, req.surface = "table", CountInv, PageInv
    PROVE  /\ answer.range.of = IF req.exact THEN Cardinality(MatchingIds) ELSE None
           /\ answer.status = 206 <=> req.exact /\ answer.rows # MatchingIds
           /\ {Cardinality(Before(MatchingIds, i)) : i \in answer.rows} =
                IF answer.rows = {} THEN {} ELSE answer.range.from .. answer.range.to
<1> DEFINE P == PageOf(MatchingIds, Page, req.desc)
           n == Cardinality(P)
           all == Cardinality(MatchingIds)
<1>0. Live /\ PageRead
    BY DEF Live, PageRead
<1>1. parents = OnPage(Matching) /\ total = IF req.exact THEN all ELSE None
    BY <1>0, MatchingIdsTypes DEF CountInv, PageInv, Kept
<1>2. {p.id : p \in parents} = P
    <2> HIDE DEF P
    <2>1. {p.id : p \in OnPage(Matching)} = PageOf({r.id : r \in Matching}, Page, req.desc)
        BY OnPageIds
    <2> QED BY <1>1, <2>1 DEF MatchingIds, P
<1>3. Cardinality(parents) = n
    <2>1. parents \in SUBSET OriginRows
        BY <1>1 DEF OnPage, Matching
    <2> HIDE DEF P
    <2> QED BY <1>2, <2>1, IdsOfRows
<1>4. /\ answer.status = ReadStatus(Window, n, total) /\ answer.rows = P
      /\ answer.range = ContentRange(Window, n, total)
    <2>1. answer = Told
        BY DEF AnswerInv
    <2>2. /\ answer.status = ReadStatus(Window, Cardinality(parents), total)
          /\ answer.rows = {p.id : p \in parents}
          /\ answer.range = ContentRange(Window, Cardinality(parents), total)
        BY <2>1 DEF Told
    <2> HIDE DEF P
    <2> QED BY <1>2, <1>3, <2>2
<1>5. /\ IsFiniteSet(P) /\ P \in SUBSET MatchingIds
      /\ {Cardinality(Before(MatchingIds, i)) : i \in P} =
            IF P = {} THEN {} ELSE Window.offset .. Window.offset + n - 1
      /\ P = MatchingIds /\ P # {} => Window.offset = 0
    <2> HIDE DEF P
    <2> QED BY <1>0, PagePlaces DEF P
<1>6. /\ n \in Nat /\ (n = 0 <=> P = {}) /\ all \in Nat /\ (P = MatchingIds <=> n = all)
    <2>1. IsFiniteSet(MatchingIds)
        BY MatchingIdsTypes
    <2> HIDE DEF P
    <2> QED BY <1>5, <2>1, FS_EmptySet, FS_CardinalityType, FS_Subset
<1>7. Window.offset \in Nat
    BY <1>0, PageTypes
<1> HIDE DEF P, n, all
<1>8. answer.status = 206 <=> req.exact /\ P # MatchingIds
    <2>1. CASE ~req.exact
        BY <1>1, <1>4, <2>1 DEF ReadStatus
    <2>2. CASE req.exact /\ P = MatchingIds
        BY <1>1, <1>4, <1>5, <1>6, <2>2 DEF ReadStatus
    <2>3. CASE req.exact /\ P # MatchingIds
        <3>1. total = all /\ n # all /\ total # None
            BY <1>1, <1>6, <2>3, NoneAssumption
        <3> QED BY <1>4, <2>3, <3>1 DEF ReadStatus
    <2> QED BY <2>1, <2>2, <2>3
<1>9. answer.range.of = total
    BY <1>4 DEF ContentRange
<1>10. P # {} => answer.range.from = Window.offset /\ answer.range.to = Window.offset + n - 1
    BY <1>4, <1>6 DEF ContentRange
<1> QED BY <1>1, <1>4, <1>5, <1>8, <1>9, <1>10 DEF all

\* The filter in memory keeps the rows the WHERE clause keeps, where no filter
\* meets a NULL.
LEMMA KeptIsMatching ==
    ASSUME TypeOK,
           req.surface = "table" \/ req.condition = Unconditional \/ \A i \in OriginIds : origin[i] # Null
    PROVE  Kept = Matching
<1>1. CASE req.surface = "table"
    BY <1>1 DEF Kept
<1>2. CASE req.condition = Unconditional
    <2>1. \A v : SqlKeeps(v, req.condition) /\ RowMatches(v, req.condition)
        BY <1>2 DEF Unconditional, SqlKeeps, And3, RowMatches
    <2> QED BY <2>1 DEF Kept, Matching
<1>3. CASE \A i \in OriginIds : origin[i] # Null
    <2>1. req.condition \in [filters : SUBSET Filters(Int), groups : SUBSET Groups(Int)]
        BY RequestTypes, CaseAssumption DEF Conditions
    <2>2. \A r \in OriginRows : r.ref \in Int
        <3> SUFFICES ASSUME NEW i \in OriginIds, origin[i] # Gone PROVE origin[i] \in Int
            BY DEF OriginRows
        <3>1. origin[i] \in TargetIds \cup {Null, Gone}
            BY DEF TypeOK, OriginTables
        <3>2. origin[i] \in TargetIds
            BY <1>3, <3>1
        <3>3. TargetIds \in SUBSET Nat
            BY KeyAssumption
        <3>4. origin[i] \in Nat
            BY <3>2, <3>3
        <3> QED BY <3>4
    <2>3. \A r \in OriginRows : SqlKeeps(r.ref, req.condition) <=> RowMatches(r.ref, req.condition)
        BY <2>1, <2>2, NullFreeFiltersAgree
    <2> QED BY <2>3 DEF Kept, Matching
<1> QED BY <1>1, <1>2, <1>3

\* What is told when nobody writes is what the query asks.
LEMMA QuietAnswer ==
    ASSUME TypeOK, AnswerInv, Answered, ~WholeRange, KeysMet, PageInv, NestedInv, Kept = Matching
    PROVE  AnswersQuery
<1>1. Live /\ PageRead /\ ChildrenRead /\ pc = "done"
    BY DEF Live, PageRead, ChildrenRead, AnswerInv, NoAnswer, Answered
<1>2. answer.rows = {p.id : p \in parents} /\ parents = OnPage(Matching)
    BY <1>1 DEF AnswerInv, Told, PageInv
<1>3. {p.id : p \in OnPage(Matching)} = PageOf({r.id : r \in Matching}, Page, req.desc)
    BY OnPageIds
<1>4. PageOf(MatchingIds, Page, req.desc) = RowsAsked
    BY <1>1, PageIsAsked
<1>5. answer.rows = RowsAsked
    BY <1>2, <1>3, <1>4 DEF MatchingIds
<1>6. \A i \in answer.rows : nested[i] = ChildrenAsked(i)
    BY <1>1, <1>2 DEF NestedInv
<1> QED BY <1>5, <1>6 DEF AnswersQuery

\* What the one read of all the related rows puts under a parent is what the
\* query asks.
LEMMA NestedIsAsked ==
    ASSUME TypeOK, Sound(origin, target, link), KeysMet, req.embed # "none",
           parents \in SUBSET OriginRows, NEW p \in parents, NEW S \in Nested(p),
           req.embed = "manyToMany" => links = {l \in link : l[1] \in Keys}
    PROVE  S = ChildrenAsked(p.id)
<1> DEFINE i == p.id
           group == GroupOf(OriginKey(p))
           related == {j \in req.match : <<i, j>> \in RelatedNow(req.embed, origin, target, link)}
<1>1. i \in OriginIds /\ p.ref = origin[i] /\ i \in Nat /\ i # Null /\ i # Gone
    <2>1. i \in OriginIds /\ p.ref = origin[i]
        BY DEF OriginRows
    <2>2. i \in Nat
        BY <2>1, KeyAssumption
    <2> QED BY <2>1, <2>2, NullAssumption, MarkAssumption
<1>2. /\ req.match \in SUBSET TargetIds /\ req.embed \in {"toOne", "toMany", "manyToMany"}
      /\ \A j \in TargetIds : j \in Nat /\ j # Null /\ j # Gone
      /\ link \in SUBSET (OriginIds \X TargetIds)
    <2>1. \A j \in TargetIds : j \in Nat
        BY KeyAssumption
    <2>2. \A j \in TargetIds : j # Null /\ j # Gone
        BY <2>1, NullAssumption, MarkAssumption
    <2>3. req.match \in SUBSET TargetIds /\ req.embed \in Embeds
        BY RequestTypes
    <2>4. link \in SUBSET (OriginIds \X TargetIds)
        BY DEF TypeOK, JoinTables
    <2> QED BY <2>1, <2>2, <2>3, <2>4 DEF Embeds
<1>3. \A j : TargetKey(j) = TargetColumn(j)
    BY DEF TargetKey, KeysMet
<1>4. OriginKey(p) = IF req.embed = "toOne" THEN p.ref ELSE i
    BY DEF OriginKey, KeysMet
<1>5. OriginKey(p) # Null => OriginKey(p) \in Keys
    BY DEF Keys
<1>6. group = related
    <2>1. CASE req.embed = "toOne"
        <3>1. RelatedNow(req.embed, origin, target, link) = {q \in OriginIds \X TargetIds : origin[q[1]] = q[2]}
            BY <2>1 DEF RelatedNow
        <3>2. related = {j \in req.match : origin[i] = j}
            BY <1>1, <1>2, <3>1
        <3>3. group = {j \in TargetRows : j \in Keys /\ j \in req.match /\ j = p.ref}
            BY <1>3, <1>4, <2>1 DEF GroupOf, Related, Wanted, TargetColumn
        <3>4. ASSUME NEW j \in req.match, origin[i] = j PROVE j \in TargetRows /\ j \in Keys
            <4>1. j \in TargetIds /\ j # Null
                BY <1>2
            <4>2. target[j] # Gone
                BY <1>1, <3>4, <4>1 DEF Sound
            <4>3. j \in Keys
                BY <1>1, <1>4, <1>5, <2>1, <3>4, <4>1
            <4> QED BY <4>1, <4>2, <4>3 DEF TargetRows
        <3> HIDE DEF i, group, related
        <3> QED BY <1>1, <3>2, <3>3, <3>4
    <2>2. CASE req.embed = "toMany"
        <3>1. RelatedNow(req.embed, origin, target, link) = {q \in OriginIds \X TargetIds : target[q[2]] = q[1]}
            BY <2>2 DEF RelatedNow
        <3>2. related = {j \in req.match : target[j] = i}
            BY <1>1, <1>2, <3>1
        <3>3. group = {j \in TargetRows : target[j] \in Keys /\ j \in req.match /\ target[j] = i}
            BY <1>3, <1>4, <2>2 DEF GroupOf, Related, Wanted, TargetColumn
        <3>4. i \in Keys
            BY <1>1, <1>4, <1>5, <2>2
        <3>5. \A j \in req.match : target[j] = i => j \in TargetRows
            BY <1>1, <1>2 DEF TargetRows
        <3> HIDE DEF i, group, related
        <3> QED BY <3>2, <3>3, <3>4, <3>5
    <2>3. CASE req.embed = "manyToMany"
        <3>1. RelatedNow(req.embed, origin, target, link) = link
            BY <2>3 DEF RelatedNow
        <3>2. related = {j \in req.match : <<i, j>> \in link}
            BY <3>1
        <3>3. group = {j \in TargetRows : /\ \E l \in links : l[2] = j
                                          /\ j \in req.match /\ <<i, j>> \in links}
            BY <1>3, <1>4, <2>3 DEF GroupOf, Related, Wanted, TargetColumn
        <3>4. i \in Keys
            BY <1>1, <1>4, <1>5, <2>3
        <3>5. \A j : <<i, j>> \in links <=> <<i, j>> \in link
            BY <2>3, <3>4
        <3>6. \A j \in req.match : <<i, j>> \in link => j \in TargetRows
            <4> SUFFICES ASSUME NEW j \in req.match, <<i, j>> \in link PROVE j \in TargetRows
                OBVIOUS
            <4>1. target[<<i, j>>[2]] # Gone
                BY DEF Sound
            <4> QED BY <1>2, <4>1 DEF TargetRows
        <3>7. \A j : <<i, j>> \in links => \E l \in links : l[2] = j
            <4> SUFFICES ASSUME NEW j, <<i, j>> \in links PROVE \E l \in links : l[2] = j
                OBVIOUS
            <4>1. <<i, j>>[2] = j
                OBVIOUS
            <4> QED BY <4>1
        <3> HIDE DEF i, group, related
        <3> QED BY <3>2, <3>3, <3>5, <3>6, <3>7
    <2> QED BY <1>2, <2>1, <2>2, <2>3
<1>7. CASE req.embed = "toOne"
    <2>1. \A j \in group : j = p.ref
        BY <1>3, <1>4, <1>7 DEF GroupOf, TargetColumn
    <2>2. S \in IF group = {} THEN {{}} ELSE {{j} : j \in group}
        BY <1>7 DEF Nested
    <2>3. ChildrenAsked(i) = related
        BY <1>7 DEF ChildrenAsked
    <2> HIDE DEF i, group, related
    <2>4. S = group
        BY <2>1, <2>2
    <2> QED BY <1>6, <2>3, <2>4 DEF i
<1>8. CASE req.embed # "toOne"
    <2>1. S = Paged(group)
        BY <1>8 DEF Nested
    <2>2. ChildrenAsked(i) = Paged(related)
        BY <1>8 DEF ChildrenAsked
    <2> HIDE DEF group, related
    <2> QED BY <1>6, <2>1, <2>2
<1> QED BY <1>7, <1>8

\* And so is what the read of one aggregate does.
LEMMA AggregateIsAsked ==
    ASSUME TypeOK, Sound(origin, target, link), KeysMet, req.embed = "manyToMany",
           parents \in SUBSET OriginRows, NEW p \in parents,
           links = {l \in link : l[1] \in Keys}
    PROVE  Paged({j \in TargetRows : <<OriginKey(p), j>> \in links /\ j \in req.match})
           = ChildrenAsked(p.id)
<1> DEFINE i == p.id
           group == {j \in TargetRows : <<OriginKey(p), j>> \in links /\ j \in req.match}
           related == {j \in req.match : <<i, j>> \in RelatedNow(req.embed, origin, target, link)}
<1>1. i \in Nat /\ i # Null
    <2>1. i \in OriginIds
        BY DEF OriginRows
    <2>2. i \in Nat
        BY <2>1, KeyAssumption
    <2> QED BY <2>2, NullAssumption
<1>2. OriginKey(p) = i
    BY DEF OriginKey, KeysMet
<1>3. i \in Keys
    BY <1>1, <1>2 DEF Keys
<1>4. \A j : <<i, j>> \in links <=> <<i, j>> \in link
    BY <1>3
<1>5. related = {j \in req.match : <<i, j>> \in link}
    BY DEF RelatedNow
<1>6. \A j \in req.match : <<i, j>> \in link => j \in TargetRows
    <2> SUFFICES ASSUME NEW j \in req.match, <<i, j>> \in link PROVE j \in TargetRows
        OBVIOUS
    <2>1. target[<<i, j>>[2]] # Gone
        BY DEF Sound
    <2>2. j \in TargetIds
        BY RequestTypes
    <2> QED BY <2>1, <2>2 DEF TargetRows
<1>7. group = related
    <2>1. group = {j \in TargetRows : <<i, j>> \in links /\ j \in req.match}
        BY <1>2
    <2> HIDE DEF i, group, related
    <2> QED BY <1>4, <1>5, <1>6, <2>1
<1>8. ChildrenAsked(i) = Paged(related)
    BY DEF ChildrenAsked
<1> HIDE DEF group, related
<1> QED BY <1>7, <1>8 DEF group

\* No children are asked for where nothing is embedded.
LEMMA NoneAsked ==
    ASSUME req.embed = "none", NEW i
    PROVE  ChildrenAsked(i) = {}
<1>1. RelatedNow(req.embed, origin, target, link) = {}
    BY DEF RelatedNow
<1>2. Paged({}) = {}
    BY NestedTypes
<1> QED BY <1>1, <1>2 DEF ChildrenAsked

\* A step of the request changes neither the request nor the tables.
LEMMA SameQuery ==
    ASSUME UNCHANGED <<req, tables>>
    PROVE  /\ Window' = Window /\ (Bounded' <=> Bounded) /\ (KeysMet' <=> KeysMet)
           /\ Matching' = Matching /\ Kept' = Kept
           /\ Sound(origin, target, link)' <=> Sound(origin, target, link)
           /\ OnPage(Kept)' = OnPage(Kept)
           /\ \A i : ChildrenAsked(i)' = ChildrenAsked(i)
<1>1. Window' = Window /\ (Bounded' <=> Bounded) /\ (KeysMet' <=> KeysMet)
    BY DEF Window, Bounded, KeysMet
<1>2. OriginRows' = OriginRows
    BY DEF OriginRows, tables
<1>3. Matching' = Matching /\ Kept' = Kept
    BY <1>2 DEF Matching, Kept
<1>4. Sound(origin, target, link)' <=> Sound(origin, target, link)
    BY DEF tables
<1>5. Page' = Page
    BY <1>1 DEF Page
<1>6. OnPage(Kept)' = OnPage(Kept)
    BY <1>3, <1>5 DEF OnPage
<1>7. \A i : ChildrenAsked(i)' = ChildrenAsked(i)
    BY DEF ChildrenAsked, Paged, tables
<1> QED BY <1>1, <1>3, <1>4, <1>6, <1>7

\* The initial states: nothing is read, nothing is told.
LEMMA InitRead == Init => AnswerInv /\ QuietInv
<1> SUFFICES ASSUME Init PROVE AnswerInv /\ QuietInv
    OBVIOUS
<1>1. /\ pc = "new" /\ total = None /\ parents = {} /\ nested = Bare /\ answer = NoAnswer
      /\ Sound(origin, target, link)
    BY CaseAssumption DEF Init
<1>2. ~Answered /\ ~Live /\ ~PageRead /\ ~ChildrenRead
    BY <1>1 DEF Answered, NoAnswer, Live, PageRead, ChildrenRead
<1> QED BY <1>1, <1>2 DEF AnswerInv, QuietInv, CountInv, PageInv, LinksInv, NestedInv

ReadStep == Parse \/ Count \/ SelectRows \/ ShapeRows \/ ReadLinks \/ ReadRelated
            \/ (\E p \in parents : ReadAggregate(p)) \/ AggregatesRead \/ Respond \/ Fail

\* A step of the request changes neither it nor the tables, and starts before
\* the answer is given.
LEMMA OwnStep ==
    ASSUME ReadStep
    PROVE  UNCHANGED <<req, tables, writes>> /\ pc # "done"
BY DEF ReadStep, Parse, Count, SelectRows, ShapeRows, ReadLinks, ReadRelated, ReadAggregate,
       AggregatesRead, Respond, Fail

\* Only Respond answers with rows.
LEMMA AnswerGiven ==
    ASSUME AnswerInv, ReadStep
    PROVE  /\ pc' # "done" => answer' = NoAnswer
           /\ Answered' => Respond /\ pc' = "done"
<1>0. pc # "done" /\ answer = NoAnswer
    BY OwnStep DEF AnswerInv
<1> DEFINE Refused == \E s \in {400, 416, 500} : answer' = Refusal(s) /\ pc' = "done"
<1>1. answer' = NoAnswer \/ Refused \/ (Respond /\ pc' = "done")
    <2>1. CASE Parse
        <3>1. CASE Bounded /\ Unsatisfiable(req.window, req.range)
            <4>1. answer' = Refusal(416) /\ pc' = "done"
                BY <2>1, <3>1 DEF Parse
            <4> QED BY <4>1
        <3>2. CASE ~(Bounded /\ Unsatisfiable(req.window, req.range))
            BY <1>0, <2>1, <3>2 DEF Parse
        <3> QED BY <3>1, <3>2
    <2>2. CASE ReadLinks
        <3>1. CASE ~req.joinReadable
            <4>1. answer' = Refusal(400) /\ pc' = "done"
                BY <2>2, <3>1 DEF ReadLinks
            <4> QED BY <4>1
        <3>2. CASE req.joinReadable
            BY <1>0, <2>2, <3>2 DEF ReadLinks
        <3> QED BY <3>1, <3>2
    <2>3. CASE Fail
        <3>1. answer' = Refusal(500) /\ pc' = "done"
            BY <2>3 DEF Fail
        <3> QED BY <3>1
    <2>4. CASE Respond
        BY <2>4 DEF Respond
    <2>5. CASE Count \/ SelectRows \/ ShapeRows \/ ReadRelated
               \/ (\E p \in parents : ReadAggregate(p)) \/ AggregatesRead
        <3>1. answer' = answer
            BY <2>5 DEF Count, SelectRows, ShapeRows, ReadRelated, ReadAggregate, AggregatesRead
        <3> QED BY <1>0, <3>1
    <2> QED BY <2>1, <2>2, <2>3, <2>4, <2>5 DEF ReadStep
<1>2. answer' = NoAnswer => ~Answered'
    BY DEF Answered, NoAnswer
<1>3. \A s \in {400, 416, 500} : answer' = Refusal(s) => ~Answered'
    BY DEF Answered, Refusal
<1>4. pc' # "done" => answer' = NoAnswer
    BY <1>1
<1> QED BY <1>1, <1>2, <1>3, <1>4

LEMMA AnswerStep == TypeOK /\ AnswerInv /\ [Next]_vars => AnswerInv'
<1> SUFFICES ASSUME TypeOK, AnswerInv, [Next]_vars PROVE AnswerInv'
    OBVIOUS
<1>1. CASE ReadStep
    <2>1. UNCHANGED <<req, tables>> /\ pc # "done"
        BY <1>1, OwnStep
    <2>2. Sound(origin, target, link)'
        BY <2>1, SameQuery DEF AnswerInv
    <2>3. (pc' # "done" => answer' = NoAnswer) /\ (Answered' => Respond /\ pc' = "done")
        BY <1>1, AnswerGiven
    <2>4. ASSUME Live' PROVE Window' \in Windows /\ ~(Bounded /\ Unsatisfiable(req.window, req.range))'
        <3>1. CASE pc # "new"
            <4>1. Live
                BY <2>1, <3>1 DEF Live
            <4>2. Window' = Window /\ (Bounded' <=> Bounded) /\ req' = req
                BY <2>1, SameQuery
            <4> QED BY <4>1, <4>2 DEF AnswerInv
        <3>2. CASE pc = "new"
            <4>1. Parse /\ ~Respond
                BY <1>1, <3>2 DEF ReadStep, Parse, Count, SelectRows, ShapeRows, ReadLinks,
                    ReadRelated, ReadAggregate, AggregatesRead, Respond, Fail
            <4>2. pc' # "done"
                BY <2>3, <2>4, <4>1 DEF Live
            <4>3. ~(Bounded /\ Unsatisfiable(req.window, req.range))
                BY <4>1, <4>2 DEF Parse
            <4>4. Window \in Windows
                BY <4>3, WindowTypes DEF TypeOK
            <4>5. Window' = Window /\ (Bounded' <=> Bounded) /\ req' = req
                BY <2>1, SameQuery
            <4> QED BY <4>3, <4>4, <4>5
        <3> QED BY <3>1, <3>2
    <2>5. ASSUME Answered' PROVE answer' = Told'
        <3>1. Respond /\ pc' = "done"
            BY <2>3, <2>5
        <3>2. Window' = Window /\ parents' = parents /\ total' = total
            BY <2>1, <3>1, SameQuery DEF Respond
        <3>3. Told' = Told
            BY <3>2 DEF Told
        <3>4. answer' # Refusal(406)
            BY <2>5 DEF Answered, Refusal
        <3>5. answer' = Told
            BY <3>1, <3>4 DEF Respond, Told
        <3> QED BY <3>3, <3>5
    <2> QED BY <2>2, <2>3, <2>4, <2>5 DEF AnswerInv
<1>2. CASE Write
    <2>1. UNCHANGED readVars /\ pc \notin {"new", "done"} /\ Sound(origin', target', link')
        BY <1>2 DEF Write
    <2>2. answer' = answer /\ pc' = pc /\ req' = req /\ ~Answered
        BY <2>1 DEF readVars, AnswerInv, Answered, NoAnswer
    <2>3. Window' = Window /\ (Bounded' <=> Bounded)
        BY <2>2 DEF Window, Bounded
    <2> QED BY <2>1, <2>2, <2>3 DEF AnswerInv, Live, Answered
<1>3. CASE UNCHANGED vars
    <2>1. UNCHANGED <<req, tables, pc, answer, parents, total>>
        BY <1>3 DEF vars, readVars
    <2>2. /\ Window' = Window /\ (Bounded' <=> Bounded)
          /\ Sound(origin, target, link)' <=> Sound(origin, target, link)
        BY <2>1, SameQuery
    <2> QED BY <2>1, <2>2 DEF AnswerInv, Live, Answered, Told
<1> QED BY <1>1, <1>2, <1>3 DEF Next, ReadStep, Done

\* What the next step goes to after the rows are read.
LEMMA AfterPage ==
    ASSUME TypeOK, QuietInv, Quiet, pc = "select", UNCHANGED <<req, tables, nested, links, pending>>,
           parents' = OnPage(Kept), pc' = AfterRows(parents'), answer' = NoAnswer
    PROVE  PageInv' /\ LinksInv' /\ NestedInv'
<1>1. pc' \in {"respond", "links", "related"} /\ (pc' = "related" => req.embed # "manyToMany")
      /\ (pc' = "respond" => parents' = {} \/ req.embed = "none")
    BY DEF AfterRows
<1>2. nested = Bare /\ OnPage(Kept)' = OnPage(Kept) /\ ~Answered'
      /\ \A i : ChildrenAsked(i)' = ChildrenAsked(i)
    BY SameQuery DEF QuietInv, NestedInv, Answered, NoAnswer
<1>3. PageInv'
    BY <1>2 DEF PageInv
<1>4. LinksInv'
    BY <1>1 DEF LinksInv
<1>5. \A p \in parents' : p.id \in OriginIds
    BY DEF OnPage, Kept, Matching, OriginRows
<1>6. ASSUME pc' = "respond", NEW p \in parents' PROVE nested'[p.id] = ChildrenAsked(p.id)'
    <2>1. req.embed = "none"
        BY <1>1, <1>6
    <2>2. ChildrenAsked(p.id) = {}
        BY <2>1, NoneAsked
    <2> QED BY <1>2, <1>5, <2>2 DEF Bare
<1>7. NestedInv'
    BY <1>1, <1>2, <1>6 DEF NestedInv, ChildrenRead
<1> QED BY <1>3, <1>4, <1>7

\* While nobody writes, every step keeps what has been read true.
LEMMA QuietStep == IInv /\ AnswerInv /\ QuietInv /\ [Next]_vars => QuietInv'
<1> SUFFICES ASSUME IInv, AnswerInv, QuietInv, [Next]_vars, Quiet'
             PROVE  CountInv' /\ PageInv' /\ LinksInv' /\ NestedInv'
    BY DEF QuietInv
<1>0. TypeOK /\ Sound(origin, target, link)
    BY DEF IInv, AnswerInv
<1>1. CASE ReadStep
    <2>1. UNCHANGED <<req, tables>> /\ pc # "done" /\ Quiet
        BY <1>1, OwnStep DEF Quiet
    <2>2. CountInv /\ PageInv /\ LinksInv /\ NestedInv /\ answer = NoAnswer /\ ~Answered
        BY <2>1 DEF QuietInv, AnswerInv, Answered, NoAnswer
    <2>3. (pc' # "done" => answer' = NoAnswer /\ ~Answered') /\ (Answered' => Respond /\ pc' = "done")
        BY <1>1, AnswerGiven DEF Answered, NoAnswer
    <2>4. /\ (KeysMet' <=> KeysMet) /\ Matching' = Matching /\ Kept' = Kept
          /\ OnPage(Kept)' = OnPage(Kept) /\ \A i : ChildrenAsked(i)' = ChildrenAsked(i)
        BY <2>1, SameQuery
    <2>5. ASSUME UNCHANGED <<parents, total, links, nested, pending>>, ~Answered', pc' = "done"
          PROVE  CountInv' /\ PageInv' /\ LinksInv' /\ NestedInv'
        BY <2>5 DEF CountInv, PageInv, LinksInv, NestedInv, PageRead, ChildrenRead
    <2>6. CASE Parse
        <3>1. ~Respond
            BY <2>6 DEF Parse, Respond
        <3>2. UNCHANGED <<parents, total, links, nested, pending>> /\ pc = "new"
            BY <2>6 DEF Parse
        <3>3. CASE pc' = "done"
            BY <2>3, <2>5, <3>1, <3>2, <3>3
        <3>4. CASE pc' # "done"
            <4>1. pc' = IF req.exact /\ req.surface = "table" THEN "count" ELSE "select"
                BY <2>6, <3>4 DEF Parse
            <4> QED BY <2>1, <2>2, <2>3, <3>2, <3>4, <4>1
                DEF CountInv, PageInv, LinksInv, NestedInv, PageRead, ChildrenRead
        <3> QED BY <3>3, <3>4
    <2>7. CASE Count
        <3>1. UNCHANGED <<parents, links, nested, pending>> /\ pc = "count" /\ pc' = "select"
              /\ total' = Cardinality(Matching)
            BY <2>7 DEF Count
        <3> QED BY <2>1, <2>2, <2>3, <2>4, <3>1
            DEF CountInv, PageInv, LinksInv, NestedInv, PageRead, ChildrenRead
    <2>8. CASE SelectRows
        <3>1. /\ UNCHANGED <<total, links, nested, pending>> /\ pc = "select"
              /\ req.surface = "table" /\ parents' = OnPage(Matching) /\ pc' = AfterRows(parents')
            BY <2>8 DEF SelectRows
        <3>2. pc' \in {"respond", "links", "related"}
            BY <3>1 DEF AfterRows
        <3>3. parents' = OnPage(Kept)
            BY <3>1 DEF Kept
        <3>4. PageInv' /\ LinksInv' /\ NestedInv'
            BY <1>0, <2>1, <2>3, <3>1, <3>2, <3>3, AfterPage
        <3> QED BY <2>1, <2>2, <2>4, <3>1, <3>2, <3>4 DEF CountInv
    <2>9. CASE ShapeRows
        <3>1. /\ UNCHANGED <<links, nested, pending>> /\ pc = "select" /\ req.surface = "rowset"
              /\ parents' = OnPage({r \in OriginRows : RowMatches(r.ref, req.condition)})
              /\ pc' = AfterRows(parents')
            BY <2>9 DEF ShapeRows
        <3>2. pc' \in {"respond", "links", "related"}
            BY <3>1 DEF AfterRows
        <3>3. parents' = OnPage(Kept)
            BY <3>1 DEF Kept
        <3>4. PageInv' /\ LinksInv' /\ NestedInv'
            BY <1>0, <2>1, <2>3, <3>1, <3>2, <3>3, AfterPage
        <3> QED BY <2>1, <3>1, <3>4 DEF CountInv
    <2>10. CASE ReadLinks
        <3>1. UNCHANGED <<parents, total, nested>> /\ pc = "links" /\ req.embed = "manyToMany"
            BY <2>10 DEF ReadLinks, IInv, HistoryOK, LinksWereRelated
        <3>2. CASE ~req.joinReadable
            <4>1. pc' = "done" /\ UNCHANGED <<links, pending>> /\ ~Respond
                BY <2>10, <3>2 DEF ReadLinks, Respond
            <4> QED BY <2>3, <2>5, <3>1, <4>1
        <3>3. CASE req.joinReadable
            <4>1. /\ links' = {l \in link : l[1] \in Keys}
                  /\ pending' = IF req.aggregate THEN {p.id : p \in parents} ELSE {}
                  /\ pc' = IF req.aggregate THEN "each" ELSE "related"
                BY <2>10, <3>3 DEF ReadLinks
            <4>2. Keys' = Keys /\ link' = link
                BY <2>1, <3>1 DEF Keys, OriginKey, tables
            <4>3. LinksInv'
                BY <2>1, <4>1, <4>2 DEF LinksInv
            <4>4. CountInv' /\ PageInv'
                BY <2>1, <2>2, <2>4, <3>1, <4>1 DEF CountInv, PageInv, PageRead
            <4>5. NestedInv'
                BY <2>2, <2>3, <3>1, <4>1 DEF NestedInv, ChildrenRead
            <4> QED BY <4>3, <4>4, <4>5
        <3> QED BY <3>2, <3>3
    <2>11. CASE ReadRelated
        <3>1. UNCHANGED <<parents, total, links>> /\ pc = "related" /\ pc' = "respond"
            BY <2>11 DEF ReadRelated
        <3>2. parents = OnPage(Kept) /\ parents \in SUBSET OriginRows
            BY <2>2, <3>1 DEF PageInv, PageRead, OnPage, Kept, Matching
        <3>3. req.embed # "none" /\ (req.embed = "manyToMany" => links = {l \in link : l[1] \in Keys})
            BY <2>2, <3>1 DEF LinksInv, IInv, HistoryOK, LinksWereRelated
        <3>4. ASSUME KeysMet, NEW p \in parents PROVE nested'[p.id] = ChildrenAsked(p.id)
            <4>1. p.id \in OriginIds
                BY <3>2 DEF OriginRows
            <4>2. PICK q \in parents : q.id = p.id /\ nested'[p.id] \in Nested(q)
                BY <2>11, <4>1 DEF ReadRelated
            <4>3. nested'[p.id] = ChildrenAsked(q.id)
                BY <1>0, <3>2, <3>3, <3>4, <4>2, NestedIsAsked
            <4> QED BY <4>2, <4>3
        <3>5. CountInv' /\ PageInv' /\ LinksInv'
            BY <2>1, <2>2, <2>4, <3>1 DEF CountInv, PageInv, LinksInv, PageRead
        <3>6. NestedInv'
            BY <2>4, <3>1, <3>4 DEF NestedInv
        <3> QED BY <3>5, <3>6
    <2>12. CASE \E p \in parents : ReadAggregate(p)
        <3> PICK p \in parents : ReadAggregate(p)
            BY <2>12
        <3> DEFINE group == {j \in TargetRows : <<OriginKey(p), j>> \in links /\ j \in req.match}
        <3>1. /\ UNCHANGED <<pc, parents, total, links>> /\ pc = "each" /\ pending' = pending \ {p.id}
              /\ nested' = [nested EXCEPT ![p.id] = Paged(group)]
            BY DEF ReadAggregate
        <3>2. parents \in SUBSET OriginRows
            BY <2>2, <3>1 DEF PageInv, PageRead, OnPage, Kept, Matching
        <3>3. req.embed = "manyToMany" /\ links = {l \in link : l[1] \in Keys}
            BY <2>2, <3>1 DEF LinksInv, IInv, HistoryOK, LinksWereRelated
        <3>4. KeysMet => Paged(group) = ChildrenAsked(p.id)
            BY <1>0, <3>2, <3>3, AggregateIsAsked
        <3> HIDE DEF group
        <3>5. ASSUME KeysMet, NEW q \in parents
              PROVE  q.id \in pending' \/ nested'[q.id] = ChildrenAsked(q.id)
            <4>1. q.id \in OriginIds
                BY <3>2 DEF OriginRows
            <4>2. CASE q.id = p.id
                BY <1>0, <3>1, <3>4, <3>5, <4>1, <4>2 DEF TypeOK
            <4>3. CASE q.id # p.id
                <5>1. nested'[q.id] = nested[q.id] /\ (q.id \in pending' <=> q.id \in pending)
                    BY <1>0, <3>1, <4>1, <4>3 DEF TypeOK
                <5> QED BY <2>2, <3>1, <3>5, <5>1 DEF NestedInv
            <4> QED BY <4>2, <4>3
        <3>6. Keys' = Keys /\ link' = link
            BY <2>1, <3>1 DEF Keys, OriginKey, tables
        <3>7. CountInv' /\ PageInv' /\ LinksInv'
            BY <2>1, <2>2, <2>4, <3>1, <3>6 DEF CountInv, PageInv, LinksInv, PageRead
        <3>8. NestedInv'
            BY <2>3, <2>4, <3>1, <3>5 DEF NestedInv, ChildrenRead
        <3> QED BY <3>7, <3>8
    <2>13. CASE AggregatesRead
        <3>1. UNCHANGED <<parents, total, links, pending, nested>> /\ pc = "each" /\ pc' = "respond"
              /\ pending = {}
            BY <2>13 DEF AggregatesRead
        <3>2. KeysMet => \A p \in parents : nested[p.id] = ChildrenAsked(p.id)
            BY <2>2, <3>1 DEF NestedInv
        <3> QED BY <2>1, <2>2, <2>4, <3>1, <3>2 DEF CountInv, PageInv, LinksInv, NestedInv, PageRead
    <2>14. CASE Respond
        <3>1. UNCHANGED <<parents, total, links, pending, nested>> /\ pc = "respond" /\ pc' = "done"
            BY <2>14 DEF Respond
        <3>2. KeysMet => \A p \in parents : nested[p.id] = ChildrenAsked(p.id)
            BY <2>2, <3>1 DEF NestedInv, ChildrenRead
        <3> QED BY <2>1, <2>2, <2>4, <3>1, <3>2 DEF CountInv, PageInv, LinksInv, NestedInv, PageRead
    <2>15. CASE Fail
        <3>1. UNCHANGED <<parents, total, links, pending, nested>> /\ pc' = "done" /\ pc # "respond"
            BY <2>15 DEF Fail
        <3> QED BY <2>3, <2>5, <3>1 DEF Respond
    <2> QED BY <1>1, <2>6, <2>7, <2>8, <2>9, <2>10, <2>11, <2>12, <2>13, <2>14, <2>15 DEF ReadStep
<1>2. CASE Write
    <2>1. writes' = writes + 1 /\ writes \in Nat
        BY <1>0, <1>2, MarkAssumption DEF Write, TypeOK
    <2> QED BY <2>1 DEF Quiet
<1>3. CASE UNCHANGED vars
    <2>1. UNCHANGED <<req, tables>> /\ UNCHANGED <<pc, answer, parents, total, links, pending, nested>>
          /\ Quiet
        BY <1>3 DEF vars, readVars, Quiet
    <2>2. /\ (KeysMet' <=> KeysMet) /\ Matching' = Matching /\ Kept' = Kept
          /\ OnPage(Kept)' = OnPage(Kept) /\ \A i : ChildrenAsked(i)' = ChildrenAsked(i)
        BY <2>1, SameQuery
    <2>3. Keys' = Keys /\ link' = link
        BY <2>1 DEF Keys, OriginKey, tables
    <2>4. CountInv /\ PageInv /\ LinksInv /\ NestedInv
        BY <2>1 DEF QuietInv
    <2>5. (PageRead' <=> PageRead) /\ (ChildrenRead' <=> ChildrenRead)
        BY <2>1 DEF PageRead, ChildrenRead, Answered
    <2> QED BY <2>1, <2>2, <2>3, <2>4, <2>5 DEF CountInv, PageInv, LinksInv, NestedInv
<1> QED BY <1>1, <1>2, <1>3 DEF Next, ReadStep, Done

\* What is known of a read in every reachable state.
LEMMA ReadCorrect == Spec => [](TypeOK /\ AnswerInv /\ QuietInv)
<1>1. Init => IInv /\ AnswerInv /\ QuietInv
    BY InitTypes, InitHistory, InitRead DEF IInv
<1>2. IInv /\ AnswerInv /\ QuietInv /\ [Next]_vars => (IInv /\ AnswerInv /\ QuietInv)'
    BY StepTypes, StepHistory, AnswerStep, QuietStep DEF IInv
<1>3. IInv => TypeOK
    BY DEF IInv
<1> QED BY <1>1, <1>2, <1>3, PTL DEF Spec

\* When nobody writes during the request, a table read answers with the rows
\* the query asks for, each with its related rows, though it takes several
\* statements to do so.
THEOREM QuietReadAnswers == Spec => []QuietReadIsJoin
<1>1. TypeOK /\ AnswerInv /\ QuietInv => QuietReadIsJoin
    <2> SUFFICES ASSUME TypeOK, AnswerInv, QuietInv, Quiet, Answered, req.surface = "table",
                        KeysKept, ~WholeRange
                 PROVE  AnswersQuery
        BY DEF QuietReadIsJoin
    <2> QED BY KeptIsMatching, QuietAnswer DEF QuietInv, KeysMet, KeysKept
<1> QED BY <1>1, ReadCorrect, PTL

\* A row set of a routine is read as the same rows in a table would be, as long
\* as no filter meets a NULL.
THEOREM RowSetAnswers == Spec => []RowSetReadsLikeTable
<1>1. TypeOK /\ AnswerInv /\ QuietInv => RowSetReadsLikeTable
    <2> SUFFICES ASSUME TypeOK, AnswerInv, QuietInv, Quiet, Answered, req.surface = "rowset",
                        ~req.aliasTarget, ~WholeRange,
                        req.condition = Unconditional \/ \A i \in OriginIds : origin[i] # Null
                 PROVE  AnswersQuery
        BY DEF RowSetReadsLikeTable
    <2> QED BY KeptIsMatching, QuietAnswer DEF QuietInv, KeysMet
<1> QED BY <1>1, ReadCorrect, PTL

\* The status says whether rows were left out, and Content-Range names their
\* places and counts the matching rows.
THEOREM StatusTells == Spec => []StatusTellsWhole
<1>1. TypeOK /\ AnswerInv /\ QuietInv => StatusTellsWhole
    <2> SUFFICES ASSUME TypeOK, AnswerInv, QuietInv, Quiet, Answered, req.surface = "table"
                 PROVE  /\ answer.range.of = IF req.exact THEN Cardinality(MatchingIds) ELSE None
                        /\ answer.status = 206 <=> req.exact /\ answer.rows # MatchingIds
                        /\ {Cardinality(Before(MatchingIds, i)) : i \in answer.rows} =
                             IF answer.rows = {} THEN {} ELSE answer.range.from .. answer.range.to
        BY DEF StatusTellsWhole
    <2> QED BY StatusOfPage DEF QuietInv
<1> QED BY <1>1, ReadCorrect, PTL

=============================================================================
