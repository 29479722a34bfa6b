---------------------------- MODULE MCTableRead ----------------------------
(* Small instances of TableRead for TLC: three origin rows, two target rows, *)
(* three-bit words.                                                          *)
EXTENDS TableRead

Whole == [offset |-> 0, limit |-> None]

\* GET of all the rows of the table.
Plain == [surface |-> "table", head |-> FALSE, singular |-> FALSE, range |-> None,
          window |-> Whole, maxRows |-> None, exact |-> FALSE, desc |-> FALSE,
          condition |-> Unconditional, embed |-> "none", match |-> TargetIds, child |-> Whole,
          aggregate |-> FALSE, joinReadable |-> TRUE,
          aliasOrigin |-> FALSE, aliasTarget |-> FALSE]

Case(r, o, t, l) == [req |-> r, origin |-> o, target |-> t, link |-> l]
NoOwner == [j \in TargetIds |-> Null]
NoRef == [i \in OriginIds |-> Null]

\* Windows, Range headers and caps.
PageWindows == [offset : {0, 1, 3, Top}, limit : {None, 0, 1, 2, Top}]
PageRanges == [first : {0, 1, 2, Top}, last : {None, 0, 1, Top}] \cup {None}
PageRequests ==
    {[Plain EXCEPT !.window = w, !.range = r, !.maxRows = m, !.exact = e] :
        w \in PageWindows, r \in PageRanges, m \in {None, 2}, e \in BOOLEAN}
    \cup {[Plain EXCEPT !.window = [offset |-> 1, limit |-> None], !.head = h, !.exact = TRUE,
                        !.surface = s, !.range = [first |-> 0, last |-> 0], !.desc = d,
                        !.singular = one] :
            h \in BOOLEAN, d \in BOOLEAN, one \in BOOLEAN, s \in {"table", "rowset"}}
PageOrigins == {NoRef, [NoRef EXCEPT ![1] = Gone]}
PageCases == {Case(r, o, NoOwner, {}) : r \in PageRequests, o \in PageOrigins}

\* Filters and groups, over columns with and without NULL.
Single(f) == [filters |-> {f}, groups |-> {}]
Eq(v, neg) == [op |-> "eq", value |-> v, negated |-> neg]
IsNull == [op |-> "is", value |-> "null", negated |-> FALSE]
Group(or, neg, fs, gs) == [or |-> or, negated |-> neg, filters |-> fs, groups |-> gs]
Inner(or, neg, fs) == [or |-> or, negated |-> neg, filters |-> fs]
GroupConditions ==
    {[filters |-> fs, groups |-> {Group(or, neg, {Eq(1, FALSE)}, gs)}] :
        fs \in {{}, {Eq(2, TRUE)}}, or \in BOOLEAN, neg \in BOOLEAN,
        gs \in {{}} \cup {{Inner(o, n, {Eq(2, FALSE), IsNull})} : o \in BOOLEAN, n \in BOOLEAN}}
FilterConditions == {Single(f) : f \in Filters(TargetIds)} \cup GroupConditions
FilterOrigins == {o \in OriginTables : o[3] = Gone /\ o[2] # Gone}
FilterCases ==
    {Case([Plain EXCEPT !.condition = c, !.surface = s, !.exact = TRUE, !.desc = (s = "rowset")],
          o, NoOwner, {}) :
        c \in FilterConditions, s \in {"table", "rowset"}, o \in FilterOrigins}

\* Embeds, over every way the rows may be related.
EmbedRequests(kind) ==
    {[Plain EXCEPT !.embed = kind, !.aggregate = a, !.match = m, !.child = c, !.surface = s,
                   !.window.limit = 2, !.desc = (c.limit = 1)] :
        a \in BOOLEAN, m \in {TargetIds, {1}}, s \in {"table", "rowset"},
        c \in {Whole, [offset |-> 0, limit |-> 1], [offset |-> 1, limit |-> None],
               [offset |-> 0, limit |-> 0]}}
EmbedTables(kind) ==
    {c \in [origin : {o \in OriginTables : o[3] = Gone /\ o[2] # Gone},
            target : TargetTables, link : SUBSET ({1, 2} \X TargetIds)] :
        /\ Sound(c.origin, c.target, c.link)
        /\ kind # "toOne" => \A i \in OriginIds : c.origin[i] \notin TargetIds
        /\ kind # "toMany" => \A j \in TargetIds : c.target[j] \notin OriginIds
        /\ kind # "manyToMany" => c.link = {}}
EmbedCases ==
    UNION {{Case(r, c.origin, c.target, c.link) :
                r \in EmbedRequests(kind), c \in EmbedTables(kind)} :
           kind \in {"toOne", "toMany", "manyToMany"}}
    \cup {Case([Plain EXCEPT !.embed = "manyToMany", !.joinReadable = FALSE], o, NoOwner, {}) :
            o \in {NoRef, [i \in OriginIds |-> Gone]}}

MCCases == PageCases \cup FilterCases \cup EmbedCases

\* An embed whose select gives the key column of the target another name.
MCAliasCases ==
    {Case([Plain EXCEPT !.embed = "toOne", !.aliasOrigin = a, !.aliasTarget = TRUE],
          o, NoOwner, {}) : a \in BOOLEAN, o \in [OriginIds -> {1, 2, Null}]}
=============================================================================
