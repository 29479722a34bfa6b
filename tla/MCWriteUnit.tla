---------------------------- MODULE MCWriteUnit ----------------------------
(* Small instances of WriteUnit for TLC. *)
EXTENDS WriteUnit, TLC

CONSTANTS u1, u2, a, b

MCSymmetry == Permutations(Units)

Row(k, v) == [key |-> k, val |-> v]

\* A request with nothing special about it.
Plain == [action |-> "insert", rows |-> <<>>, match |-> {}, patch |-> Row(None, a),
          filtered |-> TRUE, allRows |-> FALSE, strict |-> FALSE, invalid |-> FALSE,
          max |-> None, return |-> "minimal", resolution |-> "none", canSelect |-> TRUE,
          singular |-> FALSE, unknown |-> FALSE, embed |-> FALSE, tx |-> ""]

Post(rows, return, resolution) ==
    [Plain EXCEPT !.rows = rows, !.return = return, !.resolution = resolution]
Patch(match, patch) == [Plain EXCEPT !.action = "update", !.match = match, !.patch = patch]
DeleteOf(match) == [Plain EXCEPT !.action = "delete", !.match = match]
Put(k, v, resolution) ==
    [Plain EXCEPT !.action = "upsert", !.rows = <<Row(k, v)>>, !.resolution = resolution]
Represented(req) == [req EXCEPT !.return = "representation"]
AtMost(req, n) == [req EXCEPT !.strict = TRUE, !.max = n]

Posts ==
    {Post(<<Row(None, a), Row(1, a), Row(None, b)>>, "representation", "none"),
     Post(<<Row(None, a), Row(None, b)>>, "representation", "none"),
     Post(<<Row(2, a), Row(2, b)>>, "representation", "merge"),
     Post(<<Row(None, a), Row(1, b)>>, "representation", "merge"),
     Post(<<Row(None, a), Row(0, b)>>, "representation", "none"),
     Post(<<Row(2, b), Row(None, b)>>, "headers-only", "ignore"),
     Post(<<Row(2, b)>>, "minimal", "ignore")}
Patches ==
    {[Represented(Patch({a}, Row(None, b))) EXCEPT !.embed = TRUE],
     AtMost(Represented(Patch({a}, Row(None, b))), 1),
     AtMost(Patch({a, b}, Row(None, b)), 1),
     Represented(Patch({a}, Row(3, a))),
     [Represented(Patch({b}, Row(None, a))) EXCEPT !.singular = TRUE, !.tx = "rollback"]}
Deletes ==
    {Represented(DeleteOf({a})), AtMost(DeleteOf({a, b}), 1),
     [Represented(DeleteOf({b})) EXCEPT !.unknown = TRUE]}
Puts == {AtMost(Put(2, a, "merge"), 0), Put(2, b, "none"), Put(1, b, "ignore")}
Refusals ==
    {[Patch({}, Row(None, a)) EXCEPT !.filtered = FALSE],
     [Put(1, a, "none") EXCEPT !.return = "representation"]}

MCAsks == Posts \cup Patches \cup Deletes \cup Puts \cup Refusals

\* One PATCH that asks for the rows it changes beside one that makes rows match.
MCRacing == {Represented(Patch({a}, Row(None, b))), Patch({b}, Row(None, a))}
=============================================================================
