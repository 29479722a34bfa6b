--------------------------- MODULE MCRequestPool ---------------------------
(* Small instances of RequestPool for TLC. *)
EXTENDS RequestPool, TLC

CONSTANTS r1, r2, r3, c1, c2, anon, admin, none, all

Job(kind, role, prefer) == [kind |-> kind, role |-> role, prefer |-> prefer]

\* What competes for a connection: the catalog with every role, a read, a unit.
MCRivalJobs == {Job("catalog", anon, ""), Job("read", admin, ""), Job("unit", anon, "")}

\* Both ends of a unit, and two roles.
MCUnitJobs == {Job("unit", anon, "commit"), Job("unit", admin, "rollback")}

MCSymmetry == Permutations(Conns) \cup Permutations(Requests)
=============================================================================
