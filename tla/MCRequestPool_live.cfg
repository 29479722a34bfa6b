\* A unit that commits and one that rolls back, on two connections: all are
\* answered, transactions end, and a unit keeps its promise.
CONSTANTS
    r1 = r1  r2 = r2  r3 = r3
    c1 = c1  c2 = c2
    anon = anon  admin = admin
    none = none  all = all
    Requests = {r1, r2}
    Conns = {c1, c2}
    Roles = {anon, admin}
    NoRole = none
    AllRoles = all
    LoginRole = none
    NoConn = NoConn
    MaxIdle = 1
    PreRequest = TRUE
    TxEndMode = "commit-allow-override"
    Jobs <- MCUnitJobs
SPECIFICATION FairSpec
PROPERTIES EveryRequestAnswered TransactionsEnd UnitsAreAtomic
