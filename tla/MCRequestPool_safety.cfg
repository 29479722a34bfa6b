\* Three uses of a pool of two connections, every interleaving of handler,
\* watcher, departing clients and dying sessions.
CONSTANTS
    r1 = r1  r2 = r2  r3 = r3
    c1 = c1  c2 = c2
    anon = anon  admin = admin
    none = none  all = all
    Requests = {r1, r2, r3}
    Conns = {c1, c2}
    Roles = {anon, admin}
    NoRole = none
    AllRoles = all
    LoginRole = none
    NoConn = NoConn
    MaxIdle = 1
    PreRequest = TRUE
    TxEndMode = "commit-allow-override"
    Jobs <- MCRivalJobs
SPECIFICATION Spec
SYMMETRY MCSymmetry
INVARIANTS TypeOK IdlePowerless OwnRoleOnly SettledWhenAnswered
