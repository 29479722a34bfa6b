\* Two workers and six tokens on a cache of two.
CONSTANTS
    w1 = w1  w2 = w2  w3 = w3
    expires = expires  early = early  late = late  foreign = foreign
    forged = forged  broken = broken
    anon = anon  admin = admin
    Workers = {w1, w2}
    Tokens = {expires, early, late, foreign, forged, broken}
    Facts <- MCFacts
    NoTime = NoTime
    NoRole = NoRole
    Refused = Refused
    Pending = Pending
    RoleNames = {anon, admin}
    Skew = 1
    Max = 2
    MaxTime = 3
SPECIFICATION Spec
SYMMETRY MCSymmetry
INVARIANTS TypeOK CacheBounded CacheTransparent
