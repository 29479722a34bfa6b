\* Two units of every kind over four keys and two values.
CONSTANTS
    u1 = u1  u2 = u2
    a = a  b = b
    None = None
    Untouched = Untouched
    Units = {u1, u2}
    Keys = {1, 2, 3, 4}
    Vals = {a, b}
    AutoStep = 1
    HasKey = TRUE
    TxEndMode = "commit-allow-override"
    Asks <- MCAsks
SPECIFICATION Spec
SYMMETRY MCSymmetry
INVARIANTS TypeOK InsertsReturned PutTellsInserted
PROPERTIES NeverOverMax RefusedBeforeEnd
