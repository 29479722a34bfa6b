\* A PATCH that asks for the rows it changes, and one beside it.
CONSTANTS
    u1 = u1  u2 = u2
    a = a  b = b
    None = None
    Untouched = Untouched
    Units = {u1, u2}
    Keys = {1, 2}
    Vals = {a, b}
    AutoStep = 1
    HasKey = TRUE
    TxEndMode = "commit"
    Asks <- MCRacing
SPECIFICATION Spec
INVARIANT RepresentationIsAffected
