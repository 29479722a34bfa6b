\* A select that gives the key column of the embedded table another name.
CONSTANTS
    Top = 7
    None = None
    Null = Null
    Gone = Gone
    OriginIds = {1, 2, 3}
    TargetIds = {1, 2}
    MaxWrites = 0
    Cases <- MCAliasCases
SPECIFICATION Spec
INVARIANTS NeverInvents
