\* Pages, filters and embeds beside one write.
CONSTANTS
    Top = 7
    None = None
    Null = Null
    Gone = Gone
    OriginIds = {1, 2, 3}
    TargetIds = {1, 2}
    MaxWrites = 1
    Cases <- MCCases
SPECIFICATION Spec
INVARIANTS
    TypeOK WindowIsIntersection QuietReadIsJoin RowSetReadsLikeTable
    StatusTellsWhole ChildrenWereRelated
