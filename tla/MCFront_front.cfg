\* One client of up to two requests, one reload.
CONSTANTS
    Accounts = {"anon", "app1", "app2", "clerk"}
    Roles = {"anon", "app", "clerk"}
    Bare <- MCBare
    Rights <- MCRights
    NoRole = NoRole
    None = None
    Catalogs <- MCCatalogs
    Data <- MCData
    MaxLoads = 2
    Cases <- MCCases
    RowColumns <- MCRowColumns
SPECIFICATION Spec
\* The client stops after two requests.
CHECK_DEADLOCK FALSE
INVARIANTS
    BuildTypeOK ClosureIsLeast SnapshotAgreesWithMySQL
    FrontTypeOK GrantsDecide AllowIsHonest ProposedHintsResolve RanAsAsked
    OverriddenTokensAreInert
PROPERTIES WalksEnd EveryAskIsAnswered
