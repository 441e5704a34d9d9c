SPECIFICATION FairSpec
CONSTANTS
    c1 = c1
    c2 = c2
    Clients = {c1}
    UserOf <- OneUser
    MaxFetches = 3
    Workers = {w1}
    Handlers = {h1}
    GrantsPerEpoch = 4
    Contexts = {"epoch1"}
    MaxAnchorRuns = 2
    MaxRuns = 3
    KeyIds <- MCCollidingKeyIds
    BalanceLimit = 6561
    Terms <- MCOnce
    Faulty = FALSE
INVARIANTS
    RecoversAtOnce
PROPERTIES
    FetchTerminates
CHECK_DEADLOCK FALSE
