SPECIFICATION Spec
CONSTANTS
    c1 = c1
    c2 = c2
    Clients = {c1}
    UserOf <- OneUser
    MaxFetches = 2
    Workers = {w1, w2}
    Handlers = {h1}
    GrantsPerEpoch = 2
    Contexts = {"epoch1"}
    MaxAnchorRuns = 2
    MaxRuns = 2
    KeyIds <- MCKeyIds
    BalanceLimit = 6561
    Terms <- MCHalfBack
    Faulty = TRUE
PROPERTIES
    ImplementsModerator
    ImplementsAnchor
    ImplementsClient
CHECK_DEADLOCK FALSE
