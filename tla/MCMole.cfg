SPECIFICATION Spec
CONSTANTS
    c1 = c1
    c2 = c2
    Clients = {c1, c2}
    UserOf <- OneUser
    MaxFetches = 2
    Workers = {w1, w2}
    Handlers = {h1}
    GrantsPerEpoch = 1
    Contexts = {"epoch1"}
    MaxAnchorRuns = 2
    MaxRuns = 2
    KeyIds <- MCKeyIds
    BalanceLimit = 6561
    Terms <- MCOnceOrTwice
    Faulty = TRUE
VIEW WithoutHistory
SYMMETRY Interchangeable
INVARIANTS
    HeldCredentialGood
    HeldEndorsementGood
    NullifierPerGrant
    StoredWithinGrants
    ServedWithinGrants
CHECK_DEADLOCK FALSE
