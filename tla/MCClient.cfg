SPECIFICATION Spec
CONSTANTS
    c1 = c1
    Clients = {c1}
    UserOf <- MCUserOf
    MaxFetches = 4
    MaxRuns = 2
    KeyIds <- MCKeyIds
    BalanceLimit = 6561
    Challenges <- MCChallenges
    Directories <- MCDirectories
    AnchorDirectories <- MCAnchorDirectories
    SessionIds = {1}
    Issuances <- MCIssuances
    Refunds = {0, 1}
INVARIANTS
    TypeOK
    BurnedOnUse
    EndorsementShownOnce
    StoredWhereIssued
CHECK_DEADLOCK FALSE
