SPECIFICATION Spec
CONSTANTS
    Handlers = {h1, h2}
    Users = {alice, bob}
    Blinds = {b1}
    Contexts = {"epoch1", "epoch2"}
    GrantsPerEpoch = 2
    MaxAnchorRuns = 2
SYMMETRY Interchangeable
INVARIANTS
    TypeOK
    LimitKept
    ProvedOnce
    PendingUnused
    OneEpochPerKey
CHECK_DEADLOCK FALSE
