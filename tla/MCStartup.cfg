SPECIFICATION Spec
CONSTANTS
    a1 = a1
    a2 = a2
    Anchors = {a1, a2}
    Args <- MCArgs
    Epochs = {"epoch1", "epoch2"}
    MaxRestarts = 1
    MaxStarts = 2
INVARIANTS
    TypeOK
    OneEpochAccepted
    GrantsRedeemable
CHECK_DEADLOCK FALSE
