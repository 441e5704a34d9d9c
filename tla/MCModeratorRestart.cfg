SPECIFICATION Spec
CONSTANTS
    e1 = e1
    e2 = e2
    p1 = p1
    p2 = p2
    anchorA = anchorA
    anchorB = anchorB
    MaxRuns = 2
    KeyIds <- MCKeyIds
    BalanceLimit = 4
    Workers = {w1, w2}
    Roots = {e1, e2}
    Endorsements <- MCTwoEpochs
    Pres = {p1, p2}
    Configs <- MCConfigs
    MaxGen = 2
INVARIANTS
    RedeemedOncePerEpoch
CHECK_DEADLOCK FALSE
