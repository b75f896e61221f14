SPECIFICATION Spec
CONSTANTS
    f1 = f1
    f2 = f2
    k1 = k1
    k2 = k2
    k3 = k3
    c1 = c1
    c2 = c2
    Features = {f1, f2}
    Keys = {k1, k2, k3}
    Calls = {c1, c2}
    ClaimChoices <- MCClaims
    MAX_EJECT_COUNT = 3
    EJECT_PRIORITY_DECREMENT = 10
SYMMETRY Interchangeable
INVARIANTS
    MergeQueueTypeOK
    ReadyExclusive
CHECK_DEADLOCK FALSE
