SPECIFICATION Spec
CONSTANTS
    i = i
    j = j
    k = k
    Slots = {s1, s2, s3}
    Ids = {i, j, k}
    KeyOf <- MCKeyOf
    NoId = NoId
    MaxCap = 2
    MaxCount = 2
    Basis = "produced"
SYMMETRY RunSymmetry
INVARIANTS
    RepeatsTurnedAway
    CountBudget
PROPERTIES
    QueueBounded
    ImplementsLog
CHECK_DEADLOCK FALSE
