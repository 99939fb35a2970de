SPECIFICATION FairSpec
CONSTANTS
    i = i
    j = j
    k = k
    Slots = {s1, s2}
    Ids = {i, j, k}
    KeyOf <- MCKeyOf
    NoId = NoId
    MaxCap = 2
    MaxCount = 1
    Basis = "decided"
PROPERTIES
    RunEnds
    StagedCopyDestroyed
CHECK_DEADLOCK FALSE
