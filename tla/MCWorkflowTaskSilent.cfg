SPECIFICATION SteadySpec
CONSTANTS
    NTasks = 2
    Agents = {a1}
    Device = device
    MaxAttempts = 2
    MaxClaims = 1
    MaxDrain = 1
    SingleCore = TRUE
    ClassesUsed = {"readIdem", "effect"}
ACTION_CONSTRAINT
    Silent
INVARIANTS
    StartedEffectKept
PROPERTIES
    LaneNeverStarves
    OverdueEnds
CHECK_DEADLOCK FALSE
