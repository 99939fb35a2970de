SPECIFICATION Spec
CONSTANTS
    NTasks = 1
    Agents = {a1, a2}
    Device = device
    MaxAttempts = 3
    MaxClaims = 3
    MaxDrain = 1
    SingleCore = FALSE
    ClassesUsed = {"agent", "read", "readIdem", "effect", "effectIdem"}
SYMMETRY AgentSymmetry
INVARIANTS
    StaleNeverApplied
    OneTerminalNotice
    NoBlindRedispatch
PROPERTIES
    ImplementsContract
    NothingAppliedAfterRevoke
CHECK_DEADLOCK FALSE
