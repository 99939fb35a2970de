SPECIFICATION Spec
CONSTANTS
    Items = {i}
    Kinds = {"owner", "proposal"}
    Personas = {p, q}
    Drains = {d}
    Door = Door
    None = None
    Own = Own
    MaxRetries = 1
    MaxFaults = 1
    MaxLapses = 0
SYMMETRY PersonaSymmetry
INVARIANTS
    StoredIsSomewhere
    WaitingRowHasItsCard
PROPERTIES
    ImplementsGate
    ApprovalAloneFrees
CHECK_DEADLOCK FALSE
