SPECIFICATION FairSpec
CONSTANTS
    Items = {i}
    Kinds = {"owner", "proposal"}
    Personas = {p}
    Drains = {d, e}
    Door = Door
    None = None
    Own = Own
    MaxRetries = 2
    MaxFaults = 1
    MaxLapses = 2
PROPERTIES
    EndingIsFinal
    NeedsNoSweep
CHECK_DEADLOCK FALSE
