SPECIFICATION SteadySpec
CONSTANTS
    NTasks = 1
    Reasoning <- NoReasoning
    MaxClears = 1
PROPERTIES
    RecordedIsRetried
