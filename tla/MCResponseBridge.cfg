SPECIFICATION FairSpec
CONSTANTS
    NTasks = 2
    Reasoning <- MixedLanes
    MaxClears = 2
INVARIANTS
    OneSendAtATime
    NothingLost
    ReceiptMeansDurable
PROPERTIES
    FreshScanNeverResends
    ImplementsReply
    RecordedIsResent
