SPECIFICATION Spec
CONSTANTS
  c1 = c1  c2 = c2
  request = request  message = message  cancel = cancel
  None = None
  Conns = {c1, c2}
  Envelopes = {request, cancel}
  Target <- OneCancel
  Expiring = {cancel}
  Features <- Acking
  Capacity = 2
  RecentLimit = 1
  MaxFaults = 2
  MaxSlips = 1
SYMMETRY Sockets
CHECK_DEADLOCK FALSE
INVARIANTS NothingLost AckedIsRecorded HandledOnce OnlineNeverWaits WithdrawnNeverRuns
PROPERTY ImplementsMailbox
