SPECIFICATION SteadySpec
CONSTANTS
  c1 = c1  c2 = c2
  request = request  message = message  cancel = cancel
  None = None
  Conns = {c1, c2}
  Envelopes = {request, message}
  Target <- NoCancel
  Expiring = {request}
  Features <- Either
  Capacity = 1
  RecentLimit = 1
  MaxFaults = 1
  MaxSlips = 0
CHECK_DEADLOCK FALSE
PROPERTY EveryEnvelopeLeaves
