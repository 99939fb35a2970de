SPECIFICATION SteadySpec
CONSTANTS
  d1 = d1  d2 = d2
  answer = answer  again = again  note = note  query = query  talk = talk
  None = None
  Calls = {answer, again}
  Key <- Keys
  Drainers = {d1, d2}
  MaxAttempts = 2
  BatchLimit = 2
  MaxRestarts = 1
  MaxUpsets = 1
CHECK_DEADLOCK FALSE
INVARIANTS OneHolder ResendsBounded
PROPERTIES ImplementsPost RowsEnd
