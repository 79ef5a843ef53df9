SPECIFICATION Spec
CONSTANTS
  Intents = {i1}
  None = None
  Requests = {r1}
  RawBody = TRUE
  Charge = 1
CHECK_DEADLOCK FALSE
PROPERTIES RedeliveryKeepsDispute
