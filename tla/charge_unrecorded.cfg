SPECIFICATION FairSpec
CONSTANTS
  Intents = {i1}
  None = None
  Requests = {r1}
  RawBody = FALSE
  Charge = 1
CHECK_DEADLOCK FALSE
PROPERTIES ConfiguredChargeRecorded
