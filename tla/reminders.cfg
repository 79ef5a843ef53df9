SPECIFICATION FairSpec
CONSTANTS
  Lead = 1
  Lookahead = 2
  Overdue = 1
  Attempts = 3
  Workers = {w1, w2}
  Horizon = 3
  MaxVersion = 4
  MaxAccepts = 2
  MaxFailures = 1
CHECK_DEADLOCK FALSE
INVARIANTS TypeOK QueuedHasJob AtMostOneReminder
PROPERTIES NeverEarly EveryVisitReminded
