SPECIFICATION Spec
CONSTANTS
  Lead = 1
  Lookahead = 2
  Overdue = 1
  Attempts = 3
  Workers = {w1, w2}
  Horizon = 5
  MaxVersion = 3
  MaxAccepts = 2
  MaxFailures = 0
CHECK_DEADLOCK FALSE
PROPERTIES NeverBeforeLead
