SPECIFICATION Spec
CONSTANTS
  Providers = {p1, p2, p3}
  Windows = {w1}
  NoProvider = NoProvider
  NoWindow = NoWindow
  Requests = {r1, r2, r3}
  Ops <- AcceptRejectOps
  StripeReady = FALSE
  MaxVersion = 2
  MaxAccepts = 2
SYMMETRY Symmetry
INVARIANTS AcceptedMatchesAssignment
PROPERTIES AcceptNeverDisplaces
