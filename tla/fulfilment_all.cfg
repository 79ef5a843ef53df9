SPECIFICATION Spec
CONSTANTS
  Providers = {p1, p2}
  Windows = {w1, w2}
  NoProvider = NoProvider
  NoWindow = NoWindow
  Requests = {r1, r2}
  Ops <- EveryOp
  StripeReady = FALSE
  MaxVersion = 2
  MaxAccepts = 2
SYMMETRY Symmetry
INVARIANTS TypeOK AtMostOneAccepted VersionIdentifiesSchedule QueuedPayoutHasPayment
PROPERTIES ConfirmsShownWindow
