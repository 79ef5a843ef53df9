SPECIFICATION Spec
CONSTANTS
  Providers = {p1, p2}
  Windows = {w1}
  NoProvider = NoProvider
  NoWindow = NoWindow
  Requests = {r1}
  Ops <- EveryOp
  StripeReady = FALSE
  MaxVersion = 2
  MaxAccepts = 2
PROPERTIES RejectedUntilRequeued
