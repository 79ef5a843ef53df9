SPECIFICATION Spec
CONSTANTS
  Providers = {p1, p2}
  Windows = {w1, w2}
  NoProvider = NoProvider
  NoWindow = NoWindow
  Requests = {r1, r2}
  Ops <- NegotiationOps
  StripeReady = FALSE
  MaxVersion = 4
  MaxAccepts = 2
PROPERTIES ConfirmsOnlyShownWindow
