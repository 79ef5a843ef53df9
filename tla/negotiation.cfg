SPECIFICATION Spec
CONSTANTS
  Providers = {p1, p2}
  Windows = {w1, w2}
  NoProvider = NoProvider
  NoWindow = NoWindow
  Requests = {r1, r2, r3}
  Ops <- NegotiationOps
  StripeReady = FALSE
  MaxVersion = 3
  MaxAccepts = 1
SYMMETRY Symmetry
PROPERTIES NegotiationSpec
