CONSTANTS
  Customer = c
  Providers = {p1, p2}
  Tokens = {t1}
  None = none
  MaxEvents = 1
  MaxFailures = 1
  Sockets = {s1, s2}
  Reconcilers = {q1, q2}
  Pings = 2
  Accounts = {a1, a2}
  Transfers = {x1}
  Requests = {r1, r2}
  RawBody = TRUE
  Intents = {i1, i2}
  Charge = 1
  Handlers = {h1}
  Limit = 1
  DefaultWait = 2
  MaxTtl = 3
  MaxHits = 4
  MaxReloads = 1
SPECIFICATION Spec
INVARIANTS TypeOK PushedToOwner OpenIsOnline VerifiedByOwnAccount PayoutsAreTransfers
INVARIANTS ChargeHasRow StatusHappened
PROPERTIES NoLiveTokenDropped EveryPartyTold StalePruned PatientUserGetsThrough ChargeRecorded
CHECK_DEADLOCK FALSE
