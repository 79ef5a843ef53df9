CONSTANTS
  Tasks = {k1, k2}
  Deletes = {d1, d2}
  MaxFailures = 2
  Providers = {p1}
  Requests = {r1, r2}
  Interval = 1
  FreshFor = 1
  Horizon = 2
  MaxTurns = 2
  Amounts = {550000}
  Costs <- RewardCosts
  Jobs = {j1}
  MaxAwards = 2
  MaxRewards = 2
  N = 2
  Rows <- SearchRows
  Queries <- SearchQueries
  Infinity = 9
  Cap = 2
  Take = 1
  MaxPages = 2
  Customer = c
  Messages = {m1, m2, m3}
  Fetches = {f1}
  None = none
  PageSize = 1
  Kept = 2
  WsLimit = 1
  MaxCrashes = 1
  Values = {v0, v1}
  Default = v0
  Nothing = nothing
  MaxPage = 2
  MaxInFlight = 2
  Instances = {i1, i2}
  People = {u1, u2}
  RoleOf <- Roles
  Environments <- Settings
  MaxTtl = 2
  MaxHits = 4
  Uploads = {a1, a2}
  MaxRestarts = 1
  Windows = {1, 2}
  Polls = {l1, l2}
  MaxPolls = 3
  MaxEvents = 1
  MaxLives = 2
SPECIFICATION Spec
INVARIANTS TypeOK ThumbnailIsThere NoOrphanByCrash RewardsArePaid BalanceIsLedger WalkIsComplete ShownIsStored PagesGoBack SettledShowsFilters AllowedWithinLimit AudioKeptWhileUsed RatesAreReal
PROPERTIES LocationNeverGoesBack
CHECK_DEADLOCK FALSE
