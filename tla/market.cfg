CONSTANTS
  acme = acme
  apex = apex
  high1 = high1
  high2 = high2
  low = low
  Alerts = {high1, high2, low}
  TargetOf <- MCTargetOf
  AboveOf <- MCAboveOf
  Prices = {1, 2}
  Events = {e1, e2}
  BatchSize = 2
  Wired = TRUE
  WorkerMayFail = TRUE
  Quoted = {acme}
  Catalogue = Catalogue
  None = None
  HistoryMax = 2
  Workers = {w1, w2}
  StepsMayFail = TRUE
  Members = {m1, m2}
  Watched = {m1}
  Held = {acme, apex}
  SectorOf <- MCSectorOf
  PriceOf <- MCPriceOf
  Lots = {1}
  MaxOrders = 2
  MaxTime = 4
  DayLength = 2
  MonthLength = 2
  MonthsShown = 2
  MaxMonth = 3
  Order = {"cursor", "newest", "oldest"}
  Limit = 2
  MaxDocs = 5
SPECIFICATION MCSpec
INVARIANT Typed
INVARIANT NotifiedOnce
INVARIANT CachesAgree
INVARIANT ReportsAgree
INVARIANT WalkComplete
PROPERTY ScanMissesNothing
CHECK_DEADLOCK FALSE
