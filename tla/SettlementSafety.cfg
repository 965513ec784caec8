SPECIFICATION Spec
INVARIANTS AnnouncedIsBooked HandlerReleasesOnce
PROPERTY BookSpec
CONSTANTS
  w1 = w1
  w2 = w2
  r1 = r1
  r2 = r2
  c1 = c1
  None = None
  Workers = {w1, w2}
  Requests = {r1}
  Contracts <- OneContract
  Orders <- TwoOrders
  OrderContract <- OrderOfC1
  ReqContract <- RequestForC1
  Faults <- ProviderAndDatabaseFail
  MaxRetries = 1
  MaxCrashes = 0
CHECK_DEADLOCK FALSE
SYMMETRY Interchangeable
