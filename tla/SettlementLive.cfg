SPECIFICATION FairSpec
CONSTANTS
  w1 = w1
  w2 = w2
  r1 = r1
  r2 = r2
  c1 = c1
  None = None
  Workers = {w1}
  Requests = {r1, r2}
  Contracts <- OneContract
  Orders <- OneOrder
  OrderContract <- OrderOfC1
  ReqContract <- RequestForC1
  Faults <- PublishFails
  MaxRetries = 2
  MaxCrashes = 2
CHECK_DEADLOCK FALSE
PROPERTIES AbandonedIsRecovered RequestsAnswered
