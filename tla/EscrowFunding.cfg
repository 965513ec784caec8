SPECIFICATION MCSpec
INVARIANTS HeldIsReal ToldIsSo
PROPERTIES PaidIsRecorded ReleaseIsAnswered
CONSTANTS
  Orders = {o1}
  Payments = {p1, p2}
  Fibers = {f1, f2}
  None = None
  MaxAborts = 1
  c1 = c1
  c2 = c2
  Contracts = {c1, c2}
  CallSlots = {1, 2}
  Polls = {t1}
  Checkouts = {k1}
  PollAttempts = 2
  MaxOrders = 2
  MaxClicks = 3
  Nothing = Nothing
CHECK_DEADLOCK FALSE
