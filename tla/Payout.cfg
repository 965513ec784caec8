SPECIFICATION MCSpec
INVARIANTS NeverPaidTwice CompletedIsPaid CallIsOneStep
PROPERTY PayoutResolves
CONSTANTS
  Contracts = {c1}
  Sweeps = {s1, s2}
  None = None
  Faults <- SomethingFails
  MaxAttempts = 2
  MaxCrashes = 1
  Users = {u1, u2}
  RequestAttempts = 3
  MaxOrders = 1
