SPECIFICATION MCSpec
CONSTANTS
  c1 = c1
  c2 = c2
  f1 = f1
  f2 = f2
  Contracts = {c1, c2}
  Freelancers = {f1, f2}
  Unlinked = {f2}
  Fibers = {r1, r2}
  Runners = {w1, w2}
  None = None
  MaxAttempts = 2
  NameTries = 2
  MaxRequests = 4
  MaxFaults = 1
INVARIANTS DecisionsAreFinal RepositoriesAreOwn ActiveIsReady
PROPERTY AcceptanceResolves
CHECK_DEADLOCK FALSE
