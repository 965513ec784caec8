SPECIFICATION KeySpec
INVARIANT TakesEffectOnce
PROPERTY Answered
CONSTANTS
  Processes = {g1, g2}
  Requests = {r1, r2, r3}
  Null = Null
  Faults = {"throw", "database", "crash"}
  MaxFailures = 1
CHECK_DEADLOCK FALSE
