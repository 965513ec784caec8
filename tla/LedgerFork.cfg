SPECIFICATION MCSpec
INVARIANT ChainVerifies
CONSTANTS
  Sessions = {s1, s2}
  Sealers = {}
  None = None
  Faults <- NoFaults
  Histories = {0}
  MaxCalls = 2
  MaxFaults = 0
  Payloads <- SomePayloads
  MaxNesting = 3
  MaxLegacy = 0
  MaxRows = 0
  MaxChanges = 0
CHECK_DEADLOCK FALSE
