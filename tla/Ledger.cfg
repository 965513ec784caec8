SPECIFICATION MCSpec
INVARIANTS CallAppendsOnce SignatureCoversRoot TreeIsSound VerificationTells
CONSTANTS
  Sessions = {s1, s2}
  Sealers = {a1, a2}
  None = None
  Faults <- EverythingFails
  Histories = {0, 3}
  MaxCalls = 2
  MaxFaults = 2
  Payloads <- SomePayloads
  MaxNesting = 3
  MaxLegacy = 2
  MaxRows = 4
  MaxChanges = 1
SYMMETRY Interchangeable
CHECK_DEADLOCK FALSE
