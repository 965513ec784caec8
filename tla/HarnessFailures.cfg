SPECIFICATION MCSpec
CONSTANTS
  eval = eval
  weak = weak
  Rules = {eval, weak}
  Severity <- MCSeverity
  MaxLines = 2
  TargetChars = 4
  OverlapChars = 1
  MinChunkChars = 2
  MaxUnits = 4
  Calibration <- MCCalibration
  LogGain <- MCLogGain
  LogThreshold = 4
  MaxMessages = 5
  Ln <- MCLn
  MaxBytes = 2
  MaxNodes = 4
  MaxCases = 3
  MaxFiles = 3
  w1 = w1
  w2 = w2
  CIWorkers = {w1, w2}
  g1 = g1
  g2 = g2
  Gets = {g1, g2}
  m1 = m1
  m2 = m2
  Chats = {m1, m2}
  Results <- MCResults
  None = None
  ScoreMaxAttempts = 2
  MaxTries = 1
  MaxPushes = 2
  MaxRuns = 2
  MaxViews = 1
  MaxMessagesSent = 2
  MaxFaults = 1
INVARIANT FailuresReported
CHECK_DEADLOCK FALSE
