SPECIFICATION MCSpec
CONSTANTS
  Rows = {1, 2}
  Poison = {1}
  Relays = {g1, g2}
  Consumers = {w1, w2}
  None = None
  BatchSize = 2
  MaxFaults = 1
  NoOffset = NoOffset
  Unparsable = {2}
  MaxLog = 4
  MaxBreaks = 2
PROPERTIES RedisTopic KafkaTopic RowsDrain EntriesDone
CHECK_DEADLOCK FALSE
