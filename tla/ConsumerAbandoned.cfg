SPECIFICATION Spec
CONSTANTS
  Partitions = {p1}
  Workers = {w1, w2}
  None = None
  LogEnd = 2
  MaxPoll = 2
  QueueDepth = 1
  MaxConcurrentHandlers = 1
  MaxTries = 1
  MaxFaults = 2
PROPERTY AbandonedNeverRegresses
CHECK_DEADLOCK FALSE
