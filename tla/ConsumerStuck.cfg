SPECIFICATION StuckHandlerSpec
CONSTANTS
  Partitions = {p1}
  Workers = {w1, w2}
  None = None
  LogEnd = 3
  MaxPoll = 1
  QueueDepth = 1
  MaxConcurrentHandlers = 1
  MaxTries = 2
  MaxFaults = 1
PROPERTIES CallbackAlwaysReturns RunAlwaysReturns
CHECK_DEADLOCK FALSE
