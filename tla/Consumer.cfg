SPECIFICATION FairSpec
CONSTANTS
  Partitions = {p1}
  Workers = {w1, w2}
  None = None
  LogEnd = 2
  MaxPoll = 2
  QueueDepth = 1
  MaxConcurrentHandlers = 1
  MaxTries = 1
  MaxFaults = 2
INVARIANTS TypeOK CommittedFinished HandledInOrder SlotsAccounted OneWorkerPerPartition
PROPERTIES CommitOnlyByOwner ImplementsAtLeastOnce EveryRecordFinished
CHECK_DEADLOCK FALSE
