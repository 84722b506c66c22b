SPECIFICATION FairSpec
CONSTANTS
  Grids = {g1, g2, EmptyID}
  EmptyID = EmptyID
  MaxCalls = 1
  PoolUsers = {"worker"}
  MaxEdits = 1
  MaxFaults = 1
INVARIANTS StoresInv ReadyMeansIngesting
PROPERTIES StopsAlways SnapshotConverges
CHECK_DEADLOCK FALSE
