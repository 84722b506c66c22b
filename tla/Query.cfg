SPECIFICATION FairSpec
CONSTANTS
  g1 = g1
  g2 = g2
  Users = {u1, u2}
  Callers = {u1}
  Grids = {g1}
  GridOf <- TwoGrids
  Any = Any
  None = None
  Worlds <- HousesAndEnergy
  PageSizes <- SomePageSizes
  Requests <- SomeRequests
  DefaultPageSize = 2
  MaxPageSize = 2
  MaxChanges = 1
  MaxFaults = 1
  MaxReadingSeconds = 2
  MaxRange = 8
  MinBucketWidth = 2
  MaxBucketWidth = 3
  MaxBuckets = 2
INVARIANTS ListingInv ScopeKept SummarySound SeriesSound
PROPERTY CallsEnd
CHECK_DEADLOCK FALSE
