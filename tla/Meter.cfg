SPECIFICATION Spec
CONSTANTS
  v1 = v1
  v2 = v2
  battery = battery
  Readings <- AllReadings
  Topics <- TwoTopics
  Handlers = {h1, h2}
  None = None
  TicksPerMs = 2
  Since = 1
  Policies = {"required", "async-repair"}
  MaxTries = 2
  MaxFaults <- TwoFaults
SYMMETRY HandlerSymmetry
INVARIANTS LatestInv AckedDurable CurrentOrFlagged RebuildRestores
PROPERTIES HistoryImmutable LatestNeverRegresses
CHECK_DEADLOCK FALSE
