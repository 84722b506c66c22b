SPECIFICATION Spec
CONSTANTS
  Houses = {h1}
  Identities = {i1}
  Handlers = {n1, n2}
  None = None
  Second = 2
  HeartbeatTTL = 4
  MaxTime = 6
  Required = TRUE
  MaxTries = 2
  MaxFaults = 0
  MaxRebuilds = 1
SYMMETRY ModelSymmetry
PROPERTY RebuildNeverRegresses
CHECK_DEADLOCK FALSE
