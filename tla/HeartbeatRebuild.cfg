SPECIFICATION Spec
CONSTANTS
  Houses = {h1}
  Identities = {i1, i2}
  Handlers = {n1, n2}
  None = None
  Second = 2
  HeartbeatTTL = 4
  MaxTime = 5
  Required = TRUE
  MaxTries = 2
  MaxFaults = 1
  MaxRebuilds = 1
SYMMETRY ModelSymmetry
INVARIANTS StatusInv OnlineWhileAlive RebuildRestoresAlive
CHECK_DEADLOCK FALSE
