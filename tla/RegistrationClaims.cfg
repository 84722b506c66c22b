SPECIFICATION FairSpec
CONSTANTS
  Regs = {r1, r2}
  Meters = {m1, m2}
  Users = {u1}
  Requests = {q1, q2}
  Calls = {c1, c2}
  None = None
  MaxReverify = 1
  MaxFaults = 1
INVARIANT ClaimInv
PROPERTIES OwnerNeverMoves ClaimDecided
CHECK_DEADLOCK FALSE
