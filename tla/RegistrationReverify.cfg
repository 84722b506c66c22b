SPECIFICATION FairSpec
CONSTANTS
  Regs = {r1}
  Meters = {m1}
  Users = {u1}
  Requests = {q1, q2}
  Calls = {c1}
  None = None
  MaxReverify = 1
  MaxFaults = 0
PROPERTY ReverifyDecided
CHECK_DEADLOCK FALSE
