SPECIFICATION FairSpec
CONSTANTS
  a1 = a1
  a2 = a2
  h1 = h1
  Houses = {h1, h2}
  Assets = {a1, a2}
  Registrations <- OneRegistration
  Payloads <- SomePayloads
  Handlers = {t1, t2}
  None = None
  MaxTries = 2
  MaxBeats = 2
  MaxFaults = 1
INVARIANTS AppliedInv CapabilitiesCurrent ConflictIsReal
PROPERTY EveryHeartbeatEnds
CHECK_DEADLOCK FALSE
