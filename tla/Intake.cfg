SPECIFICATION FairSpec
CONSTANTS
  None = None
  MaxGridIDLen = 2
  MaxAssetIDLen = 2
  MaxHouseNum = 2
  MaxSkewFuture = 1
  MaxSkewPast = 1
  MaxRecordBytes = 5
  EnforceHouseKey = TRUE
  Scenarios <- AllScenarios
  MaxTries = 2
  MaxEntries = 3
INVARIANTS GateInv AckedVisible RegistrationInv
PROPERTIES UnknownStaysOut NothingBlocks
CHECK_DEADLOCK FALSE
