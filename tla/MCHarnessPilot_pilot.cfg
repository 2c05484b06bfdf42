\* A whole pilot: every provider change, transport failure and bench departure.
SPECIFICATION FairSpec
CONSTANTS
  G1 = G1 G3 = G3 crc32 = crc32 fir = fir
  Arms <- MCArms
  GeneratorsOf <- MCGeneratorsOf
  PacketsOf <- MCPacketsOf
  Frontier = {G1}
  Local = {G3}
  Benches <- MCBenches
  Outputs = {"a", "b"}
  NVectors = 4
  OutOfDomain <- MCOutOfDomain
  NSamples = 2
  MaxRepairs = 1
  MaxInfraRetries = 2
  MaxInfraAborts = 1
  MaxSlotRefills = 3
  MaxMoves = 1
CHECK_DEADLOCK FALSE
INVARIANTS ScoredIsEarned CompleteIsWhole
PROPERTIES CalibrationFirst PilotEnds
