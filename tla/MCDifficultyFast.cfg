SPECIFICATION Spec
CONSTANTS
  AdjustmentInterval = 3
  TargetBlockTime = 2
  InitialDifficulty = 3
  MinDifficulty = 1
  MaxDifficulty = 4
  Modulus = 8
  Gaps <- SteadyGaps
  Claims <- MCClaims
  MaxLen = 7
CHECK_DEADLOCK FALSE
PROPERTIES
  FastBlocksNotEasier
