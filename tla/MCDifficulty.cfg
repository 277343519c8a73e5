SPECIFICATION Spec
CONSTANTS
  AdjustmentInterval = 2
  TargetBlockTime = 2
  InitialDifficulty = 2
  MinDifficulty = 1
  MaxDifficulty = 4
  Modulus = 8
  Gaps <- MCGaps
  Claims <- MCClaims
  MaxLen = 8
CHECK_DEADLOCK FALSE
INVARIANTS
  MinedClaimsItsWork
  OneDirection
  OnPaceEases
