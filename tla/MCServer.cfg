SPECIFICATION Spec
CONSTANTS
  r1 = r1  r2 = r2  r3 = r3
  Req <- ThreeRequests
  Seconds <- OneSecond
  AdjustmentInterval = 2
  MaxInFlight = 2
  Gets <- NoGets
SYMMETRY Symmetry
CHECK_DEADLOCK FALSE
INVARIANTS
  SoloBlocksStay
  NoOverlapNoDamage
  QuietShutdownSaves
PROPERTIES
  SoloIsLongestChain
