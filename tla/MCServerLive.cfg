SPECIFICATION Spec
CONSTANTS
  r1 = r1  r2 = r2  r3 = r3
  Req <- TwoRequests
  Seconds <- OneSecond
  AdjustmentInterval = 2
  MaxInFlight = 2
  Gets <- Readers
CHECK_DEADLOCK FALSE
INVARIANTS
  ReadsAreSound
PROPERTIES
  EveryRequestEnds
