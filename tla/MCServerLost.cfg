SPECIFICATION Spec
CONSTANTS
  r1 = r1  r2 = r2  r3 = r3
  Req <- TwoRequests
  Seconds <- TwoSeconds
  AdjustmentInterval = 2
  MaxInFlight = 2
  Gets <- NoGets
CHECK_DEADLOCK FALSE
INVARIANTS
  AddedBlockOnChain
