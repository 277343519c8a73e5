SPECIFICATION Spec
CONSTANTS
  w = w  z = z  p = p  c = c  d = d  q = q  r = r  v = v  k = k  f = f
  NoTx = NoTx  NoKey = NoKey
  MaxInputsPerTransaction = 2
  MaxOutputsPerTransaction = 2
  Wallet = w
  ForeignBlocks <- MCForeignBlocks
  Amounts <- MCAmounts
  InitialReward = 4
  HalvingInterval = 2
  MinReward = 1
  MaxValue = 31
  MinFeeRate = 1
  MaxFeeRate = 3
  Size <- MCSize
  MaxLen = 5
CHECK_DEADLOCK FALSE
INVARIANTS
  Inv
  AcceptedStaysValid
  OwnRewardsAccepted
  SufficientOnlyByOverflow
PROPERTIES
  CoinsMove
