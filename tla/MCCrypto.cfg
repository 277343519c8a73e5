SPECIFICATION MCSpec
CONSTANTS
  a = a  b = b  c = c
  TxHash <- MCTxHash
  MaxTxs = 5
  Bytes = 4
  Radix = 3
  ChecksumLen = 2
  HashBytes <- MCHashBytes
  MaxBytes = 5
  s15 = s15  s16 = s16  s64 = s64  s65 = s65
  Seed <- MCSeed
  SeedLen <- MCSeedLen
  IndexModulus = 4
  DepthModulus = 2
  LeadsWithZero <- MCLeadsWithZero
  MaxRoute = 2
  MaxNumber = 9
CHECK_DEADLOCK FALSE
INVARIANTS
  RootExact
  RootBinds
  VerifyExact
  ProofsOfPairsOnly
  Base58Sound
  RoutesSeparate
  PathsDerive
  PrintedKeyReadBack
  PublicSide
