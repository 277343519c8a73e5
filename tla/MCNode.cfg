SPECIFICATION Spec
CONSTANTS
  r1 = r1  r2 = r2
  Req <- TwoRequests
  MaxSessions = 4
  MaxBlocks = 3
SYMMETRY Symmetry
CHECK_DEADLOCK FALSE
INVARIANTS
  Inv
  WalletOwnsItsBlocks
  EndOfInputLoses
PROPERTIES
  RestartFinds
  LoadedSessionsAgree
  AutoSaveNotRead
