SPECIFICATION Spec
CONSTANTS
  x1 = x1  x2 = x2  x3 = x3  y2 = y2  w1 = w1  cb = cb  bad = bad  dry = dry  new = new
  i1 = i1  i2 = i2  i3 = i3  i4 = i4  i5 = i5  i6 = i6
  s = s  z = z  A = A  B = B  NoTx = NoTx
  Transaction <- MCTransaction
  ID <- MCID
  TxID <- MCTxID
  Sender <- MCSender
  Inputs <- MCInputs
  NilTxid = NilTxid
  PubKey <- MCPubKey
  Values <- MCValues
  Signed <- MCSigned
  NoID = NoID
  MaxMempoolSize = 4
INVARIANTS
  Inv
  ReadersExact
PROPERTIES
  ArrivalOrder
