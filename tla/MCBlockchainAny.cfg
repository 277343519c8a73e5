SPECIFICATION Spec
CONSTANTS
  NoBlock = NoBlock
  Panic = Panic
  NoFile = NoFile
  Torn = Torn
  g = g  a1 = a1  a2 = a2  a3 = a3  b2 = b2  c2 = c2  c3 = c3
  h = h  h1 = h1  h2 = h2  h3 = h3  x2 = x2  y2 = y2  z2 = z2
  t1 = t1  t2 = t2  t3 = t3  t4 = t4  t5 = t5
  Genesis = g
  Block <- MCBlock
  Prev <- MCPrev
  Index <- MCIndex
  Tx <- MCTx
  Txs <- MCTxs
  PowOK <- MCPowOK
  Forged <- MCForged
  Minable <- MCMinable
  Orphans <- AnyOrphans
  Alternatives <- AnyAlternatives
  MaxOrphans = 2
  MaxAlternatives = 2
CHECK_DEADLOCK FALSE
INVARIANTS
  AnyCallersInv
  FindTransactionExact
PROPERTIES
  NoBlockForgotten
