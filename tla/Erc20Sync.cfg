\* Two transfers of one transaction, a third, an outgoing one, pages of two,
\* one fork, under fairness.
SPECIFICATION FairSpec
CONSTANTS
  a = a
  b = b
  c = c
  out = out
  Transfers = {a, b, c, out}
  Incoming = {a, b, c}
  Txn <- SharedTxn
  PageSize = 2
  StartBlock = 1
  MaxBlock = 2
  MaxReorgs = 1
INVARIANTS
  TypeOK
  NothingSkipped
PROPERTIES
  BookSpec
  SyncCatchesUp
CHECK_DEADLOCK FALSE
