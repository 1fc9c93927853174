\* One order with one deposit, one transfer and one request at a time.
SPECIFICATION Spec
CONSTANTS
  o1 = o1
  o2 = o2
  t1 = t1
  t2 = t2
  eth = eth
  tron = tron
  None = None
  Orders = {o1}
  Pairs = {eth}
  TrcPairs = {}
  Deposits = {d1}
  Txs = {t1}
  Callers = {c1}
  Amount <- SameAmount
  TxPair <- SameTxPair
  TxValue <- SameTxValue
INVARIANT MarkedHasNoMatch
CHECK_DEADLOCK FALSE
