\* One order on one pair with two deposits, a payment and a stray transfer, and
\* two requests at once, under fairness.
SPECIFICATION FairSpec
CONSTANTS
  o1 = o1
  o2 = o2
  t1 = t1
  t2 = t2
  eth = eth
  tron = tron
  None = None
  Orders = {o1}
  Pairs = {eth}
  TrcPairs = {}
  Deposits = {d1, d2}
  Txs = {t1, t2}
  Callers = {c1, c2}
  Amount <- SameAmount
  TxPair <- SameTxPair
  TxValue <- StrayTxValue
INVARIANT AnnouncedOrderSettled
PROPERTY MatchingProgresses
CHECK_DEADLOCK FALSE
