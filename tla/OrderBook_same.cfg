\* Two orders and two transfers of one amount, three deposits on two pairs,
\* one request at a time against the watcher.
SPECIFICATION Spec
CONSTANTS
  o1 = o1
  o2 = o2
  t1 = t1
  t2 = t2
  eth = eth
  tron = tron
  None = None
  Orders = {o1, o2}
  Pairs = {eth, tron}
  TrcPairs = {tron}
  Deposits = {d1, d2, d3}
  Txs = {t1, t2}
  Callers = {c1}
  Amount <- SameAmount
  TxPair <- SameTxPair
  TxValue <- SameTxValue
SYMMETRY SameSymmetry
INVARIANTS
  TypeOK
  NoDoubleCredit
  CreditMatchesDeposit
  CreditedOrderSettled
PROPERTIES
  MatchedStable
  OrderCreditedOnce
  CleanupKeepsOnlyFulfilled
  LedgerSpec
\* The system stops once every id is used and no request or tick is open.
CHECK_DEADLOCK FALSE
