\* One order, one deposit, one transfer and one request at a time, with the
\* sender behind channels of one place.
SPECIFICATION CheckoutSpec
CONSTANTS
  o1 = o1
  t1 = t1
  eth = eth
  None = None
  Orders = {o1}
  Pairs = {eth}
  TrcPairs = {}
  Deposits = {d1}
  Txs = {t1}
  Callers = {c1}
  Amount <- OneAmount
  TxPair <- OneTxPair
  TxValue <- OneTxValue
  MaxRetryCount = 1
  Limit = 1
  Buffer = 1
  MaxProducers = 1
  MaxEvents <- OneEvent
INVARIANT PaidIsBacked
PROPERTY SenderSpec
CHECK_DEADLOCK FALSE
