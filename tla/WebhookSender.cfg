\* Two orders compete for one place in a batch, under fairness.
SPECIFICATION FairSpec
CONSTANTS
  o1 = o1
  o2 = o2
  Orders = {o1, o2}
  Txs = {}
  MaxRetryCount = 1
  Limit = 1
  Buffer = 1
  MaxProducers = 1
  MaxEvents <- OneEvent
INVARIANTS
  TypeOK
  SuccessWasAccepted
  HeardWas
  RetriesBounded
PROPERTY SettledOrderRetried
CHECK_DEADLOCK FALSE
