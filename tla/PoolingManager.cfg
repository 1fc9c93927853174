\* Two wallets that replace each other on one pair, one of another pair, one
\* reload or restart, under fairness.
SPECIFICATION FairSpec
CONSTANTS
  a = a
  b = b
  c = c
  x = x
  y = y
  NoKey = NoKey
  Entries = {a, b, c}
  Keys = {x, y}
  KeyOf <- SharedPair
  Files <- Rewrites
  Intervals = {1}
  Capacity = 1
  Buffer = 1
  MaxReloads = 1
INVARIANTS
  TypeOK
  LoopsFollowStore
  KeptPairsServed
PROPERTY KeptPairPolled
CHECK_DEADLOCK FALSE
