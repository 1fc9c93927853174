\* Two pairs, no reload, sleeps of two steps.
SPECIFICATION FairSpec
CONSTANTS
  a = a
  b = b
  c = c
  x = x
  y = y
  NoKey = NoKey
  Entries = {a, b, c}
  Keys = {x, y}
  KeyOf <- SharedPair
  Files <- Rewrites
  Intervals = {2}
  Capacity = 1
  Buffer = 1
  MaxReloads = 0
PROPERTY PendingPairPolled
CHECK_DEADLOCK FALSE
