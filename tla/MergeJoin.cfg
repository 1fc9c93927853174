\* All sorted lists of up to five items over three keys.
SPECIFICATION Spec
CONSTANTS
  Keys = {1, 2, 3}
  MaxItems = 5
INVARIANTS
  TypeOK
  IsPairing
  NothingLost
  OldestFirst
CHECK_DEADLOCK FALSE
