\* Two transfers suffice.
SPECIFICATION Spec
CONSTANTS
  PageSize = 2
  MaxRows = 4
  MaxTransfers = 2
INVARIANT PinnedForOneDay
CHECK_DEADLOCK FALSE
