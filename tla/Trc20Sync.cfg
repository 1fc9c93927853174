\* Up to five transfers, pages of two, four rows in a statement, under fairness.
SPECIFICATION FairSpec
CONSTANTS
  PageSize = 2
  MaxRows = 4
  MaxTransfers = 5
INVARIANTS
  TypeOK
  NoGaps
PROPERTIES
  BookSpec
  SyncCatchesUp
CHECK_DEADLOCK FALSE
