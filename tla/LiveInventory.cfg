\* Two stations, a page of one row; the rollup is run at any time, responses come
\* at most an hour late.
SPECIFICATION InventorySpec
CONSTANTS
  Station = {1, 2}
  Slot = {1, 2}
  Bikes = {0}
  Window = 2
  Retain = 3
  Late = 1
  MaxTime = 3
  MaxRows = 3
  PageSize = 1
  ReadLimit = 3
  MaxReads = 1
INVARIANTS PermanentRecord ExactOrFresh LiveAnswer
PROPERTIES NeverForgets
CHECK_DEADLOCK FALSE
