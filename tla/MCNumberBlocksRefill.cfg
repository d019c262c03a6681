SPECIFICATION FairSpec
CONSTANTS
  d1 = d1
  d2 = d2
  Device = {d1}
  Families = {"patta"}
  BlockSize = 5
  MaxActiveBlocks = 2
  MaxNumber = 16
  PullLimit = 1
  MaxOnline = 0
  MaxCancels = 0
  MaxInFlight = 1
INVARIANTS
  LowStockIsNoticed
PROPERTY
  SinglesArriveAgain
CHECK_DEADLOCK FALSE
