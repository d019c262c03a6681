SPECIFICATION Spec
CONSTANTS
  d1 = d1
  d2 = d2
  Device = {d1, d2}
  Families = {"patta", "partiya"}
  BlockSize = 2
  MaxActiveBlocks = 2
  MaxNumber = 4
  PullLimit = 1
  MaxOnline = 1
  MaxCancels = 1
  MaxInFlight = 2
SYMMETRY DeviceSymmetry
INVARIANTS
  IInv
  NumberIssuedOnce
  CaughtUpKnowsAll
  PrintedIsRecorded
CHECK_DEADLOCK FALSE
