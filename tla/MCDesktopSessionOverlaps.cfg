CONSTANTS
  Engine = {1, 2}
  Overlaps = {"save"}
  MaxGeneration = 2
  MaxToken = 2
  MaxFaults = 1
SPECIFICATION FairSpec
CHECK_DEADLOCK FALSE
PROPERTIES
  LogoutClears
