CONSTANTS
  Engine = {1, 2, 3}
  Overlaps = {}
  MaxGeneration = 3
  MaxToken = 2
  MaxFaults = 1
SPECIFICATION FairSpec
CHECK_DEADLOCK FALSE
INVARIANTS
  TokenIsSaved
  LeftStaysLeft
  OnlyLossLooksReused
  EngineMatchesSession
PROPERTIES
  LogoutClears
