SPECIFICATION FairSpec
CONSTANTS
  e1 = e1
  e2 = e2
  t1 = t1
  t2 = t2
  d1 = d1
  d2 = d2
  Nobody = Nobody
  Entity = {e1, e2}
  Rank <- TwoRows
  Transaction = {t1, t2}
  Device = {d1}
  Overtakes = FALSE
  MaxSequence = 2
  MaxSessions = 3
  MaxFaults = 1
INVARIANTS
  MirrorMatchesFeed
  IInv
PROPERTIES
  CommitOrder
  CatchesUp
CHECK_DEADLOCK FALSE
