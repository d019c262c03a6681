SPECIFICATION Spec
CONSTANTS
  e1 = e1
  e2 = e2
  t1 = t1
  t2 = t2
  d1 = d1
  d2 = d2
  Nobody = Nobody
  Entity = {e1}
  Rank <- OneRow
  Transaction = {t1}
  Device = {d1}
  Overtakes = TRUE
  MaxSequence = 1
  MaxSessions = 3
  MaxFaults = 1
INVARIANTS
  MirrorMatchesFeed
CHECK_DEADLOCK FALSE
