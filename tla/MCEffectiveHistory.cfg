CONSTANTS
  Request = {r1, r2}
  Badge = {b1}
  Worker = {w1, w2}
  Operation = {o1, o2}
  Model = m
  Price = {p1, p2}
  MaxNow = 1
  MaxTime = 2
  MaxVersion = 2
SPECIFICATION Spec
CONSTRAINT OneHistory
SYMMETRY Identities
INVARIANTS
  NoOverlap
  PriceTimeline
  InactiveHoldsNone
  SnapshotHolds
PROPERTIES
  NothingRewritten
