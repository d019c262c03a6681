CONSTANTS
  Kind = {"create", "register", "register_one", "correct", "correct_offline", "print", "create_linked"}
  Request = {r1, r2}
  Batch = {b1, b2}
  Sheet = {s1, s2}
  PrintEvent = {p1}
  Razmer = {1, 2}
  Soni = {1}
  Distribution <- OneOrTwo
  MaxNumber = 4
  BlockNumber = {11}
  LegacyNumber = {}
  MaxVersion = 2
SPECIFICATION Spec
CONSTRAINT OneOfTwoBatches
SYMMETRY RequestsAndSheets
INVARIANTS
  TypeOK
  DistributionHolds
  SequenceIsAhead
  ServicesForesee
PROPERTIES
  PrintsNameTheRevision
