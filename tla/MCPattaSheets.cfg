CONSTANTS
  Kind = {"create", "correct", "legacy", "create_linked", "create_standalone", "reuse", "edit_linked", "edit_standalone", "trash", "restore", "purge"}
  Request = {r1, r2}
  Batch = {b1}
  Sheet = {s1}
  PrintEvent = {}
  Razmer = {1}
  Soni = {1, 2}
  Distribution <- OnlyOne
  MaxNumber = 2
  BlockNumber = {}
  LegacyNumber = {20}
  MaxVersion = 3
SPECIFICATION Spec
CONSTRAINT LegacyApart
SYMMETRY RequestsAndSheets
INVARIANTS
  QuantitiesAgree
  CyclesNeedAnUpdate
PROPERTIES
  StaleNeverWins
