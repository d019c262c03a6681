SPECIFICATION Spec
CONSTANTS
  d1 = d1
  d2 = d2
  a1 = a1
  a2 = a2
  Device = {d1, d2}
  Adjustment = {a1, a2}
  Quantity = {1}
  PushMaxEvents = 2
  MaxEvents = 3
  Faults = {"loss", "crash"}
  MaxFaults = 1
SYMMETRY Symmetry
INVARIANTS
  IInv
  SentNeverChanges
  VerdictsAgree
  UndecidedStaysQueued
