SPECIFICATION FairSpec
CONSTANTS
  d1 = d1
  d2 = d2
  a1 = a1
  a2 = a2
  Device = {d1, d2}
  Adjustment = {a1}
  Quantity = {1, 2}
  PushMaxEvents = 1
  MaxEvents = 2
  Faults = {"loss", "auth", "crash", "error"}
  MaxFaults = 1
INVARIANTS
  NothingPassedOver
  ShownIsRecorded
PROPERTIES
  DevicesConverge
  EveryEventIsSettled
