SPECIFICATION FairSpec
CONSTANTS
  o1 = o1
  o2 = o2
  Operations = {o1, o2}
  PreparationOf <- OnePreparation
  SettlesAs <- AnySettlement
  Callers = {c1, c2}
  Runners = {r1}
  MaxFaults = 1
CHECK_DEADLOCK FALSE
INVARIANTS
  OneChargePerPreparation
PROPERTIES
  CaptureIsAccountedFor
