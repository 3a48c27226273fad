SPECIFICATION Spec
CONSTANTS
  o1 = o1
  o2 = o2
  Operations = {o1, o2}
  PreparationOf <- TwoPreparations
  SettlesAs <- MixedSettlement
  Callers = {c1}
  Runners = {r1, r2}
  MaxFaults = 1
SYMMETRY ProcessSymmetry
CHECK_DEADLOCK FALSE
INVARIANTS
  RecordsAreTrue
PROPERTIES
  ImplementsTruth
