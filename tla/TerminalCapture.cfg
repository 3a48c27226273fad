SPECIFICATION FairSpec
CONSTANTS
  Workers = {w1, w2}
  AlertAt = 1
  HardDeadline = 1
  MaxTime = 2
  MaxFaults = 1
CHECK_DEADLOCK FALSE
INVARIANTS
  FactIsProviderTruth
  HolderCancelsAlone
  LateCaptureIsReported
PROPERTIES
  AuthorizationSettles
