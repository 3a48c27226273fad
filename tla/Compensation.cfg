SPECIFICATION FairSpec
CONSTANTS
  Workers = {w1, w2}
  Captured = 2
  Evidence = {e1, e2}
  MaxFaults = 1
CHECK_DEADLOCK FALSE
INVARIANTS
  OneRefundAsked
  ClosedIsSettled
PROPERTIES
  ImplementsTruth
  NothingIsUndone
  CompensationCompletes
