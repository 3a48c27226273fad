SPECIFICATION FairSpec
CONSTANTS
  Executors = {x1, x2}
  MaxAttempts = 2
  Horizon = 1
  MaxClock = 2
  MaxDeliveries = 2
  MaxFaults = 1
CHECK_DEADLOCK FALSE
INVARIANTS
  ClosedIsAccountedFor
  HorizonBoundsRetries
PROPERTIES
  ImplementsHandling
  RetriesSettle
