SPECIFICATION FairSpec
CONSTANTS
  a1 = a1
  a2 = a2
  NumEvents = 1
  Aggregates = {a1, a2}
  AggregateOf <- SoleEvent
  Workers = {w1}
  MaxHandoffs = 2
  BatchMaximum = 1
  AdapterConcurrency = 1
  ParkedBatch = 1
  MaxFaults = 1
CHECK_DEADLOCK FALSE
PROPERTIES
  ExhaustedIsDeadLettered
