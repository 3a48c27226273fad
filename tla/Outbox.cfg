SPECIFICATION FairSpec
CONSTANTS
  a1 = a1
  a2 = a2
  NumEvents = 2
  Aggregates = {a1}
  AggregateOf <- OneAggregate
  Workers = {w1, w2}
  MaxHandoffs = 2
  BatchMaximum = 2
  AdapterConcurrency = 1
  ParkedBatch = 2
  MaxFaults = 1
CHECK_DEADLOCK FALSE
INVARIANTS
  OneLeasePerAggregate
PROPERTIES
  DiscardIsFinal
  ImplementsRelay
  EventsSettle
