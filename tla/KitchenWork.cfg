SPECIFICATION Spec
CONSTANTS
  i1 = i1
  i2 = i2
  Items = {i1, i2}
  Cooks = {c1, c2}
  Required <- MCRequired
  Copies = {1}
  Sessions = {s1, s2}
  Deliveries = {d1, d2}
  MaxBehind = 0
  MaxFaults = 1
SYMMETRY Symmetry
CHECK_DEADLOCK FALSE
INVARIANTS
  KeyTakesEffectOnce
  OrderReadyOnce
  ReaderAccepts
PROPERTIES
  HistoryHolds
  AnswersAreTrue
