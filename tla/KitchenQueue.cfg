SPECIFICATION QueueSpec
CONSTANTS
  Tickets = {t1, t2}
  Items = {i1}
  Cooks = {c1}
  Required <- MCRequired
  Workers = {w1, w2}
  Rebuilds = {r1}
  Limit = 1
  MaxFacts = 6
  MaxGenerations = 4
SYMMETRY Symmetry
CHECK_DEADLOCK FALSE
INVARIANTS
  QueueIsHistory
  StopsOnlyBehindSilence
  PagesAreOneGeneration
PROPERTIES
  NeverBackwards
