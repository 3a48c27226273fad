SPECIFICATION Spec
CONSTANTS
  Requests = {r1, r2, r3}
  Operations = {o1, o2, o3}
  Evidence = {v1, v2}
  IdleTimeout = 2
  AbsoluteTimeout = 3
  MaxVersion = 3
  MaxTime = 3
  None = None
SYMMETRY Symmetry
CHECK_DEADLOCK FALSE
INVARIANTS
  FormerIsDenied
  SessionsAreOnRecord
  AnswersAreTrue
PROPERTIES
  SeenMovesForward
  ImplementsLineage
