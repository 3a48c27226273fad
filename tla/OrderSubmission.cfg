SPECIFICATION Spec
CONSTANTS
  i1 = i1
  g1 = g1
  g2 = g2
  k = k
  None = None
  r1 = r1
  r2 = r2
  r3 = r3
  r4 = r4
  Requests = {r1, r2, r3, r4}
  Guests = {g1, g2}
  Keys = {k1, k2}
  ItemRefs = {i1, i2}
  Quantities = {1}
  Selections = {k}
  FirstLines <- MCFirstLines
  Sends <- MCSends
  MaxMenu = 2
  MaxVersion = 3
  FirstIdle = 1
  IdleTimeout = 2
  AbsoluteTimeout = 2
  QuoteLife = 1
  MaxTime = 1
SYMMETRY Symmetry
CHECK_DEADLOCK FALSE
INVARIANTS
  NoEditIsLost
  EndIsDueAndFinal
  OrderIsQuotedCart
  OrderIsOfOneMenu
  AnswersAreTrue
