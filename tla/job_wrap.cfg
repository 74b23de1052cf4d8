CONSTANTS
  Closures = {c1, c2, c3, c4, c5}
  None = None
  OrderMod = 3
  MaxOrder = 5
SPECIFICATION Spec
INVARIANTS NoStaleLink ClosureAlive
CHECK_DEADLOCK FALSE
