CONSTANTS
  Closures = {c1, c2, c3, c4, c5}
  None = None
  OrderMod = 8
  MaxOrder = 4
SPECIFICATION Spec
INVARIANTS TypeOK TreeIndexesQueue ClosureAlive OneOwner
PROPERTY StackSpec
CHECK_DEADLOCK FALSE
