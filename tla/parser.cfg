CONSTANTS
  Meant <- MCMeant
  Slips <- MCSlips
  ShortLine = 4
SPECIFICATION Spec
INVARIANTS ParsedAsMeant NothingLost OneChain
CHECK_DEADLOCK FALSE
