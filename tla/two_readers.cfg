CONSTANTS
  Program <- MCProgram
  Settings <- TwiceSettings
  Statuses <- StatusesABCD
  StoreAt = {0, 1}
  Pids = {1, 2, 3, 4, 5}
SPECIFICATION Spec
INVARIANT TrueDoesNothing
