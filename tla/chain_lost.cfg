CONSTANTS
  Program <- MCProgram
  Settings <- ChainSettings
  Statuses <- StatusesABCD
  StoreAt = {0}
  Pids = {1, 2, 3, 4, 5}
SPECIFICATION Spec
INVARIANT ChainsAsWritten
