CONSTANTS
  Sessions = {s1, s2}
  Lines <- MCLines
  Files <- MCFiles
  HistSize = 2
  FileSize = 1
  MaxTyped = 2
  MaxStarts = 2
  Null = Null
  NoFile = NoFile
SPECIFICATION Spec
INVARIANTS TypeOK InTypedOrder SavedIsKept NoNeighboursAlike CrashesOnlySo
PROPERTY SessionEnds
