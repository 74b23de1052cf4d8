CONSTANTS
  Program <- MCProgram
  Lines <- MCLines
  Limits <- MCLimits
  Does <- MCDoes
  FilesFound <- MCFiles
  Capacity = 2
  Unreadable = "raw"
SPECIFICATION Spec
INVARIANTS TypeOK NothingMisrouted DeliversEverything NoStrayEnds PointToPoint
PROPERTY LineFinishes
CHECK_DEADLOCK FALSE
