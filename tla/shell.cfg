CONSTANTS
  Program <- MCProgram
  Settings <- ShellSettings
  Statuses <- StatusesABCD
  StoreAt = {0, 1}
  Pids = {1, 2, 3, 4, 5}
SPECIFICATION Spec
INVARIANTS TypeOK  OneReader FollowsTheLine RunsTheWholeLine StatusOfTheLine UnfinishedLineFails JobsNewestFirst OnlyMainRuns
PROPERTIES LineEnds Sequential
