SPECIFICATION ArchiveSpec
CONSTANTS
  Configs = {1, 2}
  Tasks <- MCTasks
  Indices = {first, second}
  Weight <- MCWeight
  Scores = {50, 100}
  Codes = {"provider_timeout"}
  Unit = 2
  MaxExports = 1
  Writers = {1, 2}
  ArchivedRows <- MCArchivedRows
SYMMETRY Symmetry
INVARIANTS
  WinnersAreEarned
  CountsAddUp
  FinalReportsAreKept
CHECK_DEADLOCK FALSE
