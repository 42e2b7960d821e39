SPECIFICATION FileSpec
CONSTANTS
  FileBudgets <- SmallBudgets
INVARIANTS EditSurvivesReload
CHECK_DEADLOCK FALSE
