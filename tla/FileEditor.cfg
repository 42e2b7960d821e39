SPECIFICATION FileSpec
CONSTANTS
  FileBudgets <- SmallBudgets
INVARIANTS FileTypeOK NoEditLost CloseIsAwaited
PROPERTIES OverwritesOnlyTheSeen EditorConverges
CHECK_DEADLOCK FALSE
