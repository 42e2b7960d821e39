SPECIFICATION PartsSpec
CONSTANTS
  Process = {w1, w2, w3}
  Helper = {h}
  Passes = {"adopt", "reap"}
  Nobody = nobody
  Window = {1, 2}
  VisibleDemand = {"terminal"}
  HiddenDemand = {"attention", "quiet"}
  QuietDemand = {"quiet"}
  RetryLimit = 2
  MaxEpochs = 2
  MaxWire = 2
  Budgets <- EventBudgets
  Op = {a, b}
  ReplayLimit = 1
  Index = {"0", "1"}
  ReadbackMaxAttempts = 2
  MaxSequence = 2
  MaxSetbacks = 1
  OpBudgets <- OperationBudgets
INVARIANTS TypeOK OneSupervisor SupervisorIsRecorded EventsTypeOK RevisionIsHonest CoversDemand OpsTypeOK HandledOnce AckFollowsHandling PublishedReachesPage SwitchTypeOK OldScreenHidden MaskCanEnd PendingIsAwaited HighlightIsShown
PROPERTIES DisplacesOnlyTheDead HighlightNeverJumps
CHECK_DEADLOCK FALSE
