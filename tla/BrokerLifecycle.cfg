SPECIFICATION Spec
CONSTANTS
  MaxJobs = 2
  Lane <- OneLane
  LanePriorities <- BulkPriorities
  Slots = 1
  LaneOfSlot <- OneSlot
  Request <- MixedRequests
  ClientOps = {"submit"}
  Client = {"web"}
  Stops = {"shutdown", "shutdown_if_idle", "idle", "retire"}
  MaxQueue = 1
  MaxRecords = 2
  MaxProducts = 1
  MaxArtifacts = 1
  MaxQuarantined = 1
INVARIANTS CleanStop
PROPERTIES TerminalIsFinal KeepsLedger
CHECK_DEADLOCK FALSE
