SPECIFICATION Spec
CONSTANTS
  MaxJobs = 2
  Lane <- OneLane
  LanePriorities <- BulkPriorities
  Slots = 1
  LaneOfSlot <- OneSlot
  Request <- OneDelete
  ClientOps = {"submit"}
  Client = {}
  Stops = {}
  MaxQueue = 2
  MaxRecords = 2
  MaxProducts = 1
  MaxArtifacts = 1
  MaxQuarantined = 1
INVARIANTS WorkerBudget
CHECK_DEADLOCK FALSE
