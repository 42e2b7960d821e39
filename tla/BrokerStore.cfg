SPECIFICATION Spec
CONSTANTS
  MaxJobs = 3
  Lane <- OneLane
  LanePriorities <- BulkPriorities
  Slots = 2
  LaneOfSlot <- TwoSlots
  Request <- ViewRequests
  ClientOps = {"produce", "read"}
  Client = {}
  Stops = {}
  MaxQueue = 2
  MaxRecords = 3
  MaxProducts = 1
  MaxArtifacts = 1
  MaxQuarantined = 1
INVARIANTS ProductCoversCompleted
CHECK_DEADLOCK FALSE
