SPECIFICATION InteractiveSpec
CONSTANTS
  MaxJobs = 2
  Lane <- TwoLanes
  LanePriorities <- LanesPriorities
  Slots = 2
  LaneOfSlot <- SlotPerLane
  Request <- LaneRequests
  ClientOps = {"submit"}
  Client = {}
  Stops = {"shutdown"}
  MaxQueue = 2
  MaxRecords = 2
  MaxProducts = 2
  MaxArtifacts = 1
  MaxQuarantined = 1
PROPERTIES InteractiveSettles InteractiveShutdown
CHECK_DEADLOCK FALSE
