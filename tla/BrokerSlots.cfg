SPECIFICATION Spec
CONSTANTS
  MaxJobs = 2
  Lane <- OneLane
  LanePriorities <- BulkPriorities
  Slots = 2
  LaneOfSlot <- TwoSlots
  Request <- SlotRequests
  ClientOps = {"submit", "cancel"}
  Client = {}
  Stops = {}
  MaxQueue = 2
  MaxRecords = 2
  MaxProducts = 1
  MaxArtifacts = 1
  MaxQuarantined = 1
INVARIANTS TypeOK SlotExclusive RunningIsAwaited
PROPERTIES DeliveredInlineOwnsTerminal TerminalIsFinal
CHECK_DEADLOCK FALSE
