CONSTANTS
  UAVs = {1, 2, 3}
  None = None
  FarEnd = 4
  MaxRange = 2
  Schedule <- MCSchedule
  Horizon = 2
  Tasks = {1, 2, 3}
  TaskPlace <- MCTaskPlace
  Priority <- MCPriority
  Emergency = {3}
  Deadline <- MCDeadline
  PriorityWeight = 10
  TravelWeight = 6
  MinFactor = 200
  HopDecay = 850
  Levels = {"A0", "current", "destination"}
  MaxFailures = 3
  Chain <- MCChain
  HoldAt = 4
SPECIFICATION AllocationSpec
INVARIANTS AllocationTypeOK
PROPERTIES NoJustifiedEnvy GatewayStays NearTasksServed DeploymentEnds
