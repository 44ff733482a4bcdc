CONSTANTS
  UAVs = {1, 2}
  Tasks = {t1, t2}
  None = None
  Service = 1
  MultiSortie = TRUE
  SingleSortie = FALSE
  ReturnByEnd = FALSE
  Sequenced = FALSE
  Staging = {"pad", "corridor"}
  Deadlined = {}
  Cadence = 1
  MaxEvents = 2
  MaxDrains = 1
SPECIFICATION MissionSpec
INVARIANTS MissionTypeOK OwnedIsHeld WorkerFit LowReturns
PROPERTIES SnapshotStillValid LandsOnPad
