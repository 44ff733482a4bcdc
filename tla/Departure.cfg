CONSTANTS
  UAVs = {1, 2}
  Tasks = {t1, t2}
  None = None
  Service = 1
  MultiSortie = TRUE
  SingleSortie = FALSE
  ReturnByEnd = FALSE
  Sequenced = TRUE
  Staging = {"pad", "corridor"}
  Deadlined = {}
  Cadence = 2
  MaxEvents = 2
  MaxDrains = 0
SPECIFICATION DepartingSpec
INVARIANTS SequencerTypeOK QueueIsQueued
PROPERTIES StagedStays MissionSpec QueueDrains
