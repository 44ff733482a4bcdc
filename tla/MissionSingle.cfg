CONSTANTS
  UAVs = {1, 2}
  Tasks = {t1, t2}
  None = None
  Service = 1
  MultiSortie = FALSE
  SingleSortie = TRUE
  ReturnByEnd = TRUE
  Sequenced = FALSE
  Staging = {"pad", "corridor"}
  Deadlined = {t2}
  Cadence = 1
  MaxEvents = 2
  MaxDrains = 1
SPECIFICATION MissionSpec
INVARIANT EndsAtHome
\* run() really stops when the mission is over
CHECK_DEADLOCK FALSE
