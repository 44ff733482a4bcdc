CONSTANTS
  UAVs = {1}
  Tasks = {t1, t2}
  None = None
  Service = 2
  MultiSortie = TRUE
  SingleSortie = FALSE
  ReturnByEnd = FALSE
  Sequenced = TRUE
  Staging = {"pad", "corridor"}
  Deadlined = {}
  Cadence = 1
  MaxEvents = 4
  MaxDrains = 1
SPECIFICATION LiveSequencerSpec
PROPERTIES ReturnsHome AssignmentResolves NoStarvedTask
