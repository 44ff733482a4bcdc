SPECIFICATION Spec
CONSTANTS
  UAVs = {1, 2, 3, 4}
  Tasks = {2, 3}
  None = None
  MultiSortie = TRUE
  Tolerance = 2
  MaxEvents = 3

PROPERTIES SharedRelaysStay
