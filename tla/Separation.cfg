CONSTANTS
  UAVs = {1, 2, 3}
  None = None
  Depth = 4
  East = 6
  Mouth = 3
  Side = 5
  Margin = 1
  Pad <- MCPad
  Home <- MCHome
  Sites <- MCSites
  MinSep = 3
  MaxEvents = 3
SPECIFICATION SeparationSpec
INVARIANT SteeringArrives
PROPERTIES KeepsDistance OnlyDetoursLeave
