CONSTANTS
  UAVs = {1, 2, 3}
  None = None
  FarEnd = 3
  MaxRange = 2
  Schedule <- MCSchedule
  Horizon = 2
  Tasks = {3}
  Fov = 0
  Delay = 1
  Deadline = 3
SPECIFICATION TelemetrySpec
INVARIANTS TelemetryTypeOK AnalysisContract RoutesAreLeast
PROPERTIES ReportsAsPromised EveryReportCloses NoneLeftBehind
