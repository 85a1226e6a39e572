SPECIFICATION Spec
CONSTANTS
  Agents = {a, b}
  Sessions = {s1, s2}
  None = None
  MaxProcesses = 2
  MaxReports = 3
  MaxFlight = 2
  MaxResults = 1
  MaxClears = 1
INVARIANTS
  PaneTypeOK
  LateReportsStayOut
PROPERTIES
  ReportsInOrder
  HookEndsWithProcess
CHECK_DEADLOCK FALSE
