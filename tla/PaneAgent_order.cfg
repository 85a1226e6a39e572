SPECIFICATION Spec
CONSTANTS
  Agents = {a}
  Sessions = {s1, s2}
  None = None
  MaxProcesses = 1
  MaxReports = 6
  MaxFlight = 2
  MaxResults = 1
  MaxClears = 0
PROPERTIES
  OlderReportsIgnored
CHECK_DEADLOCK FALSE
