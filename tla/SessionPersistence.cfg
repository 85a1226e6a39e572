SPECIFICATION Spec
CONSTANTS
  Panes <- MCPanes
  Sessions = {s1, s2}
  None = None
  MaxChanges = 5
  MaxStarts = 3
INVARIANTS
  PersistenceTypeOK
  SavedSessionSurvives
  ResumedOnce
PROPERTIES
  ChangesReachDisk
CHECK_DEADLOCK FALSE
