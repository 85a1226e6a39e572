SPECIFICATION HandoffSpec
CONSTANTS
  p1 = p1
  p2 = p2
  Old = Old
  New = New
  Third = Third
  None = None
  Panes = {p1, p2}
  Servers = {Old, New, Third}
  MaxCrashes = 1
INVARIANTS
  HandoffTypeOK
  PanesHaveOneKeeper
  ServingIsReachable
PROPERTIES
  ImplementsPaneOwnership
  PanesResume
CHECK_DEADLOCK FALSE
