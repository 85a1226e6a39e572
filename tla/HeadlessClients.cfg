CONSTANTS
  a1 = a1
  a2 = a2
  p1 = p1
  p2 = p2
  s1 = s1
  s2 = s2
  AppClients = {a1, a2}
  TerminalClients = {p1, p2}
  Terminals = {t1}
  Sizes = {s1, s2}
  MinSize = MinSize
  None = None
SPECIFICATION Spec
SYMMETRY Interchangeable
CHECK_DEADLOCK FALSE
INVARIANTS
  TypeOK
  OwnershipInStep
  SizesFollowDrivers
  ClientsAreServed
