SPECIFICATION Spec
CONSTANTS
  Top = 4
  Step = 2
  Page = 3
  Unaligned = 2
  MaxReads = 1
  MaxVersion = 1
INVARIANTS
  ReadTypeOK
  ViewportReturns
PROPERTIES
  ReadEnds
CHECK_DEADLOCK FALSE
