SPECIFICATION FairSpec
CONSTANTS
  t1 = t1
  t2 = t2
  Tasks = {t1, t2}
  BufferSize = 2
  MaxInputs = 3
  MaxHandoffs = 2
INVARIANTS
  TypeOK
  AcceptedInputSurvives
  GateMatchesActor
PROPERTIES
  InputIsWritten
CHECK_DEADLOCK FALSE
