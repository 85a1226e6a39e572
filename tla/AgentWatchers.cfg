SPECIFICATION WatchersSpec
CONSTANTS
  Agents = {a1, a2}
  None = None
  States = {"Idle", "Working", "Unknown"}
  MaxEvents = 2
  MaxSequence = 2
  Requests <- MCRequests
  Filters <- MCFilters
INVARIANTS
  WatchersTypeOK
  AnswerIsTrue
PROPERTIES
  WaitEnds
  SubscriberIsTold
CHECK_DEADLOCK FALSE
