SPECIFICATION FairSpec
CONSTANTS
  s1 = s1
  s2 = s2
  s3 = s3
  None = None
  Servers = {s1, s2, s3}
  MaxCrashes = 1
PROPERTIES
  PrepareRejectsLive
CHECK_DEADLOCK FALSE
