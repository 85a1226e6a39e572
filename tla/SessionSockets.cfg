SPECIFICATION FairSpec
CONSTANTS
  s1 = s1
  s2 = s2
  s3 = s3
  None = None
  Servers = {s1, s2, s3}
  MaxCrashes = 1
INVARIANTS
  TypeOK
  FilesMatchServers
PROPERTIES
  LiveFileIsKept
  LoneStartSucceeds
CHECK_DEADLOCK FALSE
