SPECIFICATION FairSpec
CONSTANTS
  None = None
  Sessions = {s1, s2, s3}
  Timeout = 2
  MaxClock = 5
INVARIANTS
  CalmPollReads
  StampedInTime
PROPERTIES
  ReadingsResume
