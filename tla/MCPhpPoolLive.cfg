SPECIFICATION FairSpec
CONSTANTS
  Threads = 1
  Modes <- AllModes
  MaxRequests = 1
  UnhealthyAfter = 2
  Units = 4
PROPERTIES
  StopEnds
  FailedBootRetries
