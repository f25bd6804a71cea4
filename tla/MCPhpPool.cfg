SPECIFICATION Spec
CONSTANTS
  Threads = 2
  Modes <- AllModes
  MaxRequests = 1
  UnhealthyAfter = 2
  Units = 3
INVARIANTS
  UnitsCountedOnce
  SlotsTell
  PoolKeepsItsThreads
PROPERTIES
  SpentTakesNothing
  WorkingPoolIsNotBlamed
