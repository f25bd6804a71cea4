SPECIFICATION AgedSpec
CONSTANTS
  Requests = {r1, r2}
  Paths = {p}
  NoEntry = NoEntry
  NoPath = NoPath
  TTL = 2
  MaxFile = 2
  MaxTotal = 4
  Overhead = 1
  Versions = 2
  Length <- Lengths
  MaxTime = 4
  r1 = r1
  r2 = r2
  p = p
INVARIANTS
  ChangeReachesClient
