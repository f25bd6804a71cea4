SPECIFICATION Spec
CONSTANTS
  Requests = {r1, r2}
  Paths = {p, q}
  NoEntry = NoEntry
  NoPath = NoPath
  TTL = 1
  MaxFile = 2
  MaxTotal = 4
  Overhead = 1
  Versions = 4
  Length <- Lengths
  MaxTime = 2
  r1 = r1
  r2 = r2
  p = p
  q = q
SYMMETRY Symmetry
INVARIANTS
  StoreExact
  EntryWhole
