SPECIFICATION Spec
CONSTANTS
  Reqs = {r1, r2}
  Pids = {p1, p2}
  Budget = 4
  MaxBody = 3
  InlineMax = 1
  MaxFiles = 2
  NoPid = NoPid
SYMMETRY Symmetry
INVARIANTS
  SpoolsHaveOwners
  BytesReserved
  StartIsNotBlocked
