SPECIFICATION RulesSpec
CONSTANTS
  MaxBody = 5
  MaxParts = 2
  Mega = 4
  Kilo = 2
  UsizeMax = 4000
  Parallelism = 2
  Processes = {p1, p2, p3}
  p1 = p1
  p2 = p2
  p3 = p3
  Listeners <- MCListeners
  Forbid <- MCForbid
  Requests <- MCRequests
  Paths <- MCPaths
  Probes <- MCProbes
  Heads <- MCHeads
  Bodies <- MCBodies
  Dispositions <- MCDispositions
  Adds <- MCAdds
  FieldLines <- MCFieldLines
  Schemas <- MCSchemas
  TokenFiles <- MCTokenFiles
  Configs <- MCConfigs
INVARIANTS
  AliasesRefused
  HeadIsFramed
  PartsRoundTrip
  MetadataRoundTrips
  AcceptedIsUsable
  PidFileTells
CHECK_DEADLOCK FALSE
