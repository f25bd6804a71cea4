SPECIFICATION FairSpec
CONSTANTS
  Requests = {r1, r2}
  Workers = {w1, w2}
  Slots = 1
  Budget = 1
  Bodies = {1}
  NoUnit = NoUnit
  r1 = r1
  r2 = r2
  w1 = w1
  w2 = w2
PROPERTIES
  SubmissionEnds
