SPECIFICATION Spec
CONSTANTS
  Requests = {r1, r2, r3, r4}
  Workers = {w1, w2}
  Slots = 2
  Budget = 2
  Bodies = {1, 3}
  NoUnit = NoUnit
  r1 = r1
  r2 = r2
  r3 = r3
  r4 = r4
  w1 = w1
  w2 = w2
SYMMETRY Symmetry
INVARIANTS
  SlotsHandedOn
  BytesConserved
  CountersExact
  AtMostOneLateUnit
PROPERTIES
  ImplementsQueue
