SPECIFICATION Spec
CONSTANTS
  Producers = {p1, p2}
  Workers = {w1, w2}
  MaxSeq = 2
  MaxAttempts = 5
  MaxTopicOps = 3
  Scopes <- MCScopes
  Idle = Idle
  p1 = p1
  p2 = p2
  w1 = w1
  w2 = w2
INVARIANTS
  OncePerMemory
  AckedStored
PROPERTIES
  ImplementsTopicLog
SYMMETRY Symmetry
CHECK_DEADLOCK FALSE
