SPECIFICATION Spec
CONSTANTS
  n1 = n1
  n2 = n2
  n3 = n3
  Node = {n1, n2, n3}
  Nil = Nil
  Rounds = {1}
  MaxTerm = 2
  Scopes <- SafetyScopes
SYMMETRY Symmetry
INVARIANTS
  ElectionSafety
  LogMatching
  StateMachineSafety
  LeaderCompleteness
PROPERTIES
  CommittedStays
CHECK_DEADLOCK FALSE
