SPECIFICATION LiveSpec
CONSTANTS
  n1 = n1
  n2 = n2
  Node = {n1, n2}
  Nil = Nil
  Rounds = {1}
  MaxTerm = 2
  Scopes <- LiveScopes
INVARIANTS
  StateMachineComplete
  LogOnDisk
PROPERTIES
  Replicates
CHECK_DEADLOCK FALSE
