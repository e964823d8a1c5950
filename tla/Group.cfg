SPECIFICATION LiveSpec
CONSTANTS
  Members = {1, 2, 3}
  PartitionCount = 4
  Strategies = {"range", "roundrobin", "sticky"}
  Committers = {c1, c2}
  MaxOffset = 2
  MaxLeaving = 1
  Scopes <- MCScopes
  None = None
  c1 = c1
  c2 = c2
INVARIANTS
  EveryPartitionOwned
  Balanced
  StoreAgrees
PROPERTIES
  SilentMembersDrop
