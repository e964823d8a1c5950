SPECIFICATION Spec
CONSTANTS
  Key = {k1, k2}
  NoKey = NoKey
  Policies <- MCPolicies
  MaxOffset = 4
  MaxClock = 2
  MaxRestarts = 1
  ScanBatch = 3
  MaxCompactionKeys = 3
  NoRecord = NoRecord
SYMMETRY Symmetry
INVARIANTS
  OffsetsNeverReused
  ActiveReadable
  NoHoles
PROPERTIES
  RestartKeeps
  TrimsOnlyExpired
CHECK_DEADLOCK FALSE
