\* A confirmed deletion that waits for the network.
CONSTANTS
  a = a
  b = b
  t1 = t1
  t2 = t2
  Tokens = {t1, t2}
  None = None
  Failed = Failed
  Names = {a, b}
  ChartLength = 2
  MaxVersion = 4
  Scopes <- OfflineScopes
SPECIFICATION Spec
INVARIANT OnlyConfirmed
CHECK_DEADLOCK FALSE
