\* Sessions of the web console against an answering broker.
CONSTANTS
  a = a
  b = b
  t1 = t1
  t2 = t2
  Tokens = {t1, t2}
  None = None
  Failed = Failed
  Names = {a, b}
  ChartLength = 2
  MaxVersion = 4
  Scopes <- MCScopes
SPECIFICATION Spec
INVARIANTS FreshAfterSuccess ToldTrue ChartCurrent SignedIn
PROPERTIES NeverOlder Converges
CHECK_DEADLOCK FALSE
