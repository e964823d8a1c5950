SPECIFICATION FairSpec
CONSTANTS
  Partition = {p1}
  MaxOffset = 1
  Consumer = {c1, c2}
  Prefetch = 1
  Delayed = {d1}
  RetryLimits = {0, 1}
  RedeliverCap = 1
  ReadyCap = 1
  NoConsumer = NoConsumer
  NoEntry = NoEntry
INVARIANTS
  NextIdxInRange
  PrefetchRespected
  OneFate
  Accounted
  DelayedOnce
PROPERTIES
  PendingExpires
  DelayedReachesConsumer
CHECK_DEADLOCK FALSE
