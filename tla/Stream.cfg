SPECIFICATION LiveSpec
CONSTANTS
  Protocols = {"ws"}
  Records = {TRUE, FALSE}
  MaxFetch = 2
  MaxMessages = 3
  MaxStart = 1
  MaxSubs = 2
  None = None
INVARIANTS
  SentOnce
PROPERTIES
  Delivered
CHECK_DEADLOCK FALSE
