SPECIFICATION FairSpec
CONSTANTS
  SegCap = 3
  MaxEntries = 7
  MaxOpens = 3
  NoFile = NoFile
  NoCheckpoint = NoCheckpoint
INVARIANTS
  RecoversPrefix
  ImmediateDurable
PROPERTIES
  EventuallyWritten
CHECK_DEADLOCK FALSE
