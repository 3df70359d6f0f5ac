SPECIFICATION FairSpec
CONSTANTS
  N = 6
  Stamps <- MCStamps
  Desired = 4
  Threading = TRUE
  MaxDelay = 3
  Uint32 = 16
  SeekBelowFirst = FALSE
  ReadsMayFail = TRUE
INVARIANTS
  ReadAheadIsCached
PROPERTIES
  StatusNeverAhead
  CallsReturn
CHECK_DEADLOCK FALSE
