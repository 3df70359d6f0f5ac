SPECIFICATION Spec
CONSTANTS
  N = 8
  Stamps <- MCStamps
  Desired = 4
  Threading = FALSE
  MaxDelay = 3
  Uint32 = 16
  SeekBelowFirst = TRUE
  ReadsMayFail = TRUE
INVARIANTS
  TypeOK
  ReturnedIsRecorded
  CacheIsBounded
  
  PromiseIsKept
PROPERTY
  ImplementsPlayback
CHECK_DEADLOCK FALSE
