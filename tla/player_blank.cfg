SPECIFICATION Spec
CONSTANTS
  N = 6
  Stamps <- MCStamps
  Desired = 4
  Threading = TRUE
  MaxDelay = 3
  Uint32 = 16
  SeekBelowFirst = FALSE
  ReadsMayFail = FALSE
INVARIANT
  ReturnedIsRecorded
CHECK_DEADLOCK FALSE
