SPECIFICATION Spec
CONSTANTS
  InitialDelegates = {TRUE}
  SetDelegates = {TRUE}
  ThreadsMayFail = FALSE
  Interrupts = FALSE
  MaxBlocks = 2
  MaxSends = 0
INVARIANT
  NoHoles
CHECK_DEADLOCK FALSE
