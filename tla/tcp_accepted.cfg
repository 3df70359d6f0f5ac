SPECIFICATION Spec
CONSTANTS
  InitialDelegates = {FALSE}
  SetDelegates = {TRUE}
  ThreadsMayFail = FALSE
  Interrupts = TRUE
  MaxBlocks = 4
  MaxSends = 1
INVARIANTS
  NoHoles
  
CHECK_DEADLOCK FALSE
