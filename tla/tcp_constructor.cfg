SPECIFICATION FairSpec
CONSTANTS
  InitialDelegates = {TRUE}
  SetDelegates = {TRUE}
  ThreadsMayFail = FALSE
  Interrupts = FALSE
  MaxBlocks = 1
  MaxSends = 0
PROPERTY
  ConstructorReturns
CHECK_DEADLOCK FALSE
