SPECIFICATION FairSpec
CONSTANTS
  InitialDelegates = {TRUE, FALSE}
  SetDelegates = {TRUE, FALSE}
  ThreadsMayFail = TRUE
  Interrupts = FALSE
  MaxBlocks = 4
  MaxSends = 2
INVARIANTS
  TypeOK
  InOrder
  LostMeansLost
PROPERTIES
  NoCallbackAfterDestruction
  
  LossIsReported
CHECK_DEADLOCK FALSE
