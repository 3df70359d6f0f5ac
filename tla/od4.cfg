SPECIFICATION FairSpec
CONSTANTS
  MessageIDs = {m1, m2}
  Garbage = garbage
  Functions = {f1, f2}
  Null = null
  Users = {u1, u2}
  CatchAll = {TRUE, FALSE}
  ReentrantUse = TRUE
  MaxCalls = 4
INVARIANTS
  TypeOK
  RunningDelegateIsInstalled
  
PROPERTIES
  NoEnvelopeMissed
  CallbackReturns
  
CHECK_DEADLOCK FALSE
