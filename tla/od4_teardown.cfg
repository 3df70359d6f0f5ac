SPECIFICATION Spec
CONSTANTS
  MessageIDs = {m1, m2}
  Garbage = garbage
  Functions = {f1, f2}
  Null = null
  Users = {u1}
  CatchAll = {FALSE}
  ReentrantUse = FALSE
  MaxCalls = 1
INVARIANTS
  CallbackUsesLiveMembers
CHECK_DEADLOCK FALSE
