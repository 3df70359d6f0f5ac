SPECIFICATION FairSpec
CONSTANTS
  Sources <- MCSources
  LocalIPs <- MCLocalIPs
  SendFromPort = 1
  ThreadsMayFail = TRUE
  MaxDatagrams = 3
  Int32Max = 8
INVARIANTS
  TypeOK
  InOrder
  
  NothingReadIsLost
  WorkerIsWokenForData
PROPERTIES
  
  
  EntriesAreDelivered
CHECK_DEADLOCK FALSE
