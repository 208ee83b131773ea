CONSTANTS
  NodeCount = 2
  ThreadCount = 2
  MPools = 2
SPECIFICATION FairSpec
INVARIANTS
  TypeOK
  SafeShutdown
  GuestAckMeansDone
  InStep
  HostInv
PROPERTIES
  Ends
  Accepted
CHECK_DEADLOCK FALSE
