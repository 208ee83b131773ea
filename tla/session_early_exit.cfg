CONSTANTS
  NodeCount = 2
  ThreadCount = 2
  MPools = 1
SPECIFICATION Spec
INVARIANTS
  SafeShutdown
CHECK_DEADLOCK FALSE
