CONSTANTS
  NodeCount = 2
  ThreadCount = 1
  MPools = 1
SPECIFICATION FairSpec
PROPERTIES
  AllGetRoot
CHECK_DEADLOCK FALSE
