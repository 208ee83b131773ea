CONSTANTS
  t1 = t1
  t2 = t2
  srv = srv
  Procs <- MCProcs
  Threads <- MCThreads
  Server = srv
  Lists <- MCLists
  Keys <- MCKeys
  Vals <- MCKeys
  NODE_BUNDLE_SIZE = 2
  INITIAL_SIZE = 1
  LOAD_FACTOR = 1
  Populations <- MCPop
  Mix <- MCMix
  OpCount <- MCOps
  MaxRehash = 0
SPECIFICATION LSpec
INVARIANTS
  KeyOnce
