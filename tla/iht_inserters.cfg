CONSTANTS
  t1 = t1
  t2 = t2
  t3 = t3
  Threads = {t1, t2}
  Home <- MCHome2
  PLIST_SIZE = 2
  ELIST_SIZE = 1
  PAddr = {1, 2, 3, 4}
  EAddr = {11, 12, 13, 14, 15, 16}
  Root = 1
  HostPool = 0
  Keys <- MCKeys
  Vals <- MCVals
  Mix <- MCMix2
  OpCount <- MCOps2
SPECIFICATION LSpec
PROPERTIES
  LinearizableUnlessOverwritten
  OverwritesOthersOnly
