SPECIFICATION FairSpec
CONSTANTS
  Threads = {t1, t2}
  MaxInstances = 2
  NumThreads = 1
  NumAllocs = 2
  ListsPerAlloc = 1
  Nodes = {n1, n2}
  MaxLists = 1
  MaxBarriers = 1
  MaxDangling = 2
  MaxQueued = 2
  MaxSubmits = 2
  NoThread = NoThread
  NoNode = NoNode
  NoAlloc = NoAlloc
INVARIANTS
  NeverAsserts
PROPERTIES
  RecordReturns
CHECK_DEADLOCK FALSE
