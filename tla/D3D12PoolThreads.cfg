SPECIFICATION Spec
CONSTANTS
  Threads = {t1, t2}
  MaxInstances = 2
  NumThreads = 2
  NumAllocs = 1
  ListsPerAlloc = 2
  Nodes = {n1, n2}
  MaxLists = 2
  MaxBarriers = 1
  MaxDangling = 2
  MaxQueued = 1
  MaxSubmits = 2
  NoThread = NoThread
  NoNode = NoNode
  NoAlloc = NoAlloc
INVARIANTS
  TypeOK
  CountersExact
  SignalsAscend
  OwnersDiffer
PROPERTIES
  ResetOnlyWhenDone
  Implements
SYMMETRY Symmetry
CHECK_DEADLOCK FALSE
