SPECIFICATION FairSpec
CONSTANTS
  Threads = {t1, t2}
  Queues = {q1}
  NumAllocs = 2
  ListsPerAlloc = 1
  SafetyFences = 1
  MaxUniqueAllocs = 4
  MaxBarrierLists = 1
  Recorders = {t1}
  MaxDangling = 2
  MaxUnfinished = 1
  EmptySubmits = FALSE
  NoThread = NoThread
INVARIANTS
  NeverAsserts

  
