SPECIFICATION Spec
CONSTANTS
  Threads = {t1}
  Queues = {q1}
  NumAllocs = 1
  ListsPerAlloc = 1
  SafetyFences = 1
  MaxUniqueAllocs = 24
  MaxBarrierLists = 0
  Recorders = {t1}
  MaxDangling = 1
  MaxUnfinished = 1
  EmptySubmits = TRUE
  NoThread = NoThread
INVARIANTS
  RingNeverFull
CHECK_DEADLOCK FALSE
