SPECIFICATION Spec
CONSTANTS
  Threads = {t1}
  Queues = {q1}
  NumAllocs = 2
  ListsPerAlloc = 2
  SafetyFences = 1
  MaxUniqueAllocs = 24
  MaxBarrierLists = 1
  Recorders = {t1}
  MaxDangling = 1
  MaxUnfinished = 5
  EmptySubmits = FALSE
  NoThread = NoThread
PROPERTIES
  ResetOnlyWhenDone
CHECK_DEADLOCK FALSE
