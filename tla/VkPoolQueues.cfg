SPECIFICATION FairSpec
CONSTANTS
  Threads = {t1}
  Queues = {q1, q2}
  NumAllocs = 1
  ListsPerAlloc = 2
  SafetyFences = 2
  MaxUniqueAllocs = 24
  MaxBarrierLists = 1
  Recorders = {t1}
  MaxDangling = 1
  MaxUnfinished = 3
  EmptySubmits = FALSE
  NoThread = NoThread
INVARIANTS
  RingNeverFull
PROPERTIES
  OnlyReadyFencesReset
  RecordReturns
CHECK_DEADLOCK FALSE
