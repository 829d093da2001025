SPECIFICATION Spec
CONSTANTS
  Threads = {t1, t2}
  Queues = {q1}
  NumAllocs = 1
  ListsPerAlloc = 2
  SafetyFences = 1
  MaxUniqueAllocs = 24
  MaxBarrierLists = 1
  Recorders = {t1, t2}
  MaxDangling = 2
  MaxUnfinished = 2
  EmptySubmits = FALSE
  NoThread = NoThread
INVARIANTS
  TypeOK
  RefCountsExact
  CountersExact
  NoHandleLeak
PROPERTIES
  ResetOnlyWhenDone
  Implements
CHECK_DEADLOCK FALSE
SYMMETRY Symmetry
