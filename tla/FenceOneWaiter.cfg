SPECIFICATION FairSpec
CONSTANTS
  Threads = {t1}
  Queues = {q1, q2}
  MaxValue = 3
  MaxPending = 2
  NotWaiting = NotWaiting
INVARIANTS
  WaitInv
PROPERTIES
  Implements
  WaitsReturn
