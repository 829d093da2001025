SPECIFICATION Spec
CONSTANTS
  Threads = {t1, t2}
  Queues = {q1}
  MaxValue = 2
  MaxPending = 2
  NotWaiting = NotWaiting
PROPERTIES
  ReturnsReached
SYMMETRY Symmetry
