SPECIFICATION FairSpec
CONSTANTS
  t1 = t1 t2 = t2
  v1 = v1 v2 = v2
  timestamps = timestamps occlusion = occlusion pipeline_stats = pipeline_stats
  SRVUAV = SRVUAV SAMPLER = SAMPLER
  Threads = {t1, t2}
  Views = {v1, v2}
  NoHeap = NoHeap NoThread = NoThread
  Heaps <- MCHeaps
  NumElements <- MCNumElements
  HeapOf <- MCHeapOf
  PageSize = 2
  QueryTypes = {0, 1, 2}
  IndexStep = 10
  WordSize = 64
  SRVCounts = {0, 2, 3} SamplerCounts = {0, 1}
  QueryCounts = {0, 1, 3}
INVARIANTS
  TypeOK
  BlocksApart
  BlocksOwned
  RangesOwned
PROPERTIES
  FindsLowest
  
CHECK_DEADLOCK FALSE
