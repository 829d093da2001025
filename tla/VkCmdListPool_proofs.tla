------------------------ MODULE VkCmdListPool_proofs ------------------------
EXTENDS VkCmdListPool, FiniteSetTheorems, TLAPS

\* The allocators and their lists are finitely many.
LEMMA AllocsFinite == IsFiniteSet(Allocs) /\ IsFiniteSet(Lists) /\ NumFences \in Nat \ {0}
<1>1. IsFiniteSet(0 .. NumAllocs - 1) /\ IsFiniteSet(0 .. ListsPerAlloc - 1)
  BY FS_Interval, SizesAssumption
<1>2. IsFiniteSet(Bundles \X (0 .. NumAllocs - 1))
  BY <1>1, FS_Product, SizesAssumption DEF Bundles
<1>3. IsFiniteSet(Allocs)
  <2> DEFINE flat == [p \in Bundles \X (0 .. NumAllocs - 1) |-> <<p[1][1], p[1][2], p[2]>>]
  <2>1. flat \in [Bundles \X (0 .. NumAllocs - 1) -> Allocs]
    BY DEF Bundles, Allocs
  <2>2. ASSUME NEW a \in Allocs
        PROVE  \E p \in Bundles \X (0 .. NumAllocs - 1) : flat[p] = a
    <3>1. /\ <<<<a[1], a[2]>>, a[3]>> \in Bundles \X (0 .. NumAllocs - 1)
          /\ a = <<a[1], a[2], a[3]>>
      BY DEF Bundles, Allocs
    <3>2. flat[<<<<a[1], a[2]>>, a[3]>>] = a
      BY <3>1
    <3> QED
      BY <3>1, <3>2
  <2>3. flat \in Surjection(Bundles \X (0 .. NumAllocs - 1), Allocs)
    BY <2>1, <2>2 DEF Surjection
  <2> QED
    BY <1>2, <2>3, FS_Surjection
<1>4. IsFiniteSet(Lists)
  BY <1>1, <1>3, FS_Product DEF Lists
<1>5. Cardinality(Allocs) \in Nat
  BY <1>3, FS_CardinalityType
<1> QED
  BY <1>3, <1>4, <1>5, SizesAssumption DEF NumFences

-----------------------------------------------------------------------------
LEMMA InitTypeOK == Init => TypeOK
  BY AllocsFinite, SizesAssumption
  DEF Init, TypeOK, RingType, NodeType, DeviceType, ThreadType, SubmitType, Fences, NoFence, NotLoaded,
      Points, Assertions

\* The parameters of the actions.
LEMMA ActiveType ==
  ASSUME TypeOK, NEW t \in Threads
  PROVE  /\ Active(t) \in Allocs /\ Bundle(t) \in Bundles /\ target[t] \in Queues
         /\ NumAllocs \in Nat \ {0} /\ ListsPerAlloc \in Nat \ {0}
  BY SizesAssumption DEF TypeOK, NodeType, ThreadType, Active, Bundle, Bundles, Allocs

LEMMA CreateTypeOK ==
  ASSUME TypeOK, NEW t \in Threads, Create(t)
  PROVE  TypeOK'
<1>a. /\ Active(t) \in Allocs /\ Bundle(t) \in Bundles
      /\ NumAllocs \in Nat \ {0} /\ ListsPerAlloc \in Nat \ {0}
      /\ RingType /\ NodeType /\ DeviceType /\ ThreadType /\ SubmitType
  BY ActiveType DEF TypeOK
<1>b. /\ disc \in [Threads -> Int] /\ pend \in [Threads -> Int] /\ it \in [Threads -> Nat]
  BY <1>a DEF ThreadType
<1>d. /\ \A to \in Points : Goto(t, to) => pc' \in [Threads -> Points]
      /\ \A what \in Assertions : Fail(what) => assertion' \in Assertions \union {"none"}
  BY <1>a DEF ThreadType, Goto, Fail
<1>c. Unload(t) => disc' \in [Threads -> Int] /\ pend' \in [Threads -> Int]
  BY <1>b DEF Unload, NotLoaded
<1>1. CASE TakeBuffer(t)
  <2>1. RingType'
    BY <1>a, <1>1 DEF TakeBuffer, Goto, RingType, ring
  <2>2. NodeType'
    BY <1>a, <1>1 DEF TakeBuffer, Goto, NodeType, node, IsFull
  <2>3. DeviceType'
    BY <1>a, <1>1 DEF TakeBuffer, Goto, DeviceType, device
  <2>4. ThreadType'
    <3>1. pc' \in [Threads -> Points]
      BY <1>1, <1>d DEF TakeBuffer, Points
    <3> QED
      BY <1>a, <1>1, <3>1 DEF TakeBuffer, ThreadType, loaded
  <2>5. SubmitType'
    BY <1>a, <1>1 DEF TakeBuffer, Goto, SubmitType, submit, IsFull, NodeType, Lists
  <2> QED
    BY <2>1, <2>2, <2>3, <2>4, <2>5 DEF TypeOK
<1>2. CASE LoadCounter(t)
  <2>1. RingType'
    BY <1>a, <1>2 DEF LoadCounter, RingType, ring
  <2>2. NodeType'
    BY <1>a, <1>2 DEF LoadCounter, NodeType, node
  <2>3. DeviceType'
    BY <1>a, <1>2 DEF LoadCounter, DeviceType, device
  <2>4. ThreadType'
    <3>1. num_discarded[Active(t)] \in Int /\ num_pending_execution[Active(t)] \in Int
      BY <1>a DEF NodeType
    <3>2. disc' \in [Threads -> Int] /\ pend' \in [Threads -> Int]
      BY <1>b, <1>2, <3>1 DEF LoadCounter
    <3> QED
      BY <1>a, <1>2, <3>2 DEF LoadCounter, ThreadType
  <2>5. SubmitType'
    BY <1>a, <1>2 DEF LoadCounter, SubmitType, submit
  <2> QED
    BY <2>1, <2>2, <2>3, <2>4, <2>5 DEF TypeOK
<1>3. CASE Reset(t)
  <2>1. RingType'
    BY <1>a, <1>3 DEF Reset, Unload, RingType, ring
  <2>2. NodeType'
    BY <1>a, <1>3 DEF Reset, Unload, NodeType, node
  <2>3. DeviceType'
    BY <1>a, <1>3 DEF Reset, Unload, DeviceType, device
  <2>4. ThreadType'
    <3>1. Unload(t) /\ pc' = pc /\ target' = target /\ it' = it /\ assertion' = assertion
      BY <1>3 DEF Reset
    <3> QED
      BY <1>a, <1>c, <3>1 DEF ThreadType
  <2>5. SubmitType'
    BY <1>a, <1>3 DEF Reset, Unload, SubmitType, submit
  <2> QED
    BY <2>1, <2>2, <2>3, <2>4, <2>5 DEF TypeOK
<1>4. CASE NextAllocator(t)
  <2>1. RingType'
    BY <1>a, <1>4 DEF NextAllocator, Unload, Goto, Fail, RingType, ring
  <2>2. NodeType'
    <3>1. mActiveAllocator \in [Bundles -> 0 .. NumAllocs - 1]
      BY <1>a DEF NodeType
    <3>2. WrappedIncrement(mActiveAllocator[Bundle(t)], NumAllocs) \in 0 .. NumAllocs - 1
      BY <1>a, <3>1 DEF WrappedIncrement
    <3>3. mActiveAllocator' =
            [mActiveAllocator EXCEPT ![Bundle(t)] = WrappedIncrement(@, NumAllocs)]
      BY <1>4 DEF NextAllocator
    <3>4. mActiveAllocator' \in [Bundles -> 0 .. NumAllocs - 1]
      BY <1>a, <3>1, <3>2, <3>3
    <3> QED
      BY <1>a, <1>4, <3>4 DEF NextAllocator, NodeType, node
  <2>3. DeviceType'
    BY <1>a, <1>4 DEF NextAllocator, Unload, Goto, Fail, DeviceType, device
  <2>4. ThreadType'
    <3>1. disc' \in [Threads -> Int] /\ pend' \in [Threads -> Int]
      BY <1>c, <1>4 DEF NextAllocator
    <3>2. target' \in [Threads -> Queues]
      BY <1>a, <1>4 DEF NextAllocator, ThreadType
    <3>3. it' \in [Threads -> Nat]
      <4>1. it' = [it EXCEPT ![t] = IF it[t] = NumAllocs - 1 THEN 0 ELSE @ + 1]
        BY <1>4 DEF NextAllocator
      <4> QED
        BY <1>b, <4>1
    <3>4. pc' \in [Threads -> Points]
      BY <1>a, <1>d, <1>4 DEF NextAllocator, ThreadType, Points
    <3>5. assertion' \in Assertions \union {"none"}
      BY <1>a, <1>d, <1>4 DEF NextAllocator, ThreadType, Assertions
    <3> QED
      BY <3>1, <3>2, <3>3, <3>4, <3>5 DEF ThreadType
  <2>5. SubmitType'
    BY <1>a, <1>4 DEF NextAllocator, Unload, Goto, Fail, SubmitType, submit
  <2> QED
    BY <2>1, <2>2, <2>3, <2>4, <2>5 DEF TypeOK
<1> QED
  BY <1>1, <1>2, <1>3, <1>4 DEF Create

LEMMA SubmitTypeOK ==
  ASSUME SubmitInv, NEW t \in Threads, Submit(t)
  PROVE  TypeOK'
<1>a. /\ Active(t) \in Allocs /\ Bundle(t) \in Bundles /\ target[t] \in Queues
      /\ RingType /\ NodeType /\ DeviceType /\ ThreadType /\ SubmitType
  BY ActiveType DEF SubmitInv, TypeOK
<1>b. /\ it \in [Threads -> Nat] /\ pc \in [Threads -> Points]
      /\ ref_count \in [Fences -> Int] /\ mNextFence \in Fences
      /\ pool_nodes \in Int
      /\ sub_lists \subseteq Lists /\ sub_fence \in Fences \union {NoFence}
  BY <1>a DEF ThreadType, RingType, NodeType, SubmitType
<1>c. /\ \A to \in Points : Goto(t, to) => pc' \in [Threads -> Points]
      /\ \A what \in Assertions : Fail(what) => assertion' \in Assertions \union {"none"}
  BY <1>a DEF ThreadType, Goto, Fail
<1>d. NumFences \in Nat \ {0} /\ WrappedIncrement(mNextFence, NumFences) \in Fences
  BY <1>b, AllocsFinite DEF WrappedIncrement, Fences
<1>1. CASE CreateBarrierList(t)
  <2>1. RingType' /\ DeviceType'
    BY <1>a, <1>1 DEF CreateBarrierList, RingType, DeviceType, ring, device
  <2>2. NodeType'
    <3>1. pool_nodes' \in Int
      <4>1. pool_nodes' = pool_nodes \/ pool_nodes' = pool_nodes + 1
        BY <1>1 DEF CreateBarrierList, AcquireNode
      <4> QED
        BY <1>b, <4>1
    <3> QED
      BY <1>a, <1>1, <3>1 DEF CreateBarrierList, NodeType, node
  <2>3. ThreadType'
    <3>1. pc' \in [Threads -> Points]
      BY <1>1, <1>b, <1>c DEF CreateBarrierList, AcquireNode, Points
    <3>2. assertion' \in Assertions \union {"none"}
      BY <1>1, <1>a, <1>c DEF CreateBarrierList, AcquireNode, Assertions, ThreadType
    <3>3. /\ target' \in [Threads -> Queues] /\ it' \in [Threads -> Nat]
          /\ disc' \in [Threads -> Int] /\ pend' \in [Threads -> Int]
      BY <1>a, <1>1 DEF CreateBarrierList, ThreadType, loaded
    <3> QED
      BY <3>1, <3>2, <3>3 DEF ThreadType
  <2>4. SubmitType'
    BY <1>a, <1>1 DEF CreateBarrierList, SubmitType
  <2> QED
    BY <2>1, <2>2, <2>3, <2>4 DEF TypeOK
<1>2. CASE BarriersDone(t)
  <2>1. RingType' /\ DeviceType' /\ NodeType' /\ SubmitType'
    BY <1>a, <1>2 DEF BarriersDone, RingType, DeviceType, NodeType, SubmitType, ring, device, node,
                      submit
  <2>2. pc' \in [Threads -> Points]
    BY <1>2, <1>c DEF BarriersDone, Points
  <2>3. ThreadType'
    BY <1>a, <1>2, <2>2 DEF BarriersDone, ThreadType, loaded
  <2> QED
    BY <2>1, <2>3 DEF TypeOK
<1>3. CASE TakeFence(t)
  <2>1. RingType'
    <3>1. ref_count' \in [Fences -> Int]
      BY <1>3, <1>b DEF TakeFence
    <3>2. mNextFence' \in Fences
      BY <1>3, <1>d DEF TakeFence
    <3> QED
      BY <1>a, <1>3, <3>1, <3>2 DEF TakeFence, RingType
  <2>2. DeviceType' /\ NodeType'
    BY <1>a, <1>3 DEF TakeFence, DeviceType, NodeType, device, node
  <2>3. ThreadType'
    <3>1. pc' \in [Threads -> Points]
      BY <1>3, <1>c DEF TakeFence, Points
    <3>2. it' \in [Threads -> Nat]
      BY <1>3, <1>b DEF TakeFence
    <3> QED
      BY <1>a, <1>3, <3>1, <3>2 DEF TakeFence, ThreadType, loaded
  <2>4. SubmitType'
    BY <1>a, <1>b, <1>3 DEF TakeFence, SubmitType
  <2> QED
    BY <2>1, <2>2, <2>3, <2>4 DEF TypeOK
<1>4. CASE NextFence(t)
  <2>1. RingType'
    <3>1. mNextFence' \in Fences
      BY <1>4, <1>d DEF NextFence
    <3> QED
      BY <1>a, <1>4, <3>1 DEF NextFence, RingType
  <2>2. DeviceType' /\ NodeType'
    BY <1>a, <1>4 DEF NextFence, DeviceType, NodeType, device, node
  <2>3. ThreadType'
    <3>1. pc' \in [Threads -> Points]
      BY <1>4, <1>b, <1>c DEF NextFence, Points
    <3>2. assertion' \in Assertions \union {"none"}
      BY <1>4, <1>a, <1>c DEF NextFence, Assertions, ThreadType
    <3>3. it' \in [Threads -> Nat]
      <4>1. it' = [it EXCEPT ![t] = IF it[t] = NumFences - 1 THEN 0 ELSE @ + 1]
        BY <1>4 DEF NextFence
      <4> QED
        BY <1>b, <4>1
    <3>4. target' \in [Threads -> Queues]
      BY <1>a, <1>4 DEF NextFence, ThreadType
    <3>5. disc' \in [Threads -> Int] /\ pend' \in [Threads -> Int]
      BY <1>a, <1>4 DEF NextFence, ThreadType, loaded
    <3> QED
      BY <3>1, <3>2, <3>3, <3>4, <3>5 DEF ThreadType
  <2>4. SubmitType'
    BY <1>a, <1>4 DEF NextFence, SubmitType, submit
  <2> QED
    BY <2>1, <2>2, <2>3, <2>4 DEF TypeOK
<1>5. CASE QueueSubmit(t)
  <2>1. RingType' /\ NodeType' /\ SubmitType'
    BY <1>a, <1>5 DEF QueueSubmit, RingType, NodeType, SubmitType, ring, node, submit
  <2>2. DeviceType'
    <3>1. sub_fence \in Fences
      BY <1>5, <1>b, NoThreadAssumption DEF QueueSubmit, SubmitInv, FenceHeld, Submitting
    <3> DEFINE S == [fence : Fences, lists : SUBSET Lists]
    <3>2. [fence |-> sub_fence, lists |-> sub_lists] \in S
      BY <1>b, <3>1
    <3>3. queue \in [Queues -> Seq(S)]
      BY <1>a DEF DeviceType
    <3> HIDE DEF S
    <3>4. queue[target[t]] \in Seq(S)
      BY <1>a, <3>3
    <3>5. Append(queue[target[t]], [fence |-> sub_fence, lists |-> sub_lists]) \in Seq(S)
      BY <3>2, <3>4
    <3>6. queue' \in [Queues -> Seq(S)]
      BY <1>5, <3>3, <3>5 DEF QueueSubmit
    <3> QED
      BY <1>a, <1>5, <3>6 DEF QueueSubmit, DeviceType, S
  <2>3. pc' \in [Threads -> Points]
    BY <1>5, <1>c DEF QueueSubmit, Points
  <2>4. ThreadType'
    BY <1>a, <1>5, <2>3 DEF QueueSubmit, ThreadType, loaded
  <2> QED
    BY <2>1, <2>2, <2>4 DEF TypeOK
<1>6. CASE GatherAllocators(t)
  <2> DEFINE allocs == {l[1] : l \in sub_lists}
  <2>1. allocs \subseteq Allocs /\ Cardinality(allocs) \in Nat
        /\ Cardinality(sub_lists) \in Nat
    <3>1. allocs \subseteq Allocs
      BY <1>b DEF Lists
    <3> QED
      BY <1>b, <3>1, AllocsFinite, FS_Subset, FS_CardinalityType
  <2> HIDE DEF allocs
  <2>2. \/ /\ Fail("unique allocator map full") /\ UNCHANGED <<ref_count, pool_nodes, pc, submit>>
        \/ /\ pool_nodes' = pool_nodes - HandlesFreed(allocs)
           /\ ref_count' = [ref_count EXCEPT ![sub_fence] = @ + AdditionalRefs(Cardinality(allocs))]
           /\ \/ EndSubmit(t)
              \/ /\ sub_allocs' = allocs /\ Goto(t, "notify")
                 /\ UNCHANGED <<submitter, sub_lists, sub_fence, sub_noted>>
           /\ UNCHANGED <<sub_barriers, assertion>>
    BY <1>6 DEF GatherAllocators, allocs
  <2>3. RingType'
    <3>1. AdditionalRefs(Cardinality(allocs)) \in Int
      BY <2>1 DEF AdditionalRefs
    <3>2. ref_count' \in [Fences -> Int]
      <4>1. \/ ref_count' = ref_count
            \/ ref_count' = [ref_count EXCEPT ![sub_fence] = @ + AdditionalRefs(Cardinality(allocs))]
        BY <2>2
      <4> QED
        BY <1>b, <3>1, <4>1
    <3> QED
      BY <1>a, <1>6, <3>2 DEF GatherAllocators, RingType
  <2>4. NodeType'
    <3>1. \/ pool_nodes' = pool_nodes
          \/ pool_nodes' = pool_nodes - Cardinality(sub_lists)
      BY <2>2 DEF HandlesFreed
    <3>2. pool_nodes' \in Int
      BY <1>b, <2>1, <3>1
    <3> QED
      BY <1>a, <1>6, <3>2 DEF GatherAllocators, NodeType, node
  <2>5. DeviceType'
    BY <1>a, <1>6 DEF GatherAllocators, DeviceType, device
  <2>6. ThreadType'
    <3>1. pc' \in [Threads -> Points]
      BY <1>b, <1>c, <2>2 DEF EndSubmit, Points
    <3>2. assertion' \in Assertions \union {"none"}
      BY <1>a, <1>c, <2>2 DEF Assertions, ThreadType
    <3>3. /\ target' \in [Threads -> Queues] /\ it' \in [Threads -> Nat]
          /\ disc' \in [Threads -> Int] /\ pend' \in [Threads -> Int]
      BY <1>a, <1>6 DEF GatherAllocators, ThreadType, loaded
    <3> QED
      BY <3>1, <3>2, <3>3 DEF ThreadType
  <2>7. SubmitType'
    BY <1>a, <2>1, <2>2 DEF SubmitType, EndSubmit, submit
  <2> QED
    BY <2>3, <2>4, <2>5, <2>6, <2>7 DEF TypeOK
<1>7. ASSUME NEW a \in Allocs, ExchangeFence(t, a)
      PROVE  TypeOK'
  <2>1. RingType'
    <3>1. \/ ref_count' = [ref_count EXCEPT ![latest_fence[a]] = @ - 1]
          \/ ref_count' = ref_count
      BY <1>7 DEF ExchangeFence
    <3>2. ref_count' \in [Fences -> Int]
      BY <1>b, <3>1
    <3> QED
      BY <1>a, <1>7, <3>2 DEF ExchangeFence, RingType
  <2>2. NodeType'
    <3>1. latest_fence' \in [Allocs -> Fences \union {NoFence}]
      BY <1>a, <1>b, <1>7 DEF ExchangeFence, NodeType
    <3> QED
      BY <1>a, <1>7, <3>1 DEF ExchangeFence, NodeType
  <2>3. DeviceType'
    BY <1>a, <1>7 DEF ExchangeFence, DeviceType, device
  <2>4. ThreadType'
    <3>1. pc' \in [Threads -> Points]
      BY <1>7, <1>c DEF ExchangeFence, Points
    <3> QED
      BY <1>a, <1>7, <3>1 DEF ExchangeFence, ThreadType, loaded
  <2>5. SubmitType'
    BY <1>a, <1>7 DEF ExchangeFence, SubmitType
  <2> QED
    BY <2>1, <2>2, <2>3, <2>4, <2>5 DEF TypeOK
<1>8. ASSUME NEW a \in Allocs, CountPending(t, a)
      PROVE  TypeOK'
  <2>1. RingType' /\ DeviceType'
    BY <1>a, <1>8 DEF CountPending, RingType, DeviceType, ring, device
  <2>2. NodeType'
    <3>1. Cardinality(SubmittedBy(a)) \in Nat
      BY <1>b, AllocsFinite, FS_Subset, FS_CardinalityType DEF SubmittedBy
    <3>2. num_pending_execution \in [Allocs -> Nat]
      BY <1>a DEF NodeType
    <3>3. num_pending_execution' \in [Allocs -> Nat]
      BY <1>8, <3>1, <3>2 DEF CountPending
    <3> QED
      BY <1>a, <1>8, <3>3 DEF CountPending, NodeType
  <2>3. ThreadType'
    <3>1. pc' \in [Threads -> Points]
      BY <1>8, <1>c DEF CountPending, EndSubmit, Points
    <3> QED
      BY <1>a, <1>8, <3>1 DEF CountPending, ThreadType, loaded
  <2>4. SubmitType'
    BY <1>a, <1>8 DEF CountPending, EndSubmit, SubmitType
  <2> QED
    BY <2>1, <2>2, <2>3, <2>4 DEF TypeOK
<1> QED
  BY <1>1, <1>2, <1>3, <1>4, <1>5, <1>6, <1>7, <1>8 DEF Submit

LEMMA ApplicationTypeOK ==
  ASSUME TypeOK, Application
  PROVE  TypeOK'
<1>a. RingType /\ NodeType /\ DeviceType /\ ThreadType /\ SubmitType
  BY DEF TypeOK
<1>b. /\ pc \in [Threads -> Points] /\ pool_nodes \in Int
  BY <1>a DEF ThreadType, NodeType
<1>1. ASSUME NEW t \in Threads, NEW q \in Queues, RecordCommandList(t, q)
      PROVE  TypeOK'
  <2>1. RingType' /\ DeviceType' /\ SubmitType'
    BY <1>a, <1>1 DEF RecordCommandList, RingType, DeviceType, SubmitType, ring, device, submit
  <2>2. NodeType'
    <3>1. pool_nodes' \in Int
      <4>1. pool_nodes' = pool_nodes \/ pool_nodes' = pool_nodes + 1
        BY <1>1 DEF RecordCommandList, AcquireNode
      <4> QED
        BY <1>b, <4>1
    <3> QED
      BY <1>a, <1>1, <3>1 DEF RecordCommandList, NodeType, node
  <2>3. ThreadType'
    <3>1. pc' \in [Threads -> Points]
      BY <1>1, <1>b DEF RecordCommandList, AcquireNode, Goto, Points
    <3>2. assertion' \in Assertions \union {"none"}
      BY <1>1, <1>a DEF RecordCommandList, AcquireNode, Fail, Assertions, ThreadType
    <3>3. target' \in [Threads -> Queues]
      BY <1>1, <1>a DEF RecordCommandList, ThreadType
    <3>4. it' \in [Threads -> Nat] /\ disc' \in [Threads -> Int] /\ pend' \in [Threads -> Int]
      BY <1>1, <1>a DEF RecordCommandList, ThreadType, loaded
    <3> QED
      BY <3>1, <3>2, <3>3, <3>4 DEF ThreadType
  <2> QED
    BY <2>1, <2>2, <2>3 DEF TypeOK
<1>2. ASSUME NEW t \in Threads, NEW l \in Lists, Discard(t, l)
      PROVE  TypeOK'
  <2>1. RingType' /\ SubmitType'
    BY <1>a, <1>2 DEF Discard, RingType, SubmitType, ring, submit
  <2>2. NodeType'
    <3>1. num_discarded \in [Allocs -> Nat] /\ l[1] \in Allocs
      BY <1>a DEF NodeType, Lists
    <3>2. num_discarded' \in [Allocs -> Nat]
      BY <1>2, <3>1 DEF Discard
    <3> QED
      BY <1>a, <1>2, <3>2 DEF Discard, NodeType
  <2>3. DeviceType'
    BY <1>a, <1>2 DEF Discard, DeviceType
  <2>4. ThreadType'
    <3>1. pc' \in [Threads -> Points]
      BY <1>2, <1>b DEF Discard, Goto, Points
    <3> QED
      BY <1>a, <1>2, <3>1 DEF Discard, ThreadType, loaded
  <2> QED
    BY <2>1, <2>2, <2>3, <2>4 DEF TypeOK
<1>3. ASSUME NEW t \in Threads, NEW q \in Queues, NEW cls \in SUBSET Lists,
             NEW n \in 0 .. MaxBarrierLists, SubmitBegin(t, q, cls, n)
      PROVE  TypeOK'
  <2>1. RingType' /\ NodeType' /\ DeviceType'
    BY <1>a, <1>3 DEF SubmitBegin, RingType, NodeType, DeviceType, ring, node, device
  <2>2. ThreadType'
    <3>1. pc' \in [Threads -> Points]
      BY <1>3, <1>b DEF SubmitBegin, Goto, Points
    <3>2. target' \in [Threads -> Queues]
      BY <1>3, <1>a DEF SubmitBegin, ThreadType
    <3> QED
      BY <1>a, <1>3, <3>1, <3>2 DEF SubmitBegin, ThreadType, loaded
  <2>3. SubmitType'
    BY <1>a, <1>3, ApplicationAssumption DEF SubmitBegin, SubmitType
  <2> QED
    BY <2>1, <2>2, <2>3 DEF TypeOK
<1>4. CASE Reinitialize
  <2>1. RingType' /\ DeviceType'
    BY <1>a, <1>4, AllocsFinite DEF Reinitialize, RingType, DeviceType, Fences
  <2>2. NodeType'
    BY <1>a, <1>4, SizesAssumption DEF Reinitialize, NodeType
  <2>3. ThreadType' /\ SubmitType'
    BY <1>a, <1>4 DEF Reinitialize, ThreadType, SubmitType, loaded, submit
  <2> QED
    BY <2>1, <2>2, <2>3 DEF TypeOK
<1> QED
  BY <1>1, <1>2, <1>3, <1>4 DEF Application

LEMMA ReleaseTypeOK ==
  ASSUME TypeOK, NEW t \in Threads, ReleaseNode(t)
  PROVE  TypeOK'
<1>a. RingType /\ NodeType /\ DeviceType /\ ThreadType /\ SubmitType
  BY DEF TypeOK
<1>1. RingType' /\ DeviceType' /\ SubmitType'
  BY <1>a DEF ReleaseNode, RingType, DeviceType, SubmitType, ring, device, submit
<1>2. NodeType'
  <2>1. pool_nodes' \in Int
    BY <1>a DEF ReleaseNode, NodeType
  <2> QED
    BY <1>a, <2>1 DEF ReleaseNode, NodeType, node
<1>3. ThreadType'
  <2>1. pc' \in [Threads -> Points]
    BY <1>a DEF ReleaseNode, Goto, Points, ThreadType
  <2> QED
    BY <1>a, <2>1 DEF ReleaseNode, ThreadType, loaded
<1> QED
  BY <1>1, <1>2, <1>3 DEF TypeOK

LEMMA GpuTypeOK ==
  ASSUME TypeOK, NEW q \in Queues, GpuComplete(q)
  PROVE  TypeOK'
<1>a. RingType /\ NodeType /\ DeviceType /\ ThreadType /\ SubmitType
  BY DEF TypeOK
<1>1. RingType'
  BY <1>a DEF GpuComplete, RingType
<1>2. DeviceType'
  <2> DEFINE S == [fence : Fences, lists : SUBSET Lists]
  <2>1. queue \in [Queues -> Seq(S)]
    BY <1>a DEF DeviceType
  <2> HIDE DEF S
  <2>2. queue[q] \in Seq(S) /\ queue[q] # << >>
    BY <2>1 DEF GpuComplete
  <2>3. Tail(queue[q]) \in Seq(S)
    BY <2>2
  <2>4. queue' \in [Queues -> Seq(S)]
    BY <2>1, <2>3 DEF GpuComplete
  <2> QED
    BY <1>a, <2>4 DEF GpuComplete, DeviceType, S
<1>3. NodeType' /\ ThreadType' /\ SubmitType'
  BY <1>a DEF GpuComplete, NodeType, ThreadType, SubmitType, node, loaded, submit
<1> QED
  BY <1>1, <1>2, <1>3 DEF TypeOK

-----------------------------------------------------------------------------
\* Submit is exclusive and holds a fence exactly between acquireFence and its end.
LEMMA GotoType ==
  ASSUME pc \in [Threads -> Points], NEW t \in Threads, NEW to \in Points, Goto(t, to)
  PROVE  /\ pc'[t] = to
         /\ \A u \in Threads : u # t => pc'[u] = pc[u]
  BY DEF Goto

LEMMA CreateExclusive ==
  ASSUME SubmitInv, NEW t \in Threads, Create(t)
  PROVE  SubmitExclusive' /\ FenceHeld'
<1>a. pc \in [Threads -> Points] /\ SubmitExclusive /\ FenceHeld
  BY DEF SubmitInv, TypeOK, ThreadType
<1>1. /\ submitter' = submitter /\ sub_fence' = sub_fence
      /\ pc[t] \in {"find", "block"}
      /\ \/ pc' = pc
         \/ Goto(t, "block")
         \/ Goto(t, "idle") /\ submitter # t
         \/ Goto(t, "submit") /\ submitter = t
  BY DEF Create, TakeBuffer, LoadCounter, Reset, NextAllocator, submit
<1>2. \A u \in Threads : \/ pc'[u] = pc[u]
                          \/ /\ u = t /\ pc'[u] \in {"block", "idle"}
                          \/ /\ u = t /\ pc'[u] = "submit" /\ submitter = t
  BY <1>a, <1>1, GotoType DEF Points
<1>3. SubmitExclusive'
  BY <1>a, <1>1, <1>2 DEF SubmitExclusive, SubmitPoints
<1>4. FenceHeld'
  <2>1. submitter # NoThread => submitter \in Threads
    BY DEF SubmitInv, TypeOK, SubmitType
  <2>2. Submitting({"queue_submit", "gather", "notify", "count"})'
          <=> Submitting({"queue_submit", "gather", "notify", "count"})
    BY <1>1, <1>2, <2>1 DEF Submitting
  <2> QED
    BY <1>a, <1>1, <2>2 DEF FenceHeld
<1> QED
  BY <1>3, <1>4

LEMMA SubmitStepExclusive ==
  ASSUME SubmitInv, NEW t \in Threads, Submit(t)
  PROVE  SubmitExclusive' /\ FenceHeld'
<1>a. pc \in [Threads -> Points] /\ SubmitExclusive /\ FenceHeld /\ t # NoThread
      /\ mNextFence # NoFence
  BY NoThreadAssumption, AllocsFinite
  DEF SubmitInv, TypeOK, ThreadType, RingType, Fences, NoFence
<1>1. submitter = t
  BY DEF Submit, CreateBarrierList, BarriersDone, TakeFence, NextFence, QueueSubmit,
         GatherAllocators, ExchangeFence, CountPending
<1> DEFINE Held == {"queue_submit", "gather", "notify", "count"}
\* either the fence stays what it is and t stays on the same side of Held, or t acquires
\* a fence, or t is done with it
<1>2. \/ /\ submitter' = t /\ sub_fence' = sub_fence
         /\ \/ pc' = pc
            \/ pc[t] \notin Held /\ \E to \in {"find", "fence_ready", "fence_any"} : Goto(t, to)
            \/ pc[t] \in Held /\ \E to \in {"gather", "notify", "count"} : Goto(t, to)
      \/ submitter' = t /\ sub_fence' = mNextFence /\ Goto(t, "queue_submit")
      \/ EndSubmit(t)
  <2>1. CASE CreateBarrierList(t)
    BY <1>1, <2>1 DEF CreateBarrierList, AcquireNode
  <2>2. CASE BarriersDone(t)
    BY <1>1, <2>2 DEF BarriersDone, submit
  <2>3. CASE TakeFence(t)
    BY <1>1, <2>3 DEF TakeFence
  <2>4. CASE NextFence(t)
    BY <1>1, <2>4 DEF NextFence, submit
  <2>5. CASE QueueSubmit(t)
    BY <1>1, <2>5 DEF QueueSubmit, submit
  <2>6. CASE GatherAllocators(t)
    BY <1>1, <2>6 DEF GatherAllocators, submit
  <2>7. CASE \E a \in Allocs : ExchangeFence(t, a)
    BY <1>1, <2>7 DEF ExchangeFence
  <2>8. CASE \E a \in Allocs : CountPending(t, a)
    BY <1>1, <2>8 DEF CountPending
  <2> QED
    BY <2>1, <2>2, <2>3, <2>4, <2>5, <2>6, <2>7, <2>8 DEF Submit
<1>3. pc[t] \in Held <=> sub_fence # NoFence
  BY <1>a, <1>1 DEF FenceHeld, Submitting
<1>4. /\ submitter' = t
      /\ pc'[t] \in Held <=> sub_fence' # NoFence
      /\ \A u \in Threads : u # t => pc'[u] = pc[u]
      \/ /\ submitter' = NoThread /\ sub_fence' = NoFence
         /\ pc'[t] = "idle"
         /\ \A u \in Threads : u # t => pc'[u] = pc[u]
  <2>1. CASE EndSubmit(t)
    BY <1>a, <2>1, GotoType DEF EndSubmit, Points
  <2>2. CASE submitter' = t /\ sub_fence' = mNextFence /\ Goto(t, "queue_submit")
    BY <1>a, <2>2, GotoType DEF Points
  <2>3. CASE submitter' = t /\ sub_fence' = sub_fence /\ pc' = pc
    BY <1>3, <2>3
  <2>4. ASSUME submitter' = t, sub_fence' = sub_fence, pc[t] \notin Held,
               NEW to \in {"find", "fence_ready", "fence_any"}, Goto(t, to)
        PROVE  /\ pc'[t] \in Held <=> sub_fence' # NoFence
               /\ \A u \in Threads : u # t => pc'[u] = pc[u]
    BY <1>a, <1>3, <2>4, GotoType DEF Points
  <2>5. ASSUME submitter' = t, sub_fence' = sub_fence, pc[t] \in Held,
               NEW to \in {"gather", "notify", "count"}, Goto(t, to)
        PROVE  /\ pc'[t] \in Held <=> sub_fence' # NoFence
               /\ \A u \in Threads : u # t => pc'[u] = pc[u]
    BY <1>a, <1>3, <2>5, GotoType DEF Points
  <2> QED
    BY <1>2, <2>1, <2>2, <2>3, <2>4, <2>5
<1>5. SubmitExclusive'
  BY <1>a, <1>1, <1>4 DEF SubmitExclusive, SubmitPoints
<1>6. FenceHeld'
  BY <1>a, <1>4 DEF FenceHeld, Submitting
<1> QED
  BY <1>5, <1>6

LEMMA OtherExclusive ==
  ASSUME SubmitInv,
         \/ Application \/ (\E t \in Threads : ReleaseNode(t))
         \/ (\E q \in Queues : GpuComplete(q)) \/ UNCHANGED vars
  PROVE  SubmitExclusive' /\ FenceHeld'
<1>a. pc \in [Threads -> Points] /\ SubmitExclusive /\ FenceHeld
      /\ (submitter # NoThread => submitter \in Threads)
  BY DEF SubmitInv, TypeOK, ThreadType, SubmitType
<1>1. /\ sub_fence' = sub_fence
      /\ \/ pc' = pc /\ submitter' = submitter
         \/ \E t \in Threads, to \in {"find", "release", "idle"} :
               pc[t] \in {"idle", "release"} /\ Goto(t, to) /\ submitter' = submitter
         \/ \E t \in Threads : submitter = NoThread /\ submitter' = t /\ Goto(t, "submit")
  BY DEF Application, RecordCommandList, AcquireNode, Discard, SubmitBegin, Reinitialize,
         ReleaseNode, GpuComplete, vars, submit
<1>2. CASE pc' = pc /\ submitter' = submitter
  BY <1>a, <1>1, <1>2 DEF SubmitExclusive, FenceHeld, Submitting
<1>3. ASSUME NEW t \in Threads, NEW to \in {"find", "release", "idle"},
             pc[t] \in {"idle", "release"}, Goto(t, to), submitter' = submitter
      PROVE  SubmitExclusive' /\ FenceHeld'
  <2>1. pc'[t] = to /\ \A u \in Threads : u # t => pc'[u] = pc[u]
    BY <1>a, <1>3, GotoType DEF Points
  <2>2. SubmitExclusive'
    BY <1>a, <1>3, <2>1 DEF SubmitExclusive, SubmitPoints
  <2>3. FenceHeld'
    BY <1>a, <1>1, <1>3, <2>1 DEF FenceHeld, Submitting
  <2> QED
    BY <2>2, <2>3
<1>4. ASSUME NEW t \in Threads, submitter = NoThread, submitter' = t, Goto(t, "submit")
      PROVE  SubmitExclusive' /\ FenceHeld'
  <2>1. pc'[t] = "submit" /\ \A u \in Threads : u # t => pc'[u] = pc[u]
    BY <1>a, <1>4, GotoType DEF Points
  <2>2. SubmitExclusive'
    BY <1>a, <1>4, <2>1, NoThreadAssumption DEF SubmitExclusive
  <2>3. FenceHeld'
    BY <1>a, <1>1, <1>4, <2>1 DEF FenceHeld, Submitting
  <2> QED
    BY <2>2, <2>3
<1> QED
  BY <1>1, <1>2, <1>3, <1>4

LEMMA SubmitInvInductive == SubmitInv /\ [Next]_vars => SubmitInv'
<1> SUFFICES ASSUME SubmitInv, [Next]_vars PROVE SubmitInv'
  OBVIOUS
<1>1. \/ \E t \in Threads : Create(t) \/ Submit(t) \/ ReleaseNode(t)
      \/ Application
      \/ \E q \in Queues : GpuComplete(q)
      \/ UNCHANGED vars
  BY DEF Next
<1>2. TypeOK'
  <2>1. CASE UNCHANGED vars
    BY <2>1 DEF SubmitInv, TypeOK, RingType, NodeType, DeviceType, ThreadType, SubmitType,
                vars, ring, node, device, loaded, submit
  <2> QED
    BY <1>1, <2>1, CreateTypeOK, SubmitTypeOK, ApplicationTypeOK, ReleaseTypeOK, GpuTypeOK
    DEF SubmitInv
<1>3. SubmitExclusive' /\ FenceHeld'
  BY <1>1, CreateExclusive, SubmitStepExclusive, OtherExclusive
<1> QED
  BY <1>2, <1>3 DEF SubmitInv

LEMMA SubmitInvInit == Init => SubmitInv
<1> SUFFICES ASSUME Init PROVE SubmitInv
  OBVIOUS
<1>1. SubmitExclusive
  BY DEF Init, SubmitExclusive, SubmitPoints
<1>2. FenceHeld
  BY DEF Init, FenceHeld, Submitting
<1> QED
  BY <1>1, <1>2, InitTypeOK DEF SubmitInv

\* Every variable keeps its type, and only submit, one thread at a time, holds a fence: the
\* members of cmd_allocator_node, FenceRingbuffer and the locals of BackendVulkan::submit.
THEOREM TypeCorrect == Spec => []TypeOK
<1>1. SubmitInv => TypeOK
  BY DEF SubmitInv
<1> QED
  BY SubmitInvInit, SubmitInvInductive, <1>1, PTL DEF Spec

-----------------------------------------------------------------------------
(* The reference counts.                                                   *)

LEMMA RememberingFinite ==
  \A f : IsFiniteSet(Remembering(f)) /\ Cardinality(Remembering(f)) \in Nat
  BY AllocsFinite, FS_Subset, FS_CardinalityType DEF Remembering

\* How the sets of allocators that remember a fence change when one of them remembers g now.
LEMMA RememberOne ==
  ASSUME latest_fence \in [Allocs -> Fences \union {NoFence}], NEW a \in Allocs,
         NEW old, old = latest_fence[a], NEW g, g # old,
         latest_fence' = [latest_fence EXCEPT ![a] = g]
  PROVE  /\ Cardinality(Remembering(g)') = Cardinality(Remembering(g)) + 1
         /\ Cardinality(Remembering(old)') = Cardinality(Remembering(old)) - 1
<1>1. latest_fence'[a] = g /\ \A b \in Allocs : b # a => latest_fence'[b] = latest_fence[b]
  OBVIOUS
<1>2. /\ Remembering(g)' = Remembering(g) \union {a} /\ a \notin Remembering(g)
      /\ Remembering(old)' = Remembering(old) \ {a} /\ a \in Remembering(old)
  BY <1>1 DEF Remembering
<1>3. \A f : IsFiniteSet(Remembering(f))
  BY RememberingFinite
<1>4. Cardinality(Remembering(g)') = Cardinality(Remembering(g)) + 1
  BY <1>2, <1>3, FS_AddElement
<1>5. Cardinality(Remembering(old)') = Cardinality(Remembering(old)) - 1
  BY <1>2, <1>3, FS_RemoveElement
<1> QED
  BY <1>4, <1>5

\* A step that leaves the counts, the remembered fences and submit's debts alone.
LEMMA RefFrame ==
  ASSUME RefInv, UNCHANGED <<ref_count, latest_fence, sub_fence, sub_allocs>>,
         sub_fence # NoFence =>
           (Submitting({"queue_submit", "gather"})' <=> Submitting({"queue_submit", "gather"}))
  PROVE  FenceFresh' /\ RefCountsExact'
<1>1. FenceFresh'
  BY DEF RefInv, FenceFresh
<1>2. ASSUME NEW f \in Fences
      PROVE  ref_count'[f] = Cardinality(Remembering(f)') + Owed(f)'
  <2>1. Remembering(f)' = Remembering(f)
    BY DEF Remembering
  <2>2. f # NoFence
    BY AllocsFinite DEF Fences, NoFence
  <2>3. Owed(f)' = Owed(f)
    BY <2>2 DEF Owed
  <2> QED
    BY <2>1, <2>3 DEF RefInv, RefCountsExact
<1> QED
  BY <1>1, <1>2 DEF RefCountsExact

LEMMA ListsSubmittedStep ==
  ASSUME RefInv, ~EmptySubmits, [Next]_vars
  PROVE  ListsSubmitted'
<1>a. /\ pc \in [Threads -> Points] /\ (submitter # NoThread => submitter \in Threads)
      /\ ListsSubmitted
  BY DEF RefInv, SubmitInv, TypeOK, ThreadType, SubmitType
<1>1. \/ submitter' = submitter /\ sub_lists \subseteq sub_lists'
         /\ \/ pc' = pc
            \/ \E t \in Threads, to \in Points : Goto(t, to) /\ pc[t] \notin {"notify", "count"}
            \/ \E t \in Threads : submitter = t /\ Goto(t, "count")
      \/ sub_lists' # {}
      \/ submitter' = NoThread
      \/ \E t \in Threads : submitter = t /\ submitter' = t /\ Goto(t, "notify")
  <2>1. CASE \E t \in Threads : Create(t)
    <3>1. PICK t \in Threads : Create(t)
      BY <2>1
    <3>2. CASE TakeBuffer(t)
      BY <3>2 DEF TakeBuffer, Points
    <3>3. CASE LoadCounter(t) \/ Reset(t)
      BY <3>3 DEF LoadCounter, Reset, submit
    <3>4. CASE NextAllocator(t)
      BY <3>4 DEF NextAllocator, submit, Points
    <3> QED
      BY <3>1, <3>2, <3>3, <3>4 DEF Create
  <2>2. CASE \E t \in Threads : Submit(t)
    <3>1. PICK t \in Threads : Submit(t)
      BY <2>2
    <3>2. CASE CreateBarrierList(t) \/ BarriersDone(t)
      BY <3>2 DEF CreateBarrierList, AcquireNode, BarriersDone, submit, Points
    <3>3. CASE TakeFence(t) \/ NextFence(t)
      BY <3>3 DEF TakeFence, NextFence, submit, Points
    <3>4. CASE QueueSubmit(t) \/ GatherAllocators(t)
      BY <3>4 DEF QueueSubmit, GatherAllocators, EndSubmit, submit, Points
    <3>5. CASE \E a \in Allocs : ExchangeFence(t, a) \/ CountPending(t, a)
      BY <3>5 DEF ExchangeFence, CountPending, EndSubmit, Points
    <3> QED
      BY <3>1, <3>2, <3>3, <3>4, <3>5 DEF Submit
  <2>3. CASE Application
    BY <2>3 DEF Application, RecordCommandList, AcquireNode, Discard, SubmitBegin, Reinitialize,
                submit, Points
  <2>4. CASE (\E q \in Queues : GpuComplete(q)) \/ UNCHANGED vars
    BY <2>4 DEF GpuComplete, vars, submit
  <2>5. CASE \E t \in Threads : ReleaseNode(t)
    BY <2>5 DEF ReleaseNode, submit, Points
  <2> QED
    BY <2>1, <2>2, <2>3, <2>4, <2>5 DEF Next
<1> QED
  BY <1>a, <1>1, GotoType DEF ListsSubmitted, Submitting, Points

\* What the steps below use of the invariant.
LEMMA RefFacts ==
  ASSUME RefInv
  PROVE  /\ pc \in [Threads -> Points] /\ ref_count \in [Fences -> Int] /\ mNextFence \in Fences
         /\ latest_fence \in [Allocs -> Fences \union {NoFence}]
         /\ sub_allocs \subseteq Allocs /\ IsFiniteSet(sub_allocs)
         /\ Cardinality(sub_allocs) \in Nat
         /\ sub_fence \in Fences \union {NoFence} /\ NoFence \notin Fences
         /\ submitter # NoThread => submitter \in Threads
         /\ \A f : Owed(f) \in Nat
<1>1. sub_allocs \subseteq Allocs
  BY DEF RefInv, SubmitInv, TypeOK, SubmitType
<1>2. IsFiniteSet(sub_allocs) /\ Cardinality(sub_allocs) \in Nat
  BY <1>1, AllocsFinite, FS_Subset, FS_CardinalityType
<1>3. \A f : Owed(f) \in Nat
  BY <1>2 DEF Owed
<1>4. NoFence \notin Fences
  BY AllocsFinite DEF Fences, NoFence
<1> QED
  BY <1>1, <1>2, <1>3, <1>4
  DEF RefInv, SubmitInv, TypeOK, SubmitType, RingType, NodeType, ThreadType

\* A step of a thread that is not past acquireFence leaves submit where it is.
LEMMA EarlyUnchanged ==
  ASSUME RefInv, submitter' = submitter, NEW t \in Threads,
         pc[t] \notin {"queue_submit", "gather", "notify", "count"},
         \A u \in Threads : u # t => pc'[u] = pc[u]
  PROVE  sub_fence # NoFence =>
           (Submitting({"queue_submit", "gather"})' <=> Submitting({"queue_submit", "gather"}))
  BY RefFacts DEF RefInv, SubmitInv, FenceHeld, Submitting

LEMMA RefReset ==
  ASSUME RefInv, NEW t \in Threads, Reset(t)
  PROVE  FenceFresh' /\ RefCountsExact'
<1> DEFINE a == Active(t)
<1>a. a \in Allocs
  BY ActiveType DEF RefInv, SubmitInv
<1>b. /\ latest_fence \in [Allocs -> Fences \union {NoFence}] /\ ref_count \in [Fences -> Int]
      /\ NoFence \notin Fences
  BY RefFacts
<1>c. UNCHANGED <<submitter, sub_fence, sub_allocs, pc>> /\ pc[t] \in {"find", "block"}
  BY DEF Reset, submit
<1>d. sub_fence # NoFence =>
           (Submitting({"queue_submit", "gather"})' <=> Submitting({"queue_submit", "gather"}))
  BY <1>c, EarlyUnchanged
<1>1. CASE num_pending_execution[a] > 0
  <2>1. /\ ref_count' = [ref_count EXCEPT ![latest_fence[a]] = @ - 1]
        /\ latest_fence' = [latest_fence EXCEPT ![a] = NoFence]
    BY <1>1 DEF Reset
  <2> HIDE DEF a
  <2> PICK old : old = latest_fence[a]
    OBVIOUS
  <2>4. \A f : f # NoFence /\ f # old =>
              Cardinality(Remembering(f)') = Cardinality(Remembering(f))
    BY <1>a, <1>b, <2>1 DEF Remembering
  <2>2. CASE old = NoFence
    <3>1. ref_count' = ref_count /\ latest_fence' = latest_fence
      BY <1>a, <1>b, <2>1, <2>2
    <3> QED
      BY <1>c, <1>d, <3>1, RefFrame
  <2>3. CASE old # NoFence
    <3>1. FenceFresh'
      <4>1. \A b \in Allocs : latest_fence'[b] \in {latest_fence[b], NoFence}
        BY <1>a, <1>b, <2>1
      <4>2. sub_allocs \subseteq Allocs
        BY RefFacts
      <4> QED
        BY <1>c, <1>d, <4>1, <4>2 DEF RefInv, FenceFresh
    <3>2. ASSUME NEW f \in Fences
          PROVE  ref_count'[f] = Cardinality(Remembering(f)') + Owed(f)'
      <4>1. Owed(f)' = Owed(f)
        BY <1>b, <1>c, <1>d DEF Owed
      <4>2. ref_count[f] = Cardinality(Remembering(f)) + Owed(f)
        BY DEF RefInv, RefCountsExact
      <4>3. Cardinality(Remembering(f)) \in Nat /\ Owed(f) \in Nat
        BY RememberingFinite, RefFacts
      <4>4. CASE f = old
        <5>1. ref_count'[f] = ref_count[f] - 1
          BY <1>b, <2>1, <4>4
        <5>2. Cardinality(Remembering(f)') = Cardinality(Remembering(f)) - 1
          BY <1>a, <1>b, <2>1, <2>3, <4>4, RememberOne
        <5> QED
          BY <4>1, <4>2, <4>3, <5>1, <5>2
      <4>5. CASE f # old
        <5>1. ref_count'[f] = ref_count[f]
          BY <1>b, <2>1, <4>5
        <5>2. Cardinality(Remembering(f)') = Cardinality(Remembering(f))
          BY <1>b, <2>4, <4>5
        <5> QED
          BY <4>1, <4>2, <5>1, <5>2
      <4> QED
        BY <4>4, <4>5
    <3> QED
      BY <3>1, <3>2 DEF RefCountsExact
  <2> QED
    BY <2>2, <2>3
<1>2. CASE ~(num_pending_execution[a] > 0)
  BY <1>2, <1>c, <1>d, RefFrame DEF Reset
<1> QED
  BY <1>1, <1>2

LEMMA RefTakeFence ==
  ASSUME RefInv, NEW t \in Threads, TakeFence(t)
  PROVE  FenceFresh' /\ RefCountsExact'
<1>a. /\ latest_fence \in [Allocs -> Fences \union {NoFence}] /\ ref_count \in [Fences -> Int]
      /\ mNextFence \in Fences /\ NoFence \notin Fences /\ pc \in [Threads -> Points]
      /\ t # NoThread
  BY RefFacts, NoThreadAssumption
<1>b. /\ submitter = t /\ pc[t] \in {"fence_ready", "fence_any"} /\ ref_count[mNextFence] = 0
      /\ ref_count' = [ref_count EXCEPT ![mNextFence] = 1]
      /\ sub_fence' = mNextFence /\ pc' = [pc EXCEPT ![t] = "queue_submit"]
      /\ UNCHANGED <<submitter, sub_allocs, latest_fence>>
  BY DEF TakeFence, Acquirable, Goto, node
<1>c. sub_fence = NoFence
  BY <1>a, <1>b DEF RefInv, SubmitInv, FenceHeld, Submitting
<1>d. \A f : /\ IsFiniteSet(Remembering(f)) /\ Cardinality(Remembering(f)) \in Nat
             /\ Remembering(f)' = Remembering(f)
  BY <1>b, RememberingFinite DEF Remembering
<1>1. \A f \in Fences : Owed(f) = 0
  BY <1>a, <1>c DEF Owed
<1>2. Remembering(mNextFence) = {} /\ Cardinality(Remembering(mNextFence)) = 0
  <2>1. Cardinality(Remembering(mNextFence)) = 0
    BY <1>a, <1>b, <1>d, <1>1 DEF RefInv, RefCountsExact
  <2> QED
    BY <2>1, <1>d, FS_EmptySet
<1>3. FenceFresh'
  <2>1. \A a \in Allocs : latest_fence'[a] # sub_fence'
    BY <1>b, <1>2 DEF Remembering
  <2>2. sub_allocs \subseteq Allocs
    BY RefFacts
  <2> QED
    BY <1>b, <2>1, <2>2 DEF FenceFresh
<1>4. Submitting({"queue_submit", "gather"})'
  BY <1>a, <1>b DEF Submitting
<1>5. ASSUME NEW f \in Fences
      PROVE  ref_count'[f] = Cardinality(Remembering(f)') + Owed(f)'
  <2>1. CASE f = mNextFence
    <3>1. Owed(f)' = 1
      BY <1>b, <1>4, <2>1 DEF Owed
    <3>2. ref_count'[f] = 1
      BY <1>a, <1>b, <2>1
    <3> QED
      BY <1>2, <1>d, <2>1, <3>1, <3>2
  <2>2. CASE f # mNextFence
    <3>1. Owed(f)' = 0
      BY <1>b, <2>2 DEF Owed
    <3>2. ref_count'[f] = ref_count[f]
      BY <1>a, <1>b, <2>2
    <3>3. ref_count[f] = Cardinality(Remembering(f)) + Owed(f)
      BY DEF RefInv, RefCountsExact
    <3> QED
      BY <1>1, <1>d, <3>1, <3>2, <3>3
  <2> QED
    BY <2>1, <2>2
<1> QED
  BY <1>3, <1>5 DEF RefCountsExact

LEMMA RefGather ==
  ASSUME RefInv, ~EmptySubmits, NEW t \in Threads, GatherAllocators(t)
  PROVE  FenceFresh' /\ RefCountsExact'
<1> DEFINE allocs == {l[1] : l \in sub_lists}
           n      == Cardinality(allocs)
<1>a. /\ ref_count \in [Fences -> Int] /\ NoFence \notin Fences /\ pc \in [Threads -> Points]
      /\ sub_fence \in Fences \union {NoFence} /\ t # NoThread
      /\ submitter = t /\ pc[t] = "gather" /\ latest_fence' = latest_fence
  BY RefFacts, NoThreadAssumption DEF GatherAllocators, node
<1>b. Submitting({"queue_submit", "gather"}) /\ sub_fence \in Fences
  BY <1>a DEF RefInv, SubmitInv, FenceHeld, Submitting
<1>c. allocs \subseteq Allocs /\ IsFiniteSet(allocs) /\ n \in Nat \ {0}
  <2>1. allocs \subseteq Allocs /\ sub_lists # {}
    BY <1>a DEF RefInv, SubmitInv, TypeOK, SubmitType, Lists, ListsSubmitted, Submitting
  <2>2. IsFiniteSet(allocs) /\ allocs # {}
    BY <2>1, AllocsFinite, FS_Subset
  <2> HIDE DEF allocs
  <2>3. Cardinality(allocs) \in Nat /\ Cardinality(allocs) # 0
    BY <2>2, FS_CardinalityType, FS_EmptySet
  <2> QED
    BY <2>1, <2>2, <2>3
<1>d. \/ UNCHANGED <<ref_count, pc, submitter, sub_fence, sub_allocs>>
      \/ /\ ref_count' = [ref_count EXCEPT ![sub_fence] = @ + AdditionalRefs(n)]
         /\ n = 0 \/ (/\ sub_allocs' = allocs /\ Goto(t, "notify")
                     /\ UNCHANGED <<submitter, sub_fence>>)
  BY DEF GatherAllocators, submit
<1> HIDE DEF allocs
<1>1. CASE UNCHANGED <<ref_count, pc, submitter, sub_fence, sub_allocs>>
  <2>1. Submitting({"queue_submit", "gather"})' <=> Submitting({"queue_submit", "gather"})
    BY <1>1 DEF Submitting
  <2> QED
    BY <1>a, <1>1, <2>1, RefFrame
<1>2. ASSUME ref_count' = [ref_count EXCEPT ![sub_fence] = @ + AdditionalRefs(n)],
             sub_allocs' = allocs, Goto(t, "notify"), UNCHANGED <<submitter, sub_fence>>
      PROVE  FenceFresh' /\ RefCountsExact'
  <2>1. AdditionalRefs(n) = n - 1
    BY <1>c DEF AdditionalRefs
  <2>2. ~Submitting({"queue_submit", "gather"})'
    BY <1>a, <1>2 DEF Submitting, Goto
  <2>3. FenceFresh'
    <3>1. \A a \in Allocs : latest_fence[a] # sub_fence
      BY <1>a, <1>b DEF RefInv, FenceFresh
    <3> QED
      BY <1>a, <1>c, <1>2, <2>2, <3>1 DEF FenceFresh
  <2>4. ASSUME NEW f \in Fences
        PROVE  ref_count'[f] = Cardinality(Remembering(f)') + Owed(f)'
    <3>1. /\ ref_count[f] = Cardinality(Remembering(f)) + Owed(f)
          /\ Remembering(f)' = Remembering(f)
      BY <1>a DEF RefInv, RefCountsExact, Remembering
    <3>2. Cardinality(Remembering(f)) \in Nat
      BY RememberingFinite
    <3>3. CASE f = sub_fence
      <4>1. Owed(f) = 1 /\ Owed(f)' = n
        BY <1>b, <1>2, <2>2, <3>3 DEF Owed
      <4>2. ref_count'[f] = ref_count[f] + (n - 1)
        BY <1>a, <1>2, <2>1, <3>3
      <4> QED
        BY <1>c, <3>1, <3>2, <4>1, <4>2
    <3>4. CASE f # sub_fence
      <4>1. Owed(f) = 0 /\ Owed(f)' = 0
        BY <1>2, <3>4 DEF Owed
      <4>2. ref_count'[f] = ref_count[f]
        BY <1>a, <1>2, <3>4
      <4> QED
        BY <3>1, <4>1, <4>2
    <3> QED
      BY <3>3, <3>4
  <2> QED
    BY <2>3, <2>4 DEF RefCountsExact
<1> QED
  BY <1>c, <1>d, <1>1, <1>2

LEMMA RefExchange ==
  ASSUME RefInv, NEW t \in Threads, NEW a \in Allocs, ExchangeFence(t, a)
  PROVE  FenceFresh' /\ RefCountsExact'
<1>a. /\ ref_count \in [Fences -> Int] /\ NoFence \notin Fences /\ pc \in [Threads -> Points]
      /\ latest_fence \in [Allocs -> Fences \union {NoFence}] /\ t # NoThread
      /\ sub_fence \in Fences \union {NoFence} /\ IsFiniteSet(sub_allocs)
      /\ Cardinality(sub_allocs) \in Nat /\ sub_allocs \subseteq Allocs
  BY RefFacts, NoThreadAssumption
<1>b. /\ submitter = t /\ pc[t] = "notify" /\ a \in sub_allocs
      /\ latest_fence' = [latest_fence EXCEPT ![a] = sub_fence]
      /\ sub_allocs' = sub_allocs \ {a} /\ pc' = [pc EXCEPT ![t] = "count"]
      /\ UNCHANGED <<submitter, sub_fence>>
  BY DEF ExchangeFence, Goto
<1>c. ~Submitting({"queue_submit", "gather"}) /\ ~Submitting({"queue_submit", "gather"})'
  BY <1>a, <1>b DEF Submitting
<1>d. sub_fence \in Fences /\ \A b \in sub_allocs : latest_fence[b] # sub_fence
  <2>1. sub_fence # NoFence
    BY <1>a, <1>b DEF RefInv, SubmitInv, FenceHeld, Submitting
  <2> QED
    BY <1>a, <1>c, <2>1 DEF RefInv, FenceFresh
<1> PICK old : old = latest_fence[a]
  OBVIOUS
<1> PICK g : g = sub_fence
  OBVIOUS
<1>e. old # g /\ g # NoFence
  BY <1>a, <1>b, <1>d
<1>1. FenceFresh'
  <2>1. \A b \in sub_allocs' : latest_fence'[b] = latest_fence[b] /\ b \in sub_allocs
    BY <1>a, <1>b
  <2> QED
    BY <1>b, <1>c, <1>d, <2>1 DEF FenceFresh
<1>2. Cardinality(sub_allocs') = Cardinality(sub_allocs) - 1
  BY <1>a, <1>b, FS_RemoveElement
<1>3. ref_count' = IF old # NoFence THEN [ref_count EXCEPT ![old] = @ - 1] ELSE ref_count
  BY <1>b, <1>d, <1>e DEF ExchangeFence, Released
<1>4. /\ Cardinality(Remembering(g)') = Cardinality(Remembering(g)) + 1
      /\ Cardinality(Remembering(old)') = Cardinality(Remembering(old)) - 1
      /\ \A f : Cardinality(Remembering(f)) \in Nat
  <2>1. latest_fence' = [latest_fence EXCEPT ![a] = g]
    BY <1>b
  <2> QED
    BY <1>a, <1>e, <2>1, RememberOne, RememberingFinite
<1>5. \A f : f # g /\ f # old => Cardinality(Remembering(f)') = Cardinality(Remembering(f))
  BY <1>a, <1>b DEF Remembering
<1>6. ASSUME NEW f \in Fences
      PROVE  ref_count'[f] = Cardinality(Remembering(f)') + Owed(f)'
  <2>1. ref_count[f] = Cardinality(Remembering(f)) + Owed(f) /\ f # NoFence
    BY <1>a DEF RefInv, RefCountsExact
  <2>2. CASE f = g
    <3>1. Owed(f) = Cardinality(sub_allocs) /\ Owed(f)' = Cardinality(sub_allocs')
      BY <1>b, <1>c, <2>2 DEF Owed
    <3>2. ref_count'[f] = ref_count[f]
      BY <1>a, <1>e, <1>3, <2>2
    <3>3. Cardinality(Remembering(f)') = Cardinality(Remembering(f)) + 1
          /\ Cardinality(Remembering(f)) \in Nat
      BY <1>4, <2>2
    <3> QED
      BY <1>a, <1>2, <2>1, <3>1, <3>2, <3>3
  <2>3. CASE f = old
    <3>1. Owed(f) = 0 /\ Owed(f)' = 0
      BY <1>b, <1>e, <2>3 DEF Owed
    <3>2. ref_count'[f] = ref_count[f] - 1
      BY <1>a, <1>3, <2>1, <2>3
    <3>3. Cardinality(Remembering(f)') = Cardinality(Remembering(f)) - 1
          /\ Cardinality(Remembering(f)) \in Nat
      BY <1>4, <2>3
    <3> QED
      BY <2>1, <3>1, <3>2, <3>3
  <2>4. CASE f # g /\ f # old
    <3>1. Owed(f) = 0 /\ Owed(f)' = 0
      BY <1>b, <2>4 DEF Owed
    <3>2. ref_count'[f] = ref_count[f]
      BY <1>a, <1>3, <2>4
    <3> QED
      BY <1>5, <2>1, <2>4, <3>1, <3>2
  <2> QED
    BY <2>2, <2>3, <2>4
<1> QED
  BY <1>1, <1>6 DEF RefCountsExact

LEMMA RefCreate ==
  ASSUME RefInv, NEW t \in Threads, Create(t)
  PROVE  FenceFresh' /\ RefCountsExact'
<1>1. CASE Reset(t)
  BY <1>1, RefReset
<1>2. CASE TakeBuffer(t) \/ LoadCounter(t) \/ NextAllocator(t)
  <2>1. /\ UNCHANGED <<ref_count, latest_fence, sub_fence, sub_allocs, submitter>>
        /\ pc[t] \in {"find", "block"}
        /\ pc' = pc \/ \E to : pc' = [pc EXCEPT ![t] = to]
    BY <1>2 DEF TakeBuffer, LoadCounter, NextAllocator, Goto, ring, node, submit
  <2>2. \A u \in Threads : u # t => pc'[u] = pc[u]
    BY <2>1, RefFacts
  <2> QED
    BY <2>1, <2>2, EarlyUnchanged, RefFrame
<1> QED
  BY <1>1, <1>2 DEF Create

\* The end of submit, when the last allocator has been notified and owes nothing any more.
LEMMA RefEnd ==
  ASSUME RefInv, sub_allocs = {}, ~Submitting({"queue_submit", "gather"}),
         UNCHANGED <<ref_count, latest_fence>>, sub_fence' = NoFence
  PROVE  FenceFresh' /\ RefCountsExact'
<1>1. FenceFresh'
  BY DEF FenceFresh
<1>2. ASSUME NEW f \in Fences
      PROVE  ref_count'[f] = Cardinality(Remembering(f)') + Owed(f)'
  <2>1. Owed(f) = 0 /\ Owed(f)' = 0
    BY RefFacts, FS_EmptySet DEF Owed
  <2>2. Remembering(f)' = Remembering(f)
    BY DEF Remembering
  <2> QED
    BY <2>1, <2>2 DEF RefInv, RefCountsExact
<1> QED
  BY <1>1, <1>2 DEF RefCountsExact

LEMMA RefSubmit ==
  ASSUME RefInv, ~EmptySubmits, NEW t \in Threads, Submit(t)
  PROVE  FenceFresh' /\ RefCountsExact'
<1>a. pc \in [Threads -> Points] /\ t # NoThread
  BY RefFacts, NoThreadAssumption
<1>1. CASE CreateBarrierList(t) \/ BarriersDone(t) \/ NextFence(t)
  <2>1. /\ UNCHANGED <<ref_count, latest_fence, sub_fence, sub_allocs, submitter>>
        /\ pc[t] \in {"submit", "fence_ready", "fence_any"}
        /\ pc' = pc \/ \E to : pc' = [pc EXCEPT ![t] = to]
    BY <1>1 DEF CreateBarrierList, AcquireNode, BarriersDone, NextFence, Goto, ring, node, submit
  <2>2. \A u \in Threads : u # t => pc'[u] = pc[u]
    BY <1>a, <2>1
  <2> QED
    BY <2>1, <2>2, EarlyUnchanged, RefFrame
<1>2. CASE QueueSubmit(t)
  <2>1. /\ UNCHANGED <<ref_count, latest_fence, sub_fence, sub_allocs, submitter>>
        /\ submitter = t /\ pc[t] = "queue_submit" /\ pc' = [pc EXCEPT ![t] = "gather"]
    BY <1>2 DEF QueueSubmit, Goto, ring, node, submit
  <2>2. Submitting({"queue_submit", "gather"})' <=> Submitting({"queue_submit", "gather"})
    BY <1>a, <2>1 DEF Submitting
  <2> QED
    BY <2>1, <2>2, RefFrame
<1>3. ASSUME NEW a \in Allocs, CountPending(t, a)
      PROVE  FenceFresh' /\ RefCountsExact'
  <2>1. /\ submitter = t /\ pc[t] = "count" /\ UNCHANGED <<ref_count, latest_fence>>
        /\ \/ sub_allocs = {} /\ sub_fence' = NoFence
           \/ /\ UNCHANGED <<sub_fence, sub_allocs, submitter>>
              /\ pc' = [pc EXCEPT ![t] = "notify"]
    BY <1>3 DEF CountPending, EndSubmit, Goto, ring
  <2>2. ~Submitting({"queue_submit", "gather"})
    BY <2>1 DEF Submitting
  <2>3. CASE sub_allocs = {} /\ sub_fence' = NoFence
    BY <2>1, <2>2, <2>3, RefEnd
  <2>4. CASE UNCHANGED <<sub_fence, sub_allocs, submitter>> /\ pc' = [pc EXCEPT ![t] = "notify"]
    <3>1. ~Submitting({"queue_submit", "gather"})'
      BY <1>a, <2>1, <2>4 DEF Submitting
    <3> QED
      BY <2>1, <2>2, <2>4, <3>1, RefFrame
  <2> QED
    BY <2>1, <2>3, <2>4
<1> QED
  BY <1>1, <1>2, <1>3, RefTakeFence, RefGather, RefExchange DEF Submit

LEMMA RefOther ==
  ASSUME RefInv,
         \/ Application \/ (\E t \in Threads : ReleaseNode(t))
         \/ (\E q \in Queues : GpuComplete(q)) \/ UNCHANGED vars
  PROVE  FenceFresh' /\ RefCountsExact'
<1>a. pc \in [Threads -> Points]
  BY RefFacts
<1>1. CASE Reinitialize
  <2>1. \A t \in Threads : pc[t] = "idle"
    BY <1>1 DEF Reinitialize
  <2>2. sub_fence = NoFence
    BY <2>1, RefFacts DEF RefInv, SubmitInv, FenceHeld, Submitting
  <2>3. /\ ref_count' = [f \in Fences |-> 0] /\ latest_fence' = [a \in Allocs |-> NoFence]
        /\ sub_fence' = NoFence
    BY <1>1, <2>2 DEF Reinitialize, submit
  <2>4. ASSUME NEW f \in Fences
        PROVE  ref_count'[f] = Cardinality(Remembering(f)') + Owed(f)'
    <3>1. f # NoFence
      BY RefFacts
    <3>2. Remembering(f)' = {} /\ Owed(f)' = 0
      BY <2>3, <3>1 DEF Remembering, Owed
    <3> QED
      BY <2>3, <3>2, FS_EmptySet
  <2> QED
    BY <2>3, <2>4 DEF RefCountsExact, FenceFresh
<1>2. CASE \E t \in Threads, q \in Queues : RecordCommandList(t, q)
  <2>1. PICK t \in Threads, q \in Queues : RecordCommandList(t, q)
    BY <1>2
  <2>2. /\ UNCHANGED <<ref_count, latest_fence, sub_fence, sub_allocs, submitter>>
        /\ pc[t] = "idle" /\ (pc' = pc \/ \E to : pc' = [pc EXCEPT ![t] = to])
    BY <2>1 DEF RecordCommandList, AcquireNode, Goto, ring, node, submit
  <2>3. \A u \in Threads : u # t => pc'[u] = pc[u]
    BY <1>a, <2>2
  <2> QED
    BY <2>2, <2>3, EarlyUnchanged, RefFrame
<1>3. CASE \E t \in Threads, q \in Queues, cls \in SUBSET Lists, n \in 0 .. MaxBarrierLists :
             SubmitBegin(t, q, cls, n)
  <2>1. UNCHANGED <<ref_count, latest_fence, sub_fence, sub_allocs>> /\ submitter = NoThread
    BY <1>3 DEF SubmitBegin, ring, node
  <2>2. sub_fence = NoFence
    BY <2>1 DEF RefInv, SubmitInv, FenceHeld, Submitting
  <2> QED
    BY <2>1, <2>2, RefFrame
<1>4. CASE (\E q \in Queues : GpuComplete(q)) \/ UNCHANGED vars
  <2>1. UNCHANGED <<ref_count, latest_fence, sub_fence, sub_allocs, submitter, pc>>
    BY <1>4 DEF GpuComplete, vars, ring, node, submit
  <2>2. Submitting({"queue_submit", "gather"})' <=> Submitting({"queue_submit", "gather"})
    BY <2>1 DEF Submitting
  <2> QED
    BY <2>1, <2>2, RefFrame
<1>5. CASE \E t \in Threads : ReleaseNode(t) \/ \E l \in Lists : Discard(t, l)
  <2>1. PICK t \in Threads : ReleaseNode(t) \/ \E l \in Lists : Discard(t, l)
    BY <1>5
  <2>2. /\ UNCHANGED <<ref_count, latest_fence, sub_fence, sub_allocs, submitter>>
        /\ pc[t] \in {"idle", "release"} /\ \E to : pc' = [pc EXCEPT ![t] = to]
    BY <2>1 DEF ReleaseNode, Discard, Goto, ring, node, submit
  <2>3. \A u \in Threads : u # t => pc'[u] = pc[u]
    BY <1>a, <2>2
  <2> QED
    BY <2>2, <2>3, EarlyUnchanged, RefFrame
<1> QED
  BY <1>1, <1>2, <1>3, <1>4, <1>5 DEF Application

LEMMA RefInvInductive == ~EmptySubmits => (RefInv /\ [Next]_vars => RefInv')
<1> SUFFICES ASSUME ~EmptySubmits, RefInv, [Next]_vars PROVE RefInv'
  OBVIOUS
<1>1. SubmitInv'
  BY SubmitInvInductive DEF RefInv
<1>2. ListsSubmitted'
  BY ListsSubmittedStep
<1>3. FenceFresh' /\ RefCountsExact'
  BY RefCreate, RefSubmit, RefOther DEF Next
<1> QED
  BY <1>1, <1>2, <1>3 DEF RefInv

LEMMA RefInvInit == Init => RefInv
<1> SUFFICES ASSUME Init PROVE RefInv
  OBVIOUS
<1>1. RefCountsExact
  <2>1. ASSUME NEW f \in Fences
        PROVE  ref_count[f] = Cardinality(Remembering(f)) + Owed(f)
    <3>1. f # NoFence
      BY AllocsFinite DEF Fences, NoFence
    <3>2. Remembering(f) = {} /\ Owed(f) = 0
      BY <3>1 DEF Init, Remembering, Owed
    <3> QED
      BY <3>2, FS_EmptySet DEF Init
  <2> QED
    BY <2>1 DEF RefCountsExact
<1>2. FenceFresh /\ ListsSubmitted
  BY DEF Init, FenceFresh, ListsSubmitted
<1> QED
  BY <1>1, <1>2, SubmitInvInit DEF RefInv

\* If every submit has a valid list, a fence's count is at all times the number of allocators
\* that remember it plus the references submit still owes, for any number of threads, queues,
\* allocators, lists and fences: no path of acquireFence, freeOnSubmit, on_submit and try_reset
\* leaks or doubly releases a reference, whatever the interleaving.
THEOREM RefCountsCorrect == ~EmptySubmits => (Spec => []RefCountsExact)
<1> SUFFICES ASSUME ~EmptySubmits PROVE Spec => []RefCountsExact
  OBVIOUS
<1>1. RefInv => RefCountsExact
  BY DEF RefInv
<1>2. RefInv /\ [Next]_vars => RefInv'
  BY RefInvInductive
<1> QED
  BY RefInvInit, <1>1, <1>2, PTL DEF Spec

-----------------------------------------------------------------------------
(* The counters of the allocators                                          *)

\* the command buffers an allocator has handed out
Used(a) == {l \in ListsOf(a) : buf[l] # "free"}

Queued == {"gather", "notify", "count"}

\* A command buffer is in use when it is below what its allocator has handed out.
HandedOutRight ==
  \A l \in Lists : buf[l] # "free" <=> l[2] < num_in_flight[l[1]]

\* the lists of the submit in progress
SubListsRight ==
  /\ submitter = NoThread => sub_lists = {}
  /\ submitter # NoThread => pc[submitter] \notin {"idle", "release"}
  /\ \A l \in sub_lists :
       /\ buf[l] \in IF Submitting(Queued) THEN {"pending", "executed"} ELSE {"live"}
       /\ l[1][2] = target[submitter]

\* the allocators freeOnSubmit still has to notify, or is about to count the lists of
NotifyRight ==
  /\ Submitting({"notify", "count"}) =>
       /\ {l[1] : l \in sub_lists} = sub_allocs \union sub_noted
       /\ sub_allocs \cap sub_noted = {}
  /\ Submitting({"count"}) => \E a \in Allocs : sub_noted = {a}
  /\ ~Submitting({"count"}) => sub_noted = {}
  /\ ~Submitting({"notify", "count"}) => sub_allocs = {}

\* The counters a thread has loaded may be outdated but are never too large: both only grow while
\* its allocator is full, and only the thread itself resets them.
LoadedAt(t) ==
  disc[t] # NotLoaded \/ pend[t] # NotLoaded =>
    /\ pc[t] \in {"find", "block"} /\ IsFull(Active(t))
    /\ disc[t] <= num_discarded[Active(t)] /\ pend[t] <= num_pending_execution[Active(t)]

LoadedRight == \A t \in Threads : LoadedAt(t)

CountInv == SubmitInv /\ HandedOutRight /\ SubListsRight /\ NotifyRight /\ LoadedRight /\ CountersExact

LEMMA Typings ==
  ASSUME SubmitInv
  PROVE  /\ pc \in [Threads -> Points] /\ target \in [Threads -> Queues]
         /\ disc \in [Threads -> Int] /\ pend \in [Threads -> Int]
         /\ num_in_flight \in [Allocs -> 0 .. ListsPerAlloc]
         /\ num_discarded \in [Allocs -> Nat] /\ num_pending_execution \in [Allocs -> Nat]
         /\ mActiveAllocator \in [Bundles -> 0 .. NumAllocs - 1]
         /\ buf \in [Lists -> {"free", "live", "discarded", "pending", "executed"}]
         /\ submitter \in Threads \union {NoThread} /\ sub_lists \subseteq Lists
         /\ sub_allocs \subseteq Allocs /\ sub_noted \subseteq Allocs
         /\ NoThread \notin Threads /\ ListsPerAlloc \in Nat \ {0} /\ NumAllocs \in Nat \ {0}
  BY NoThreadAssumption, SizesAssumption
  DEF SubmitInv, TypeOK, ThreadType, NodeType, DeviceType, SubmitType

LEMMA ListShape ==
  /\ \A l \in Lists : l[1] \in Allocs /\ l[2] \in 0 .. ListsPerAlloc - 1 /\ l = <<l[1], l[2]>>
  /\ \A a \in Allocs, i \in 0 .. ListsPerAlloc - 1 : <<a, i>> \in Lists
  BY DEF Lists

LEMMA ListsFinite ==
  \A S \in SUBSET Lists : IsFiniteSet(S) /\ Cardinality(S) \in Nat
  BY AllocsFinite, FS_Subset, FS_CardinalityType

LEMMA DisjointUnion ==
  ASSUME NEW S, NEW T, IsFiniteSet(S), IsFiniteSet(T), S \cap T = {}
  PROVE  IsFiniteSet(S \union T) /\ Cardinality(S \union T) = Cardinality(S) + Cardinality(T)
<1>1. /\ IsFiniteSet(S \union T)
      /\ Cardinality(S \union T) = Cardinality(S) + Cardinality(T) - Cardinality(S \cap T)
  BY FS_Union
<1>2. Cardinality(S \cap T) = 0 /\ Cardinality(S) \in Nat /\ Cardinality(T) \in Nat
  BY FS_EmptySet, FS_CardinalityType
<1> QED
  BY <1>1, <1>2

\* Every allocator has one owner.
LEMMA OwnersApart ==
  ASSUME SubmitInv, NEW t \in Threads, NEW u \in Threads, u # t
  PROVE  Active(u) # Active(t)
  BY DEF Active

LEMMA SubmittingSame ==
  ASSUME SubmitInv, UNCHANGED submitter, submitter # NoThread => pc'[submitter] = pc[submitter], NEW S
  PROVE  Submitting(S)' <=> Submitting(S)
  BY DEF Submitting

\* A step that changes neither buffers nor counters, and keeps submit where it is, except that it
\* may go from one point before the queue to another.
LEMMA CountFrame ==
  ASSUME CountInv,
         UNCHANGED <<num_in_flight, num_discarded, num_pending_execution, buf, submitter, sub_lists,
                     sub_allocs, sub_noted>>,
         submitter # NoThread =>
           \/ pc'[submitter] = pc[submitter]
           \/ /\ pc[submitter] \notin Queued \union {"idle", "release"}
              /\ pc'[submitter] \notin Queued \union {"idle", "release"},
         submitter # NoThread => target'[submitter] = target[submitter]
  PROVE  /\ HandedOutRight' /\ SubListsRight' /\ NotifyRight' /\ CountersExact'
<1>1. \A S \in SUBSET Queued : Submitting(S)' <=> Submitting(S)
  BY DEF Submitting
<1>2. /\ Submitting(Queued)' <=> Submitting(Queued)
      /\ Submitting({"notify", "count"})' <=> Submitting({"notify", "count"})
      /\ Submitting({"count"})' <=> Submitting({"count"})
  BY <1>1 DEF Queued
<1>3. HandedOutRight' /\ CountersExact'
  BY DEF CountInv, HandedOutRight, CountersExact, ListsOf
<1>4. SubListsRight'
  BY <1>2 DEF CountInv, SubListsRight
<1>5. NotifyRight'
  BY <1>2 DEF CountInv, NotifyRight
<1> QED
  BY <1>3, <1>4, <1>5

\* A thread whose allocator only gains discarded and submitted lists.
LEMMA LoadedKept ==
  ASSUME CountInv, NEW u \in Threads, UNCHANGED <<target[u], disc[u], pend[u]>>,
         pc[u] \in {"find", "block"} =>
           /\ pc'[u] \in {"find", "block"} /\ Active(u)' = Active(u)
           /\ num_in_flight'[Active(u)] = num_in_flight[Active(u)]
           /\ num_discarded'[Active(u)] >= num_discarded[Active(u)]
           /\ num_pending_execution'[Active(u)] >= num_pending_execution[Active(u)],
         TypeOK'
  PROVE  LoadedAt(u)'
<1>1. CASE disc[u] # NotLoaded \/ pend[u] # NotLoaded
  <2> PICK a \in Allocs : a = Active(u)
    BY ActiveType DEF CountInv, SubmitInv
  <2>1. /\ pc[u] \in {"find", "block"} /\ num_in_flight[a] = ListsPerAlloc
        /\ disc[u] <= num_discarded[a] /\ pend[u] <= num_pending_execution[a]
    BY <1>1 DEF CountInv, LoadedRight, LoadedAt, IsFull
  <2>2. /\ disc[u] \in Int /\ pend[u] \in Int
        /\ num_discarded[a] \in Int /\ num_pending_execution[a] \in Int
        /\ num_discarded'[a] \in Int /\ num_pending_execution'[a] \in Int
    BY Typings DEF CountInv, TypeOK, NodeType
  <2>3. disc'[u] <= num_discarded'[a] /\ pend'[u] <= num_pending_execution'[a]
    BY <2>1, <2>2
  <2> QED
    BY <2>1, <2>3 DEF LoadedAt, IsFull
<1>2. CASE disc[u] = NotLoaded /\ pend[u] = NotLoaded
  BY <1>2 DEF LoadedAt
<1> QED
  BY <1>1, <1>2

\* What a thread does to its own allocator, the others do not see.
LEMMA LoadedElsewhere ==
  ASSUME CountInv, TypeOK', NEW t \in Threads, NEW u \in Threads, u # t,
         pc'[u] = pc[u], target'[u] = target[u], disc'[u] = disc[u], pend'[u] = pend[u],
         mActiveAllocator'[Bundle(u)] = mActiveAllocator[Bundle(u)],
         \A a \in Allocs : a # Active(t) =>
           /\ num_in_flight'[a] = num_in_flight[a] /\ num_discarded'[a] = num_discarded[a]
           /\ num_pending_execution'[a] = num_pending_execution[a]
  PROVE  LoadedAt(u)'
<1>1. Active(u) \in Allocs /\ Active(u) # Active(t) /\ Active(u)' = Active(u)
  BY ActiveType, OwnersApart DEF CountInv, SubmitInv, Active, Bundle
<1>2. num_discarded[Active(u)] \in Int /\ num_pending_execution[Active(u)] \in Int
  BY <1>1, Typings DEF CountInv
<1> QED
  BY <1>1, <1>2, LoadedKept

LEMMA TakeCounts ==
  ASSUME CountInv, TypeOK', NEW t \in Threads, TakeBuffer(t)
  PROVE  HandedOutRight' /\ SubListsRight' /\ NotifyRight' /\ LoadedRight' /\ CountersExact'
<1> PICK a \in Allocs : a = Active(t)
  BY ActiveType DEF CountInv, SubmitInv
<1> DEFINE n == num_in_flight[a]
           l == <<a, n>>
<1>1. n \in 0 .. ListsPerAlloc - 1 /\ l \in Lists /\ l[1] = a /\ l[2] = n /\ buf[l] = "free"
  <2>1. n \in 0 .. ListsPerAlloc - 1
    BY Typings DEF TakeBuffer, IsFull, CountInv
  <2>2. l \in Lists /\ l[1] = a /\ l[2] = n
    BY <2>1, ListShape
  <2> QED
    BY <2>1, <2>2 DEF CountInv, HandedOutRight
<1>2. /\ num_in_flight' = [num_in_flight EXCEPT ![a] = n + 1]
      /\ buf' = [buf EXCEPT ![l] = "live"]
      /\ UNCHANGED <<num_discarded, num_pending_execution, mActiveAllocator, target, disc, pend,
                     submitter, sub_allocs, sub_noted>>
      /\ pc[t] \in {"find", "block"} /\ n # ListsPerAlloc
      /\ \/ submitter = t /\ Goto(t, "submit") /\ sub_lists' = sub_lists \union {l}
         \/ submitter # t /\ Goto(t, "idle") /\ UNCHANGED sub_lists
  BY DEF TakeBuffer, IsFull, loaded
<1>l. a[2] = target[t]
  BY DEF Active
<1> HIDE DEF l, n
<1>3. /\ num_in_flight'[a] = n + 1 /\ num_in_flight[a] = n
      /\ \A b \in Allocs : b # a => num_in_flight'[b] = num_in_flight[b]
      /\ buf'[l] = "live" /\ \A m \in Lists : m # l => buf'[m] = buf[m]
      /\ \A u \in Threads : u # t => pc'[u] = pc[u]
  BY <1>1, <1>2, Typings DEF CountInv, Goto, n
<1>4. HandedOutRight'
  <2> SUFFICES ASSUME NEW m \in Lists
               PROVE  buf'[m] # "free" <=> m[2] < num_in_flight'[m[1]]
    BY DEF HandedOutRight
  <2>1. m[1] \in Allocs /\ m[2] \in Int /\ m = <<m[1], m[2]>> /\ l = <<a, n>>
    BY ListShape DEF l
  <2>2. buf[m] # "free" <=> m[2] < num_in_flight[m[1]]
    BY DEF CountInv, HandedOutRight
  <2>3. CASE m = l
    BY <1>1, <1>3, <2>3
  <2>4. CASE m # l /\ m[1] = a
    <3>1. m[2] # n
      BY <2>1, <2>4
    <3>2. m[2] < n + 1 <=> m[2] < n
      BY <1>1, <2>1, <3>1
    <3> QED
      BY <1>3, <2>2, <2>4, <3>2
  <2>5. CASE m # l /\ m[1] # a
    BY <1>3, <2>1, <2>2, <2>5
  <2> QED
    BY <2>3, <2>4, <2>5
<1>5. /\ \A S \in SUBSET Queued : Submitting(S)' <=> Submitting(S)
      /\ submitter = t => ~Submitting(Queued)
  BY <1>2, <1>3, Typings DEF Submitting, Queued, CountInv, Goto
<1>6. SubListsRight'
  <2>1. submitter' = NoThread => sub_lists' = {}
    BY <1>2, Typings DEF CountInv, SubListsRight
  <2>2. submitter' # NoThread => pc'[submitter'] \notin {"idle", "release"}
    <3>1. CASE submitter = t
      BY <1>2, <3>1, Typings DEF Goto, CountInv
    <3>2. CASE submitter # t
      BY <1>2, <1>3, <3>2, Typings DEF CountInv, SubListsRight
    <3> QED
      BY <3>1, <3>2
  <2>3. ASSUME NEW m \in sub_lists'
        PROVE  /\ buf'[m] \in IF Submitting(Queued)' THEN {"pending", "executed"} ELSE {"live"}
               /\ m[1][2] = target'[submitter']
    <3>1. CASE m = l
      BY <1>1, <1>2, <1>3, <1>5, <1>l, <2>3, <3>1 DEF CountInv, SubListsRight
    <3>2. CASE m # l
      <4>1. m \in sub_lists /\ m \in Lists
        BY <1>2, <3>2, <2>3, Typings DEF CountInv
      <4> QED
        BY <1>2, <1>3, <1>5, <3>2, <4>1 DEF CountInv, SubListsRight
    <3> QED
      BY <3>1, <3>2
  <2> QED
    BY <2>1, <2>2, <2>3 DEF SubListsRight
<1>7. NotifyRight'
  <2>1. CASE submitter = t
    <3>1. \A S \in SUBSET Queued : ~Submitting(S)
      BY <1>5, <2>1 DEF Submitting
    <3>2. \A S \in SUBSET Queued : ~Submitting(S)'
      BY <1>5, <3>1
    <3> QED
      BY <1>2, <3>1, <3>2 DEF NotifyRight, CountInv, Queued
  <2>2. CASE submitter # t
    BY <1>2, <1>5, <2>2 DEF NotifyRight, CountInv, Queued
  <2> QED
    BY <2>1, <2>2
<1>8. LoadedRight'
  <2>1. LoadedAt(t)'
    BY <1>2 DEF CountInv, LoadedRight, LoadedAt, IsFull, n
  <2>2. ASSUME NEW u \in Threads, u # t
        PROVE  LoadedAt(u)'
    BY <1>2, <1>3, <2>2, LoadedElsewhere
  <2> QED
    BY <2>1, <2>2 DEF LoadedRight
<1>9. CountersExact'
  <2>1. l \notin sub_lists
    BY <1>1 DEF CountInv, SubListsRight
  <2>2. \A m \in Lists : m \in sub_lists' <=> m \in sub_lists \/ (m = l /\ submitter = t)
    BY <1>1, <1>2
  <2>3. ASSUME NEW b \in Allocs
        PROVE  /\ num_in_flight'[b] = Cardinality({m \in ListsOf(b) : buf'[m] # "free"})
               /\ num_discarded'[b] = Cardinality({m \in ListsOf(b) : buf'[m] = "discarded"})
               /\ num_pending_execution'[b]
                    = Cardinality({m \in ListsOf(b) :
                                     buf'[m] \in {"pending", "executed"} /\ m \notin sub_lists'})
    <3> DEFINE U == {m \in ListsOf(b) : buf[m] # "free"}
    <3>1. /\ num_in_flight[b] = Cardinality(U)
          /\ num_discarded[b] = Cardinality({m \in ListsOf(b) : buf[m] = "discarded"})
          /\ num_pending_execution[b]
                    = Cardinality({m \in ListsOf(b) :
                                     buf[m] \in {"pending", "executed"} /\ m \notin sub_lists})
      BY DEF CountInv, CountersExact
    <3>2. {m \in ListsOf(b) : buf'[m] = "discarded"} = {m \in ListsOf(b) : buf[m] = "discarded"}
      BY <1>1, <1>3 DEF ListsOf
    <3>3. {m \in ListsOf(b) : buf'[m] \in {"pending", "executed"} /\ m \notin sub_lists'}
           = {m \in ListsOf(b) : buf[m] \in {"pending", "executed"} /\ m \notin sub_lists}
      BY <1>1, <1>3, <2>2 DEF ListsOf
    <3>4. num_in_flight'[b] = Cardinality({m \in ListsOf(b) : buf'[m] # "free"})
      <4>1. CASE b = a
        <5>1. {m \in ListsOf(b) : buf'[m] # "free"} = U \union {l} /\ l \notin U
          BY <1>1, <1>3, <4>1 DEF ListsOf
        <5>2. U \in SUBSET Lists
          BY DEF ListsOf
        <5> HIDE DEF U
        <5>3. Cardinality(U \union {l}) = Cardinality(U) + 1
          BY <5>1, <5>2, ListsFinite, FS_AddElement
        <5> QED
          BY <1>3, <3>1, <4>1, <5>1, <5>3
      <4>2. CASE b # a
        <5>1. {m \in ListsOf(b) : buf'[m] # "free"} = U
          BY <1>1, <1>3, <4>2 DEF ListsOf
        <5> QED
          BY <1>3, <3>1, <4>2, <5>1
      <4> QED
        BY <4>1, <4>2
    <3> QED
      BY <1>2, <3>1, <3>2, <3>3, <3>4
  <2> QED
    BY <2>3 DEF CountersExact, ListsOf
<1> QED
  BY <1>4, <1>6, <1>7, <1>8, <1>9

\* What is full and came back altogether is discarded or was submitted and counted: nothing of the
\* allocator is open or still used by submit.
LEMMA AllBack ==
  ASSUME CountInv, NEW t \in Threads, pc[t] \in {"find", "block"}, Loaded(t), CanReset(t)
  PROVE  \A l \in Lists : l[1] = Active(t) =>
            /\ l \notin sub_lists /\ buf[l] # "live"
            /\ buf[l] \in {"pending", "executed"} => num_pending_execution[Active(t)] > 0
<1> PICK a \in Allocs : a = Active(t)
  BY ActiveType DEF CountInv, SubmitInv
<1> DEFINE U == {l \in ListsOf(a) : buf[l] # "free"}
           D == {l \in ListsOf(a) : buf[l] = "discarded"}
           P == {l \in ListsOf(a) : buf[l] \in {"pending", "executed"} /\ l \notin sub_lists}
<1>1. /\ num_in_flight[a] = Cardinality(U) /\ num_discarded[a] = Cardinality(D)
      /\ num_pending_execution[a] = Cardinality(P)
  BY DEF CountInv, CountersExact
<1>2. U \in SUBSET Lists /\ D \in SUBSET Lists /\ P \in SUBSET Lists
  BY DEF ListsOf
<1>3. D \subseteq U /\ P \subseteq U /\ D \cap P = {}
  OBVIOUS
<1> HIDE DEF U, D, P
<1>4. /\ IsFiniteSet(U) /\ IsFiniteSet(D) /\ IsFiniteSet(P)
      /\ Cardinality(U) \in Nat /\ Cardinality(D) \in Nat /\ Cardinality(P) \in Nat
  BY <1>2, ListsFinite
<1>5. Cardinality(U) <= Cardinality(D) + Cardinality(P)
  <2>1. /\ disc[t] <= num_discarded[a] /\ pend[t] <= num_pending_execution[a]
        /\ num_in_flight[a] = disc[t] + pend[t] /\ disc[t] \in Int /\ pend[t] \in Int
    BY Typings DEF CountInv, LoadedRight, LoadedAt, Loaded, CanReset
  <2> QED
    BY <1>1, <1>4, <2>1
<1>6. D \union P = U
  <2>2. Cardinality(D \union P) = Cardinality(D) + Cardinality(P)
    BY <1>3, <1>4, DisjointUnion
  <2>3. D \union P \subseteq U
    BY <1>3
  <2>4. Cardinality(D \union P) <= Cardinality(U)
    BY <1>4, <2>3, FS_Subset
  <2>5. Cardinality(D \union P) = Cardinality(U)
    BY <1>4, <1>5, <2>2, <2>4
  <2> QED
    BY <1>4, <2>3, <2>5, FS_Subset
<1>7. ASSUME NEW l \in Lists, l[1] = a
      PROVE  /\ l \notin sub_lists /\ buf[l] # "live"
             /\ buf[l] \in {"pending", "executed"} => num_pending_execution[a] > 0
  <2>1. l \in ListsOf(a)
    BY <1>7 DEF ListsOf
  <2>2. buf[l] # "live" /\ l \notin sub_lists
    <3>1. buf[l] # "free" => l \in D \/ l \in P
      BY <1>6, <2>1 DEF U
    <3>2. l \in sub_lists => buf[l] \in {"live", "pending", "executed"}
      BY DEF CountInv, SubListsRight
    <3> QED
      BY <3>1, <3>2 DEF D, P
  <2>3. ASSUME buf[l] \in {"pending", "executed"}
        PROVE  num_pending_execution[a] > 0
    <3>1. l \in P
      BY <2>1, <2>2, <2>3 DEF P
    <3>2. Cardinality(P) # 0
      BY <1>4, <3>1, FS_EmptySet
    <3> QED
      BY <1>1, <1>4, <3>2
  <2> QED
    BY <2>2, <2>3
<1> QED
  BY <1>7

LEMMA ResetCounts ==
  ASSUME CountInv, TypeOK', NEW t \in Threads, Reset(t)
  PROVE  HandedOutRight' /\ SubListsRight' /\ NotifyRight' /\ LoadedRight' /\ CountersExact'
<1> PICK a \in Allocs : a = Active(t)
  BY ActiveType DEF CountInv, SubmitInv
<1>1. /\ pc[t] \in {"find", "block"} /\ Loaded(t) /\ CanReset(t)
      /\ buf' = [l \in Lists |-> IF l[1] = a THEN "free" ELSE buf[l]]
      /\ num_in_flight' = [num_in_flight EXCEPT ![a] = 0]
      /\ num_discarded' = [num_discarded EXCEPT ![a] = 0]
      /\ num_pending_execution' = [num_pending_execution EXCEPT ![a] = 0]
      /\ disc' = [disc EXCEPT ![t] = NotLoaded] /\ pend' = [pend EXCEPT ![t] = NotLoaded]
      /\ UNCHANGED <<mActiveAllocator, pc, target, submitter, sub_lists, sub_allocs, sub_noted>>
  BY DEF Reset, Unload, submit
<1>2. /\ \A l \in Lists : buf'[l] = IF l[1] = a THEN "free" ELSE buf[l]
      /\ \A b \in Allocs :
           /\ num_in_flight'[b] = IF b = a THEN 0 ELSE num_in_flight[b]
           /\ num_discarded'[b] = IF b = a THEN 0 ELSE num_discarded[b]
           /\ num_pending_execution'[b] = IF b = a THEN 0 ELSE num_pending_execution[b]
  BY <1>1, Typings DEF CountInv
<1>3. \A l \in sub_lists : l \in Lists /\ l[1] # a
  BY <1>1, AllBack, Typings DEF CountInv
<1>4. HandedOutRight'
  BY <1>2, ListShape DEF CountInv, HandedOutRight
<1>5. \A S : Submitting(S)' <=> Submitting(S)
  BY <1>1 DEF Submitting
<1>6. SubListsRight'
  BY <1>1, <1>2, <1>3, <1>5 DEF CountInv, SubListsRight
<1>7. NotifyRight'
  BY <1>1, <1>5 DEF CountInv, NotifyRight
<1>8. LoadedRight'
  <2>1. LoadedAt(t)'
    BY <1>1, Typings DEF CountInv, LoadedAt
  <2>2. ASSUME NEW u \in Threads, u # t
        PROVE  LoadedAt(u)'
    <3>1. disc'[u] = disc[u] /\ pend'[u] = pend[u]
      BY <1>1, <2>2, Typings DEF CountInv
    <3> QED
      BY <1>1, <1>2, <2>2, <3>1, LoadedElsewhere
  <2> QED
    BY <2>1, <2>2 DEF LoadedRight
<1>9. CountersExact'
  <2>1. ASSUME NEW b \in Allocs
        PROVE  /\ num_in_flight'[b] = Cardinality({m \in ListsOf(b) : buf'[m] # "free"})
               /\ num_discarded'[b] = Cardinality({m \in ListsOf(b) : buf'[m] = "discarded"})
               /\ num_pending_execution'[b]
                    = Cardinality({m \in ListsOf(b) :
                                     buf'[m] \in {"pending", "executed"} /\ m \notin sub_lists'})
    <3>1. CASE b = a
      <4>1. \A m \in ListsOf(b) : buf'[m] = "free"
        BY <1>2, <3>1 DEF ListsOf
      <4>2. /\ {m \in ListsOf(b) : buf'[m] # "free"} = {}
            /\ {m \in ListsOf(b) : buf'[m] = "discarded"} = {}
            /\ {m \in ListsOf(b) : buf'[m] \in {"pending", "executed"} /\ m \notin sub_lists'} = {}
        BY <4>1
      <4> QED
        BY <1>2, <3>1, <4>2, FS_EmptySet
    <3>2. CASE b # a
      <4>1. \A m \in ListsOf(b) : buf'[m] = buf[m]
        BY <1>2, <3>2 DEF ListsOf
      <4>2. /\ {m \in ListsOf(b) : buf'[m] # "free"} = {m \in ListsOf(b) : buf[m] # "free"}
            /\ {m \in ListsOf(b) : buf'[m] = "discarded"} = {m \in ListsOf(b) : buf[m] = "discarded"}
            /\ {m \in ListsOf(b) : buf'[m] \in {"pending", "executed"} /\ m \notin sub_lists'}
                 = {m \in ListsOf(b) : buf[m] \in {"pending", "executed"} /\ m \notin sub_lists}
        BY <1>1, <4>1
      <4> QED
        BY <1>2, <3>2, <4>2 DEF CountInv, CountersExact
    <3> QED
      BY <3>1, <3>2
  <2> QED
    BY <2>1 DEF CountersExact, ListsOf
<1> QED
  BY <1>4, <1>6, <1>7, <1>8, <1>9

\* A step that leaves the counters alone, and every buffer on the side where it is counted.
LEMMA SameCounts ==
  ASSUME CountInv, UNCHANGED <<num_in_flight, num_discarded, num_pending_execution>>,
         \A l \in Lists :
           /\ buf'[l] = "free" <=> buf[l] = "free"
           /\ buf'[l] = "discarded" <=> buf[l] = "discarded"
           /\ (buf'[l] \in {"pending", "executed"} /\ l \notin sub_lists')
                <=> (buf[l] \in {"pending", "executed"} /\ l \notin sub_lists)
  PROVE  HandedOutRight' /\ CountersExact'
<1>1. HandedOutRight'
  BY DEF CountInv, HandedOutRight
<1>2. ASSUME NEW a \in Allocs
      PROVE  /\ {l \in ListsOf(a) : buf'[l] # "free"} = {l \in ListsOf(a) : buf[l] # "free"}
             /\ {l \in ListsOf(a) : buf'[l] = "discarded"} = {l \in ListsOf(a) : buf[l] = "discarded"}
             /\ {l \in ListsOf(a) : buf'[l] \in {"pending", "executed"} /\ l \notin sub_lists'}
                  = {l \in ListsOf(a) : buf[l] \in {"pending", "executed"} /\ l \notin sub_lists}
  BY DEF ListsOf
<1>3. CountersExact'
  BY <1>2 DEF CountInv, CountersExact, ListsOf
<1> QED
  BY <1>1, <1>3

\* A step without loads or resets, of threads that are not looking for an allocator.
LEMMA LoadedSame ==
  ASSUME CountInv, TypeOK',
         UNCHANGED <<num_in_flight, disc, pend, mActiveAllocator>>,
         \A u \in Threads : pc[u] \in {"find", "block"} => pc'[u] = pc[u] /\ target'[u] = target[u],
         \A a \in Allocs : /\ num_discarded'[a] >= num_discarded[a]
                           /\ num_pending_execution'[a] >= num_pending_execution[a]
  PROVE  LoadedRight'
<1>1. ASSUME NEW u \in Threads
      PROVE  LoadedAt(u)'
  <2>1. CASE pc[u] \in {"find", "block"}
    <3>1. Active(u) \in Allocs /\ Active(u)' = Active(u) /\ Bundle(u) \in Bundles
      BY <2>1, ActiveType DEF CountInv, SubmitInv, Active, Bundle
    <3> QED
      BY <2>1, <3>1, LoadedKept
  <2>2. CASE pc[u] \notin {"find", "block"}
    BY <2>2 DEF CountInv, LoadedRight, LoadedAt
  <2> QED
    BY <2>1, <2>2
<1> QED
  BY <1>1 DEF LoadedRight

LEMMA SearchCounts ==
  ASSUME CountInv, TypeOK', NEW t \in Threads, LoadCounter(t) \/ NextAllocator(t)
  PROVE  HandedOutRight' /\ SubListsRight' /\ NotifyRight' /\ LoadedRight' /\ CountersExact'
<1>1. /\ UNCHANGED <<num_in_flight, num_discarded, num_pending_execution, buf, submitter, sub_lists,
                     sub_allocs, sub_noted, target>>
      /\ pc[t] \in {"find", "block"} /\ (pc' = pc \/ Goto(t, "block")) /\ IsFull(Active(t))
  BY DEF LoadCounter, NextAllocator, node, submit, device
<1>2. /\ pc'[t] \in {"find", "block"}
      /\ \A u \in Threads : u # t => pc'[u] = pc[u]
  BY <1>1, Typings DEF CountInv, Goto
<1>3. HandedOutRight' /\ SubListsRight' /\ NotifyRight' /\ CountersExact'
  <2>1. submitter # NoThread =>
           \/ pc'[submitter] = pc[submitter]
           \/ /\ pc[submitter] \notin Queued \union {"idle", "release"}
              /\ pc'[submitter] \notin Queued \union {"idle", "release"}
    BY <1>1, <1>2, Typings DEF CountInv, Queued
  <2> QED
    BY <1>1, <2>1, CountFrame
<1>4. LoadedAt(t)'
  <2>1. CASE LoadCounter(t)
    <3> PICK a \in Allocs : a = Active(t)
      BY ActiveType DEF CountInv, SubmitInv
    <3>1. /\ Active(t)' = a /\ num_discarded[a] \in Int /\ num_pending_execution[a] \in Int
          /\ disc[t] \in Int /\ pend[t] \in Int
      BY <2>1, Typings DEF LoadCounter, Active, Bundle, CountInv
    <3>2. disc[t] <= num_discarded[a] /\ pend[t] <= num_pending_execution[a]
      <4>1. num_discarded[a] >= 0 /\ num_pending_execution[a] >= 0
        BY Typings DEF CountInv
      <4> QED
        BY <3>1, <4>1 DEF CountInv, LoadedRight, LoadedAt, NotLoaded
    <3>3. disc'[t] \in {disc[t], num_discarded[a]} /\ pend'[t] \in {pend[t], num_pending_execution[a]}
      BY <2>1, Typings DEF LoadCounter, CountInv
    <3>4. disc'[t] <= num_discarded[a] /\ pend'[t] <= num_pending_execution[a]
      BY <3>1, <3>2, <3>3
    <3> QED
      BY <1>1, <1>2, <3>1, <3>4 DEF LoadedAt, IsFull
  <2>2. CASE NextAllocator(t)
    BY <2>2, Typings DEF NextAllocator, Unload, LoadedAt, CountInv
  <2> QED
    BY <2>1, <2>2
<1>5. ASSUME NEW u \in Threads, u # t
      PROVE  LoadedAt(u)'
  <2>1. disc'[u] = disc[u] /\ pend'[u] = pend[u]
    BY <1>5, Typings DEF LoadCounter, NextAllocator, Unload, CountInv
  <2>2. mActiveAllocator'[Bundle(u)] = mActiveAllocator[Bundle(u)]
    <3>1. Bundle(u) # Bundle(t) /\ Bundle(u) \in Bundles
      BY <1>5, ActiveType DEF Bundle, CountInv, SubmitInv
    <3>2. \/ mActiveAllocator' = mActiveAllocator
          \/ \E i : mActiveAllocator' = [mActiveAllocator EXCEPT ![Bundle(t)] = i]
      BY DEF LoadCounter, NextAllocator
    <3> QED
      BY <3>1, <3>2, Typings DEF CountInv
  <2> QED
    BY <1>1, <1>2, <1>5, <2>1, <2>2, LoadedElsewhere
<1>6. LoadedRight'
  BY <1>4, <1>5 DEF LoadedRight
<1> QED
  BY <1>3, <1>6

\* Submit up to the fence.
LEMMA BeforeQueueCounts ==
  ASSUME CountInv, TypeOK', NEW t \in Threads,
         CreateBarrierList(t) \/ BarriersDone(t) \/ TakeFence(t) \/ NextFence(t)
  PROVE  HandedOutRight' /\ SubListsRight' /\ NotifyRight' /\ LoadedRight' /\ CountersExact'
<1>1. /\ UNCHANGED <<num_in_flight, num_discarded, num_pending_execution, buf, submitter, sub_lists,
                     sub_allocs, sub_noted, target, disc, pend, mActiveAllocator>>
      /\ submitter = t /\ pc[t] \in {"submit", "fence_ready", "fence_any"}
      /\ pc' = pc \/ \E to \in {"find", "fence_ready", "fence_any", "queue_submit"} : Goto(t, to)
  BY DEF CreateBarrierList, AcquireNode, BarriersDone, TakeFence, NextFence, node, submit, device, loaded
<1>2. /\ pc'[t] \in {"submit", "find", "fence_ready", "fence_any", "queue_submit"}
      /\ \A u \in Threads : u # t => pc'[u] = pc[u]
  BY <1>1, Typings DEF CountInv, Goto
<1>3. HandedOutRight' /\ SubListsRight' /\ NotifyRight' /\ CountersExact'
  <2>1. submitter # NoThread =>
           /\ pc[submitter] \notin Queued \union {"idle", "release"}
           /\ pc'[submitter] \notin Queued \union {"idle", "release"}
    BY <1>1, <1>2 DEF Queued
  <2> QED
    BY <1>1, <2>1, CountFrame
<1>4. LoadedRight'
  <2>1. \A u \in Threads : pc[u] \in {"find", "block"} => pc'[u] = pc[u] /\ target'[u] = target[u]
    BY <1>1, <1>2
  <2>2. \A a \in Allocs : /\ num_discarded'[a] >= num_discarded[a]
                          /\ num_pending_execution'[a] >= num_pending_execution[a]
    BY <1>1, Typings DEF CountInv
  <2> QED
    BY <1>1, <2>1, <2>2, LoadedSame
<1> QED
  BY <1>3, <1>4

\* freeOnSubmit has work for as many allocators as the submission has.
LEMMA GatheredNone ==
  ASSUME SubmitInv
  PROVE  Cardinality({l[1] : l \in sub_lists}) = 0 <=> sub_lists = {}
<1> DEFINE allocs == {l[1] : l \in sub_lists}
<1>1. allocs \subseteq Allocs
  BY Typings, ListShape
<1> HIDE DEF allocs
<1>2. Cardinality(allocs) = 0 <=> allocs = {}
  BY <1>1, AllocsFinite, FS_Subset, FS_EmptySet
<1> QED
  BY <1>2 DEF allocs

LEMMA AfterQueueCounts ==
  ASSUME CountInv, TypeOK', NEW t \in Threads,
         QueueSubmit(t) \/ GatherAllocators(t) \/ \E a \in Allocs : ExchangeFence(t, a)
  PROVE  HandedOutRight' /\ SubListsRight' /\ NotifyRight' /\ LoadedRight' /\ CountersExact'
<1>1. /\ UNCHANGED <<num_in_flight, num_discarded, num_pending_execution, target, disc, pend,
                     mActiveAllocator>>
      /\ submitter = t /\ pc[t] \in {"queue_submit", "gather", "notify"}
      /\ pc' = pc \/ \E to \in {"gather", "notify", "count", "idle"} : Goto(t, to)
  BY DEF QueueSubmit, GatherAllocators, EndSubmit, ExchangeFence, node, submit, device, loaded
<1>2. /\ \A u \in Threads : u # t => pc'[u] = pc[u]
      /\ \A S : Submitting(S) <=> pc[t] \in S
  BY <1>1, Typings DEF CountInv, Goto, Submitting
<1>3. LoadedRight'
  <2>1. \A u \in Threads : pc[u] \in {"find", "block"} => pc'[u] = pc[u] /\ target'[u] = target[u]
    BY <1>1, <1>2
  <2>2. \A a \in Allocs : /\ num_discarded'[a] >= num_discarded[a]
                          /\ num_pending_execution'[a] >= num_pending_execution[a]
    BY <1>1, Typings DEF CountInv
  <2> QED
    BY <1>1, <2>1, <2>2, LoadedSame
<1>4. CASE QueueSubmit(t)
  <2>1. /\ pc[t] = "queue_submit" /\ pc'[t] = "gather"
        /\ UNCHANGED <<submitter, sub_lists, sub_allocs, sub_noted>>
        /\ \A l \in Lists : buf'[l] = IF l \in sub_lists THEN "pending" ELSE buf[l]
    BY <1>4, Typings DEF QueueSubmit, submit, Goto, CountInv
  <2>2. \A S : Submitting(S)' <=> "gather" \in S
    BY <1>1, <2>1, Typings DEF Submitting, CountInv
  <2>3. \A l \in sub_lists : l \in Lists /\ buf[l] = "live"
    BY <1>2, <2>1, Typings DEF CountInv, SubListsRight, Queued
  <2>4. HandedOutRight' /\ CountersExact'
    BY <1>1, <2>1, <2>3, SameCounts
  <2>5. SubListsRight'
    BY <1>1, <2>1, <2>2, <2>3 DEF CountInv, SubListsRight, Queued
  <2>6. NotifyRight'
    BY <1>2, <2>1, <2>2 DEF CountInv, NotifyRight
  <2> QED
    BY <1>3, <2>4, <2>5, <2>6
<1>5. CASE GatherAllocators(t)
  <2>1. pc[t] = "gather" /\ UNCHANGED buf
    BY <1>5 DEF GatherAllocators, device
  <2>2. \/ UNCHANGED <<pc, submitter, sub_lists, sub_allocs, sub_noted>>
        \/ sub_lists = {} /\ EndSubmit(t)
        \/ /\ sub_allocs' = {l[1] : l \in sub_lists} /\ Goto(t, "notify")
           /\ UNCHANGED <<submitter, sub_lists, sub_noted>>
    BY <1>5, GatheredNone DEF GatherAllocators, submit, CountInv
  <2>3. sub_allocs = {} /\ sub_noted = {}
    BY <1>2, <2>1 DEF CountInv, NotifyRight
  <2>4. CASE UNCHANGED <<pc, submitter, sub_lists, sub_allocs, sub_noted>>
    <3>1. \A l \in Lists : buf'[l] = buf[l] /\ (l \in sub_lists' <=> l \in sub_lists)
      BY <2>1, <2>4
    <3>2. HandedOutRight' /\ CountersExact'
      BY <1>1, <3>1, SameCounts
    <3>3. \A S : Submitting(S)' <=> Submitting(S)
      BY <2>4 DEF Submitting
    <3> QED
      BY <1>1, <1>3, <2>1, <2>4, <3>2, <3>3 DEF CountInv, SubListsRight, NotifyRight
  <2>5. CASE sub_lists = {} /\ EndSubmit(t)
    <3>1. submitter' = NoThread /\ sub_lists' = {} /\ sub_allocs' = {} /\ sub_noted' = {}
      BY <2>5 DEF EndSubmit
    <3>2. HandedOutRight' /\ CountersExact'
      BY <1>1, <2>1, <2>5, <3>1, SameCounts
    <3>3. \A S : ~Submitting(S)'
      BY <3>1 DEF Submitting
    <3> QED
      BY <1>3, <3>1, <3>2, <3>3 DEF SubListsRight, NotifyRight
  <2>6. CASE /\ sub_allocs' = {l[1] : l \in sub_lists} /\ Goto(t, "notify")
             /\ UNCHANGED <<submitter, sub_lists, sub_noted>>
    <3>1. pc'[t] = "notify"
      BY <2>6, Typings DEF Goto, CountInv
    <3>2. HandedOutRight' /\ CountersExact'
      BY <1>1, <2>1, <2>6, SameCounts
    <3>3. \A S : Submitting(S)' <=> "notify" \in S
      BY <1>1, <2>6, <3>1, Typings DEF Submitting, CountInv
    <3>4. SubListsRight'
      BY <1>1, <1>2, <2>1, <2>6, <3>1, <3>3 DEF CountInv, SubListsRight, Queued
    <3>5. NotifyRight'
      BY <2>3, <2>6, <3>3 DEF NotifyRight
    <3> QED
      BY <1>3, <3>2, <3>4, <3>5
  <2> QED
    BY <2>2, <2>4, <2>5, <2>6
<1>6. ASSUME NEW a \in Allocs, ExchangeFence(t, a)
      PROVE  HandedOutRight' /\ SubListsRight' /\ NotifyRight' /\ CountersExact'
  <2>1. /\ pc[t] = "notify" /\ pc'[t] = "count" /\ UNCHANGED <<submitter, sub_lists, buf>>
        /\ a \in sub_allocs /\ sub_allocs' = sub_allocs \ {a} /\ sub_noted' = {a}
    BY <1>6, Typings DEF ExchangeFence, Goto, device, CountInv
  <2>2. \A S : Submitting(S)' <=> "count" \in S
    BY <1>1, <2>1, Typings DEF Submitting, CountInv
  <2>3. HandedOutRight' /\ CountersExact'
    BY <1>1, <2>1, SameCounts
  <2>4. SubListsRight'
    BY <1>1, <1>2, <2>1, <2>2 DEF CountInv, SubListsRight, Queued
  <2>5. sub_noted = {} /\ {l[1] : l \in sub_lists} = sub_allocs \union sub_noted
    BY <1>2, <2>1 DEF CountInv, NotifyRight
  <2>6. NotifyRight'
    <3>1. {l[1] : l \in sub_lists'} = sub_allocs' \union sub_noted'
      BY <2>1, <2>5
    <3>2. sub_allocs' \cap sub_noted' = {}
      BY <2>1
    <3> QED
      BY <2>1, <2>2, <3>1, <3>2 DEF NotifyRight
  <2> QED
    BY <2>3, <2>4, <2>6
<1> QED
  BY <1>3, <1>4, <1>5, <1>6

LEMMA PendingCounts ==
  ASSUME CountInv, TypeOK', NEW t \in Threads, NEW a \in Allocs, CountPending(t, a)
  PROVE  HandedOutRight' /\ SubListsRight' /\ NotifyRight' /\ LoadedRight' /\ CountersExact'
<1> DEFINE S == SubmittedBy(a)
<1>1. /\ submitter = t /\ pc[t] = "count" /\ a \in sub_noted
      /\ UNCHANGED <<num_in_flight, num_discarded, mActiveAllocator, buf, target, disc, pend>>
      /\ num_pending_execution' = [num_pending_execution EXCEPT ![a] = @ + Cardinality(S)]
      /\ \/ sub_allocs = {} /\ EndSubmit(t)
         \/ /\ sub_allocs # {} /\ Goto(t, "notify")
            /\ sub_noted' = {} /\ sub_lists' = sub_lists \ S
            /\ UNCHANGED <<submitter, sub_fence, sub_allocs>>
  BY DEF CountPending, device, loaded
<1>2. /\ \A u \in Threads : u # t => pc'[u] = pc[u]
      /\ \A T : Submitting(T) <=> pc[t] \in T
  BY <1>1, Typings DEF CountInv, Goto, EndSubmit, Submitting
<1>3. sub_noted = {a} /\ {l[1] : l \in sub_lists} = sub_allocs \union {a} /\ a \notin sub_allocs
  BY <1>1, <1>2 DEF CountInv, NotifyRight
<1>4. sub_lists' = sub_lists \ S
  <2>1. sub_allocs = {} => S = sub_lists
    BY <1>3 DEF SubmittedBy
  <2> QED
    BY <1>1, <2>1 DEF EndSubmit
<1>5. S \subseteq Lists /\ \A l \in S : l[1] = a /\ buf[l] \in {"pending", "executed"} /\ l \in sub_lists
  BY <1>1, <1>2, Typings DEF CountInv, SubListsRight, Queued, SubmittedBy
<1>6. S \in SUBSET Lists /\ \A l \in sub_lists : l[1] = a => l \in S
  BY <1>5 DEF SubmittedBy
<1> HIDE DEF S
<1>7. /\ \A b \in Allocs : num_pending_execution'[b]
            = IF b = a THEN num_pending_execution[a] + Cardinality(S) ELSE num_pending_execution[b]
      /\ Cardinality(S) \in Nat
  BY <1>1, <1>6, ListsFinite, Typings DEF CountInv
<1>8. HandedOutRight'
  BY <1>1 DEF CountInv, HandedOutRight
<1>9. SubListsRight' /\ NotifyRight'
  <2>1. CASE EndSubmit(t)
    <3>1. submitter' = NoThread /\ sub_lists' = {} /\ sub_allocs' = {} /\ sub_noted' = {}
      BY <2>1 DEF EndSubmit
    <3>2. \A T : ~Submitting(T)'
      BY <3>1 DEF Submitting
    <3> QED
      BY <3>1, <3>2 DEF SubListsRight, NotifyRight
  <2>2. CASE Goto(t, "notify") /\ sub_noted' = {} /\ UNCHANGED <<submitter, sub_fence, sub_allocs>>
    <3>1. pc'[t] = "notify"
      BY <2>2, Typings DEF Goto, CountInv
    <3>2. \A T : Submitting(T)' <=> "notify" \in T
      BY <1>1, <2>2, <3>1, Typings DEF Submitting, CountInv
    <3>3. SubListsRight'
      BY <1>1, <1>2, <1>4, <2>2, <3>1, <3>2 DEF CountInv, SubListsRight, Queued
    <3>4. {l[1] : l \in sub_lists'} = sub_allocs
      BY <1>3, <1>4, <1>5, <1>6
    <3> QED
      BY <2>2, <3>2, <3>3, <3>4 DEF NotifyRight
  <2> QED
    BY <1>1, <2>1, <2>2
<1>10. LoadedRight'
  <2>1. \A u \in Threads : pc[u] \in {"find", "block"} => pc'[u] = pc[u] /\ target'[u] = target[u]
    BY <1>1, <1>2
  <2>2. \A b \in Allocs : /\ num_discarded'[b] >= num_discarded[b]
                          /\ num_pending_execution'[b] >= num_pending_execution[b]
    BY <1>1, <1>7, Typings DEF CountInv
  <2> QED
    BY <1>1, <2>1, <2>2, LoadedSame
<1>11. CountersExact'
  <2>1. ASSUME NEW b \in Allocs
        PROVE  num_pending_execution'[b]
                 = Cardinality({l \in ListsOf(b) : buf[l] \in {"pending", "executed"} /\ l \notin sub_lists'})
    <3> DEFINE P == {l \in ListsOf(b) : buf[l] \in {"pending", "executed"} /\ l \notin sub_lists}
               Q == {l \in ListsOf(b) : buf[l] \in {"pending", "executed"} /\ l \notin sub_lists'}
    <3>1. num_pending_execution[b] = Cardinality(P) /\ P \in SUBSET Lists
      BY DEF CountInv, CountersExact, ListsOf
    <3>2. CASE b = a
      <4>1. Q = P \union S /\ P \cap S = {}
        BY <1>4, <1>5, <3>2 DEF ListsOf
      <4> HIDE DEF P, Q
      <4>2. Cardinality(Q) = Cardinality(P) + Cardinality(S)
        BY <1>6, <3>1, <4>1, ListsFinite, DisjointUnion
      <4> QED
        BY <1>7, <3>1, <3>2, <4>2 DEF Q
    <3>3. CASE b # a
      <4>1. Q = P
        BY <1>4, <1>5, <3>3 DEF ListsOf
      <4> HIDE DEF P
      <4> QED
        BY <1>7, <3>1, <3>3, <4>1
    <3> QED
      BY <3>2, <3>3
  <2>2. /\ UNCHANGED <<num_in_flight, num_discarded>>
        /\ \A l \in Lists : buf'[l] = buf[l]
    BY <1>1
  <2>3. ASSUME NEW b \in Allocs
        PROVE  /\ {l \in ListsOf(b) : buf'[l] # "free"} = {l \in ListsOf(b) : buf[l] # "free"}
               /\ {l \in ListsOf(b) : buf'[l] = "discarded"} = {l \in ListsOf(b) : buf[l] = "discarded"}
               /\ {l \in ListsOf(b) : buf'[l] \in {"pending", "executed"} /\ l \notin sub_lists'}
                    = {l \in ListsOf(b) : buf[l] \in {"pending", "executed"} /\ l \notin sub_lists'}
    BY <2>2 DEF ListsOf
  <2> QED
    BY <2>1, <2>2, <2>3 DEF CountInv, CountersExact, ListsOf
<1> QED
  BY <1>8, <1>9, <1>10, <1>11

LEMMA RecordCounts ==
  ASSUME CountInv, TypeOK', NEW t \in Threads, NEW q \in Queues, RecordCommandList(t, q)
  PROVE  HandedOutRight' /\ SubListsRight' /\ NotifyRight' /\ LoadedRight' /\ CountersExact'
<1>1. /\ UNCHANGED <<num_in_flight, num_discarded, num_pending_execution, buf, submitter, sub_lists,
                     sub_allocs, sub_noted, disc, pend, mActiveAllocator>>
      /\ pc[t] = "idle" /\ (pc' = pc \/ Goto(t, "find"))
      /\ \A u \in Threads : u # t => target'[u] = target[u]
  BY Typings DEF CountInv, RecordCommandList, AcquireNode, node, submit, device, loaded
<1>2. \A u \in Threads : u # t => pc'[u] = pc[u]
  BY <1>1, Typings DEF CountInv, Goto
<1>3. submitter # t
  BY <1>1, Typings DEF CountInv, SubListsRight
<1>4. HandedOutRight' /\ SubListsRight' /\ NotifyRight' /\ CountersExact'
  <2>1. submitter # NoThread => pc'[submitter] = pc[submitter] /\ target'[submitter] = target[submitter]
    BY <1>1, <1>2, <1>3, Typings DEF CountInv
  <2> QED
    BY <1>1, <2>1, CountFrame
<1>5. LoadedRight'
  <2>1. \A u \in Threads : pc[u] \in {"find", "block"} => pc'[u] = pc[u] /\ target'[u] = target[u]
    BY <1>1, <1>2
  <2>2. \A a \in Allocs : /\ num_discarded'[a] >= num_discarded[a]
                          /\ num_pending_execution'[a] >= num_pending_execution[a]
    BY <1>1, Typings DEF CountInv
  <2> QED
    BY <1>1, <2>1, <2>2, LoadedSame
<1> QED
  BY <1>4, <1>5

LEMMA DiscardCounts ==
  ASSUME CountInv, TypeOK', NEW t \in Threads, NEW l \in Lists, Discard(t, l)
  PROVE  HandedOutRight' /\ SubListsRight' /\ NotifyRight' /\ LoadedRight' /\ CountersExact'
<1> PICK a \in Allocs : a = l[1]
  BY ListShape
<1>1. /\ UNCHANGED <<num_in_flight, num_pending_execution, submitter, sub_lists, sub_allocs, sub_noted,
                     disc, pend, mActiveAllocator, target>>
      /\ buf[l] = "live" /\ l \notin sub_lists
      /\ pc[t] = "idle" /\ Goto(t, "release")
      /\ num_discarded' = [num_discarded EXCEPT ![a] = @ + 1]
      /\ buf' = [buf EXCEPT ![l] = "discarded"]
  BY DEF Discard, submit, loaded
<1>2. /\ \A b \in Allocs : num_discarded'[b] = IF b = a THEN num_discarded[a] + 1 ELSE num_discarded[b]
      /\ \A m \in Lists : buf'[m] = IF m = l THEN "discarded" ELSE buf[m]
  BY <1>1, Typings DEF CountInv
<1>8. submitter # t /\ \A u \in Threads : u # t => pc'[u] = pc[u]
  BY <1>1, Typings DEF CountInv, SubListsRight, Goto
<1>3. submitter # NoThread => pc'[submitter] = pc[submitter]
  BY <1>8, Typings DEF CountInv
<1>4. HandedOutRight'
  BY <1>1, <1>2 DEF CountInv, HandedOutRight
<1>5. SubListsRight' /\ NotifyRight'
  <2>1. \A m \in sub_lists : buf'[m] = buf[m]
    BY <1>1, <1>2, Typings DEF CountInv
  <2> QED
    <3>1. \A S : Submitting(S)' <=> Submitting(S)
      BY <1>1, <1>3, SubmittingSame DEF CountInv
    <3> QED
      BY <1>1, <1>3, <2>1, <3>1 DEF CountInv, SubListsRight, NotifyRight
<1>6. LoadedRight'
  <2>1. \A u \in Threads : pc[u] \in {"find", "block"} => pc'[u] = pc[u] /\ target'[u] = target[u]
    BY <1>1, <1>8
  <2>2. \A b \in Allocs : /\ num_discarded'[b] >= num_discarded[b]
                          /\ num_pending_execution'[b] >= num_pending_execution[b]
    BY <1>1, <1>2, Typings DEF CountInv
  <2> QED
    BY <1>1, <2>1, <2>2, LoadedSame
<1>7. CountersExact'
  <2>1. ASSUME NEW b \in Allocs
        PROVE  /\ num_in_flight'[b] = Cardinality({m \in ListsOf(b) : buf'[m] # "free"})
               /\ num_discarded'[b] = Cardinality({m \in ListsOf(b) : buf'[m] = "discarded"})
               /\ num_pending_execution'[b]
                    = Cardinality({m \in ListsOf(b) :
                                     buf'[m] \in {"pending", "executed"} /\ m \notin sub_lists'})
    <3> DEFINE D == {m \in ListsOf(b) : buf[m] = "discarded"}
    <3>1. /\ num_in_flight[b] = Cardinality({m \in ListsOf(b) : buf[m] # "free"})
          /\ num_discarded[b] = Cardinality(D)
          /\ num_pending_execution[b]
               = Cardinality({m \in ListsOf(b) : buf[m] \in {"pending", "executed"} /\ m \notin sub_lists})
      BY DEF CountInv, CountersExact
    <3>2. /\ {m \in ListsOf(b) : buf'[m] # "free"} = {m \in ListsOf(b) : buf[m] # "free"}
          /\ {m \in ListsOf(b) : buf'[m] \in {"pending", "executed"} /\ m \notin sub_lists'}
               = {m \in ListsOf(b) : buf[m] \in {"pending", "executed"} /\ m \notin sub_lists}
      BY <1>1, <1>2 DEF ListsOf
    <3>3. num_discarded'[b] = Cardinality({m \in ListsOf(b) : buf'[m] = "discarded"})
      <4>1. CASE b = a
        <5>1. {m \in ListsOf(b) : buf'[m] = "discarded"} = D \union {l} /\ l \notin D
          BY <1>1, <1>2, <4>1 DEF ListsOf
        <5>2. D \in SUBSET Lists
          BY DEF ListsOf
        <5> HIDE DEF D
        <5>3. Cardinality(D \union {l}) = Cardinality(D) + 1
          BY <5>1, <5>2, ListsFinite, FS_AddElement
        <5> QED
          BY <1>2, <3>1, <4>1, <5>1, <5>3
      <4>2. CASE b # a
        <5>1. {m \in ListsOf(b) : buf'[m] = "discarded"} = D
          BY <1>1, <1>2, <4>2 DEF ListsOf
        <5> QED
          BY <1>2, <3>1, <4>2, <5>1
      <4> QED
        BY <4>1, <4>2
    <3> QED
      BY <1>1, <3>1, <3>2, <3>3
  <2> QED
    BY <2>1 DEF CountersExact, ListsOf
<1> QED
  BY <1>4, <1>5, <1>6, <1>7

LEMMA BeginCounts ==
  ASSUME CountInv, TypeOK', NEW t \in Threads, NEW q \in Queues, NEW cls \in SUBSET Lists,
         NEW n \in 0 .. MaxBarrierLists, SubmitBegin(t, q, cls, n)
  PROVE  HandedOutRight' /\ SubListsRight' /\ NotifyRight' /\ LoadedRight' /\ CountersExact'
<1>1. /\ UNCHANGED <<num_in_flight, num_discarded, num_pending_execution, buf, disc, pend,
                     mActiveAllocator, sub_allocs, sub_noted>>
      /\ submitter = NoThread /\ submitter' = t /\ pc[t] = "idle" /\ Goto(t, "submit")
      /\ sub_lists' = cls /\ \A l \in cls : buf[l] = "live" /\ l[1][2] = q
      /\ target' = [target EXCEPT ![t] = q]
  BY DEF SubmitBegin, node, device, loaded
<1>2. /\ pc'[t] = "submit" /\ target'[t] = q
      /\ \A u \in Threads : u # t => pc'[u] = pc[u] /\ target'[u] = target[u]
  BY <1>1, Typings DEF CountInv, Goto
<1>3. sub_lists = {} /\ \A S : ~Submitting(S)
  BY <1>1 DEF CountInv, SubListsRight, Submitting
<1>4. \A S : Submitting(S)' <=> "submit" \in S
  BY <1>1, <1>2, Typings DEF Submitting, CountInv
<1>5. HandedOutRight' /\ CountersExact'
  BY <1>1, <1>3, SameCounts
<1>6. SubListsRight'
  BY <1>1, <1>2, <1>4, Typings DEF SubListsRight, Queued, CountInv
<1>7. NotifyRight'
  BY <1>1, <1>3, <1>4 DEF NotifyRight, CountInv
<1>8. LoadedRight'
  <2>1. \A u \in Threads : pc[u] \in {"find", "block"} => pc'[u] = pc[u] /\ target'[u] = target[u]
    BY <1>1, <1>2
  <2>2. \A a \in Allocs : /\ num_discarded'[a] >= num_discarded[a]
                          /\ num_pending_execution'[a] >= num_pending_execution[a]
    BY <1>1, Typings DEF CountInv
  <2> QED
    BY <1>1, <2>1, <2>2, LoadedSame
<1> QED
  BY <1>5, <1>6, <1>7, <1>8

LEMMA ReleaseCounts ==
  ASSUME CountInv, TypeOK', NEW t \in Threads, ReleaseNode(t)
  PROVE  HandedOutRight' /\ SubListsRight' /\ NotifyRight' /\ LoadedRight' /\ CountersExact'
<1>1. /\ UNCHANGED <<num_in_flight, num_discarded, num_pending_execution, buf, submitter, sub_lists,
                     sub_allocs, sub_noted, disc, pend, mActiveAllocator, target>>
      /\ pc[t] = "release" /\ Goto(t, "idle")
  BY DEF ReleaseNode, node, device, submit, loaded
<1>2. pc'[t] = "idle" /\ \A u \in Threads : u # t => pc'[u] = pc[u]
  BY <1>1, Typings DEF CountInv, Goto
<1>3. submitter # t
  BY <1>1, Typings DEF CountInv, SubListsRight
<1>4. HandedOutRight' /\ SubListsRight' /\ NotifyRight' /\ CountersExact'
  <2>1. submitter # NoThread => pc'[submitter] = pc[submitter] /\ target'[submitter] = target[submitter]
    BY <1>1, <1>2, <1>3, Typings DEF CountInv
  <2> QED
    BY <1>1, <2>1, CountFrame
<1>5. LoadedRight'
  <2>1. \A u \in Threads : pc[u] \in {"find", "block"} => pc'[u] = pc[u] /\ target'[u] = target[u]
    BY <1>1, <1>2
  <2>2. \A a \in Allocs : /\ num_discarded'[a] >= num_discarded[a]
                          /\ num_pending_execution'[a] >= num_pending_execution[a]
    BY <1>1, Typings DEF CountInv
  <2> QED
    BY <1>1, <2>1, <2>2, LoadedSame
<1> QED
  BY <1>4, <1>5

LEMMA ReinitializeCounts ==
  ASSUME CountInv, TypeOK', Reinitialize
  PROVE  HandedOutRight' /\ SubListsRight' /\ NotifyRight' /\ LoadedRight' /\ CountersExact'
<1>1. /\ \A t \in Threads : pc[t] = "idle"
      /\ num_in_flight' = [a \in Allocs |-> 0] /\ num_discarded' = [a \in Allocs |-> 0]
      /\ num_pending_execution' = [a \in Allocs |-> 0] /\ buf' = [l \in Lists |-> "free"]
      /\ UNCHANGED <<pc, target, disc, pend, submitter, sub_lists, sub_allocs, sub_noted>>
  BY DEF Reinitialize, loaded, submit
<1>2. submitter = NoThread /\ sub_lists = {}
  BY <1>1, Typings DEF CountInv, SubListsRight
<1>3. \A S : Submitting(S)' <=> Submitting(S)
  BY <1>1 DEF Submitting
<1>4. HandedOutRight'
  BY <1>1, ListShape DEF HandedOutRight
<1>5. SubListsRight' /\ NotifyRight'
  BY <1>1, <1>2, <1>3 DEF CountInv, SubListsRight, NotifyRight
<1>6. LoadedRight'
  BY <1>1 DEF CountInv, LoadedRight, LoadedAt
<1>7. CountersExact'
  <2>1. ASSUME NEW b \in Allocs
        PROVE  /\ {m \in ListsOf(b) : buf'[m] # "free"} = {}
               /\ {m \in ListsOf(b) : buf'[m] = "discarded"} = {}
               /\ {m \in ListsOf(b) : buf'[m] \in {"pending", "executed"} /\ m \notin sub_lists'} = {}
    BY <1>1 DEF ListsOf
  <2>2. \A b \in Allocs : num_in_flight'[b] = 0 /\ num_discarded'[b] = 0 /\ num_pending_execution'[b] = 0
    BY <1>1
  <2> QED
    BY <2>1, <2>2, FS_EmptySet DEF CountersExact, ListsOf
<1> QED
  BY <1>4, <1>5, <1>6, <1>7

LEMMA CompleteCounts ==
  ASSUME CountInv, TypeOK', NEW q \in Queues, GpuComplete(q)
  PROVE  HandedOutRight' /\ SubListsRight' /\ NotifyRight' /\ LoadedRight' /\ CountersExact'
<1>1. /\ UNCHANGED <<num_in_flight, num_discarded, num_pending_execution, disc, pend, mActiveAllocator,
                     pc, target, submitter, sub_lists, sub_allocs, sub_noted>>
      /\ \A l \in Lists : buf'[l] = buf[l] \/ (buf[l] = "pending" /\ buf'[l] = "executed")
  BY DEF GpuComplete, node, loaded, submit
<1>2. \A S : Submitting(S)' <=> Submitting(S)
  BY <1>1 DEF Submitting
<1>3. HandedOutRight' /\ CountersExact'
  BY <1>1, SameCounts
<1>4. SubListsRight' /\ NotifyRight'
  <2>1. \A l \in sub_lists : l \in Lists
    BY Typings DEF CountInv
  <2> QED
    BY <1>1, <1>2, <2>1 DEF CountInv, SubListsRight, NotifyRight
<1>5. LoadedRight'
  <2>1. \A a \in Allocs : /\ num_discarded'[a] >= num_discarded[a]
                          /\ num_pending_execution'[a] >= num_pending_execution[a]
    BY <1>1, Typings DEF CountInv
  <2> QED
    BY <1>1, <2>1, LoadedSame
<1> QED
  BY <1>3, <1>4, <1>5

LEMMA CountInvStep == CountInv /\ [Next]_vars => CountInv'
<1> SUFFICES ASSUME CountInv, [Next]_vars PROVE CountInv'
  OBVIOUS
<1>1. SubmitInv' /\ TypeOK'
  BY SubmitInvInductive DEF CountInv, SubmitInv
<1>2. HandedOutRight' /\ SubListsRight' /\ NotifyRight' /\ LoadedRight' /\ CountersExact'
  <2>1. CASE \E t \in Threads : Create(t)
    BY <1>1, <2>1, TakeCounts, SearchCounts, ResetCounts DEF Create
  <2>2. CASE \E t \in Threads : Submit(t)
    <3>1. PICK t \in Threads : Submit(t)
      BY <2>2
    <3>2. CASE CreateBarrierList(t) \/ BarriersDone(t) \/ TakeFence(t) \/ NextFence(t)
      BY <1>1, <3>2, BeforeQueueCounts
    <3>3. CASE QueueSubmit(t) \/ GatherAllocators(t) \/ \E a \in Allocs : ExchangeFence(t, a)
      BY <1>1, <3>3, AfterQueueCounts
    <3>4. CASE \E a \in Allocs : CountPending(t, a)
      BY <1>1, <3>4, PendingCounts
    <3> QED
      BY <3>1, <3>2, <3>3, <3>4 DEF Submit
  <2>3. CASE Application
    BY <1>1, <2>3, RecordCounts, DiscardCounts, BeginCounts, ReinitializeCounts DEF Application
  <2>4. CASE \E q \in Queues : GpuComplete(q)
    BY <1>1, <2>4, CompleteCounts
  <2>5. CASE UNCHANGED vars
    <3>1. UNCHANGED <<num_in_flight, num_discarded, num_pending_execution, buf, submitter, sub_lists,
                      sub_allocs, sub_noted, pc, target, disc, pend, mActiveAllocator>>
      BY <2>5 DEF vars, node, device, loaded, submit
    <3>2. \A a \in Allocs : /\ num_discarded'[a] >= num_discarded[a]
                            /\ num_pending_execution'[a] >= num_pending_execution[a]
      BY <3>1, Typings DEF CountInv
    <3> QED
      BY <1>1, <3>1, <3>2, CountFrame, LoadedSame
  <2>6. CASE \E t \in Threads : ReleaseNode(t)
    BY <1>1, <2>6, ReleaseCounts
  <2> QED
    BY <2>1, <2>2, <2>3, <2>4, <2>5, <2>6 DEF Next
<1> QED
  BY <1>1, <1>2 DEF CountInv

LEMMA CountInvInit == Init => CountInv
<1> SUFFICES ASSUME Init PROVE CountInv
  OBVIOUS
<1>1. HandedOutRight
  BY ListShape DEF Init, HandedOutRight
<1>2. SubListsRight /\ NotifyRight
  BY DEF Init, SubListsRight, NotifyRight, Submitting
<1>3. LoadedRight
  BY DEF Init, LoadedRight, LoadedAt
<1>4. CountersExact
  <2>1. ASSUME NEW b \in Allocs
        PROVE  /\ {m \in ListsOf(b) : buf[m] # "free"} = {}
               /\ {m \in ListsOf(b) : buf[m] = "discarded"} = {}
               /\ {m \in ListsOf(b) : buf[m] \in {"pending", "executed"} /\ m \notin sub_lists} = {}
    BY DEF Init, ListsOf
  <2>2. \A b \in Allocs : num_in_flight[b] = 0 /\ num_discarded[b] = 0 /\ num_pending_execution[b] = 0
    BY DEF Init
  <2> QED
    BY <2>1, <2>2, FS_EmptySet DEF CountersExact
<1> QED
  BY <1>1, <1>2, <1>3, <1>4, SubmitInvInit DEF CountInv

\* The counters num_in_flight, num_discarded and num_pending_execution of every allocator count what
\* became of its command buffers, whichever thread discards or submits them: the owner that finds the
\* last two to add up to the first has nothing left that is open.
THEOREM CountersAlwaysExact == Spec => []CountersExact
<1>1. CountInv => CountersExact
  BY DEF CountInv
<1> QED
  BY CountInvInit, CountInvStep, <1>1, PTL DEF Spec

-----------------------------------------------------------------------------
(* The handles                                                             *)

Handles == {l \in Lists : buf[l] = "live" \/ (Submitting({"gather"}) /\ l \in sub_lists)}
Looking == {t \in Threads : pc[t] \in {"find", "block"}}

HandleInv == CountInv /\ DiscardExclusive /\ NoHandleLeak

\* Only a discard enters and leaves "release", with the list it releases.
LEMMA DiscardFrame ==
  ASSUME SubmitInv, [Next]_vars,
         ~ \E t \in Threads : ReleaseNode(t) \/ \E l \in Lists : Discard(t, l)
  PROVE  dis_lists' = dis_lists /\ \A u \in Threads : pc'[u] = "release" <=> pc[u] = "release"
<1>a. pc \in [Threads -> Points]
  BY Typings
<1>1. /\ dis_lists' = dis_lists
      /\ \/ pc' = pc
         \/ \E t \in Threads, to \in Points \ {"release"} : pc[t] # "release" /\ Goto(t, to)
  <2>1. CASE \E t \in Threads : Create(t)
    BY <2>1 DEF Create, TakeBuffer, LoadCounter, Reset, NextAllocator, Points
  <2>2. CASE \E t \in Threads : Submit(t)
    <3>1. PICK t \in Threads : Submit(t)
      BY <2>2
    <3>2. CASE CreateBarrierList(t) \/ BarriersDone(t) \/ TakeFence(t) \/ NextFence(t)
      BY <3>2 DEF CreateBarrierList, AcquireNode, BarriersDone, TakeFence, NextFence, Points
    <3>3. CASE QueueSubmit(t) \/ GatherAllocators(t)
      BY <3>3 DEF QueueSubmit, GatherAllocators, EndSubmit, Points
    <3>4. CASE \E a \in Allocs : ExchangeFence(t, a) \/ CountPending(t, a)
      BY <3>4 DEF ExchangeFence, CountPending, EndSubmit, Points
    <3> QED
      BY <3>1, <3>2, <3>3, <3>4 DEF Submit
  <2>3. CASE Application
    BY <2>3 DEF Application, RecordCommandList, AcquireNode, SubmitBegin, Reinitialize, Points
  <2>4. CASE (\E q \in Queues : GpuComplete(q)) \/ UNCHANGED vars
    BY <2>4 DEF GpuComplete, vars
  <2> QED
    BY <2>1, <2>2, <2>3, <2>4 DEF Next
<1> QED
  BY <1>a, <1>1 DEF Goto

LEMMA DiscardExclusiveStep ==
  ASSUME SubmitInv, DiscardExclusive, [Next]_vars
  PROVE  DiscardExclusive'
<1>a. pc \in [Threads -> Points]
  BY Typings
<1>1. ASSUME NEW t \in Threads, NEW l \in Lists, Discard(t, l)
      PROVE  DiscardExclusive'
  <2>1. /\ dis_lists = {} /\ dis_lists' = {l}
        /\ pc'[t] = "release" /\ \A u \in Threads : u # t => pc'[u] = pc[u]
    BY <1>a, <1>1 DEF Discard, Goto
  <2>2. \A u \in Threads : pc'[u] = "release" <=> u = t
    BY <2>1 DEF DiscardExclusive
  <2> QED
    BY <2>1, <2>2 DEF DiscardExclusive
<1>2. ASSUME NEW t \in Threads, ReleaseNode(t)
      PROVE  DiscardExclusive'
  <2>1. /\ dis_lists' = {} /\ pc[t] = "release"
        /\ pc'[t] = "idle" /\ \A u \in Threads : u # t => pc'[u] = pc[u]
    BY <1>a, <1>2 DEF ReleaseNode, Goto
  <2>2. \A u \in Threads : pc'[u] # "release"
    BY <2>1 DEF DiscardExclusive
  <2> QED
    BY <2>1, <2>2 DEF DiscardExclusive
<1> QED
  BY <1>1, <1>2, DiscardFrame DEF DiscardExclusive

\* The list being released.
LEMMA ReleasingOne ==
  ASSUME SubmitInv, DiscardExclusive
  PROVE  /\ IsFiniteSet(dis_lists) /\ Cardinality(dis_lists) \in Nat
         /\ \A t \in Threads : pc[t] = "release" => Cardinality(dis_lists) = 1
<1>1. IsFiniteSet(dis_lists) /\ Cardinality(dis_lists) \in Nat
  BY ListsFinite DEF SubmitInv, TypeOK, NodeType
<1>2. ASSUME NEW t \in Threads, pc[t] = "release"
      PROVE  Cardinality(dis_lists) = 1
  <2>1. PICK l \in dis_lists : dis_lists = {l}
    BY <1>2 DEF DiscardExclusive
  <2> QED
    BY <2>1, FS_Singleton
<1> QED
  BY <1>1, <1>2

LEMMA HandlesFinite ==
  /\ IsFiniteSet(Handles) /\ Cardinality(Handles) \in Nat
  /\ IsFiniteSet(Looking) /\ Cardinality(Looking) \in Nat
<1>1. Handles \in SUBSET Lists /\ Looking \subseteq Threads
  BY DEF Handles, Looking
<1>2. IsFiniteSet(Looking)
  BY <1>1, SizesAssumption, FS_Subset
<1> QED
  BY <1>1, <1>2, ListsFinite, FS_CardinalityType

LEMMA LeakRephrased ==
  NoHandleLeak <=>
    pool_nodes = Cardinality(Handles) + Cardinality(dis_lists) + Cardinality(Looking)
  BY DEF NoHandleLeak, Handles, Looking

LEMMA LeakRephrasedNext ==
  NoHandleLeak' <=>
    pool_nodes' = Cardinality(Handles') + Cardinality(dis_lists') + Cardinality(Looking')
  BY DEF NoHandleLeak, Handles, Looking

LEMMA HandlesSame ==
  ASSUME HandleInv, UNCHANGED <<pool_nodes, dis_lists>>, Handles' = Handles, Looking' = Looking
  PROVE  NoHandleLeak'
  BY LeakRephrased, LeakRephrasedNext DEF HandleInv

\* Where a node of the pool is taken, a thread begins to look for an allocator.
LEMMA AcquireNodeHandles ==
  ASSUME HandleInv, NEW t \in Threads, AcquireNode(t), pc[t] \in {"idle", "submit"},
         UNCHANGED <<dis_lists, buf, submitter, sub_lists>>
  PROVE  NoHandleLeak'
<1>1. \/ pool_nodes' = pool_nodes /\ pc' = pc
      \/ pool_nodes' = pool_nodes + 1 /\ pc' = [pc EXCEPT ![t] = "find"]
  BY DEF AcquireNode, Goto
<1>2. pc \in [Threads -> Points] /\ pc[t] \notin {"find", "block", "gather"}
  BY Typings DEF HandleInv, CountInv
<1>3. Submitting({"gather"})' <=> Submitting({"gather"})
  BY <1>1, <1>2, Typings DEF Submitting, HandleInv, CountInv
<1>4. Handles' = Handles
  BY <1>3 DEF Handles
<1>5. CASE pool_nodes' = pool_nodes /\ pc' = pc
  BY <1>4, <1>5, HandlesSame DEF Looking
<1>6. CASE pool_nodes' = pool_nodes + 1 /\ pc' = [pc EXCEPT ![t] = "find"]
  <2>1. Looking' = Looking \union {t} /\ t \notin Looking
    BY <1>2, <1>6 DEF Looking
  <2>2. Cardinality(Looking \union {t}) = Cardinality(Looking) + 1
    BY <2>1, HandlesFinite, FS_AddElement
  <2>3. pool_nodes = Cardinality(Handles) + Cardinality(dis_lists) + Cardinality(Looking)
    BY LeakRephrased DEF HandleInv
  <2>4. pool_nodes' = Cardinality(Handles) + Cardinality(dis_lists) + Cardinality(Looking')
    BY <1>6, <2>1, <2>2, <2>3, HandlesFinite, ReleasingOne DEF HandleInv, CountInv
  <2> QED
    BY <1>4, <2>4, LeakRephrasedNext
<1> QED
  BY <1>1, <1>5, <1>6

LEMMA CreateHandles ==
  ASSUME HandleInv, NEW t \in Threads, Create(t)
  PROVE  NoHandleLeak'
<1>1. CASE TakeBuffer(t)
  <2> PICK a \in Allocs : a = Active(t)
    BY ActiveType DEF HandleInv, CountInv, SubmitInv
  <2> DEFINE l == <<a, num_in_flight[a]>>
  <2>1. l \in Lists /\ buf[l] = "free"
    <3>1. num_in_flight[a] \in 0 .. ListsPerAlloc - 1
      BY <1>1, Typings DEF TakeBuffer, IsFull, HandleInv, CountInv
    <3> QED
      BY <3>1, ListShape DEF HandleInv, CountInv, HandedOutRight
  <2>2. /\ buf' = [buf EXCEPT ![l] = "live"] /\ UNCHANGED <<submitter, pool_nodes, dis_lists>>
        /\ pc[t] \in {"find", "block"}
        /\ \/ submitter = t /\ Goto(t, "submit")
           \/ submitter # t /\ Goto(t, "idle") /\ UNCHANGED sub_lists
    BY <1>1 DEF TakeBuffer
  <2> HIDE DEF l
  <2>3. /\ \A m \in Lists : buf'[m] = IF m = l THEN "live" ELSE buf[m]
        /\ pc'[t] \in {"submit", "idle"} /\ \A u \in Threads : u # t => pc'[u] = pc[u]
    BY <2>1, <2>2, Typings DEF HandleInv, CountInv, Goto
  <2>4. /\ Submitting({"gather"})' <=> Submitting({"gather"})
        /\ Submitting({"gather"}) => sub_lists' = sub_lists
    BY <2>2, <2>3, Typings DEF Submitting, HandleInv, CountInv
  <2>5. l \notin sub_lists
    BY <2>1 DEF HandleInv, CountInv, SubListsRight
  <2>6. Handles' = Handles \union {l} /\ l \notin Handles
    BY <2>1, <2>3, <2>4, <2>5 DEF Handles
  <2>7. Looking' = Looking \ {t} /\ t \in Looking
    BY <2>2, <2>3 DEF Looking
  <2>8. /\ Cardinality(Handles \union {l}) = Cardinality(Handles) + 1
        /\ Cardinality(Looking \ {t}) = Cardinality(Looking) - 1
    BY <2>6, <2>7, HandlesFinite, FS_AddElement, FS_RemoveElement
  <2>9. pool_nodes = Cardinality(Handles) + Cardinality(dis_lists) + Cardinality(Looking) /\ pool_nodes' = pool_nodes
    BY <2>2, LeakRephrased DEF HandleInv
  <2>10. pool_nodes' = Cardinality(Handles') + Cardinality(dis_lists') + Cardinality(Looking')
    BY <2>2, <2>6, <2>7, <2>8, <2>9, HandlesFinite, ReleasingOne DEF HandleInv, CountInv
  <2> QED
    BY <2>10, LeakRephrasedNext
<1>2. CASE LoadCounter(t) \/ NextAllocator(t)
  <2>1. /\ UNCHANGED <<buf, submitter, sub_lists, pool_nodes, dis_lists>>
        /\ pc[t] \in {"find", "block"} /\ (pc' = pc \/ Goto(t, "block"))
    BY <1>2 DEF LoadCounter, NextAllocator, device, submit
  <2>2. \A u \in Threads : pc'[u] = pc[u] \/ (u = t /\ pc'[u] = "block")
    BY <2>1, Typings DEF HandleInv, CountInv, Goto
  <2>3. Submitting({"gather"})' <=> Submitting({"gather"})
    BY <2>1, <2>2, Typings DEF Submitting, HandleInv, CountInv
  <2>4. Handles' = Handles /\ Looking' = Looking
    BY <2>1, <2>2, <2>3 DEF Handles, Looking
  <2> QED
    BY <2>1, <2>4, HandlesSame
<1>3. CASE Reset(t)
  <2>1. /\ UNCHANGED <<pc, submitter, sub_lists, pool_nodes, dis_lists>>
        /\ pc[t] \in {"find", "block"} /\ Loaded(t) /\ CanReset(t)
        /\ buf' = [l \in Lists |-> IF l[1] = Active(t) THEN "free" ELSE buf[l]]
    BY <1>3 DEF Reset, submit
  <2>2. \A l \in Lists : l[1] = Active(t) => l \notin sub_lists /\ buf[l] # "live"
    BY <2>1, AllBack DEF HandleInv
  <2>3. Submitting({"gather"})' <=> Submitting({"gather"})
    BY <2>1 DEF Submitting
  <2>4. Handles' = Handles /\ Looking' = Looking
    BY <2>1, <2>2, <2>3 DEF Handles, Looking
  <2> QED
    BY <2>1, <2>4, HandlesSame
<1> QED
  BY <1>1, <1>2, <1>3 DEF Create

LEMMA SubmitHandles ==
  ASSUME HandleInv, NEW t \in Threads, Submit(t)
  PROVE  NoHandleLeak'
<1>1. CASE CreateBarrierList(t)
  BY <1>1, AcquireNodeHandles DEF CreateBarrierList, device
<1>2. CASE \/ BarriersDone(t) \/ TakeFence(t) \/ NextFence(t)
           \/ \E a \in Allocs : ExchangeFence(t, a) \/ CountPending(t, a)
  <2>1. /\ UNCHANGED <<buf, pool_nodes, dis_lists>> /\ submitter = t
        /\ pc[t] \in {"submit", "fence_ready", "fence_any", "notify", "count"}
        /\ \/ pc' = pc
           \/ \E to \in {"fence_ready", "fence_any", "queue_submit", "notify", "count", "idle"} : Goto(t, to)
        /\ submitter' \in {t, NoThread}
    BY <1>2 DEF BarriersDone, TakeFence, NextFence, ExchangeFence, CountPending, EndSubmit, device, submit
  <2>2. /\ pc'[t] \notin {"find", "block", "gather"}
        /\ \A u \in Threads : u # t => pc'[u] = pc[u]
    BY <2>1, Typings DEF HandleInv, CountInv, Goto
  <2>3. ~Submitting({"gather"})' /\ ~Submitting({"gather"})
    BY <2>1, <2>2 DEF Submitting
  <2>4. Handles' = Handles /\ Looking' = Looking
    BY <2>1, <2>2, <2>3 DEF Handles, Looking
  <2> QED
    BY <2>1, <2>4, HandlesSame
<1>3. CASE QueueSubmit(t)
  <2>1. /\ UNCHANGED <<pool_nodes, dis_lists, submitter, sub_lists>> /\ submitter = t
        /\ pc[t] = "queue_submit" /\ pc' = [pc EXCEPT ![t] = "gather"]
        /\ buf' = [l \in Lists |-> IF l \in sub_lists THEN "pending" ELSE buf[l]]
    BY <1>3 DEF QueueSubmit, Goto, submit
  <2>2. Submitting({"gather"})' /\ ~Submitting(Queued)
    BY <2>1, Typings DEF Submitting, Queued, HandleInv, CountInv
  <2>3. \A l \in sub_lists : l \in Lists /\ buf[l] = "live"
    BY <2>2, Typings DEF HandleInv, CountInv, SubListsRight
  <2>4. Handles' = Handles
    BY <2>1, <2>2, <2>3 DEF Handles
  <2>5. Looking' = Looking
    BY <2>1, Typings DEF Looking, HandleInv, CountInv
  <2> QED
    BY <2>1, <2>4, <2>5, HandlesSame
<1>4. CASE GatherAllocators(t)
  <2>1. /\ UNCHANGED <<buf, dis_lists>> /\ submitter = t /\ pc[t] = "gather"
        /\ \/ UNCHANGED <<pc, submitter, sub_lists, pool_nodes>>
           \/ /\ pool_nodes' = pool_nodes - Cardinality(sub_lists)
              /\ \E to \in {"idle", "notify"} : Goto(t, to)
    BY <1>4 DEF GatherAllocators, EndSubmit, HandlesFreed, device, submit
  <2>2. CASE UNCHANGED <<pc, submitter, sub_lists, pool_nodes>>
    <3>1. Submitting({"gather"})' <=> Submitting({"gather"})
      BY <2>2 DEF Submitting
    <3>2. Handles' = Handles /\ Looking' = Looking
      BY <2>1, <2>2, <3>1 DEF Handles, Looking
    <3> QED
      BY <2>1, <2>2, <3>2, HandlesSame
  <2>3. ASSUME pool_nodes' = pool_nodes - Cardinality(sub_lists),
               NEW to \in {"idle", "notify"}, Goto(t, to)
        PROVE  NoHandleLeak'
    <3>1. Submitting({"gather"}) /\ Submitting(Queued)
      BY <2>1, Typings DEF Submitting, Queued, HandleInv, CountInv
    <3>2. pc'[t] = to /\ \A u \in Threads : u # t => pc'[u] = pc[u]
      BY <2>3, Typings DEF HandleInv, CountInv, Goto
    <3>3. ~Submitting({"gather"})'
      <4>1. submitter' \in {t, NoThread}
        BY <1>4 DEF GatherAllocators, EndSubmit, submit
      <4> QED
        BY <3>2, <4>1 DEF Submitting
    <3>4. \A l \in sub_lists : l \in Lists /\ buf[l] # "live"
      BY <3>1, Typings DEF HandleInv, CountInv, SubListsRight
    <3>5. Handles = Handles' \union sub_lists /\ Handles' \cap sub_lists = {}
      BY <2>1, <3>1, <3>3, <3>4 DEF Handles
    <3>6. Handles' \in SUBSET Lists /\ sub_lists \in SUBSET Lists
      BY <3>4 DEF Handles
    <3>7. Cardinality(Handles' \union sub_lists) = Cardinality(Handles') + Cardinality(sub_lists)
      BY <3>5, <3>6, ListsFinite, DisjointUnion
    <3>8. Looking' = Looking
      BY <2>1, <2>3, <3>2 DEF Looking
    <3>9. pool_nodes = Cardinality(Handles) + Cardinality(dis_lists) + Cardinality(Looking)
      BY LeakRephrased DEF HandleInv
    <3>10. Cardinality(Handles') \in Nat /\ Cardinality(sub_lists) \in Nat
      BY <3>6, ListsFinite
    <3>11. Cardinality(Handles) = Cardinality(Handles') + Cardinality(sub_lists)
      BY <3>5, <3>7
    <3>12. pool_nodes' = Cardinality(Handles') + Cardinality(dis_lists') + Cardinality(Looking')
      BY <2>1, <2>3, <3>8, <3>9, <3>10, <3>11, HandlesFinite, ReleasingOne
      DEF HandleInv, CountInv
    <3> QED
      BY <3>12, LeakRephrasedNext
  <2> QED
    BY <2>1, <2>2, <2>3
<1> QED
  BY <1>1, <1>2, <1>3, <1>4 DEF Submit

LEMMA OtherHandles ==
  ASSUME HandleInv,
         \/ Application \/ (\E t \in Threads : ReleaseNode(t))
         \/ (\E q \in Queues : GpuComplete(q)) \/ UNCHANGED vars
  PROVE  NoHandleLeak'
<1>1. CASE \E t \in Threads, q \in Queues : RecordCommandList(t, q)
  BY <1>1, AcquireNodeHandles DEF RecordCommandList, device, submit
<1>2. ASSUME NEW t \in Threads, NEW l \in Lists, Discard(t, l)
      PROVE  NoHandleLeak'
  <2>1. /\ UNCHANGED <<submitter, sub_lists, pool_nodes>> /\ buf[l] = "live" /\ l \notin sub_lists
        /\ pc[t] = "idle" /\ Goto(t, "release") /\ buf' = [buf EXCEPT ![l] = "discarded"]
        /\ dis_lists = {} /\ dis_lists' = {l}
    BY <1>2 DEF Discard, submit
  <2>2. pc'[t] = "release" /\ \A u \in Threads : u # t => pc'[u] = pc[u]
    BY <2>1, Typings DEF HandleInv, CountInv, Goto
  <2>3. Submitting({"gather"})' <=> Submitting({"gather"})
    BY <2>1, <2>2, Typings DEF Submitting, HandleInv, CountInv
  <2>4. Handles' = Handles \ {l} /\ l \in Handles /\ Looking' = Looking
    BY <2>1, <2>2, <2>3, Typings DEF Handles, Looking, HandleInv, CountInv
  <2>5. Cardinality(Handles \ {l}) = Cardinality(Handles) - 1
    BY <2>4, HandlesFinite, FS_RemoveElement
  <2>6. Cardinality(dis_lists) = 0 /\ Cardinality(dis_lists') = 1
    BY <2>1, FS_EmptySet, FS_Singleton
  <2>7. pool_nodes = Cardinality(Handles) + Cardinality(dis_lists) + Cardinality(Looking)
    BY LeakRephrased DEF HandleInv
  <2>8. pool_nodes' = Cardinality(Handles') + Cardinality(dis_lists') + Cardinality(Looking')
    BY <2>1, <2>4, <2>5, <2>6, <2>7, HandlesFinite
  <2> QED
    BY <2>8, LeakRephrasedNext
<1>6. ASSUME NEW t \in Threads, ReleaseNode(t)
      PROVE  NoHandleLeak'
  <2>1. /\ UNCHANGED <<buf, submitter, sub_lists>> /\ pool_nodes' = pool_nodes - 1
        /\ pc[t] = "release" /\ Goto(t, "idle") /\ dis_lists' = {}
    BY <1>6 DEF ReleaseNode, device, submit
  <2>2. pc'[t] = "idle" /\ \A u \in Threads : u # t => pc'[u] = pc[u]
    BY <2>1, Typings DEF HandleInv, CountInv, Goto
  <2>3. Submitting({"gather"})' <=> Submitting({"gather"})
    BY <2>1, <2>2, Typings DEF Submitting, HandleInv, CountInv
  <2>4. Handles' = Handles /\ Looking' = Looking
    BY <2>1, <2>2, <2>3 DEF Handles, Looking
  <2>5. Cardinality(dis_lists) = 1 /\ Cardinality(dis_lists') = 0
    BY <2>1, ReleasingOne, FS_EmptySet DEF HandleInv, CountInv
  <2>6. pool_nodes = Cardinality(Handles) + Cardinality(dis_lists) + Cardinality(Looking)
    BY LeakRephrased DEF HandleInv
  <2>7. pool_nodes' = Cardinality(Handles') + Cardinality(dis_lists') + Cardinality(Looking')
    BY <2>1, <2>4, <2>5, <2>6, HandlesFinite
  <2> QED
    BY <2>7, LeakRephrasedNext
<1>3. ASSUME NEW t \in Threads, NEW q \in Queues, NEW cls \in SUBSET Lists,
             NEW n \in 0 .. MaxBarrierLists, SubmitBegin(t, q, cls, n)
      PROVE  NoHandleLeak'
  <2>1. /\ UNCHANGED <<pool_nodes, dis_lists, buf>> /\ submitter = NoThread /\ submitter' = t /\ pc[t] = "idle"
        /\ pc' = [pc EXCEPT ![t] = "submit"]
    BY <1>3 DEF SubmitBegin, Goto, device
  <2>2. ~Submitting({"gather"})' /\ ~Submitting({"gather"})
    BY <2>1, Typings DEF Submitting, HandleInv, CountInv
  <2>3. Handles' = Handles /\ Looking' = Looking
    BY <2>1, <2>2, Typings DEF Handles, Looking, HandleInv, CountInv
  <2> QED
    BY <2>1, <2>3, HandlesSame
<1>4. CASE Reinitialize
  <2>1. /\ pool_nodes' = 0 /\ buf' = [l \in Lists |-> "free"] /\ UNCHANGED <<pc, submitter, dis_lists>>
        /\ \A t \in Threads : pc[t] = "idle"
    BY <1>4 DEF Reinitialize, submit
  <2>2. Handles' = {} /\ Looking' = {}
    BY <2>1, Typings DEF Handles, Looking, Submitting, HandleInv, CountInv
  <2>3. dis_lists = {}
    BY <2>1 DEF HandleInv, DiscardExclusive
  <2> QED
    BY <2>1, <2>2, <2>3, LeakRephrasedNext, FS_EmptySet
<1>5. CASE (\E q \in Queues : GpuComplete(q)) \/ UNCHANGED vars
  <2>1. /\ UNCHANGED <<pool_nodes, dis_lists, pc, submitter, sub_lists>>
        /\ \A l \in Lists : buf'[l] = "live" <=> buf[l] = "live"
    <3>1. CASE UNCHANGED vars
      BY <3>1 DEF vars, device, submit
    <3>2. CASE \E q \in Queues : GpuComplete(q)
      BY <3>2 DEF GpuComplete, submit
    <3> QED
      BY <1>5, <3>1, <3>2
  <2>2. Submitting({"gather"})' <=> Submitting({"gather"})
    BY <2>1 DEF Submitting
  <2>3. Handles' = Handles /\ Looking' = Looking
    BY <2>1, <2>2 DEF Handles, Looking
  <2> QED
    BY <2>1, <2>3, HandlesSame
<1> QED
  BY <1>1, <1>2, <1>3, <1>4, <1>5, <1>6 DEF Application

LEMMA HandleInvInit == Init => HandleInv
<1> SUFFICES ASSUME Init PROVE HandleInv
  OBVIOUS
<1>1. Handles = {} /\ Looking = {} /\ dis_lists = {} /\ pool_nodes = 0
  BY DEF Init, Handles, Looking, Submitting
<1>2. NoHandleLeak
  BY <1>1, LeakRephrased, FS_EmptySet
<1>3. DiscardExclusive
  BY DEF Init, DiscardExclusive
<1> QED
  BY <1>2, <1>3, CountInvInit DEF HandleInv

LEMMA HandleInvStep == HandleInv /\ [Next]_vars => HandleInv'
<1> SUFFICES ASSUME HandleInv, [Next]_vars PROVE HandleInv'
  OBVIOUS
<1>1. CountInv'
  BY CountInvStep DEF HandleInv
<1>2. NoHandleLeak'
  BY CreateHandles, SubmitHandles, OtherHandles DEF Next
<1>3. DiscardExclusive'
  BY DiscardExclusiveStep DEF HandleInv, CountInv
<1> QED
  BY <1>1, <1>2, <1>3 DEF HandleInv

\* Every node of the handle pool is a list the application still has, one that submit has queued and
\* not yet freed, one that a discard has counted and not yet released, or one being created: no path
\* of create, freeAndDiscard and freeOnSubmit leaks or doubly frees a handle, although create takes
\* nodes while a discard is between its two steps.
THEOREM HandlesNeverLeak == Spec => []NoHandleLeak
<1>1. HandleInv => NoHandleLeak
  BY DEF HandleInv
<1> QED
  BY HandleInvInit, HandleInvStep, <1>1, PTL DEF Spec
=============================================================================
