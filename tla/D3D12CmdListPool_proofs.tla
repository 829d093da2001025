------------------------ MODULE D3D12CmdListPool_proofs ------------------------
(* That the allocators of a D3D12 command list pool are reset only when    *)
(* nothing of them is open or on the GPU, that the pool implements the     *)
(* lifecycle of command lists, and that no assertion of it fires while the *)
(* application keeps to its limits, for any number of threads, allocators, *)
(* lists and backends.                                                     *)
EXTENDS D3D12CmdListPool, FiniteSetTheorems, FunctionTheorems, SequenceTheorems, TLAPS

-----------------------------------------------------------------------------
(* Types, and where everybody is                                           *)

CounterType ==
  /\ submit_counter \in [Allocs -> Nat]
  /\ submit_counter_at_last_reset \in [Allocs -> Nat]
  /\ num_in_flight \in [Allocs -> 0 .. ListsPerAlloc]
  /\ num_discarded \in [Allocs -> Nat]
  /\ full_and_waiting \in [Allocs -> BOOLEAN]
  /\ fence \in [Allocs -> Nat]
  /\ mActiveIndex \in [Indices -> 0 .. NumAllocs - 1]

PoolType ==
  /\ life \in [Nodes -> {"free", "acquired", "recorded", "queued", "spent"}]
  /\ responsible_allocator \in [Nodes -> Allocs \union {NoAlloc}]

ThreadType ==
  /\ pc \in [Threads -> Points]
  /\ node \in [Threads -> Nodes \union {NoNode}]
  /\ it \in [Threads -> Nat]
  /\ submits \in [Threads -> Int]

SubmitType ==
  /\ submitter \in Threads \union {NoThread}
  /\ sub_lists \subseteq Nodes /\ sub_barriers \subseteq Nodes
  /\ sub_needed \in Nat

QueueType == queue \in Seq(Operation)

AssertionType == assertion \in Assertions \union {"none"}

LEMMA Types ==
  TypeOK <=> /\ AssocType /\ CounterType /\ PoolType /\ ThreadType /\ SubmitType
             /\ QueueType /\ AssertionType
  BY DEF TypeOK, CounterType, PoolType, ThreadType, SubmitType, QueueType, AssertionType

LEMMA TypesNext ==
  TypeOK' <=> /\ AssocType' /\ CounterType' /\ PoolType' /\ ThreadType' /\ SubmitType'
              /\ QueueType' /\ AssertionType'
  BY DEF TypeOK, CounterType, PoolType, ThreadType, SubmitType, QueueType, AssertionType

LEMMA SameTypes ==
  /\ UNCHANGED assoc /\ AssocType => AssocType'
  /\ UNCHANGED <<counters, fence, mActiveIndex>> /\ CounterType => CounterType'
  /\ UNCHANGED pool /\ PoolType => PoolType'
  /\ UNCHANGED <<pc, node, it, submits>> /\ ThreadType => ThreadType'
  /\ UNCHANGED submit /\ SubmitType => SubmitType'
  /\ UNCHANGED queue /\ QueueType => QueueType'
  /\ UNCHANGED assertion /\ AssertionType => AssertionType'
<1>1. UNCHANGED assoc /\ AssocType => AssocType'
  BY DEF AssocType, assoc
<1>2. UNCHANGED <<counters, fence, mActiveIndex>> /\ CounterType => CounterType'
  BY DEF CounterType, counters
<1>3. UNCHANGED pool /\ PoolType => PoolType'
  BY DEF PoolType, pool
<1>4. UNCHANGED <<pc, node, it, submits>> /\ ThreadType => ThreadType'
  BY DEF ThreadType
<1>5. UNCHANGED submit /\ SubmitType => SubmitType'
  BY DEF SubmitType, submit
<1> QED
  BY <1>1, <1>2, <1>3, <1>4, <1>5 DEF QueueType, AssertionType

Finding == {"find", "loaded", "look", "wait"}

\* a thread inside a call is associated with this backend, and only submit runs submit
ThreadsRight ==
  \A t \in Threads :
    /\ pc[t] \in Finding \/ submitter = t => ts_id[t] = id /\ index[t] < NumThreads
    /\ pc[t] \in {"submit", "notify", "signal"} => submitter = t
    /\ pc[t] = "idle" => submitter # t

\* nodes belong to one thread while it creates or frees them
NodesRight ==
  /\ \A t \in Threads :
       /\ pc[t] \in Finding => node[t] \in Nodes /\ life[node[t]] = "acquired"
       /\ pc[t] \in {"signal", "release"} => node[t] \in Nodes /\ life[node[t]] = "spent"
       /\ pc[t] \in {"idle", "submit", "notify"} => node[t] = NoNode
  /\ \A t, u \in Threads : t # u /\ node[t] # NoNode => node[t] # node[u]
  /\ \A n \in Nodes :
       life[n] \in {"recorded", "queued", "spent"} => responsible_allocator[n] \in Allocs

\* what is submitted stays with submit until it is counted
SubmitRight ==
  /\ submitter = NoThread => Submitted = {}
  /\ submitter # NoThread /\ pc[submitter] \in Finding \union {"submit"} =>
       \A n \in Submitted : life[n] = "recorded"
  /\ submitter # NoThread /\ pc[submitter] \in {"notify", "signal", "release"} =>
       \A n \in Submitted : life[n] = "queued"
  /\ \A n \in Nodes : life[n] = "queued" =>
       /\ n \in Submitted /\ submitter # NoThread
       /\ pc[submitter] \in {"notify", "signal", "release"}

\* an allocator is full when it has handed out its lists
FullRight ==
  \A a \in Allocs :
    /\ full_and_waiting[a] = TRUE => num_in_flight[a] = ListsPerAlloc
    /\ full_and_waiting[a] = FALSE => num_in_flight[a] < ListsPerAlloc

BaseInv == TypeOK /\ AssocRight /\ ThreadsRight /\ NodesRight /\ SubmitRight /\ FullRight

-----------------------------------------------------------------------------
(* Thread association                                                      *)

\* A thread that asks for its index gets one of its own, and nobody else's changes.
LEMMA IndexGiven ==
  ASSUME AssocType, AssocRight, NEW t \in Threads, GetCurrentIndex(t)
  PROVE  /\ AssocType' /\ AssocRight'
         /\ id' = id /\ ts_id'[t] = id /\ index'[t] = CurrentIndex(t) /\ CurrentIndex(t) \in Nat
         /\ \A u \in Threads \ {t} : ts_id'[u] = ts_id[u] /\ index'[u] = index[u]
<1>1. /\ id' = id /\ ts_id'[t] = id /\ index'[t] = CurrentIndex(t) /\ CurrentIndex(t) \in Nat
      /\ \A u \in Threads \ {t} : ts_id'[u] = ts_id[u] /\ index'[u] = index[u]
      /\ s_global_threadassoc_id' = s_global_threadassoc_id
  BY DEF AssocType, GetCurrentIndex, CurrentIndex
<1>2. AssocType'
  BY <1>1 DEF AssocType, GetCurrentIndex
<1>3. AssocRight'
  <2>1. CASE IsAssociated(t)
    <3>1. index'[t] = index[t] /\ num_associations' = num_associations /\ ts_id[t] = id
      BY <1>1, <2>1 DEF GetCurrentIndex, CurrentIndex, IsAssociated
    <3> QED
      BY <1>1, <3>1 DEF AssocRight
  <2>2. CASE ~IsAssociated(t)
    <3>1. index'[t] = num_associations /\ num_associations' = num_associations + 1
      BY <1>1, <2>2 DEF GetCurrentIndex, CurrentIndex
    <3> QED
      BY <1>1, <3>1 DEF AssocRight, AssocType
  <2> QED
    BY <2>1, <2>2
<1> QED
  BY <1>1, <1>2, <1>3

LEMMA ThreadEndsRight ==
  ASSUME AssocType, AssocRight, NEW t \in Threads, ThreadEnds(t)
  PROVE  /\ AssocType' /\ AssocRight'
         /\ id' = id
         /\ \A u \in Threads \ {t} : ts_id'[u] = ts_id[u] /\ index'[u] = index[u]
<1>1. /\ id' = id /\ ts_id'[t] = Unassociated /\ num_associations' = num_associations
      /\ \A u \in Threads \ {t} : ts_id'[u] = ts_id[u] /\ index'[u] = index[u]
      /\ s_global_threadassoc_id' = s_global_threadassoc_id
  BY DEF AssocType, ThreadEnds
<1>2. AssocType'
  BY <1>1 DEF AssocType, ThreadEnds
<1>3. AssocRight'
  BY <1>1 DEF AssocType, AssocRight, Unassociated
<1> QED
  BY <1>1, <1>2, <1>3

LEMMA ReplacedRight ==
  ASSUME AssocType, AssocRight, ReplaceAssociation
  PROVE  /\ AssocType' /\ AssocRight' /\ id' # id
         /\ ts_id' = ts_id /\ index' = index
<1>1. /\ id' = s_global_threadassoc_id /\ s_global_threadassoc_id' = s_global_threadassoc_id + 1
      /\ ts_id' = ts_id /\ index' = index
  BY DEF ReplaceAssociation
<1>2. AssocType'
  BY <1>1 DEF AssocType, ReplaceAssociation
<1>3. \A u \in Threads : ts_id[u] < s_global_threadassoc_id /\ ts_id[u] \in Int
  BY DEF AssocRight, AssocType, Unassociated
<1>4. s_global_threadassoc_id \in Nat /\ id < s_global_threadassoc_id /\ id \in Nat
  BY DEF AssocRight, AssocType
<1>5. AssocRight'
  BY <1>1, <1>3, <1>4 DEF AssocRight
<1> QED
  BY <1>1, <1>2, <1>4, <1>5

-----------------------------------------------------------------------------
(* Where Next changes what                                                 *)

\* The allocator a thread is at when it looks for a list is of its own bundle.
LEMMA ActiveRight ==
  ASSUME BaseInv, NEW t \in Threads, pc[t] \in Finding
  PROVE  /\ Active(t) \in Allocs /\ index[t] \in Indices
         /\ \A u \in Threads \ {t} : pc[u] \in Finding => index[u] # index[t] /\ Active(u) # Active(t)
<1>1. \A u \in Threads : pc[u] \in Finding =>
        index[u] \in Indices /\ mActiveIndex[index[u]] \in 0 .. NumAllocs - 1 /\ ts_id[u] = id
  <2>1. \A u \in Threads : pc[u] \in Finding => index[u] \in Indices /\ ts_id[u] = id
    BY Types, SizesAssumption DEF BaseInv, ThreadsRight, AssocType, Indices
  <2> QED
    BY <2>1, Types DEF BaseInv, CounterType
<1>2. \A u \in Threads \ {t} : pc[u] \in Finding => index[u] # index[t]
  BY <1>1 DEF BaseInv, AssocRight
<1> QED
  BY <1>1, <1>2 DEF Active, Allocs

-----------------------------------------------------------------------------
(* Types                                                                   *)

\* Where a node comes from, and where it goes.
LEMMA AcquireNodeType ==
  ASSUME PoolType, ThreadType, AssertionType, NEW t \in Threads, AcquireNode(t)
  PROVE  life' \in [Nodes -> {"free", "acquired", "recorded", "queued", "spent"}]
         /\ pc' \in [Threads -> Points]
         /\ node' \in [Threads -> Nodes \union {NoNode}]
         /\ AssertionType'
<1>1. CASE Fail("command list pool full") /\ UNCHANGED <<life, pc, node>>
  BY <1>1 DEF PoolType, ThreadType, AssertionType, Fail, Assertions
<1>2. ASSUME NEW n \in Nodes, life' = [life EXCEPT ![n] = "acquired"], node' = [node EXCEPT ![t] = n],
             Goto(t, "find"), UNCHANGED assertion
      PROVE  /\ life' \in [Nodes -> {"free", "acquired", "recorded", "queued", "spent"}]
             /\ pc' \in [Threads -> Points]
             /\ node' \in [Threads -> Nodes \union {NoNode}]
             /\ AssertionType'
  BY <1>2 DEF PoolType, ThreadType, AssertionType, Goto, Points
<1> QED
  BY <1>1, <1>2 DEF AcquireNode

LEMMA NextAllocatorType ==
  ASSUME CounterType, ThreadType, AssertionType, NEW t \in Threads, index[t] \in Indices,
         NextAllocator(t)
  PROVE  mActiveIndex' \in [Indices -> 0 .. NumAllocs - 1]
         /\ pc' \in [Threads -> Points]
         /\ it' \in [Threads -> Nat]
         /\ AssertionType'
<1>1. (mActiveIndex[index[t]] + 1) % NumAllocs \in 0 .. NumAllocs - 1
  BY SizesAssumption DEF CounterType
<1>2. mActiveIndex' \in [Indices -> 0 .. NumAllocs - 1]
  BY <1>1 DEF NextAllocator, CounterType
<1>3. it' \in [Threads -> Nat]
  <2>1. it' = [it EXCEPT ![t] = it[t] + 1]
    BY DEF NextAllocator
  <2>2. it[t] + 1 \in Nat
    BY DEF ThreadType
  <2> QED
    BY <2>1, <2>2 DEF ThreadType
<1>4. pc' \in [Threads -> Points] /\ AssertionType'
  BY DEF ThreadType, AssertionType, NextAllocator, Goto, Fail, Points, Assertions
<1> QED
  BY <1>2, <1>3, <1>4

LEMMA DoResetType ==
  ASSUME CounterType, ThreadType, AssertionType, NEW t \in Threads, Active(t) \in Allocs, DoReset(t),
         UNCHANGED <<submit_counter, fence, node, submits>>
  PROVE  CounterType' /\ ThreadType' /\ AssertionType'
  BY SizesAssumption DEF CounterType, ThreadType, AssertionType, DoReset, Goto, Points

LEMMA CreateTypes ==
  ASSUME BaseInv, NEW t \in Threads, Create(t)
  PROVE  TypeOK'
<1> USE Types, TypesNext, SameTypes
<1> DEFINE a == Active(t)
<1>1. pc[t] \in Finding
  BY DEF Create, TakeList, LoadSubmits, LoadDiscarded, LookAtFence, WaitForFence, Finding
<1>2. a \in Allocs /\ index[t] \in Indices
  BY <1>1, ActiveRight
<1> HIDE DEF a
<1>3. CASE TakeList(t)
  <2>1. num_in_flight[a] < ListsPerAlloc
    BY <1>2, <1>3 DEF TakeList, BaseInv, FullRight, CounterType, a
  <2>2. CounterType'
    BY <1>2, <1>3, <2>1, SizesAssumption DEF TakeList, BaseInv, CounterType, IsLast, a
  <2>3. node[t] \in Nodes
    BY <1>1 DEF BaseInv, NodesRight
  <2>4. PoolType' /\ SubmitType'
    BY <1>2, <1>3, <2>3 DEF TakeList, BaseInv, PoolType, SubmitType, a
  <2>5. ThreadType'
    BY <1>3 DEF TakeList, BaseInv, ThreadType, Goto, Points
  <2> QED
    BY <1>3, <2>2, <2>4, <2>5 DEF TakeList, BaseInv
<1>4. CASE LoadSubmits(t)
  <2>1. ThreadType'
    BY <1>2, <1>4 DEF LoadSubmits, BaseInv, ThreadType, CounterType, Goto, Points, a
  <2> QED
    BY <1>4, <2>1 DEF LoadSubmits, BaseInv
<1>5. CASE LoadDiscarded(t)
  <2>1. /\ mActiveIndex' \in [Indices -> 0 .. NumAllocs - 1]
        /\ pc' \in [Threads -> Points]
        /\ it' \in [Threads -> Nat]
        /\ AssertionType'
    <3>1. CASE NextAllocator(t)
      BY <1>2, <3>1, NextAllocatorType DEF BaseInv
    <3>2. CASE ~NextAllocator(t)
      BY <1>5, <3>2 DEF LoadDiscarded, BaseInv, CounterType, ThreadType, AssertionType, Goto, Fail, Points,
                        Assertions
    <3> QED
      BY <3>1, <3>2
  <2> QED
    BY <1>5, <2>1 DEF LoadDiscarded, BaseInv, CounterType, counters, ThreadType
<1>6. CASE LookAtFence(t)
  <2>1. CounterType' /\ ThreadType' /\ AssertionType'
    <3>1. CASE DoReset(t)
      BY <1>2, <1>6, <3>1, DoResetType DEF LookAtFence, BaseInv, a
    <3>2. CASE NextAllocator(t) /\ ~DoReset(t)
      BY <1>2, <1>6, <3>2, NextAllocatorType DEF LookAtFence, BaseInv, CounterType, ThreadType
    <3>3. CASE ~NextAllocator(t) /\ ~DoReset(t)
      BY <1>6, <3>3 DEF LookAtFence, BaseInv, CounterType, ThreadType, AssertionType, Fail, Assertions
    <3> QED
      BY <3>1, <3>2, <3>3
  <2> QED
    BY <1>6, <2>1 DEF LookAtFence, BaseInv
<1>7. CASE WaitForFence(t)
  <2>1. CounterType' /\ ThreadType' /\ AssertionType'
    BY <1>2, <1>7, DoResetType DEF WaitForFence, BaseInv, a
  <2> QED
    BY <1>7, <2>1 DEF WaitForFence, BaseInv
<1> QED
  BY <1>3, <1>4, <1>5, <1>6, <1>7 DEF Create

LEMMA SubmitTypes ==
  ASSUME BaseInv, NEW t \in Threads, Submit(t)
  PROVE  TypeOK'
<1> USE Types, TypesNext, SameTypes
<1>1. CASE CreateBarrierList(t)
  <2>1. PoolType' /\ ThreadType' /\ AssertionType'
    BY <1>1, AcquireNodeType DEF CreateBarrierList, BaseInv, PoolType, ThreadType
  <2> QED
    BY <1>1, <2>1 DEF CreateBarrierList, BaseInv, SubmitType
<1>2. CASE ExecuteCommandLists(t)
  <2> DEFINE op == [op |-> "execute", allocs |-> {responsible_allocator[n] : n \in Submitted}, value |-> 0]
  <2>1. \A n \in Submitted : responsible_allocator[n] \in Allocs
    <3>1. submitter = t /\ \A n \in Submitted : n \in Nodes /\ life[n] = "recorded"
      BY <1>2 DEF ExecuteCommandLists, BaseInv, ThreadsRight, SubmitRight, SubmitType, Submitted
    <3> QED
      BY <3>1 DEF BaseInv, NodesRight
  <2>2. op \in Operation
    BY <2>1 DEF Operation
  <2>3. queue' = Append(queue, op)
    BY <1>2 DEF ExecuteCommandLists
  <2> HIDE DEF op
  <2>4. QueueType'
    BY <2>2, <2>3 DEF BaseInv, QueueType
  <2>5. ThreadType' /\ PoolType'
    BY <1>2 DEF ExecuteCommandLists, BaseInv, ThreadType, PoolType, Goto, Points
  <2> QED
    BY <1>2, <2>4, <2>5 DEF ExecuteCommandLists, BaseInv
<1>3. ASSUME NEW n \in Nodes, CountSubmit(t, n)
      PROVE  TypeOK'
  <2>1. CounterType'
    <3>1. responsible_allocator[n] \in Allocs => submit_counter[responsible_allocator[n]] + 1 \in Nat
      BY DEF BaseInv, CounterType
    <3>2. submit_counter' \in [Allocs -> Nat]
      BY <1>3, <3>1 DEF CountSubmit, BaseInv, CounterType
    <3> QED
      BY <1>3, <3>2 DEF CountSubmit, BaseInv, CounterType
  <2>2. ThreadType' /\ PoolType' /\ SubmitType'
    BY <1>3 DEF CountSubmit, BaseInv, ThreadType, PoolType, SubmitType, Goto, Points
  <2> QED
    BY <1>3, <2>1, <2>2 DEF CountSubmit, BaseInv
<1>4. CASE SignalGPU(t)
  <2> DEFINE a  == responsible_allocator[node[t]]
             op == [op |-> "signal", allocs |-> {a}, value |-> submit_counter[a]]
  <2>1. a \in Allocs
    BY <1>4 DEF SignalGPU, BaseInv, NodesRight
  <2>2. submit_counter[a] \in Nat
    BY <2>1 DEF BaseInv, CounterType
  <2> HIDE DEF a
  <2>3. op \in Operation
    BY <2>1, <2>2 DEF Operation
  <2>4. queue' = Append(queue, op)
    BY <1>4 DEF SignalGPU, SignalValue, a
  <2> HIDE DEF op
  <2>5. QueueType'
    BY <2>3, <2>4 DEF BaseInv, QueueType
  <2>6. ThreadType'
    BY <1>4 DEF SignalGPU, BaseInv, ThreadType, Goto, Points
  <2> QED
    BY <1>4, <2>5, <2>6 DEF SignalGPU, BaseInv
<1>5. CASE SubmitEnd(t)
  <2>1. ThreadType' /\ SubmitType'
    BY <1>5 DEF SubmitEnd, BaseInv, ThreadType, SubmitType, Goto, Points
  <2> QED
    BY <1>5, <2>1 DEF SubmitEnd, BaseInv
<1> QED
  BY <1>1, <1>2, <1>3, <1>4, <1>5 DEF Submit

LEMMA ApplicationTypes ==
  ASSUME BaseInv, Application
  PROVE  TypeOK'
<1> USE Types, TypesNext, SameTypes
<1>1. ASSUME NEW t \in Threads, RecordCommandList(t)
      PROVE  TypeOK'
  <2>1. AssocType'
    BY <1>1, IndexGiven DEF RecordCommandList, BaseInv
  <2>2. PoolType' /\ ThreadType' /\ AssertionType'
    <3>1. CASE AcquireNode(t)
      BY <1>1, <3>1, AcquireNodeType DEF RecordCommandList, BaseInv, PoolType, ThreadType
    <3>2. CASE ~AcquireNode(t)
      BY <1>1, <3>2 DEF RecordCommandList, BaseInv, PoolType, ThreadType, AssertionType, Fail, Assertions
    <3> QED
      BY <3>1, <3>2
  <2> QED
    BY <1>1, <2>1, <2>2 DEF RecordCommandList, BaseInv
<1>2. ASSUME NEW t \in Threads, ThreadReplaced(t)
      PROVE  TypeOK'
  BY <1>2, ThreadEndsRight DEF ThreadReplaced, BaseInv
<1>3. ASSUME NEW t \in Threads, NEW n \in Nodes, Discard(t, n)
      PROVE  TypeOK'
  <2>1. num_discarded' \in [Allocs -> Nat]
    <3>1. \A a \in Allocs : num_discarded[a] + 1 \in Nat
      BY DEF BaseInv, CounterType
    <3> QED
      BY <1>3, <3>1 DEF Discard, BaseInv, CounterType
  <2>2. CounterType'
    BY <1>3, <2>1 DEF Discard, BaseInv, CounterType
  <2>3. ThreadType' /\ PoolType'
    BY <1>3 DEF Discard, BaseInv, ThreadType, PoolType, Goto, Points
  <2> QED
    BY <1>3, <2>2, <2>3 DEF Discard, BaseInv
<1>4. ASSUME NEW t \in Threads, NEW cls \in SUBSET Nodes, NEW n \in 0 .. MaxBarriers,
             SubmitBegin(t, cls, n)
      PROVE  TypeOK'
  <2>1. AssocType'
    BY <1>4, IndexGiven DEF SubmitBegin, BaseInv
  <2>2. ThreadType' /\ SubmitType' /\ AssertionType'
    <3>1. n \in Nat
      BY BoundsAssumption
    <3>2. CASE UNCHANGED <<pc, submit>>
      BY <1>4, <3>2 DEF SubmitBegin, BaseInv, ThreadType, AssertionType, Fail, Assertions
    <3>3. CASE ~UNCHANGED <<pc, submit>>
      BY <1>4, <3>1, <3>3 DEF SubmitBegin, BaseInv, ThreadType, SubmitType, AssertionType, Goto, Points
    <3> QED
      BY <3>2, <3>3
  <2> QED
    BY <1>4, <2>1, <2>2 DEF SubmitBegin, BaseInv
<1>5. CASE ReplaceBackend
  <2>1. AssocType' /\ CounterType' /\ PoolType' /\ AssertionType'
    <3>1. CASE \A a \in Allocs : IsDestructible(a)
      <4>1. AssocType'
        BY <1>5, <3>1, ReplacedRight DEF ReplaceBackend, BaseInv
      <4>2. CounterType'
        <5>1. /\ submit_counter' = [a \in Allocs |-> 0]
              /\ submit_counter_at_last_reset' = [a \in Allocs |-> 0]
              /\ num_in_flight' = [a \in Allocs |-> 0]
              /\ num_discarded' = [a \in Allocs |-> 0]
              /\ full_and_waiting' = [a \in Allocs |-> FALSE]
              /\ fence' = [a \in Allocs |-> 0]
              /\ mActiveIndex' = [i \in Indices |-> 0]
          BY <1>5, <3>1 DEF ReplaceBackend
        <5>2. 0 \in 0 .. ListsPerAlloc /\ 0 \in 0 .. NumAllocs - 1
          BY SizesAssumption
        <5> QED
          BY <5>1, <5>2 DEF CounterType
      <4>3. PoolType' /\ UNCHANGED assertion
        BY <1>5, <3>1 DEF ReplaceBackend, PoolType
      <4> QED
        BY <4>1, <4>2, <4>3 DEF BaseInv
    <3>2. CASE ~\A a \in Allocs : IsDestructible(a)
      BY <1>5, <3>2 DEF ReplaceBackend, BaseInv, AssertionType, Fail, Assertions
    <3> QED
      BY <3>1, <3>2
  <2> QED
    BY <1>5, <2>1 DEF ReplaceBackend, BaseInv
<1> QED
  BY <1>1, <1>2, <1>3, <1>4, <1>5 DEF Application

\* What is left of a queue when its first operation is done.
LEMMA TailRight ==
  ASSUME QueueType, queue # <<>>, queue' = Tail(queue)
  PROVE  /\ QueueType' /\ Len(queue') = Len(queue) - 1 /\ Len(queue) \in Nat \ {0}
         /\ Head(queue) = queue[1] /\ Head(queue) \in Operation
         /\ \A i \in DOMAIN queue' : i + 1 \in DOMAIN queue /\ queue'[i] = queue[i + 1]
  BY DEF QueueType

LEMMA OtherTypes ==
  ASSUME BaseInv
  PROVE  /\ \A t \in Threads : ReleaseNode(t) => TypeOK'
         /\ GPU => TypeOK'
<1> USE Types, TypesNext, SameTypes
<1>1. ASSUME NEW t \in Threads, ReleaseNode(t)
      PROVE  TypeOK'
  <2>1. ThreadType' /\ PoolType'
    BY <1>1 DEF ReleaseNode, BaseInv, ThreadType, PoolType, Goto, Points
  <2> QED
    BY <1>1, <2>1 DEF ReleaseNode, BaseInv
<1>2. CASE FinishLists
  BY <1>2, TailRight DEF FinishLists, BaseInv
<1>3. CASE SignalFence
  <2>1. QueueType' /\ Head(queue).value \in Nat
    BY <1>3, TailRight DEF SignalFence, BaseInv, Operation
  <2>2. CounterType'
    BY <1>3, <2>1 DEF SignalFence, BaseInv, CounterType, counters
  <2> QED
    BY <1>3, <2>1, <2>2 DEF SignalFence, BaseInv
<1> QED
  BY <1>1, <1>2, <1>3 DEF GPU

-----------------------------------------------------------------------------
(* Where everybody is                                                      *)

\* A step of one thread, within its call or into the next.
LEMMA ThreadSteps ==
  ASSUME BaseInv, NEW t \in Threads, NEW to, UNCHANGED <<assoc, submitter>>,
         pc' = [pc EXCEPT ![t] = to],
         to \in Finding => pc[t] \in Finding \/ submitter = t,
         to \in {"submit", "notify", "signal"} => submitter = t,
         to = "idle" => submitter # t
  PROVE  ThreadsRight'
<1>1. \A u \in Threads : pc'[u] = IF u = t THEN to ELSE pc[u]
  BY Types DEF BaseInv, ThreadType
<1>2. UNCHANGED <<ts_id, id, index>>
  BY DEF assoc
<1> QED
  BY <1>1, <1>2 DEF BaseInv, ThreadsRight, Finding

LEMMA SameRight ==
  /\ UNCHANGED assoc /\ AssocRight => AssocRight'
  /\ UNCHANGED <<assoc, pc, submitter>> /\ ThreadsRight => ThreadsRight'
  /\ UNCHANGED <<pc, node, life, responsible_allocator>> /\ NodesRight => NodesRight'
  /\ UNCHANGED <<pc, life, submitter, sub_lists, sub_barriers>> /\ SubmitRight => SubmitRight'
  /\ UNCHANGED <<num_in_flight, full_and_waiting>> /\ FullRight => FullRight'
<1>1. UNCHANGED assoc /\ AssocRight => AssocRight'
  BY DEF AssocRight, assoc
<1>2. UNCHANGED <<assoc, pc, submitter>> /\ ThreadsRight => ThreadsRight'
  BY DEF ThreadsRight, assoc
<1>3. UNCHANGED <<pc, node, life, responsible_allocator>> /\ NodesRight => NodesRight'
  BY DEF NodesRight
<1>4. UNCHANGED <<pc, life, submitter, sub_lists, sub_barriers>> /\ SubmitRight => SubmitRight'
  BY DEF SubmitRight, Submitted
<1>5. UNCHANGED <<num_in_flight, full_and_waiting>> /\ FullRight => FullRight'
  BY DEF FullRight
<1> QED
  BY <1>1, <1>2, <1>3, <1>4, <1>5

\* While a thread looks for a list, or decides what to do next, nodes and lists stay what they are.
LEMMA SearchSteps ==
  ASSUME BaseInv, NEW t \in Threads, NEW to \in Finding, pc[t] \in Finding,
         UNCHANGED <<assoc, pool, node, submit>>, pc' = [pc EXCEPT ![t] = to]
  PROVE  AssocRight' /\ ThreadsRight' /\ NodesRight' /\ SubmitRight'
<1>1. \A u \in Threads : pc'[u] = IF u = t THEN to ELSE pc[u]
  BY Types DEF BaseInv, ThreadType
<1>2. AssocRight' /\ ThreadsRight'
  BY ThreadSteps, SameRight DEF BaseInv, Finding, submit
<1>3. NodesRight'
  BY <1>1 DEF BaseInv, NodesRight, pool, Finding
<1>4. SubmitRight'
  BY <1>1 DEF BaseInv, SubmitRight, pool, submit, Finding, Submitted
<1> QED
  BY <1>2, <1>3, <1>4

LEMMA DoResetRight ==
  ASSUME BaseInv, NEW t \in Threads, pc[t] \in Finding, DoReset(t),
         UNCHANGED <<assoc, submit_counter, fence, pool, queue, node, submits, submit>>
  PROVE  AssocRight' /\ ThreadsRight' /\ NodesRight' /\ SubmitRight' /\ FullRight'
<1>1. AssocRight' /\ ThreadsRight' /\ NodesRight' /\ SubmitRight'
  BY SearchSteps DEF DoReset, Goto, Finding
<1>2. Active(t) \in Allocs
  BY ActiveRight
<1>3. FullRight'
  BY <1>2, Types, SizesAssumption DEF DoReset, BaseInv, FullRight, CounterType
<1> QED
  BY <1>1, <1>3

LEMMA CreateRight ==
  ASSUME BaseInv, NEW t \in Threads, Create(t)
  PROVE  BaseInv'
<1> DEFINE a == Active(t)
           n == node[t]
<1>1. pc[t] \in Finding
  BY DEF Create, TakeList, LoadSubmits, LoadDiscarded, LookAtFence, WaitForFence, Finding
<1>2. a \in Allocs
  BY <1>1, ActiveRight
<1>3. n \in Nodes /\ life[n] = "acquired"
  BY <1>1 DEF BaseInv, NodesRight
<1> SUFFICES AssocRight' /\ ThreadsRight' /\ NodesRight' /\ SubmitRight' /\ FullRight'
  BY CreateTypes DEF BaseInv
<1> HIDE DEF a, n
<1> USE Types
<1>4. CASE TakeList(t)
  <2> DEFINE to == IF submitter = t THEN "submit" ELSE "idle"
  <2>1. /\ pc' = [pc EXCEPT ![t] = to]
        /\ life' = [life EXCEPT ![n] = "recorded"]
        /\ responsible_allocator' = [responsible_allocator EXCEPT ![n] = a]
        /\ node' = [node EXCEPT ![t] = NoNode]
        /\ sub_barriers' = IF submitter = t THEN sub_barriers \union {n} ELSE sub_barriers
        /\ UNCHANGED <<submitter, sub_lists>> /\ UNCHANGED assoc
    BY <1>4 DEF TakeList, Goto, a, n
  <2>2. \A u \in Threads : pc'[u] = IF u = t THEN to ELSE pc[u]
    BY <2>1 DEF BaseInv, ThreadType
  <2>3. \A u \in Threads : node'[u] = IF u = t THEN NoNode ELSE node[u]
    BY <2>1 DEF BaseInv, ThreadType
  <2>4. \A m \in Nodes : /\ life'[m] = IF m = n THEN "recorded" ELSE life[m]
                         /\ responsible_allocator'[m] = IF m = n THEN a ELSE responsible_allocator[m]
    BY <2>1 DEF BaseInv, PoolType
  <2>5. ThreadsRight'
    BY <2>1, ThreadSteps DEF Finding
  <2>6. \A u \in Threads \ {t} : node[u] # n
    BY <1>3, SentinelsAssumption DEF BaseInv, NodesRight, n
  <2>7. NodesRight'
    BY <1>2, <1>3, <2>2, <2>3, <2>4, <2>6, SentinelsAssumption DEF BaseInv, NodesRight, Finding
  <2>8. SubmitRight'
    <3>1. CASE submitter = t
      <4>1. Submitted' = Submitted \union {n} /\ pc'[submitter'] = "submit" /\ submitter' = t
        BY <2>1, <2>2, <3>1 DEF Submitted
      <4>2. \A m \in Submitted : life[m] = "recorded"
        BY <1>1, <3>1, SentinelsAssumption DEF BaseInv, SubmitRight
      <4>3. \A m \in Nodes : life[m] # "queued"
        BY <1>1, <3>1 DEF BaseInv, SubmitRight, Finding
      <4>4. \A m \in Submitted' : life'[m] = "recorded"
        BY <1>3, <2>4, <4>1, <4>2 DEF BaseInv, SubmitType, Submitted
      <4>5. \A m \in Nodes : life'[m] # "queued"
        BY <2>4, <4>3
      <4> QED
        BY <4>1, <4>4, <4>5, SentinelsAssumption DEF SubmitRight
    <3>2. CASE submitter # t
      <4>1. Submitted' = Submitted
        BY <2>1, <3>2 DEF Submitted
      <4>2. submitter # NoThread => pc'[submitter'] = pc[submitter] /\ submitter \in Threads
        BY <2>1, <2>2, <3>2 DEF BaseInv, SubmitType
      <4>3. submitter # NoThread => n \notin Submitted
        <5>1. ASSUME submitter # NoThread
              PROVE  pc[submitter] \in Finding \union {"submit", "notify", "signal", "release"}
          BY <5>1, <4>2 DEF BaseInv, ThreadsRight, ThreadType, Points, Finding
        <5> QED
          BY <1>3, <5>1 DEF BaseInv, SubmitRight
      <4>4. \A m \in Submitted : submitter # NoThread => life'[m] = life[m]
        BY <2>4, <4>3 DEF BaseInv, SubmitType, Submitted
      <4> QED
        BY <1>3, <2>1, <2>4, <4>1, <4>2, <4>3, <4>4 DEF BaseInv, SubmitRight
    <3> QED
      BY <3>1, <3>2
  <2>9. FullRight'
    <3>1. \A b \in Allocs : b # a => /\ num_in_flight'[b] = num_in_flight[b]
                                    /\ full_and_waiting'[b] = full_and_waiting[b]
      BY <1>4 DEF TakeList, BaseInv, CounterType, a
    <3>2. /\ num_in_flight'[a] = num_in_flight[a] + 1
          /\ full_and_waiting'[a] = IsLast(a)
          /\ full_and_waiting[a] = FALSE
      BY <1>2, <1>4 DEF TakeList, BaseInv, CounterType, a
    <3>3. num_in_flight[a] < ListsPerAlloc /\ num_in_flight[a] \in Nat /\ ListsPerAlloc \in Nat
      BY <1>2, <3>2, SizesAssumption DEF BaseInv, FullRight, CounterType
    <3>4. IsLast(a) \in BOOLEAN /\ (IsLast(a) <=> num_in_flight[a] + 1 = ListsPerAlloc)
      BY DEF IsLast
    <3> QED
      BY <3>1, <3>2, <3>3, <3>4 DEF BaseInv, FullRight
  <2> QED
    BY <2>1, <2>5, <2>7, <2>8, <2>9, SameRight DEF BaseInv
<1>5. CASE LoadSubmits(t)
  BY <1>1, <1>5, SearchSteps, SameRight DEF LoadSubmits, BaseInv, Finding, Goto, counters
<1>6. CASE LoadDiscarded(t)
  <2>1. FullRight'
    BY <1>6, SameRight DEF LoadDiscarded, BaseInv, counters
  <2>2. CASE UNCHANGED pc
    BY <1>6, <2>1, <2>2, SameRight DEF LoadDiscarded, BaseInv, pool, submit
  <2>3. CASE ~UNCHANGED pc
    <3>1. \E to \in Finding : pc' = [pc EXCEPT ![t] = to]
      BY <1>6, <2>3 DEF LoadDiscarded, NextAllocator, Goto, Finding
    <3> QED
      BY <1>1, <1>6, <2>1, <3>1, SearchSteps DEF LoadDiscarded
  <2> QED
    BY <2>2, <2>3
<1>7. CASE LookAtFence(t)
  <2>1. CASE DoReset(t)
    BY <1>1, <1>7, <2>1, DoResetRight DEF LookAtFence
  <2>2. CASE ~DoReset(t) /\ UNCHANGED pc
    BY <1>7, <2>2, SameRight DEF LookAtFence, BaseInv, pool, submit
  <2>3. CASE ~DoReset(t) /\ ~UNCHANGED pc
    <3>1. \E to \in Finding : pc' = [pc EXCEPT ![t] = to]
      BY <1>7, <2>3 DEF LookAtFence, NextAllocator, Goto, Finding
    <3> QED
      BY <1>1, <1>7, <2>3, <3>1, SearchSteps, SameRight DEF LookAtFence, BaseInv
  <2> QED
    BY <2>1, <2>2, <2>3
<1>8. CASE WaitForFence(t)
  BY <1>1, <1>8, DoResetRight DEF WaitForFence
<1> QED
  BY <1>4, <1>5, <1>6, <1>7, <1>8 DEF Create

\* A thread takes a node from the pool, and goes on to find a list for it.
LEMMA AcquireNodeRight ==
  ASSUME BaseInv, NEW t \in Threads, pc[t] \in {"idle", "submit"}, AcquireNode(t),
         UNCHANGED <<responsible_allocator, submitter, sub_lists, sub_barriers>>
  PROVE  NodesRight' /\ SubmitRight'
<1> USE Types
<1>1. CASE UNCHANGED <<life, pc, node>>
  BY <1>1, SameRight DEF BaseInv
<1>2. ASSUME NEW n \in Nodes, life[n] = "free", life' = [life EXCEPT ![n] = "acquired"],
             node' = [node EXCEPT ![t] = n], Goto(t, "find")
      PROVE  NodesRight' /\ SubmitRight'
  <2>1. \A u \in Threads : /\ pc'[u] = IF u = t THEN "find" ELSE pc[u]
                           /\ node'[u] = IF u = t THEN n ELSE node[u]
    BY <1>2 DEF Goto, BaseInv, ThreadType
  <2>2. \A m \in Nodes : life'[m] = IF m = n THEN "acquired" ELSE life[m]
    BY <1>2 DEF BaseInv, PoolType
  <2>3. \A u \in Threads : node[u] # n
    <3>1. \A u \in Threads : pc[u] \in Finding \union {"signal", "release"} \union {"idle", "submit", "notify"}
      BY DEF BaseInv, ThreadType, Points, Finding
    <3> QED
      BY <1>2, <3>1, SentinelsAssumption DEF BaseInv, NodesRight
  <2>4. NodesRight'
    BY <1>2, <2>1, <2>2, <2>3 DEF BaseInv, NodesRight, Finding
  <2>5. Submitted' = Submitted
    BY DEF Submitted
  <2>6. SubmitRight'
    <3>1. CASE submitter = t
      <4>1. pc[submitter] = "submit" /\ pc'[submitter] = "find" /\ submitter # NoThread
        BY <2>1, <3>1, SentinelsAssumption DEF BaseInv, ThreadsRight
      <4>2. /\ \A m \in Submitted : life[m] = "recorded" /\ m \in Nodes
            /\ \A m \in Nodes : life[m] # "queued"
        BY <4>1 DEF BaseInv, SubmitRight, SubmitType, Submitted
      <4>3. /\ \A m \in Submitted : life'[m] = "recorded"
            /\ \A m \in Nodes : life'[m] # "queued"
        BY <1>2, <2>2, <4>2
      <4> QED
        BY <2>5, <4>1, <4>3 DEF SubmitRight, Finding
    <3>2. CASE submitter # t
      <4>1. submitter # NoThread => pc'[submitter] = pc[submitter] /\ submitter \in Threads
        BY <2>1, <3>2 DEF BaseInv, SubmitType
      <4>2. submitter # NoThread => n \notin Submitted
        <5>1. ASSUME submitter # NoThread
              PROVE  pc[submitter] \in Finding \union {"submit", "notify", "signal", "release"}
          BY <5>1, <4>1 DEF BaseInv, ThreadsRight, ThreadType, Points, Finding
        <5> QED
          BY <1>2, <5>1 DEF BaseInv, SubmitRight
      <4>3. \A m \in Submitted : submitter # NoThread => life'[m] = life[m]
        BY <2>2, <4>2 DEF BaseInv, SubmitType, Submitted
      <4> QED
        BY <1>2, <2>2, <2>5, <4>1, <4>2, <4>3 DEF BaseInv, SubmitRight
    <3> QED
      BY <3>1, <3>2
  <2> QED
    BY <2>4, <2>6
<1> QED
  BY <1>1, <1>2 DEF AcquireNode

LEMMA SubmitStepsRight ==
  ASSUME BaseInv, NEW t \in Threads, Submit(t)
  PROVE  BaseInv'
<1> SUFFICES AssocRight' /\ ThreadsRight' /\ NodesRight' /\ SubmitRight' /\ FullRight'
  BY SubmitTypes DEF BaseInv
<1> USE Types
<1>1. submitter = t /\ submitter # NoThread
  <2>1. pc[t] \in {"submit", "notify", "signal"}
    BY DEF Submit, CreateBarrierList, ExecuteCommandLists, CountSubmit, SignalGPU, SubmitEnd
  <2> QED
    BY <2>1, SentinelsAssumption DEF BaseInv, ThreadsRight
<1>2. CASE CreateBarrierList(t)
  <2>1. NodesRight' /\ SubmitRight'
    BY <1>2, AcquireNodeRight DEF CreateBarrierList
  <2>2. ThreadsRight'
    <3>1. CASE UNCHANGED pc
      BY <1>2, <3>1, SameRight DEF CreateBarrierList, BaseInv
    <3>2. CASE pc' = [pc EXCEPT ![t] = "find"]
      BY <1>1, <1>2, <3>2, ThreadSteps DEF CreateBarrierList
    <3> QED
      BY <1>2, <3>1, <3>2 DEF CreateBarrierList, AcquireNode, Goto
  <2> QED
    BY <1>2, <2>1, <2>2, SameRight DEF CreateBarrierList, BaseInv, counters
<1>3. CASE ExecuteCommandLists(t)
  <2>1. \A u \in Threads : pc'[u] = IF u = t THEN "notify" ELSE pc[u]
    BY <1>3 DEF ExecuteCommandLists, Goto, BaseInv, ThreadType
  <2>2. \A n \in Nodes : life'[n] = IF n \in Submitted THEN "queued" ELSE life[n]
    BY <1>3 DEF ExecuteCommandLists
  <2>3. /\ \A n \in Submitted : life[n] = "recorded" /\ n \in Nodes
        /\ \A n \in Nodes : life[n] # "queued"
    BY <1>1, <1>3 DEF ExecuteCommandLists, BaseInv, SubmitRight, SubmitType, Submitted
  <2>4. UNCHANGED <<assoc, node, responsible_allocator, submit, num_in_flight, full_and_waiting>>
    BY <1>3 DEF ExecuteCommandLists, counters
  <2>5. ThreadsRight'
    BY <1>1, <1>3, <2>4, ThreadSteps DEF ExecuteCommandLists, Goto, submit, Finding
  <2>6. NodesRight'
    BY <1>3, <2>1, <2>2, <2>3, <2>4 DEF BaseInv, NodesRight, Finding, ExecuteCommandLists
  <2>7. Submitted' = Submitted /\ submitter' = t
    BY <1>1, <2>4 DEF Submitted, submit
  <2>8. SubmitRight'
    BY <1>1, <2>1, <2>2, <2>3, <2>7 DEF SubmitRight, Finding
  <2> QED
    BY <2>4, <2>5, <2>6, <2>8, SameRight DEF BaseInv
<1>4. ASSUME NEW n \in Nodes, CountSubmit(t, n)
      PROVE  AssocRight' /\ ThreadsRight' /\ NodesRight' /\ SubmitRight' /\ FullRight'
  <2>1. \A u \in Threads : /\ pc'[u] = IF u = t THEN "signal" ELSE pc[u]
                           /\ node'[u] = IF u = t THEN n ELSE node[u]
    BY <1>4 DEF CountSubmit, Goto, BaseInv, ThreadType
  <2>2. \A m \in Nodes : life'[m] = IF m = n THEN "spent" ELSE life[m]
    BY <1>4 DEF CountSubmit, BaseInv, PoolType
  <2>3. UNCHANGED <<assoc, submitter, num_in_flight, full_and_waiting, responsible_allocator>>
    BY <1>4 DEF CountSubmit
  <2>4. n \in Submitted /\ life[n] = "queued" /\ pc[t] = "notify"
    BY <1>1, <1>4 DEF CountSubmit, NextFreed, Submitted, BaseInv, SubmitRight
  <2>5. ThreadsRight'
    BY <1>1, <1>4, <2>3, ThreadSteps DEF CountSubmit, Goto, Finding
  <2>6. \A u \in Threads : node[u] # n
    <3>1. \A u \in Threads : pc[u] \in Finding \union {"signal", "release"} \union {"idle", "submit", "notify"}
      BY DEF BaseInv, ThreadType, Points, Finding
    <3>2. n \in Nodes /\ n # NoNode
      BY <2>4, SentinelsAssumption DEF CountSubmit
    <3>3. \A u \in Threads : pc[u] \in Finding => life[node[u]] = "acquired"
      BY DEF BaseInv, NodesRight
    <3>4. \A u \in Threads : pc[u] \in {"signal", "release"} => life[node[u]] = "spent"
      BY DEF BaseInv, NodesRight
    <3>5. \A u \in Threads : pc[u] \in {"idle", "submit", "notify"} => node[u] = NoNode
      BY DEF BaseInv, NodesRight
    <3> QED
      BY <2>4, <3>1, <3>2, <3>3, <3>4, <3>5
  <2>7. NodesRight'
    BY <2>1, <2>2, <2>3, <2>4, <2>6 DEF BaseInv, NodesRight, Finding
  <2>8. Submitted' = Submitted \ {n} /\ submitter' = t /\ pc'[t] = "signal"
    BY <1>1, <1>4, <2>1 DEF CountSubmit, Submitted
  <2>9. /\ \A m \in Submitted : life[m] = "queued" /\ m \in Nodes
        /\ \A m \in Nodes : life[m] = "queued" => m \in Submitted
    BY <1>1, <2>4 DEF BaseInv, SubmitRight, SubmitType, Submitted
  <2>10. SubmitRight'
    BY <1>1, <2>2, <2>8, <2>9 DEF SubmitRight, Finding
  <2> QED
    BY <2>3, <2>5, <2>7, <2>10, SameRight DEF BaseInv
<1>5. CASE SignalGPU(t)
  <2>1. \A u \in Threads : pc'[u] = IF u = t THEN "release" ELSE pc[u]
    BY <1>5 DEF SignalGPU, Goto, BaseInv, ThreadType
  <2>2. UNCHANGED <<assoc, node, pool, submit, counters>> /\ pc[t] = "signal"
    BY <1>5 DEF SignalGPU
  <2>3. ThreadsRight'
    BY <1>5, <2>2, ThreadSteps DEF SignalGPU, Goto, submit, Finding
  <2>4. NodesRight'
    BY <2>1, <2>2 DEF BaseInv, NodesRight, pool, Finding
  <2>5. Submitted' = Submitted /\ submitter' = submitter
    BY <2>2 DEF Submitted, submit
  <2>6. SubmitRight'
    BY <1>1, <2>1, <2>2, <2>5 DEF BaseInv, SubmitRight, pool, Finding
  <2> QED
    BY <2>2, <2>3, <2>4, <2>6, SameRight DEF BaseInv, counters
<1>6. CASE SubmitEnd(t)
  <2>1. \A u \in Threads : pc'[u] = IF u = t THEN "idle" ELSE pc[u]
    BY <1>6 DEF SubmitEnd, Goto, BaseInv, ThreadType
  <2>2. UNCHANGED <<assoc, node, pool, sub_lists, sub_barriers, counters>> /\ pc[t] = "notify"
        /\ submitter' = NoThread /\ Submitted = {}
    BY <1>6 DEF SubmitEnd
  <2>3. ThreadsRight'
    BY <1>1, <2>1, <2>2, SentinelsAssumption DEF BaseInv, ThreadsRight, assoc, Finding
  <2>4. NodesRight'
    BY <2>1, <2>2 DEF BaseInv, NodesRight, pool, Finding
  <2>5. Submitted' = {}
    BY <2>2 DEF Submitted
  <2>6. SubmitRight'
    BY <2>2, <2>5 DEF BaseInv, SubmitRight, pool
  <2> QED
    BY <2>2, <2>3, <2>4, <2>6, SameRight DEF BaseInv, counters
<1> QED
  BY <1>2, <1>3, <1>4, <1>5, <1>6 DEF Submit

LEMMA ApplicationRight ==
  ASSUME BaseInv, Application
  PROVE  BaseInv'
<1> SUFFICES AssocRight' /\ ThreadsRight' /\ NodesRight' /\ SubmitRight' /\ FullRight'
  BY ApplicationTypes DEF BaseInv
<1> USE Types
<1>1. ASSUME NEW t \in Threads, RecordCommandList(t)
      PROVE  AssocRight' /\ ThreadsRight' /\ NodesRight' /\ SubmitRight' /\ FullRight'
  <2>1. /\ AssocRight' /\ id' = id /\ ts_id'[t] = id /\ index'[t] = CurrentIndex(t)
        /\ \A u \in Threads \ {t} : ts_id'[u] = ts_id[u] /\ index'[u] = index[u]
    BY <1>1, IndexGiven DEF RecordCommandList, BaseInv
  <2>2. UNCHANGED <<submit, responsible_allocator, counters>> /\ pc[t] = "idle" /\ submitter # t
    BY <1>1 DEF RecordCommandList, BaseInv, ThreadsRight
  <2>3. NodesRight' /\ SubmitRight'
    <3>1. CASE AcquireNode(t)
      BY <2>2, <3>1, AcquireNodeRight DEF submit
    <3>2. CASE ~AcquireNode(t)
      BY <1>1, <2>2, <3>2, SameRight DEF RecordCommandList, BaseInv, submit
    <3> QED
      BY <3>1, <3>2
  <2>4. ThreadsRight'
    <3>1. CASE UNCHANGED pc
      BY <2>1, <2>2, <3>1 DEF BaseInv, ThreadsRight, submit, Finding
    <3>2. CASE pc' = [pc EXCEPT ![t] = "find"] /\ CurrentIndex(t) < NumThreads
      <4>1. \A u \in Threads : pc'[u] = IF u = t THEN "find" ELSE pc[u]
        BY <3>2 DEF BaseInv, ThreadType
      <4> QED
        BY <2>1, <2>2, <3>2, <4>1 DEF BaseInv, ThreadsRight, submit, Finding
    <3> QED
      BY <1>1, <3>1, <3>2 DEF RecordCommandList, AcquireNode, Goto
  <2> QED
    BY <2>1, <2>2, <2>3, <2>4, SameRight DEF BaseInv, counters
<1>2. ASSUME NEW t \in Threads, ThreadReplaced(t)
      PROVE  AssocRight' /\ ThreadsRight' /\ NodesRight' /\ SubmitRight' /\ FullRight'
  <2>1. /\ AssocRight' /\ id' = id
        /\ \A u \in Threads \ {t} : ts_id'[u] = ts_id[u] /\ index'[u] = index[u]
    BY <1>2, ThreadEndsRight DEF ThreadReplaced, BaseInv
  <2>2. UNCHANGED <<submit, pool, counters, pc, node>> /\ pc[t] = "idle" /\ submitter # t
    BY <1>2 DEF ThreadReplaced, BaseInv, ThreadsRight
  <2>3. ThreadsRight'
    BY <2>1, <2>2 DEF BaseInv, ThreadsRight, submit, Finding
  <2> QED
    BY <2>1, <2>2, <2>3, SameRight DEF BaseInv, counters, pool, submit
<1>3. ASSUME NEW t \in Threads, NEW n \in Nodes, Discard(t, n)
      PROVE  AssocRight' /\ ThreadsRight' /\ NodesRight' /\ SubmitRight' /\ FullRight'
  <2>1. \A u \in Threads : /\ pc'[u] = IF u = t THEN "release" ELSE pc[u]
                           /\ node'[u] = IF u = t THEN n ELSE node[u]
    BY <1>3 DEF Discard, Goto, BaseInv, ThreadType
  <2>2. \A m \in Nodes : life'[m] = IF m = n THEN "spent" ELSE life[m]
    BY <1>3 DEF Discard, BaseInv, PoolType
  <2>3. /\ UNCHANGED <<assoc, submit, num_in_flight, full_and_waiting, responsible_allocator>>
        /\ pc[t] = "idle" /\ submitter # t /\ life[n] = "recorded" /\ n \notin Submitted
    BY <1>3 DEF Discard, BaseInv, ThreadsRight, Submitted
  <2>4. ThreadsRight'
    BY <1>3, <2>3, ThreadSteps DEF Discard, Goto, submit, Finding
  <2>5. \A u \in Threads : node[u] # n
    <3>1. \A u \in Threads : pc[u] \in Finding \union {"signal", "release"} \union {"idle", "submit", "notify"}
      BY DEF BaseInv, ThreadType, Points, Finding
    <3> QED
      BY <2>3, <3>1, SentinelsAssumption DEF BaseInv, NodesRight
  <2>6. NodesRight'
    BY <2>1, <2>2, <2>3, <2>5 DEF BaseInv, NodesRight, Finding
  <2>7. Submitted' = Submitted /\ submitter' = submitter
    BY <2>3 DEF Submitted, submit
  <2>8. submitter # NoThread => pc'[submitter] = pc[submitter]
    BY <2>1, <2>3 DEF BaseInv, SubmitType
  <2>9. \A m \in Submitted : life'[m] = life[m]
    BY <2>2, <2>3 DEF BaseInv, SubmitType, Submitted
  <2>10. SubmitRight'
    BY <2>2, <2>7, <2>8, <2>9 DEF BaseInv, SubmitRight
  <2> QED
    BY <2>3, <2>4, <2>6, <2>10, SameRight DEF BaseInv
<1>4. ASSUME NEW t \in Threads, NEW cls \in SUBSET Nodes, NEW k \in 0 .. MaxBarriers,
             SubmitBegin(t, cls, k), GetCurrentIndex(t)
      PROVE  AssocRight' /\ ThreadsRight' /\ NodesRight' /\ SubmitRight' /\ FullRight'
  <2>1. /\ AssocRight' /\ id' = id /\ ts_id'[t] = id /\ index'[t] = CurrentIndex(t)
        /\ \A u \in Threads \ {t} : ts_id'[u] = ts_id[u] /\ index'[u] = index[u]
    BY <1>4, IndexGiven DEF SubmitBegin, BaseInv
  <2>2. /\ UNCHANGED <<pool, counters, node>> /\ pc[t] = "idle" /\ submitter = NoThread
        /\ \A l \in cls : life[l] = "recorded"
    BY <1>4 DEF SubmitBegin
  <2>3. CASE UNCHANGED <<pc, submit>>
    <3>1. ThreadsRight'
      BY <2>1, <2>2, <2>3 DEF BaseInv, ThreadsRight, submit, Finding
    <3> QED
      BY <2>1, <2>2, <2>3, <3>1, SameRight DEF BaseInv, submit, pool, counters
  <2>4. CASE /\ CurrentIndex(t) < NumThreads
             /\ submitter' = t /\ sub_lists' = cls /\ pc' = [pc EXCEPT ![t] = "submit"]
             /\ UNCHANGED sub_barriers
    <3>1. \A u \in Threads : pc'[u] = IF u = t THEN "submit" ELSE pc[u]
      BY <2>4 DEF BaseInv, ThreadType
    <3>2. ThreadsRight'
      BY <2>1, <2>2, <2>4, <3>1, SentinelsAssumption DEF BaseInv, ThreadsRight, Finding
    <3>3. NodesRight'
      BY <2>2, <3>1 DEF BaseInv, NodesRight, pool, Finding
    <3>4. Submitted' = cls /\ submitter' = t /\ pc'[t] = "submit" /\ t # NoThread
      BY <2>2, <2>4, <3>1, SentinelsAssumption DEF BaseInv, SubmitRight, Submitted
    <3>5. \A m \in Nodes : life[m] # "queued"
      BY <2>2 DEF BaseInv, SubmitRight
    <3>6. SubmitRight'
      BY <2>2, <3>4, <3>5 DEF SubmitRight, pool
    <3> QED
      BY <2>1, <2>2, <3>2, <3>3, <3>6, SameRight DEF BaseInv, counters
  <2> QED
    BY <1>4, <2>3, <2>4 DEF SubmitBegin, Goto
<1>5. CASE ReplaceBackend
  <2>1. /\ \A t \in Threads : pc[t] = "idle"
        /\ UNCHANGED <<pc, node, submit>>
    BY <1>5 DEF ReplaceBackend
  <2>2. submitter = NoThread
    BY <2>1 DEF BaseInv, ThreadsRight, SubmitType
  <2>3. CASE \A a \in Allocs : IsDestructible(a)
    <3>1. AssocRight'
      BY <1>5, <2>3, ReplacedRight DEF ReplaceBackend, BaseInv
    <3>2. \A n \in Nodes : life'[n] = "free"
      BY <1>5, <2>3 DEF ReplaceBackend
    <3>3. ThreadsRight'
      BY <2>1, <2>2, SentinelsAssumption DEF BaseInv, ThreadsRight, submit, Finding
    <3>4. NodesRight'
      BY <2>1, <3>2 DEF BaseInv, NodesRight, Finding
    <3>5. SubmitRight'
      BY <2>1, <2>2, <3>2 DEF BaseInv, SubmitRight, submit, Submitted
    <3>6. FullRight'
      <4>1. \A a \in Allocs : full_and_waiting'[a] = FALSE /\ num_in_flight'[a] = 0
        BY <1>5, <2>3 DEF ReplaceBackend
      <4> QED
        BY <4>1, SizesAssumption DEF FullRight
    <3> QED
      BY <3>1, <3>3, <3>4, <3>5, <3>6
  <2>4. CASE ~\A a \in Allocs : IsDestructible(a)
    BY <1>5, <2>1, <2>4, SameRight DEF ReplaceBackend, BaseInv, counters, pool, submit
  <2> QED
    BY <2>3, <2>4
<1>6. ASSUME NEW t \in Threads, NEW cls \in SUBSET Nodes, NEW k \in 0 .. MaxBarriers,
             SubmitBegin(t, cls, k), ~GetCurrentIndex(t)
      PROVE  AssocRight' /\ ThreadsRight' /\ NodesRight' /\ SubmitRight' /\ FullRight'
  <2>1. UNCHANGED <<assoc, pc, submit, counters, pool, node>>
    BY <1>6 DEF SubmitBegin
  <2> QED
    BY <2>1, SameRight DEF BaseInv, counters, pool, submit
<1> QED
  BY <1>1, <1>2, <1>3, <1>4, <1>5, <1>6 DEF Application

LEMMA ReleaseRight ==
  ASSUME BaseInv, NEW t \in Threads, ReleaseNode(t)
  PROVE  BaseInv'
<1> SUFFICES AssocRight' /\ ThreadsRight' /\ NodesRight' /\ SubmitRight' /\ FullRight'
  BY OtherTypes DEF BaseInv
<1> USE Types
<1> DEFINE to == IF submitter = t THEN "notify" ELSE "idle"
           n  == node[t]
<1>1. n \in Nodes /\ life[n] = "spent" /\ pc[t] = "release"
  BY DEF ReleaseNode, BaseInv, NodesRight
<1>2. UNCHANGED <<assoc, submit, counters>> /\ pc' = [pc EXCEPT ![t] = to]
  BY DEF ReleaseNode, Goto
<1>3. \A u \in Threads : /\ pc'[u] = IF u = t THEN to ELSE pc[u]
                         /\ node'[u] = IF u = t THEN NoNode ELSE node[u]
  BY DEF ReleaseNode, Goto, BaseInv, ThreadType
<1>4. \A m \in Nodes : /\ life'[m] = IF m = n THEN "free" ELSE life[m]
                       /\ m # n => responsible_allocator'[m] = responsible_allocator[m]
  BY DEF ReleaseNode, BaseInv, PoolType
<1>5. ThreadsRight'
  BY <1>2, ThreadSteps DEF submit, Finding
<1>6. \A u \in Threads \ {t} : node[u] # n
  BY <1>1, SentinelsAssumption DEF BaseInv, NodesRight
<1> HIDE DEF n
<1>7. NodesRight'
  BY <1>1, <1>3, <1>4, <1>6, SentinelsAssumption DEF BaseInv, NodesRight, Finding
<1>8. Submitted' = Submitted /\ submitter' = submitter
  BY <1>2 DEF Submitted, submit
<1>9. \A m \in Submitted : submitter # NoThread => m # n
  <2>1. ASSUME submitter # NoThread
        PROVE  pc[submitter] \in Finding \union {"submit", "notify", "signal", "release"}
    BY <2>1 DEF BaseInv, SubmitType, ThreadsRight, ThreadType, Points, Finding
  <2> QED
    BY <1>1, <2>1 DEF BaseInv, SubmitRight
<1>10. SubmitRight'
  <2>1. \A m \in Submitted : submitter # NoThread => life'[m] = life[m]
    BY <1>4, <1>9 DEF BaseInv, SubmitType, Submitted
  <2>2. submitter # NoThread => pc'[submitter] = IF submitter = t THEN "notify" ELSE pc[submitter]
    BY <1>3 DEF BaseInv, SubmitType
  <2> QED
    BY <1>1, <1>4, <1>8, <2>1, <2>2 DEF BaseInv, SubmitRight, Finding
<1> QED
  BY <1>2, <1>5, <1>7, <1>10, SameRight DEF BaseInv, counters

LEMMA GPURight ==
  ASSUME BaseInv, GPU
  PROVE  BaseInv'
<1>1. UNCHANGED <<assoc, counters, pool, pc, node, submit>>
  BY DEF GPU, FinishLists, SignalFence
<1> QED
  BY <1>1, OtherTypes, SameRight DEF BaseInv, pool, submit, counters

LEMMA BaseInvInit == Init => BaseInv
<1> SUFFICES ASSUME Init PROVE BaseInv
  OBVIOUS
<1>1. AssocType /\ AssocRight
  BY DEF Init, AssocInit, AssocType, AssocRight, Unassociated
<1>2. CounterType
  <2>1. 0 \in 0 .. ListsPerAlloc /\ 0 \in 0 .. NumAllocs - 1
    BY SizesAssumption
  <2> QED
    BY <2>1 DEF Init, CounterType
<1>3. PoolType /\ ThreadType /\ SubmitType /\ QueueType /\ AssertionType
  BY DEF Init, PoolType, ThreadType, SubmitType, QueueType, AssertionType, Points
<1>4. ThreadsRight
  BY SentinelsAssumption DEF Init, ThreadsRight, Finding
<1>5. NodesRight
  BY DEF Init, NodesRight, Finding
<1>6. SubmitRight
  BY DEF Init, SubmitRight, Submitted
<1>7. FullRight
  BY SizesAssumption DEF Init, FullRight
<1> QED
  BY <1>1, <1>2, <1>3, <1>4, <1>5, <1>6, <1>7, Types DEF BaseInv

LEMMA BaseInvStutter ==
  ASSUME BaseInv, UNCHANGED vars
  PROVE  BaseInv'
<1>1. UNCHANGED <<assoc, counters, fence, mActiveIndex, pool, queue, pc, node, it, submits, submit, assertion>>
  BY DEF vars
<1> QED
  BY <1>1, Types, TypesNext, SameTypes, SameRight DEF BaseInv, pool, submit, counters

LEMMA BaseInvStep == BaseInv /\ [Next]_vars => BaseInv'
  BY CreateRight, SubmitStepsRight, ApplicationRight, ReleaseRight, GPURight, BaseInvStutter DEF Next

\* Every variable has the type of the C++ member or local it stands for.
THEOREM TypeCorrect == Spec => []TypeOK
<1>1. BaseInv => TypeOK
  BY DEF BaseInv
<1> QED
  BY <1>1, BaseInvInit, BaseInvStep, PTL DEF Spec

\* Threads inside a call have allocators of their own (BackendD3D12.cc:546).
THEOREM OwnersAlwaysDiffer == Spec => []OwnersDiffer
<1>1. BaseInv => OwnersDiffer
  BY ActiveRight DEF OwnersDiffer, Finding
<1> QED
  BY <1>1, BaseInvInit, BaseInvStep, PTL DEF Spec

-----------------------------------------------------------------------------
(* The counters                                                            *)

\* What a thread has loaded of its active allocator is not more than it is now, and when it has
\* found the counters to agree, no list is open, nor will one be before it hands one out itself.
LoadsAt(t) ==
  /\ pc[t] = "loaded" =>
       submits[t] <= submit_counter[Active(t)] - submit_counter_at_last_reset[Active(t)]
  /\ pc[t] \in {"look", "wait"} => Open(Active(t)) = {}

LoadsRight == assertion = "none" => \A t \in Threads : LoadsAt(t)

CountInv == BaseInv /\ CountersExact /\ LoadsRight

LEMMA OpenFinite ==
  ASSUME NEW a
  PROVE  /\ IsFiniteSet(Open(a)) /\ Cardinality(Open(a)) \in Nat
         /\ Open(a) = {} <=> Cardinality(Open(a)) = 0
<1>1. Open(a) \subseteq Nodes
  BY DEF Open
<1>2. IsFiniteSet(Open(a))
  BY <1>1, FS_Subset, SizesAssumption
<1> QED
  BY <1>2, FS_CardinalityType, FS_EmptySet

\* Nodes that are taken, submitted or freed are as open, or not, as before.
LEMMA OpenSame ==
  ASSUME \A n \in Nodes :
           \/ UNCHANGED <<life[n], responsible_allocator[n]>>
           \/ /\ life[n] \in {"free", "acquired", "spent"} /\ life'[n] \in {"free", "acquired", "spent"}
           \/ /\ life[n] = "recorded" /\ life'[n] = "queued"
              /\ UNCHANGED responsible_allocator[n]
  PROVE  \A a \in Allocs : Open(a)' = Open(a)
  BY DEF Open

LEMMA CountersSame ==
  ASSUME CountersExact, UNCHANGED counters, \A a \in Allocs : Open(a)' = Open(a)
  PROVE  CountersExact'
<1>1. UNCHANGED <<num_in_flight, num_discarded, submit_counter, submit_counter_at_last_reset>>
  BY DEF counters
<1> QED
  BY <1>1 DEF CountersExact

\* A list of allocator a is open no more.
LEMMA OpenLess ==
  ASSUME BaseInv, NEW n \in Nodes, life[n] \in {"recorded", "queued"}, UNCHANGED responsible_allocator,
         \A m \in Nodes : life'[m] = IF m = n THEN "spent" ELSE life[m]
  PROVE  LET a == responsible_allocator[n]
         IN  /\ a \in Allocs
             /\ Cardinality(Open(a)') = Cardinality(Open(a)) - 1
             /\ \A b \in Allocs : Open(b)' \subseteq Open(b) /\ (b # a => Open(b)' = Open(b))
<1> DEFINE a == responsible_allocator[n]
<1>1. a \in Allocs
  BY DEF BaseInv, NodesRight
<1>2. Open(a)' = Open(a) \ {n} /\ n \in Open(a)
  BY DEF Open
<1>3. Cardinality(Open(a) \ {n}) = Cardinality(Open(a)) - 1
  BY <1>2, OpenFinite, FS_RemoveElement
<1>4. \A b \in Allocs : Open(b)' \subseteq Open(b) /\ (b # a => Open(b)' = Open(b))
  BY DEF Open
<1> QED
  BY <1>1, <1>2, <1>3, <1>4

\* An allocator looked at by one thread is left alone by all others.
LEMMA LoadsKept ==
  ASSUME BaseInv, TypeOK', NEW u \in Threads, pc[u] \in Finding => LoadsAt(u), pc'[u] = pc[u],
         pc[u] \in Finding =>
           /\ Active(u)' = Active(u) /\ submits'[u] = submits[u]
           /\ submit_counter'[Active(u)] >= submit_counter[Active(u)]
           /\ submit_counter_at_last_reset'[Active(u)] = submit_counter_at_last_reset[Active(u)]
           /\ Open(Active(u))' \subseteq Open(Active(u))
  PROVE  LoadsAt(u)'
<1>1. CASE pc[u] \in Finding
  <2> DEFINE a == Active(u)
  <2>1. a \in Allocs
    BY <1>1, ActiveRight
  <2>2. /\ submit_counter[a] \in Nat /\ submit_counter_at_last_reset[a] \in Nat /\ submits[u] \in Int
        /\ submit_counter'[a] \in Nat
    BY <1>1, <2>1, Types, TypesNext DEF BaseInv, CounterType, ThreadType
  <2>3. CASE pc[u] = "loaded"
    <3>1. submits[u] <= submit_counter[a] - submit_counter_at_last_reset[a]
      BY <1>1, <2>3 DEF LoadsAt
    <3>2. submits'[u] <= submit_counter'[a] - submit_counter_at_last_reset'[a]
      BY <1>1, <2>2, <3>1
    <3> QED
      BY <1>1, <2>3, <3>2 DEF LoadsAt
  <2>4. CASE pc[u] \in {"look", "wait"}
    <3>1. Open(a)' = {}
      BY <1>1, <2>4 DEF LoadsAt
    <3> QED
      BY <1>1, <2>4, <3>1 DEF LoadsAt
  <2>5. CASE pc[u] = "find"
    BY <1>1, <2>5 DEF LoadsAt
  <2> QED
    BY <1>1, <2>3, <2>4, <2>5 DEF Finding
<1>2. CASE pc[u] \notin Finding
  BY <1>2 DEF LoadsAt, Finding
<1> QED
  BY <1>1, <1>2

\* A thread that is elsewhere than in the middle of its loads.
LEMMA LoadsElsewhere ==
  ASSUME NEW u \in Threads, pc'[u] \notin {"loaded", "look", "wait"}
  PROVE  LoadsAt(u)'
  BY DEF LoadsAt

\* What one thread does in create is not seen by those at other allocators.
LEMMA CreateKeeps ==
  ASSUME BaseInv, TypeOK', NEW t \in Threads, NEW u \in Threads, u # t,
         pc[t] \in Finding, pc[u] \in Finding => LoadsAt(u), UNCHANGED <<index, submit_counter>>,
         pc'[u] = pc[u], submits'[u] = submits[u],
         \A i \in Indices : i # index[t] => mActiveIndex'[i] = mActiveIndex[i],
         \A b \in Allocs : b # Active(t) =>
            /\ submit_counter_at_last_reset'[b] = submit_counter_at_last_reset[b]
            /\ Open(b)' = Open(b)
  PROVE  LoadsAt(u)'
<1>1. CASE pc[u] \in Finding
  <2>1. /\ Active(u) \in Allocs /\ index[u] \in Indices
        /\ index[u] # index[t] /\ Active(u) # Active(t)
    BY <1>1, ActiveRight
  <2>2. Active(u)' = Active(u)
    BY <2>1 DEF Active
  <2>3. submit_counter'[Active(u)] >= submit_counter[Active(u)]
    BY <2>1, Types DEF BaseInv, CounterType
  <2>4. Open(Active(u))' = Open(Active(u))
    <3> DEFINE b == Active(u)
    <3>1. b' = b
      BY <2>2
    <3> HIDE DEF b
    <3>2. b \in Allocs /\ b # Active(t)
      BY <2>1 DEF b
    <3>3. Open(b)' = Open(b)
      BY <3>1, <3>2 DEF Open
    <3> QED
      BY <3>3 DEF b
  <2> QED
    BY <1>1, <2>1, <2>2, <2>3, <2>4, LoadsKept
<1>2. CASE pc[u] \notin Finding
  BY <1>2, LoadsElsewhere DEF Finding
<1> QED
  BY <1>1, <1>2

LEMMA DoResetCounts ==
  ASSUME CountInv, TypeOK', NEW t \in Threads, pc[t] \in {"look", "wait"}, assertion = "none", DoReset(t),
         UNCHANGED <<assoc, submit_counter, fence, pool, queue, node, submits, submit>>
  PROVE  CountersExact' /\ LoadsRight'
<1>1. pc[t] \in Finding
  BY DEF Finding
<1>a. PICK a \in Allocs : a = Active(t)
  BY <1>1, ActiveRight DEF CountInv
<1>2. a \in Allocs /\ Open(a) = {}
  BY <1>a DEF CountInv, LoadsRight, LoadsAt
<1>3. /\ num_in_flight'[a] = 0 /\ num_discarded'[a] = 0
      /\ submit_counter_at_last_reset'[a] = submit_counter[a] /\ submit_counter' = submit_counter
      /\ submit_counter[a] \in Nat
      /\ \A b \in Allocs : b # a =>
           /\ num_in_flight'[b] = num_in_flight[b] /\ num_discarded'[b] = num_discarded[b]
           /\ submit_counter_at_last_reset'[b] = submit_counter_at_last_reset[b]
  BY <1>a, <1>2, Types DEF DoReset, CountInv, BaseInv, CounterType
<1>4. \A b \in Allocs : Open(b)' = Open(b)
  BY OpenSame DEF pool
<1>5. CountersExact'
  <2>1. Cardinality(Open(a)') = 0
    BY <1>2, <1>4, FS_EmptySet
  <2> QED
    BY <1>3, <1>4, <2>1 DEF CountInv, CountersExact
<1>6. LoadsRight'
  <2>1. pc'[t] = "find" /\ \A u \in Threads : u # t => pc'[u] = pc[u]
    BY Types DEF DoReset, Goto, CountInv, BaseInv, ThreadType
  <2>2. LoadsAt(t)'
    BY <2>1, LoadsElsewhere
  <2>3. UNCHANGED <<index, submit_counter, mActiveIndex, submits>>
    BY DEF assoc, DoReset
  <2>4. ASSUME NEW u \in Threads, u # t
        PROVE  LoadsAt(u)'
    <3>1. \A b \in Allocs : b # Active(t) =>
            /\ submit_counter_at_last_reset'[b] = submit_counter_at_last_reset[b]
            /\ Open(b)' = Open(b)
      BY <1>a, <1>3, <1>4
    <3> QED
      BY <1>1, <2>1, <2>3, <2>4, <3>1, CreateKeeps DEF CountInv, LoadsRight
  <2> QED
    BY <2>2, <2>4 DEF LoadsRight
<1> QED
  BY <1>5, <1>6

LEMMA CreateCounts ==
  ASSUME CountInv, NEW t \in Threads, assertion = "none", Create(t)
  PROVE  CountersExact' /\ LoadsRight'
<1>1. pc[t] \in Finding
  BY DEF Create, TakeList, LoadSubmits, LoadDiscarded, LookAtFence, WaitForFence, Finding
<1>a. PICK a \in Allocs : a = Active(t)
  BY <1>1, ActiveRight DEF CountInv
<1>2. a \in Allocs /\ index[t] \in Indices
  BY <1>1, ActiveRight DEF CountInv
<1>3. TypeOK' /\ UNCHANGED assoc /\ UNCHANGED <<index, submit_counter>>
  <2>1. TypeOK'
    BY CreateTypes DEF CountInv
  <2>2. UNCHANGED assoc /\ UNCHANGED submit_counter
    BY DEF Create, TakeList, LoadSubmits, LoadDiscarded, LookAtFence, WaitForFence, counters
  <2> QED
    BY <2>1, <2>2 DEF assoc
<1>4. CASE TakeList(t)
  <2> DEFINE n == node[t]
  <2>1. n \in Nodes /\ life[n] = "acquired"
    BY <1>1 DEF CountInv, BaseInv, NodesRight
  <2> HIDE DEF n
  <2>2. \A m \in Nodes : /\ life'[m] = IF m = n THEN "recorded" ELSE life[m]
                         /\ responsible_allocator'[m] = IF m = n THEN a ELSE responsible_allocator[m]
    BY <1>a, <1>4, Types DEF TakeList, CountInv, BaseInv, PoolType, n
  <2>3. /\ Open(a)' = Open(a) \union {n} /\ n \notin Open(a)
        /\ \A b \in Allocs : b # a => Open(b)' = Open(b)
    BY <2>1, <2>2 DEF Open
  <2>4. Cardinality(Open(a) \union {n}) = Cardinality(Open(a)) + 1
    BY <2>3, OpenFinite, FS_AddElement
  <2>5. CountersExact'
    <3>1. /\ UNCHANGED <<num_discarded, submit_counter, submit_counter_at_last_reset>>
          /\ num_in_flight'[a] = num_in_flight[a] + 1
          /\ \A b \in Allocs : b # a => num_in_flight'[b] = num_in_flight[b]
      BY <1>a, <1>2, <1>4, Types DEF TakeList, CountInv, BaseInv, CounterType
    <3>2. Cardinality(Open(a)) \in Nat
      BY OpenFinite
    <3>3. /\ num_in_flight[a] \in Nat /\ num_discarded[a] \in Nat /\ submit_counter[a] \in Nat
          /\ submit_counter_at_last_reset[a] \in Nat
      BY <1>2, Types, SizesAssumption DEF CountInv, BaseInv, CounterType
    <3>4. ASSUME NEW b \in Allocs
          PROVE  num_in_flight'[b] = Cardinality(Open(b)') + num_discarded[b]
                                      + submit_counter[b] - submit_counter_at_last_reset[b]
      <4>1. num_in_flight[b] = Cardinality(Open(b)) + num_discarded[b]
                                + submit_counter[b] - submit_counter_at_last_reset[b]
        BY DEF CountInv, CountersExact
      <4>2. CASE b = a
        <5>1. Cardinality(Open(a)') = Cardinality(Open(a)) + 1
          BY <2>3, <2>4
        <5>2. num_in_flight[a] = Cardinality(Open(a)) + num_discarded[a]
                                  + submit_counter[a] - submit_counter_at_last_reset[a]
          BY DEF CountInv, CountersExact
        <5>3. num_in_flight'[a] = Cardinality(Open(a)') + num_discarded[a]
                                   + submit_counter[a] - submit_counter_at_last_reset[a]
          BY <3>1, <3>2, <3>3, <5>1, <5>2
        <5> QED
          BY <4>2, <5>3
      <4>3. CASE b # a
        BY <2>3, <3>1, <4>1, <4>3
      <4> QED
        BY <4>2, <4>3
    <3> QED
      BY <3>1, <3>4 DEF CountersExact
  <2>6. LoadsRight'
    <3>1. /\ pc'[t] \in {"submit", "idle"} /\ UNCHANGED <<mActiveIndex, submits, submit_counter_at_last_reset>>
          /\ \A u \in Threads : u # t => pc'[u] = pc[u]
      BY <1>4, Types DEF TakeList, Goto, CountInv, BaseInv, ThreadType
    <3>2. LoadsAt(t)'
      BY <3>1, LoadsElsewhere
    <3>3. ASSUME NEW u \in Threads, u # t
          PROVE  LoadsAt(u)'
      <4>1. \A b \in Allocs : b # Active(t) =>
              /\ submit_counter_at_last_reset'[b] = submit_counter_at_last_reset[b]
              /\ Open(b)' = Open(b)
        BY <1>a, <2>3, <3>1
      <4> QED
        BY <1>1, <1>3, <3>1, <3>3, <4>1, CreateKeeps DEF CountInv, LoadsRight
    <3> QED
      BY <3>2, <3>3 DEF LoadsRight
  <2> QED
    BY <2>5, <2>6
<1>5. CASE LoadSubmits(t) \/ LoadDiscarded(t) \/ (LookAtFence(t) /\ ~DoReset(t))
  <2>1. UNCHANGED counters /\ UNCHANGED pool
    BY <1>5 DEF LoadSubmits, LoadDiscarded, LookAtFence, counters
  <2>2. \A b \in Allocs : Open(b)' = Open(b)
    BY <2>1, OpenSame DEF pool
  <2>3. CountersExact'
    BY <2>1, <2>2, CountersSame DEF CountInv
  <2>4. /\ \A u \in Threads : u # t => pc'[u] = pc[u] /\ submits'[u] = submits[u]
        /\ \A i \in Indices : i # index[t] => mActiveIndex'[i] = mActiveIndex[i]
    BY <1>5, Types DEF LoadSubmits, LoadDiscarded, LookAtFence, NextAllocator, Goto, CountInv, BaseInv, ThreadType,
                       CounterType
  <2>5. ASSUME NEW u \in Threads, u # t
        PROVE  LoadsAt(u)'
    <3>1. \A b \in Allocs : b # Active(t) =>
            /\ submit_counter_at_last_reset'[b] = submit_counter_at_last_reset[b]
            /\ Open(b)' = Open(b)
      BY <2>1, <2>2 DEF counters
    <3> QED
      BY <1>1, <1>3, <2>4, <2>5, <3>1, CreateKeeps DEF CountInv, LoadsRight
  <2>6. assertion' = "none" => LoadsAt(t)'
    <3>1. CASE LoadSubmits(t)
      <4>1. /\ pc'[t] = "loaded" /\ UNCHANGED <<index, mActiveIndex>>
            /\ submits'[t] = submit_counter[a] - submit_counter_at_last_reset[a]
        BY <1>a, <1>3, <3>1, Types DEF LoadSubmits, Goto, CountInv, BaseInv, ThreadType
      <4>2. Active(t)' = a /\ UNCHANGED <<submit_counter, submit_counter_at_last_reset>>
        BY <1>a, <2>1, <4>1 DEF Active, counters
      <4>3. submit_counter[a] - submit_counter_at_last_reset[a] \in Int
        BY <1>2, Types DEF CountInv, BaseInv, CounterType
      <4> QED
        BY <4>1, <4>2, <4>3 DEF LoadsAt
    <3>2. CASE LoadDiscarded(t)
      <4> SUFFICES ASSUME assertion' = "none" PROVE LoadsAt(t)'
        OBVIOUS
      <4>1. CASE NextAllocator(t)
        <5>1. pc'[t] = "find"
          BY <3>2, <4>1, Types DEF NextAllocator, Goto, Fail, CountInv, BaseInv, ThreadType
        <5> QED
          BY <5>1, LoadsElsewhere
      <4>2. CASE ~NextAllocator(t)
        <5>1. /\ submits[t] = num_in_flight[a] - num_discarded[a] /\ UNCHANGED mActiveIndex
              /\ pc'[t] \in {"look", "wait"} /\ pc[t] = "loaded"
          BY <1>a, <3>2, <4>2, Types DEF LoadDiscarded, UpToDate, Fail, Goto, CountInv, BaseInv, ThreadType
        <5>2. submits[t] <= submit_counter[a] - submit_counter_at_last_reset[a]
          BY <1>a, <5>1 DEF CountInv, LoadsRight, LoadsAt
        <5>3. num_in_flight[a] = Cardinality(Open(a)) + num_discarded[a]
                                  + submit_counter[a] - submit_counter_at_last_reset[a]
          BY <1>2 DEF CountInv, CountersExact
        <5>4. /\ num_in_flight[a] \in Nat /\ num_discarded[a] \in Nat /\ submit_counter[a] \in Nat
              /\ submit_counter_at_last_reset[a] \in Nat
          BY <1>2, Types, SizesAssumption DEF CountInv, BaseInv, CounterType
        <5>5. Cardinality(Open(a)) \in Nat
          BY OpenFinite
        <5>6. Cardinality(Open(a)) = 0
          BY <5>1, <5>2, <5>3, <5>4, <5>5
        <5>7. Open(a) = {}
          BY <5>6, OpenFinite
        <5>8. Active(t)' = a
          BY <1>3, <5>1, <1>a DEF Active
        <5>9. Open(a)' = {}
          BY <1>2, <2>2, <5>7
        <5> QED
          BY <5>1, <5>8, <5>9 DEF LoadsAt
      <4> QED
        BY <4>1, <4>2
    <3>3. CASE LookAtFence(t) /\ ~DoReset(t)
      <4> SUFFICES ASSUME assertion' = "none" PROVE LoadsAt(t)'
        OBVIOUS
      <4>1. NextAllocator(t)
        BY <3>3 DEF LookAtFence, Fail
      <4>2. pc'[t] = "find"
        BY <3>3, <4>1, Types DEF NextAllocator, Goto, Fail, CountInv, BaseInv, ThreadType
      <4> QED
        BY <4>2, LoadsElsewhere
    <3> QED
      BY <1>5, <3>1, <3>2, <3>3
  <2> QED
    BY <2>3, <2>5, <2>6 DEF LoadsRight
<1>6. CASE LookAtFence(t) /\ DoReset(t)
  BY <1>3, <1>6, DoResetCounts DEF LookAtFence
<1>7. CASE WaitForFence(t)
  BY <1>3, <1>7, DoResetCounts DEF WaitForFence
<1> QED
  BY <1>4, <1>5, <1>6, <1>7 DEF Create

\* Whoever is not in create sees to it that open lists get fewer and submissions more, if anything.
LEMMA OutsideLoads ==
  ASSUME CountInv, TypeOK', assertion = "none",
         UNCHANGED <<mActiveIndex, submits, submit_counter_at_last_reset>>,
         \A u \in Threads : pc'[u] \in {"loaded", "look", "wait"} => pc'[u] = pc[u] /\ index'[u] = index[u],
         \A b \in Allocs : submit_counter'[b] >= submit_counter[b] /\ Open(b)' \subseteq Open(b)
  PROVE  LoadsRight'
<1>1. ASSUME NEW u \in Threads, pc'[u] \in {"loaded", "look", "wait"}
      PROVE  LoadsAt(u)'
  <2>1. pc'[u] = pc[u] /\ index'[u] = index[u] /\ pc[u] \in Finding
    BY <1>1 DEF Finding
  <2>2. PICK a \in Allocs : a = Active(u)
    BY <2>1, ActiveRight DEF CountInv
  <2>3. Active(u)' = a
    BY <2>1, <2>2 DEF Active
  <2>4. Open(a)' \subseteq Open(a)
    OBVIOUS
  <2>5. Open(Active(u))' \subseteq Open(Active(u))
    BY <2>2, <2>3, <2>4 DEF Open
  <2> QED
    BY <2>1, <2>2, <2>3, <2>5, LoadsKept DEF CountInv, LoadsRight
<1>2. ASSUME NEW u \in Threads
      PROVE  LoadsAt(u)'
  BY <1>1, <1>2, LoadsElsewhere
<1> QED
  BY <1>2 DEF LoadsRight

LEMMA OutsideCounts ==
  ASSUME CountInv, TypeOK', assertion = "none", UNCHANGED <<counters, mActiveIndex, submits>>,
         \A u \in Threads : pc'[u] \in {"loaded", "look", "wait"} => pc'[u] = pc[u] /\ index'[u] = index[u],
         \A b \in Allocs : Open(b)' = Open(b)
  PROVE  CountersExact' /\ LoadsRight'
<1>1. CountersExact'
  BY CountersSame DEF CountInv
<1>2. \A b \in Allocs : submit_counter'[b] >= submit_counter[b]
  BY Types DEF CountInv, BaseInv, CounterType, counters
<1> QED
  BY <1>1, <1>2, OutsideLoads DEF counters

\* A list that is discarded, or submitted, is counted as such.
LEMMA LessCounts ==
  ASSUME CountInv, TypeOK', assertion = "none", NEW n \in Nodes, life[n] \in {"recorded", "queued"},
         UNCHANGED <<responsible_allocator, num_in_flight, submit_counter_at_last_reset, mActiveIndex, submits>>,
         life' = [life EXCEPT ![n] = "spent"],
         \/ /\ num_discarded' = [num_discarded EXCEPT ![responsible_allocator[n]] = @ + 1]
            /\ UNCHANGED submit_counter
         \/ /\ submit_counter' = [submit_counter EXCEPT ![responsible_allocator[n]] = @ + 1]
            /\ UNCHANGED num_discarded,
         \A u \in Threads : pc'[u] \in {"loaded", "look", "wait"} => pc'[u] = pc[u] /\ index'[u] = index[u]
  PROVE  CountersExact' /\ LoadsRight'
<1>1. \A m \in Nodes : life'[m] = IF m = n THEN "spent" ELSE life[m]
  BY Types DEF CountInv, BaseInv, PoolType
<1>2. PICK a \in Allocs : a = responsible_allocator[n]
  BY DEF CountInv, BaseInv, NodesRight
<1>3. /\ Open(a)' = Open(a) \ {n} /\ n \in Open(a)
      /\ \A b \in Allocs : Open(b)' \subseteq Open(b) /\ (b # a => Open(b)' = Open(b))
  BY <1>1, <1>2 DEF Open
<1>4. Cardinality(Open(a)') = Cardinality(Open(a)) - 1 /\ Cardinality(Open(a)) \in Nat
  <2>1. Cardinality(Open(a) \ {n}) = Cardinality(Open(a)) - 1
    BY <1>3, OpenFinite, FS_RemoveElement
  <2> QED
    BY <1>3, <2>1, OpenFinite
<1>5. \A b \in Allocs :
        /\ submit_counter[b] \in Nat /\ num_discarded[b] \in Nat /\ num_in_flight[b] \in Nat
        /\ submit_counter_at_last_reset[b] \in Nat
  BY Types, SizesAssumption DEF CountInv, BaseInv, CounterType
<1>6. /\ \A b \in Allocs : b # a => submit_counter'[b] = submit_counter[b] /\ num_discarded'[b] = num_discarded[b]
      /\ num_discarded'[a] + submit_counter'[a] = num_discarded[a] + submit_counter[a] + 1
      /\ submit_counter'[a] >= submit_counter[a]
      /\ num_discarded'[a] \in Nat /\ submit_counter'[a] \in Nat
  <2>1. CASE num_discarded' = [num_discarded EXCEPT ![a] = num_discarded[a] + 1] /\ UNCHANGED submit_counter
    BY <1>5, <2>1, Types DEF CountInv, BaseInv, CounterType
  <2>2. CASE submit_counter' = [submit_counter EXCEPT ![a] = submit_counter[a] + 1] /\ UNCHANGED num_discarded
    BY <1>5, <2>2, Types DEF CountInv, BaseInv, CounterType
  <2> QED
    BY <1>2, <2>1, <2>2
<1>7. CountersExact'
  <2>1. ASSUME NEW b \in Allocs
        PROVE  num_in_flight[b] = Cardinality(Open(b)') + num_discarded'[b]
                                   + submit_counter'[b] - submit_counter_at_last_reset[b]
    <3>1. \A c \in Allocs : num_in_flight[c] = Cardinality(Open(c)) + num_discarded[c]
                              + submit_counter[c] - submit_counter_at_last_reset[c]
      BY DEF CountInv, CountersExact
    <3>2. CASE b = a
      <4>1. num_in_flight[a] = Cardinality(Open(a)') + num_discarded'[a]
                                + submit_counter'[a] - submit_counter_at_last_reset[a]
        <5>1. num_in_flight[a] = Cardinality(Open(a)) + num_discarded[a]
                                  + submit_counter[a] - submit_counter_at_last_reset[a]
          BY <3>1
        <5>2. /\ submit_counter[a] \in Nat /\ num_discarded[a] \in Nat
              /\ submit_counter_at_last_reset[a] \in Nat
          BY <1>5
        <5> QED
          BY <1>4, <1>6, <5>1, <5>2
      <4> QED
        BY <3>2, <4>1
    <3>3. CASE b # a
      BY <1>3, <1>6, <3>1, <3>3
    <3> QED
      BY <3>2, <3>3
  <2> QED
    BY <2>1 DEF CountersExact
<1>8. \A b \in Allocs : submit_counter'[b] >= submit_counter[b]
  BY <1>5, <1>6
<1>9. LoadsRight'
  BY <1>3, <1>8, OutsideLoads
<1> QED
  BY <1>7, <1>9

LEMMA SubmitCounts ==
  ASSUME CountInv, NEW t \in Threads, assertion = "none", Submit(t)
  PROVE  CountersExact' /\ LoadsRight'
<1>1. TypeOK'
  BY SubmitTypes DEF CountInv
<1>2. UNCHANGED <<mActiveIndex, submits, index>>
  BY DEF Submit, CreateBarrierList, ExecuteCommandLists, CountSubmit, SignalGPU, SubmitEnd, assoc
<1>3. \A u \in Threads : pc'[u] \in {"loaded", "look", "wait"} => pc'[u] = pc[u] /\ index'[u] = index[u]
  <2>1. \/ UNCHANGED pc
        \/ \E to \in {"find", "notify", "signal", "release", "idle"} : pc' = [pc EXCEPT ![t] = to]
    BY DEF Submit, CreateBarrierList, AcquireNode, ExecuteCommandLists, CountSubmit, SignalGPU, SubmitEnd, Goto
  <2> QED
    BY <1>2, <2>1, Types DEF CountInv, BaseInv, ThreadType
<1>4. ASSUME NEW n \in Nodes, CountSubmit(t, n)
      PROVE  CountersExact' /\ LoadsRight'
  <2>1. life[n] = "queued"
    <3>1. submitter = t /\ n \in Submitted /\ pc[t] = "notify"
      BY <1>4 DEF CountSubmit, NextFreed, Submitted, CountInv, BaseInv, ThreadsRight
    <3> QED
      BY <3>1, SentinelsAssumption DEF CountInv, BaseInv, SubmitRight
  <2> QED
    BY <1>1, <1>3, <1>4, <2>1, LessCounts DEF CountSubmit
<1>5. CASE CreateBarrierList(t) \/ ExecuteCommandLists(t) \/ SignalGPU(t) \/ SubmitEnd(t)
  <2>1. UNCHANGED counters
    BY <1>5 DEF CreateBarrierList, ExecuteCommandLists, SignalGPU, SubmitEnd
  <2>2. \A b \in Allocs : Open(b)' = Open(b)
    <3>1. CASE CreateBarrierList(t)
      <4>1. \/ UNCHANGED life
            \/ \E n \in Nodes : life[n] = "free" /\ life' = [life EXCEPT ![n] = "acquired"]
        BY <3>1 DEF CreateBarrierList, AcquireNode
      <4>2. UNCHANGED responsible_allocator
        BY <3>1 DEF CreateBarrierList
      <4> QED
        BY <4>1, <4>2, OpenSame, Types DEF CountInv, BaseInv, PoolType
    <3>2. CASE ExecuteCommandLists(t)
      <4>1. \A n \in Submitted : life[n] = "recorded"
        BY <3>2, SentinelsAssumption DEF ExecuteCommandLists, CountInv, BaseInv, ThreadsRight, SubmitRight
      <4>2. \A n \in Nodes : life'[n] = IF n \in Submitted THEN "queued" ELSE life[n]
        BY <3>2 DEF ExecuteCommandLists
      <4>3. UNCHANGED responsible_allocator
        BY <3>2 DEF ExecuteCommandLists
      <4> QED
        BY <4>1, <4>2, <4>3, OpenSame
    <3>3. CASE SignalGPU(t) \/ SubmitEnd(t)
      BY <3>3, OpenSame DEF SignalGPU, SubmitEnd, pool
    <3> QED
      BY <1>5, <3>1, <3>2, <3>3
  <2> QED
    BY <1>1, <1>2, <1>3, <2>1, <2>2, OutsideCounts
<1> QED
  BY <1>4, <1>5 DEF Submit

LEMMA OtherCounts ==
  ASSUME CountInv, assertion = "none"
  PROVE  /\ Application => CountersExact' /\ LoadsRight'
         /\ \A t \in Threads : ReleaseNode(t) => CountersExact' /\ LoadsRight'
         /\ GPU => CountersExact' /\ LoadsRight'
<1>1. ASSUME NEW t \in Threads, RecordCommandList(t)
      PROVE  CountersExact' /\ LoadsRight'
  <2>1. TypeOK'
    BY <1>1, ApplicationTypes DEF Application, CountInv
  <2>2. /\ UNCHANGED <<counters, mActiveIndex, submits, responsible_allocator>>
        /\ \/ UNCHANGED <<life, pc>>
           \/ /\ \E n \in Nodes : life[n] = "free" /\ life' = [life EXCEPT ![n] = "acquired"]
              /\ pc' = [pc EXCEPT ![t] = "find"]
    BY <1>1 DEF RecordCommandList, AcquireNode, Goto
  <2>3. \A u \in Threads \ {t} : index'[u] = index[u]
    BY <1>1, IndexGiven, Types DEF RecordCommandList, CountInv, BaseInv
  <2>4. \A u \in Threads : pc'[u] \in {"loaded", "look", "wait"} => pc'[u] = pc[u] /\ index'[u] = index[u]
    BY <1>1, <2>2, <2>3, Types DEF RecordCommandList, CountInv, BaseInv, ThreadType
  <2>5. \A b \in Allocs : Open(b)' = Open(b)
    BY <2>2, OpenSame, Types DEF CountInv, BaseInv, PoolType
  <2> QED
    BY <2>1, <2>2, <2>4, <2>5, OutsideCounts
<1>2. ASSUME NEW t \in Threads, ThreadReplaced(t)
      PROVE  CountersExact' /\ LoadsRight'
  <2>1. TypeOK'
    BY <1>2, ApplicationTypes DEF Application, CountInv
  <2>2. \A u \in Threads : pc'[u] \in {"loaded", "look", "wait"} => pc'[u] = pc[u] /\ index'[u] = index[u]
    BY <1>2, ThreadEndsRight, Types DEF ThreadReplaced, CountInv, BaseInv
  <2>3. \A b \in Allocs : Open(b)' = Open(b)
    BY <1>2, OpenSame DEF ThreadReplaced, pool
  <2> QED
    BY <1>2, <2>1, <2>2, <2>3, OutsideCounts DEF ThreadReplaced
<1>3. ASSUME NEW t \in Threads, NEW n \in Nodes, Discard(t, n)
      PROVE  CountersExact' /\ LoadsRight'
  <2>1. TypeOK'
    BY <1>3, ApplicationTypes DEF Application, CountInv
  <2>2. \A u \in Threads : pc'[u] \in {"loaded", "look", "wait"} => pc'[u] = pc[u] /\ index'[u] = index[u]
    BY <1>3, Types DEF Discard, Goto, assoc, CountInv, BaseInv, ThreadType
  <2> QED
    BY <1>3, <2>1, <2>2, LessCounts DEF Discard
<1>4. ASSUME NEW t \in Threads, NEW cls \in SUBSET Nodes, NEW k \in 0 .. MaxBarriers,
             SubmitBegin(t, cls, k)
      PROVE  CountersExact' /\ LoadsRight'
  <2>1. TypeOK'
    BY <1>4, ApplicationTypes DEF Application, CountInv
  <2>2. /\ UNCHANGED <<counters, mActiveIndex, submits, pool>> /\ pc[t] = "idle"
        /\ UNCHANGED pc \/ pc' = [pc EXCEPT ![t] = "submit"]
    BY <1>4 DEF SubmitBegin, Goto
  <2>3. \A u \in Threads \ {t} : index'[u] = index[u]
    <3>1. GetCurrentIndex(t) \/ UNCHANGED assoc
      BY <1>4 DEF SubmitBegin
    <3> QED
      BY <3>1, IndexGiven, Types DEF CountInv, BaseInv, assoc
  <2>4. \A u \in Threads : pc'[u] \in {"loaded", "look", "wait"} => pc'[u] = pc[u] /\ index'[u] = index[u]
    BY <2>2, <2>3, Types DEF CountInv, BaseInv, ThreadType
  <2>5. \A b \in Allocs : Open(b)' = Open(b)
    BY <2>2, OpenSame DEF pool
  <2> QED
    BY <2>1, <2>2, <2>4, <2>5, OutsideCounts
<1>5. CASE ReplaceBackend
  <2>1. \A t \in Threads : pc[t] = "idle" /\ UNCHANGED pc
    BY <1>5 DEF ReplaceBackend
  <2>2. LoadsRight'
    BY <2>1 DEF LoadsRight, LoadsAt
  <2>3. CASE \A a \in Allocs : IsDestructible(a)
    <3>1. \A n \in Nodes : life'[n] = "free"
      BY <1>5, <2>3 DEF ReplaceBackend
    <3>2. \A a \in Allocs : Open(a)' = {}
      BY <3>1 DEF Open
    <3>3. \A a \in Allocs : Cardinality(Open(a)') = 0
      BY <3>2, FS_EmptySet
    <3>4. \A a \in Allocs : /\ num_in_flight'[a] = 0 /\ num_discarded'[a] = 0
                            /\ submit_counter'[a] = 0 /\ submit_counter_at_last_reset'[a] = 0
      BY <1>5, <2>3 DEF ReplaceBackend
    <3>5. CountersExact'
      BY <3>3, <3>4 DEF CountersExact
    <3> QED
      BY <2>2, <3>5
  <2>4. CASE ~\A a \in Allocs : IsDestructible(a)
    <3>1. UNCHANGED counters /\ UNCHANGED pool
      BY <1>5, <2>4 DEF ReplaceBackend
    <3>2. \A b \in Allocs : Open(b)' = Open(b)
      BY <3>1, OpenSame DEF pool
    <3> QED
      BY <2>2, <3>1, <3>2, CountersSame DEF CountInv
  <2> QED
    BY <2>3, <2>4
<1>6. ASSUME NEW t \in Threads, ReleaseNode(t)
      PROVE  CountersExact' /\ LoadsRight'
  <2>1. TypeOK'
    BY <1>6, OtherTypes DEF CountInv
  <2>2. UNCHANGED <<counters, mActiveIndex, submits, index>>
    BY <1>6 DEF ReleaseNode, assoc
  <2>3. \A u \in Threads : pc'[u] \in {"loaded", "look", "wait"} => pc'[u] = pc[u] /\ index'[u] = index[u]
    BY <1>6, <2>2, Types DEF ReleaseNode, Goto, CountInv, BaseInv, ThreadType
  <2>4. life[node[t]] = "spent" /\ node[t] \in Nodes
    BY <1>6 DEF ReleaseNode, CountInv, BaseInv, NodesRight
  <2>5. \A n \in Nodes : \/ UNCHANGED <<life[n], responsible_allocator[n]>>
                         \/ life[n] = "spent" /\ life'[n] = "free"
    BY <1>6, <2>4, Types DEF ReleaseNode, CountInv, BaseInv, PoolType
  <2>6. \A b \in Allocs : Open(b)' = Open(b)
    BY <2>5, OpenSame
  <2> QED
    BY <2>1, <2>2, <2>3, <2>6, OutsideCounts
<1>7. CASE GPU
  <2>1. TypeOK'
    BY <1>7, OtherTypes DEF CountInv
  <2>2. UNCHANGED <<counters, mActiveIndex, submits, index, pc, pool>>
    BY <1>7 DEF GPU, FinishLists, SignalFence, assoc
  <2>3. \A b \in Allocs : Open(b)' = Open(b)
    BY <2>2, OpenSame DEF pool
  <2> QED
    BY <2>1, <2>2, <2>3, OutsideCounts
<1> QED
  BY <1>1, <1>2, <1>3, <1>4, <1>5, <1>6, <1>7 DEF Application

LEMMA CountInvInit == Init => CountInv
<1> SUFFICES ASSUME Init PROVE CountersExact /\ LoadsRight
  BY BaseInvInit DEF CountInv
<1>1. \A a \in Allocs : Open(a) = {}
  BY DEF Init, Open
<1>2. \A a \in Allocs : Cardinality(Open(a)) = 0
  BY <1>1, FS_EmptySet
<1>3. CountersExact
  BY <1>2 DEF Init, CountersExact
<1>4. LoadsRight
  BY DEF Init, LoadsRight, LoadsAt
<1> QED
  BY <1>3, <1>4

LEMMA CountInvStep == CountInv /\ [Next]_vars => CountInv'
<1> SUFFICES ASSUME CountInv, [Next]_vars PROVE CountersExact' /\ LoadsRight'
  BY BaseInvStep DEF CountInv
<1>1. CASE UNCHANGED vars
  <2>1. UNCHANGED <<assoc, counters, mActiveIndex, pool, pc, submits, assertion>>
    BY <1>1 DEF vars
  <2>2. \A b \in Allocs : Open(b)' = Open(b)
    BY <2>1, OpenSame DEF pool
  <2>3. CountersExact'
    BY <2>1, <2>2, CountersSame DEF CountInv
  <2>4. LoadsRight'
    BY <2>1 DEF CountInv, LoadsRight, LoadsAt, Active, Open, assoc, counters, pool
  <2> QED
    BY <2>3, <2>4
<1>2. CASE Next
  BY <1>2, CreateCounts, SubmitCounts, OtherCounts DEF Next
<1> QED
  BY <1>1, <1>2

\* Whatever an allocator handed out since its last reset is open, or was counted once
\* (cmd_list_pool.cc:105): is_submit_counter_up_to_date takes this for granted.
THEOREM CountersAlwaysExact == Spec => []CountersExact
<1>1. CountInv => CountersExact
  BY DEF CountInv
<1> QED
  BY <1>1, CountInvInit, CountInvStep, PTL DEF Spec

-----------------------------------------------------------------------------
(* The queue                                                               *)

\* submit has counted a list of a, and its signal is still to come
Owes(a) == \E t \in Threads : pc[t] = "signal" /\ responsible_allocator[node[t]] = a

Signals(i, a)  == i \in DOMAIN queue /\ queue[i].op = "signal" /\ a \in queue[i].allocs
Executes(i, a) == i \in DOMAIN queue /\ queue[i].op = "execute" /\ a \in queue[i].allocs

\* Signals of an allocator are between its fence and its counter, in order, and the counter is
\* ahead of them while one is owed.
SignalsRight ==
  \A a \in Allocs :
    /\ fence[a] <= submit_counter[a]
    /\ Owes(a) => fence[a] < submit_counter[a]
    /\ \A i \in DOMAIN queue : Signals(i, a) =>
         /\ fence[a] < queue[i].value /\ queue[i].value <= submit_counter[a]
         /\ Owes(a) => queue[i].value < submit_counter[a]
         /\ \A j \in DOMAIN queue : Signals(j, a) /\ i < j => queue[i].value < queue[j].value

\* The last of them is that of the counter: a fence behind its counter will reach it.
SignalsComing ==
  \A a \in Allocs :
    \/ fence[a] = submit_counter[a]
    \/ Owes(a)
    \/ \E i \in DOMAIN queue : Signals(i, a) /\ queue[i].value = submit_counter[a]

\* lists on their way through the GPU are followed by a signal, or will be
ExecutionsRight ==
  \A a \in Allocs : \A i \in DOMAIN queue : Executes(i, a) =>
    \/ \E j \in DOMAIN queue : i < j /\ Signals(j, a)
    \/ Owes(a)
    \/ \E n \in Nodes : life[n] = "queued" /\ responsible_allocator[n] = a

QueueInv == CountInv /\ SignalsRight /\ SignalsComing /\ ExecutionsRight

LEMMA OperationRight ==
  ASSUME QueueType
  PROVE  /\ Len(queue) \in Nat /\ DOMAIN queue = 1 .. Len(queue)
         /\ \A i \in DOMAIN queue : /\ queue[i].op \in {"execute", "signal"}
                                   /\ queue[i].allocs \subseteq Allocs
                                   /\ queue[i].value \in Nat
<1>1. Len(queue) \in Nat /\ DOMAIN queue = 1 .. Len(queue)
  BY DEF QueueType
<1>2. \A i \in DOMAIN queue : queue[i] \in Operation
  BY <1>1, ElementOfSeq DEF QueueType
<1> QED
  BY <1>1, <1>2 DEF Operation

\* A fence that has reached its counter: nothing of the allocator is on the GPU.
LEMMA FenceReachedDone ==
  ASSUME QueueInv, NEW a \in Allocs, fence[a] >= submit_counter[a], Open(a) = {}
  PROVE  Uses(a) = {}
<1>1. fence[a] = submit_counter[a] /\ submit_counter[a] \in Nat
  BY Types DEF QueueInv, CountInv, BaseInv, CounterType, SignalsRight
<1>2. ~Owes(a)
  BY <1>1 DEF QueueInv, SignalsRight
<1>3. \A i \in DOMAIN queue : ~Signals(i, a)
  <2> SUFFICES ASSUME NEW i \in DOMAIN queue, Signals(i, a) PROVE FALSE
    OBVIOUS
  <2>1. fence[a] < queue[i].value /\ queue[i].value <= submit_counter[a]
    BY DEF QueueInv, SignalsRight
  <2>2. queue[i].value \in Nat
    BY Types, OperationRight DEF QueueInv, CountInv, BaseInv
  <2> QED
    BY <1>1, <2>1, <2>2
<1>4. \A n \in Nodes : ~(life[n] = "queued" /\ responsible_allocator[n] = a)
  BY DEF Open
<1>5. \A i \in DOMAIN queue : ~Executes(i, a)
  BY <1>2, <1>3, <1>4 DEF QueueInv, ExecutionsRight
<1>6. \A i \in DOMAIN queue : queue[i].op \in {"execute", "signal"}
  BY Types, OperationRight DEF QueueInv, CountInv, BaseInv
<1> QED
  BY <1>3, <1>5, <1>6 DEF Uses, Signals, Executes

LEMMA OwesSame ==
  ASSUME \A u \in Threads : pc'[u] = "signal" <=> pc[u] = "signal",
         \A u \in Threads : pc[u] = "signal" =>
           node'[u] = node[u] /\ responsible_allocator'[node[u]] = responsible_allocator[node[u]]
  PROVE  \A a \in Allocs : Owes(a)' <=> Owes(a)
  BY DEF Owes

LEMMA QueueKept ==
  ASSUME SignalsRight, SignalsComing, ExecutionsRight, UNCHANGED <<queue, fence, submit_counter>>,
         \A a \in Allocs : Owes(a)' <=> Owes(a),
         \A n \in Nodes : life[n] = "queued" =>
           life'[n] = "queued" /\ responsible_allocator'[n] = responsible_allocator[n]
  PROVE  SignalsRight' /\ SignalsComing' /\ ExecutionsRight'
<1>1. \A a, i : (Signals(i, a)' <=> Signals(i, a)) /\ (Executes(i, a)' <=> Executes(i, a))
  BY DEF Signals, Executes
<1>2. SignalsRight'
  BY <1>1 DEF SignalsRight
<1>3. SignalsComing'
  BY <1>1 DEF SignalsComing
<1>4. ExecutionsRight'
  BY <1>1 DEF ExecutionsRight
<1> QED
  BY <1>2, <1>3, <1>4

\* One step of one thread that neither counts nor signals, to a place that is not about to.
LEMMA QuietStep ==
  ASSUME QueueInv, NEW t \in Threads, NEW to, pc' = [pc EXCEPT ![t] = to], to # "signal", pc[t] # "signal",
         UNCHANGED <<queue, fence, submit_counter>>,
         \A u \in Threads : u # t => node'[u] = node[u],
         \A n \in Nodes : life[n] \in {"queued", "spent"} /\ n # node[t] =>
           /\ life'[n] = life[n] \/ life[n] = "spent"
           /\ responsible_allocator'[n] = responsible_allocator[n],
         \A n \in Nodes : life[n] = "queued" => n # node[t]
  PROVE  SignalsRight' /\ SignalsComing' /\ ExecutionsRight'
<1>1. \A u \in Threads : pc'[u] = "signal" <=> pc[u] = "signal"
  BY Types DEF QueueInv, CountInv, BaseInv, ThreadType
<1>2. \A u \in Threads : pc[u] = "signal" =>
        node'[u] = node[u] /\ responsible_allocator'[node[u]] = responsible_allocator[node[u]]
  BY SentinelsAssumption DEF QueueInv, CountInv, BaseInv, NodesRight
<1>3. \A a \in Allocs : Owes(a)' <=> Owes(a)
  BY <1>1, <1>2, OwesSame
<1> QED
  BY <1>3, QueueKept DEF QueueInv

LEMMA CreateQueue ==
  ASSUME QueueInv, NEW t \in Threads, Create(t)
  PROVE  SignalsRight' /\ SignalsComing' /\ ExecutionsRight'
<1>1. /\ pc[t] \in Finding /\ node[t] \in Nodes /\ life[node[t]] = "acquired"
  BY DEF Create, TakeList, LoadSubmits, LoadDiscarded, LookAtFence, WaitForFence, Finding, QueueInv, CountInv, BaseInv,
         NodesRight
<1>2. UNCHANGED <<queue, fence, submit_counter>>
  BY DEF Create, TakeList, LoadSubmits, LoadDiscarded, LookAtFence, WaitForFence, counters
<1>3. \E to \in Finding \union {"submit", "idle"} : pc' = [pc EXCEPT ![t] = to]
  <2>1. UNCHANGED pc => pc' = [pc EXCEPT ![t] = pc[t]]
    BY Types DEF QueueInv, CountInv, BaseInv, ThreadType
  <2> QED
    BY <1>1, <2>1 DEF Create, TakeList, LoadSubmits, LoadDiscarded, LookAtFence, WaitForFence, NextAllocator, DoReset,
                      Goto, Finding
<1>4. \A u \in Threads : u # t => node'[u] = node[u]
  BY Types DEF Create, TakeList, LoadSubmits, LoadDiscarded, LookAtFence, WaitForFence, QueueInv, CountInv, BaseInv,
               ThreadType
<1>5. \A n \in Nodes : n # node[t] =>
        life'[n] = life[n] /\ responsible_allocator'[n] = responsible_allocator[n]
  BY <1>1, Types DEF Create, TakeList, LoadSubmits, LoadDiscarded, LookAtFence, WaitForFence, pool, QueueInv, CountInv,
                     BaseInv, PoolType
<1>6. PICK to \in Finding \union {"submit", "idle"} : pc' = [pc EXCEPT ![t] = to]
  BY <1>3
<1>7. to # "signal" /\ pc[t] # "signal"
  BY <1>1, <1>6 DEF Finding
<1> QED
  BY <1>1, <1>2, <1>4, <1>5, <1>6, <1>7, QuietStep

\* One more operation at the end of the queue.
LEMMA QueueAppended ==
  ASSUME QueueType, NEW op \in Operation, queue' = Append(queue, op)
  PROVE  LET last == Len(queue) + 1
         IN  /\ Len(queue) \in Nat /\ DOMAIN queue = 1 .. Len(queue)
             /\ DOMAIN queue' = 1 .. last /\ queue'[last] = op
             /\ \A i \in DOMAIN queue : queue'[i] = queue[i]
  BY DEF QueueType

LEMMA ExecuteQueue ==
  ASSUME QueueInv, NEW t \in Threads, ExecuteCommandLists(t)
  PROVE  SignalsRight' /\ SignalsComing' /\ ExecutionsRight'
<1> DEFINE op == [op |-> "execute", allocs |-> {responsible_allocator[n] : n \in Submitted}, value |-> 0]
           last == Len(queue) + 1
<1>1. /\ submitter = t /\ submitter # NoThread /\ pc[t] = "submit"
      /\ \A n \in Submitted : n \in Nodes /\ life[n] = "recorded"
  BY SentinelsAssumption, Types DEF ExecuteCommandLists, QueueInv, CountInv, BaseInv, ThreadsRight, SubmitRight,
                                    SubmitType, Submitted
<1>2. \A n \in Submitted : responsible_allocator[n] \in Allocs
  BY <1>1 DEF QueueInv, CountInv, BaseInv, NodesRight
<1>3. op \in Operation /\ op.op = "execute"
  BY <1>2 DEF Operation
<1>4. queue' = Append(queue, op)
  BY DEF ExecuteCommandLists
<1>5. \A a \in op.allocs : \E n \in Submitted : responsible_allocator[n] = a
  OBVIOUS
<1> HIDE DEF op
<1>6. /\ Len(queue) \in Nat /\ DOMAIN queue = 1 .. Len(queue)
      /\ DOMAIN queue' = 1 .. last /\ queue'[last] = op
      /\ \A i \in DOMAIN queue : queue'[i] = queue[i]
  BY <1>3, <1>4, QueueAppended, Types DEF QueueInv, CountInv, BaseInv
<1> HIDE DEF last
<1>7. /\ \A i, a : Signals(i, a)' <=> Signals(i, a)
      /\ \A i, a : Executes(i, a)' <=> Executes(i, a) \/ (i = last /\ a \in op.allocs)
  BY <1>3, <1>6 DEF Signals, Executes, last
<1>8. /\ UNCHANGED <<fence, submit_counter, node, responsible_allocator>>
      /\ \A u \in Threads : pc'[u] = IF u = t THEN "notify" ELSE pc[u]
      /\ \A n \in Nodes : life'[n] = IF n \in Submitted THEN "queued" ELSE life[n]
  BY Types DEF ExecuteCommandLists, Goto, counters, QueueInv, CountInv, BaseInv, ThreadType
<1>9. \A a \in Allocs : Owes(a)' <=> Owes(a)
  BY <1>1, <1>8, OwesSame
<1>10. SignalsRight'
  <2>1. \A i, a : Signals(i, a)' => i \in DOMAIN queue /\ queue'[i] = queue[i]
    BY <1>6, <1>7 DEF Signals
  <2> QED
    BY <1>7, <1>8, <1>9, <2>1 DEF QueueInv, SignalsRight
<1>11. ExecutionsRight'
  <2> SUFFICES ASSUME NEW a \in Allocs, NEW i \in DOMAIN queue', Executes(i, a)'
               PROVE  \/ \E j \in DOMAIN queue' : i < j /\ Signals(j, a)'
                      \/ Owes(a)'
                      \/ \E n \in Nodes : life'[n] = "queued" /\ responsible_allocator'[n] = a
    BY DEF ExecutionsRight
  <2>1. CASE Executes(i, a)
    <3>1. i \in DOMAIN queue
      BY <2>1 DEF Executes
    <3>2. \A j \in DOMAIN queue : j \in DOMAIN queue'
      BY <1>6 DEF last
    <3> QED
      BY <1>7, <1>8, <1>9, <2>1, <3>1, <3>2 DEF QueueInv, ExecutionsRight
  <2>2. CASE a \in op.allocs
    BY <1>1, <1>5, <1>8, <2>2
  <2> QED
    BY <1>7, <2>1, <2>2
<1>12. SignalsComing'
  <2>1. \A i \in DOMAIN queue : i \in DOMAIN queue' /\ queue'[i] = queue[i]
    BY <1>6 DEF last
  <2> QED
    BY <1>7, <1>8, <1>9, <2>1 DEF QueueInv, SignalsComing
<1> QED
  BY <1>10, <1>11, <1>12

LEMMA CountQueue ==
  ASSUME QueueInv, NEW t \in Threads, NEW n \in Nodes, CountSubmit(t, n)
  PROVE  SignalsRight' /\ SignalsComing' /\ ExecutionsRight'
<1>1. submitter = t /\ n \in Submitted /\ pc[t] = "notify"
  BY DEF CountSubmit, NextFreed, Submitted, QueueInv, CountInv, BaseInv, ThreadsRight
<1>2. life[n] = "queued"
  BY <1>1, SentinelsAssumption DEF QueueInv, CountInv, BaseInv, SubmitRight
<1>3. PICK a \in Allocs : a = responsible_allocator[n]
  BY <1>2 DEF QueueInv, CountInv, BaseInv, NodesRight
<1>4. /\ UNCHANGED <<queue, fence, responsible_allocator>>
      /\ submit_counter' = [submit_counter EXCEPT ![a] = submit_counter[a] + 1]
      /\ \A u \in Threads : /\ pc'[u] = IF u = t THEN "signal" ELSE pc[u]
                           /\ node'[u] = IF u = t THEN n ELSE node[u]
      /\ \A m \in Nodes : life'[m] = IF m = n THEN "spent" ELSE life[m]
  BY <1>3, Types DEF CountSubmit, Goto, QueueInv, CountInv, BaseInv, ThreadType, PoolType
<1>5. \A u \in Threads : pc[u] # "signal"
  BY <1>1 DEF QueueInv, CountInv, BaseInv, ThreadsRight
<1>6. /\ \A b \in Allocs : ~Owes(b)
      /\ \A b \in Allocs : Owes(b)' <=> b = a
  BY <1>3, <1>4, <1>5 DEF Owes
<1>7. /\ \A b \in Allocs : submit_counter[b] \in Nat /\ fence[b] \in Nat
      /\ submit_counter'[a] = submit_counter[a] + 1
      /\ \A b \in Allocs : b # a => submit_counter'[b] = submit_counter[b]
  BY <1>4, Types DEF QueueInv, CountInv, BaseInv, CounterType
<1>8. \A i, b : (Signals(i, b)' <=> Signals(i, b)) /\ (Executes(i, b)' <=> Executes(i, b))
  BY <1>4 DEF Signals, Executes
<1>9. SignalsRight'
  <2>1. \A i \in DOMAIN queue : queue[i].value \in Nat
    BY OperationRight, Types DEF QueueInv, CountInv, BaseInv
  <2> SUFFICES ASSUME NEW b \in Allocs
               PROVE  /\ fence[b] <= submit_counter'[b]
                      /\ Owes(b)' => fence[b] < submit_counter'[b]
                      /\ \A i \in DOMAIN queue : Signals(i, b) =>
                           /\ fence[b] < queue[i].value /\ queue[i].value <= submit_counter'[b]
                           /\ Owes(b)' => queue[i].value < submit_counter'[b]
                           /\ \A j \in DOMAIN queue : Signals(j, b) /\ i < j => queue[i].value < queue[j].value
    BY <1>4, <1>8 DEF SignalsRight
  <2>2. /\ fence[b] <= submit_counter[b]
        /\ \A i \in DOMAIN queue : Signals(i, b) =>
             /\ fence[b] < queue[i].value /\ queue[i].value <= submit_counter[b]
             /\ \A j \in DOMAIN queue : Signals(j, b) /\ i < j => queue[i].value < queue[j].value
    BY DEF QueueInv, SignalsRight
  <2>3. /\ submit_counter[b] <= submit_counter'[b] /\ submit_counter'[b] \in Nat
        /\ Owes(b)' => submit_counter[b] < submit_counter'[b]
    BY <1>6, <1>7
  <2>4. submit_counter[b] \in Nat /\ fence[b] \in Nat
    BY <1>7
  <2> QED
    BY <2>1, <2>2, <2>3, <2>4
<1>10. ExecutionsRight'
  BY <1>3, <1>4, <1>6, <1>8 DEF QueueInv, ExecutionsRight
<1>11. SignalsComing'
  BY <1>4, <1>6, <1>7, <1>8 DEF QueueInv, SignalsComing
<1> QED
  BY <1>9, <1>10, <1>11

LEMMA SignalQueue ==
  ASSUME QueueInv, NEW t \in Threads, SignalGPU(t)
  PROVE  SignalsRight' /\ SignalsComing' /\ ExecutionsRight'
<1>1. /\ pc[t] = "signal" /\ submitter = t /\ node[t] \in Nodes
      /\ responsible_allocator[node[t]] \in Allocs
  BY DEF SignalGPU, QueueInv, CountInv, BaseInv, ThreadsRight, NodesRight
<1>2. PICK a \in Allocs : a = responsible_allocator[node[t]]
  BY <1>1
<1> DEFINE op   == [op |-> "signal", allocs |-> {a}, value |-> submit_counter[a]]
           last == Len(queue) + 1
<1>3. \A b \in Allocs : submit_counter[b] \in Nat /\ fence[b] \in Nat
  BY Types DEF QueueInv, CountInv, BaseInv, CounterType
<1>4. op \in Operation /\ op.op = "signal" /\ op.allocs = {a} /\ op.value = submit_counter[a]
  BY <1>3 DEF Operation
<1>5. queue' = Append(queue, op)
  BY <1>2 DEF SignalGPU, SignalValue
<1> HIDE DEF op
<1>6. /\ Len(queue) \in Nat /\ DOMAIN queue = 1 .. Len(queue)
      /\ DOMAIN queue' = 1 .. last /\ queue'[last] = op
      /\ \A i \in DOMAIN queue : queue'[i] = queue[i]
  BY <1>4, <1>5, QueueAppended, Types DEF QueueInv, CountInv, BaseInv
<1>7. last \notin DOMAIN queue /\ DOMAIN queue' = DOMAIN queue \union {last} /\ \A i \in DOMAIN queue : i < last
  BY <1>6
<1> HIDE DEF last
<1>8. /\ \A i, b : Signals(i, b)' <=> Signals(i, b) \/ (i = last /\ b = a)
      /\ \A i, b : Executes(i, b)' <=> Executes(i, b)
  BY <1>4, <1>6, <1>7 DEF Signals, Executes
<1>9. /\ UNCHANGED <<fence, submit_counter, node, responsible_allocator, life>>
      /\ \A u \in Threads : pc'[u] = IF u = t THEN "release" ELSE pc[u]
  BY Types DEF SignalGPU, Goto, counters, pool, QueueInv, CountInv, BaseInv, ThreadType
<1>10. /\ Owes(a) /\ \A b \in Allocs : Owes(b) => b = a
       /\ \A b \in Allocs : ~Owes(b)'
  <2>1. \A u \in Threads : pc[u] = "signal" => u = t
    BY <1>1 DEF QueueInv, CountInv, BaseInv, ThreadsRight
  <2> QED
    BY <1>1, <1>2, <1>9, <2>1 DEF Owes
<1>11. SignalsRight'
  <2>1. \A i \in DOMAIN queue : queue[i].value \in Nat
    BY OperationRight, Types DEF QueueInv, CountInv, BaseInv
  <2>2. ASSUME NEW b \in Allocs, NEW i \in DOMAIN queue', Signals(i, b)'
        PROVE  /\ fence[b] < queue'[i].value /\ queue'[i].value <= submit_counter[b]
               /\ \A j \in DOMAIN queue' : Signals(j, b)' /\ i < j => queue'[i].value < queue'[j].value
    <3>1. CASE i = last /\ b = a
      <4>1. queue'[i].value = submit_counter[a]
        BY <1>4, <1>6, <3>1
      <4>2. fence[a] < submit_counter[a]
        BY <1>10 DEF QueueInv, SignalsRight
      <4>3. \A j \in DOMAIN queue' : ~(last < j)
        BY <1>6 DEF last
      <4> QED
        BY <1>3, <3>1, <4>1, <4>2, <4>3
    <3>2. CASE Signals(i, b)
      <4>1. i \in DOMAIN queue /\ queue'[i] = queue[i]
        BY <1>6, <3>2 DEF Signals
      <4>2. /\ fence[b] < queue[i].value /\ queue[i].value <= submit_counter[b]
            /\ Owes(b) => queue[i].value < submit_counter[b]
            /\ \A j \in DOMAIN queue : Signals(j, b) /\ i < j => queue[i].value < queue[j].value
        BY <3>2, <4>1 DEF QueueInv, SignalsRight
      <4>3. ASSUME NEW j \in DOMAIN queue', Signals(j, b)', i < j
            PROVE  queue'[i].value < queue'[j].value
        <5>1. CASE Signals(j, b)
          BY <1>6, <4>1, <4>2, <4>3, <5>1 DEF Signals
        <5>2. CASE j = last /\ b = a
          BY <1>4, <1>6, <1>10, <4>1, <4>2, <5>2
        <5> QED
          BY <1>8, <4>3, <5>1, <5>2
      <4> QED
        BY <4>1, <4>2, <4>3
    <3> QED
      BY <1>8, <2>2, <3>1, <3>2
  <2>3. \A b \in Allocs : fence[b] <= submit_counter[b]
    BY DEF QueueInv, SignalsRight
  <2> QED
    BY <1>9, <1>10, <2>2, <2>3 DEF SignalsRight
<1>12. ExecutionsRight'
  <2> SUFFICES ASSUME NEW b \in Allocs, NEW i \in DOMAIN queue', Executes(i, b)'
               PROVE  \/ \E j \in DOMAIN queue' : i < j /\ Signals(j, b)'
                      \/ \E n \in Nodes : life'[n] = "queued" /\ responsible_allocator'[n] = b
    BY DEF ExecutionsRight
  <2>1. i \in DOMAIN queue /\ Executes(i, b)
    BY <1>8 DEF Executes
  <2>2. CASE Owes(b)
    BY <1>7, <1>8, <1>10, <2>1, <2>2
  <2>3. CASE ~Owes(b)
    BY <1>7, <1>8, <1>9, <2>1, <2>3 DEF QueueInv, ExecutionsRight
  <2> QED
    BY <2>2, <2>3
<1>13. SignalsComing'
  <2> SUFFICES ASSUME NEW b \in Allocs, b # a, fence[b] # submit_counter[b]
               PROVE  \E i \in DOMAIN queue' : Signals(i, b)' /\ queue'[i].value = submit_counter[b]
    BY <1>4, <1>6, <1>7, <1>8, <1>9 DEF SignalsComing
  <2>1. PICK i \in DOMAIN queue : Signals(i, b) /\ queue[i].value = submit_counter[b]
    BY <1>10 DEF QueueInv, SignalsComing
  <2> QED
    BY <1>6, <1>7, <1>8, <2>1
<1> QED
  BY <1>11, <1>12, <1>13

LEMMA SubmitQueue ==
  ASSUME QueueInv, NEW t \in Threads, Submit(t)
  PROVE  SignalsRight' /\ SignalsComing' /\ ExecutionsRight'
<1>1. CASE CreateBarrierList(t)
  <2>1. /\ UNCHANGED <<queue, fence, submit_counter, responsible_allocator>> /\ pc[t] = "submit"
    BY <1>1 DEF CreateBarrierList, counters
  <2>2. CASE UNCHANGED <<life, pc, node>>
    <3>1. \A a \in Allocs : Owes(a)' <=> Owes(a)
      BY <2>1, <2>2, OwesSame
    <3> QED
      BY <2>1, <2>2, <3>1, QueueKept DEF QueueInv
  <2>3. ASSUME NEW n \in Nodes, life[n] = "free", life' = [life EXCEPT ![n] = "acquired"],
               node' = [node EXCEPT ![t] = n], pc' = [pc EXCEPT ![t] = "find"]
        PROVE  SignalsRight' /\ SignalsComing' /\ ExecutionsRight'
    <3>1. \A m \in Nodes : m # n => life'[m] = life[m]
      BY <2>3, Types DEF QueueInv, CountInv, BaseInv, PoolType
    <3>2. \A u \in Threads : u # t => node'[u] = node[u]
      BY <2>3, Types DEF QueueInv, CountInv, BaseInv, ThreadType
    <3>3. node[t] = NoNode
      BY <2>1 DEF QueueInv, CountInv, BaseInv, NodesRight
    <3> QED
      BY <2>1, <2>3, <3>1, <3>2, <3>3, QuietStep, SentinelsAssumption
  <2> QED
    BY <1>1, <2>2, <2>3 DEF CreateBarrierList, AcquireNode, Goto
<1>2. CASE SubmitEnd(t)
  BY <1>2, QuietStep, SentinelsAssumption DEF SubmitEnd, Goto, counters, pool, QueueInv, CountInv, BaseInv, NodesRight
<1> QED
  BY <1>1, <1>2, ExecuteQueue, CountQueue, SignalQueue DEF Submit

LEMMA ApplicationQueue ==
  ASSUME QueueInv, Application
  PROVE  SignalsRight' /\ SignalsComing' /\ ExecutionsRight'
<1>1. ASSUME NEW t \in Threads, RecordCommandList(t)
      PROVE  SignalsRight' /\ SignalsComing' /\ ExecutionsRight'
  <2>1. /\ UNCHANGED <<queue, fence, submit_counter, responsible_allocator>> /\ pc[t] = "idle"
    BY <1>1 DEF RecordCommandList, counters
  <2>2. CASE UNCHANGED <<life, pc, node>>
    <3>1. \A a \in Allocs : Owes(a)' <=> Owes(a)
      BY <2>1, <2>2, OwesSame
    <3> QED
      BY <2>1, <2>2, <3>1, QueueKept DEF QueueInv
  <2>3. ASSUME NEW n \in Nodes, life[n] = "free", life' = [life EXCEPT ![n] = "acquired"],
               node' = [node EXCEPT ![t] = n], pc' = [pc EXCEPT ![t] = "find"]
        PROVE  SignalsRight' /\ SignalsComing' /\ ExecutionsRight'
    <3>1. \A m \in Nodes : m # n => life'[m] = life[m]
      BY <2>3, Types DEF QueueInv, CountInv, BaseInv, PoolType
    <3>2. \A u \in Threads : u # t => node'[u] = node[u]
      BY <2>3, Types DEF QueueInv, CountInv, BaseInv, ThreadType
    <3>3. node[t] = NoNode
      BY <2>1 DEF QueueInv, CountInv, BaseInv, NodesRight
    <3> QED
      BY <2>1, <2>3, <3>1, <3>2, <3>3, QuietStep, SentinelsAssumption
  <2> QED
    BY <1>1, <2>2, <2>3 DEF RecordCommandList, AcquireNode, Goto
<1>2. ASSUME NEW t \in Threads, ThreadReplaced(t)
      PROVE  SignalsRight' /\ SignalsComing' /\ ExecutionsRight'
  <2>1. UNCHANGED <<queue, fence, counters, pool, pc, node>>
    BY <1>2 DEF ThreadReplaced
  <2>2. \A a \in Allocs : Owes(a)' <=> Owes(a)
    BY <2>1, OwesSame DEF pool
  <2> QED
    BY <2>1, <2>2, QueueKept DEF QueueInv, counters, pool
<1>3. ASSUME NEW t \in Threads, NEW n \in Nodes, Discard(t, n)
      PROVE  SignalsRight' /\ SignalsComing' /\ ExecutionsRight'
  <2>1. /\ UNCHANGED <<queue, fence, submit_counter, responsible_allocator>> /\ pc[t] = "idle"
        /\ life[n] = "recorded" /\ pc' = [pc EXCEPT ![t] = "release"]
    BY <1>3 DEF Discard, Goto
  <2>2. \A m \in Nodes : m # n => life'[m] = life[m]
    BY <1>3, Types DEF Discard, QueueInv, CountInv, BaseInv, PoolType
  <2>3. \A u \in Threads : u # t => node'[u] = node[u]
    BY <1>3, Types DEF Discard, QueueInv, CountInv, BaseInv, ThreadType
  <2>4. node[t] = NoNode
    BY <2>1 DEF QueueInv, CountInv, BaseInv, NodesRight
  <2> QED
    BY <2>1, <2>2, <2>3, <2>4, QuietStep, SentinelsAssumption
<1>4. ASSUME NEW t \in Threads, NEW cls \in SUBSET Nodes, NEW k \in 0 .. MaxBarriers,
             SubmitBegin(t, cls, k)
      PROVE  SignalsRight' /\ SignalsComing' /\ ExecutionsRight'
  <2>1. UNCHANGED <<queue, fence, counters, pool, node>>
    BY <1>4 DEF SubmitBegin
  <2>2. \A u \in Threads : pc'[u] = "signal" <=> pc[u] = "signal"
    BY <1>4, Types DEF SubmitBegin, Goto, QueueInv, CountInv, BaseInv, ThreadType
  <2>3. \A a \in Allocs : Owes(a)' <=> Owes(a)
    BY <2>1, <2>2, OwesSame DEF pool
  <2> QED
    BY <2>1, <2>3, QueueKept DEF QueueInv, counters, pool
<1>5. CASE ReplaceBackend
  <2>1. /\ queue = <<>> /\ UNCHANGED <<queue, pc, node>>
        /\ \A t \in Threads : pc[t] = "idle"
    BY <1>5 DEF ReplaceBackend
  <2>2. \A a \in Allocs : /\ fence'[a] <= submit_counter'[a] /\ fence'[a] = submit_counter'[a]
                         /\ ~Owes(a)'
    <3>1. CASE \A a \in Allocs : IsDestructible(a)
      BY <1>5, <2>1, <3>1 DEF ReplaceBackend, Owes
    <3>2. CASE ~\A a \in Allocs : IsDestructible(a)
      <4>1. UNCHANGED <<fence, counters>>
        BY <1>5, <3>2 DEF ReplaceBackend
      <4> QED
        BY <2>1, <4>1 DEF QueueInv, SignalsRight, SignalsComing, Owes, counters
    <3> QED
      BY <3>1, <3>2
  <2>3. DOMAIN queue' = {}
    BY <2>1
  <2> QED
    BY <2>2, <2>3 DEF SignalsRight, SignalsComing, ExecutionsRight
<1> QED
  BY <1>1, <1>2, <1>3, <1>4, <1>5 DEF Application

LEMMA ReleaseQueue ==
  ASSUME QueueInv, NEW t \in Threads, ReleaseNode(t)
  PROVE  SignalsRight' /\ SignalsComing' /\ ExecutionsRight'
<1>1. /\ pc[t] = "release" /\ node[t] \in Nodes /\ life[node[t]] = "spent"
      /\ UNCHANGED <<queue, fence, submit_counter>>
      /\ \E to \in {"notify", "idle"} : pc' = [pc EXCEPT ![t] = to]
  BY DEF ReleaseNode, Goto, counters, QueueInv, CountInv, BaseInv, NodesRight
<1>2. \A u \in Threads : u # t => node'[u] = node[u]
  BY Types DEF ReleaseNode, QueueInv, CountInv, BaseInv, ThreadType
<1>3. \A n \in Nodes : n # node[t] => life'[n] = life[n] /\ responsible_allocator'[n] = responsible_allocator[n]
  BY Types DEF ReleaseNode, QueueInv, CountInv, BaseInv, PoolType
<1> QED
  BY <1>1, <1>2, <1>3, QuietStep

LEMMA GPUQueue ==
  ASSUME QueueInv, GPU
  PROVE  SignalsRight' /\ SignalsComing' /\ ExecutionsRight'
<1>1. /\ queue # <<>> /\ queue' = Tail(queue)
      /\ UNCHANGED <<submit_counter, pc, node, life, responsible_allocator>>
  BY DEF GPU, FinishLists, SignalFence, counters, pool
<1>2. /\ Len(queue) \in Nat \ {0} /\ DOMAIN queue = 1 .. Len(queue) /\ Head(queue) = queue[1]
      /\ DOMAIN queue' = 1 .. Len(queue) - 1
      /\ \A i \in DOMAIN queue' : i + 1 \in DOMAIN queue /\ queue'[i] = queue[i + 1]
  <2>1. QueueType
    BY Types DEF QueueInv, CountInv, BaseInv
  <2> QED
    BY <1>1, <2>1, TailRight, OperationRight DEF QueueType
<1>3. \A a \in Allocs : Owes(a)' <=> Owes(a)
  BY <1>1, OwesSame
<1>4. /\ \A a : \A i \in DOMAIN queue' : Signals(i, a)' <=> Signals(i + 1, a)
      /\ \A a : \A i \in DOMAIN queue' : Executes(i, a)' <=> Executes(i + 1, a)
  BY <1>2 DEF Signals, Executes
<1>5. \A a \in Allocs : \/ fence'[a] = fence[a]
                        \/ fence'[a] = queue[1].value /\ Signals(1, a)
  <2>1. CASE FinishLists
    BY <2>1 DEF FinishLists
  <2>2. CASE SignalFence
    BY <1>2, <2>2, Types DEF SignalFence, Signals, QueueInv, CountInv, BaseInv, CounterType
  <2> QED
    BY <2>1, <2>2 DEF GPU
<1>6. /\ 1 \in DOMAIN queue
      /\ \A i \in DOMAIN queue' : 1 < i + 1 /\ i \in Int /\ \A j \in DOMAIN queue' : i < j <=> i + 1 < j + 1
  BY <1>2
<1>7. SignalsRight'
  <2> SUFFICES ASSUME NEW a \in Allocs
               PROVE  /\ fence'[a] <= submit_counter[a]
                      /\ Owes(a) => fence'[a] < submit_counter[a]
                      /\ \A i \in DOMAIN queue' : Signals(i + 1, a) =>
                           /\ fence'[a] < queue[i + 1].value /\ queue[i + 1].value <= submit_counter[a]
                           /\ Owes(a) => queue[i + 1].value < submit_counter[a]
                           /\ \A j \in DOMAIN queue' : Signals(j + 1, a) /\ i < j =>
                                queue[i + 1].value < queue[j + 1].value
    BY <1>1, <1>2, <1>3, <1>4 DEF SignalsRight
  <2>1. /\ fence[a] <= submit_counter[a]
        /\ Owes(a) => fence[a] < submit_counter[a]
        /\ \A i \in DOMAIN queue : Signals(i, a) =>
             /\ fence[a] < queue[i].value /\ queue[i].value <= submit_counter[a]
             /\ Owes(a) => queue[i].value < submit_counter[a]
             /\ \A j \in DOMAIN queue : Signals(j, a) /\ i < j => queue[i].value < queue[j].value
    BY DEF QueueInv, SignalsRight
  <2>2. \A i \in DOMAIN queue' : Signals(i + 1, a) =>
          /\ fence'[a] < queue[i + 1].value /\ queue[i + 1].value <= submit_counter[a]
          /\ Owes(a) => queue[i + 1].value < submit_counter[a]
          /\ \A j \in DOMAIN queue' : Signals(j + 1, a) /\ i < j => queue[i + 1].value < queue[j + 1].value
    <3> SUFFICES ASSUME NEW i \in DOMAIN queue', Signals(i + 1, a)
                 PROVE  /\ fence'[a] < queue[i + 1].value /\ queue[i + 1].value <= submit_counter[a]
                        /\ Owes(a) => queue[i + 1].value < submit_counter[a]
                        /\ \A j \in DOMAIN queue' : Signals(j + 1, a) /\ i < j =>
                             queue[i + 1].value < queue[j + 1].value
      OBVIOUS
    <3>1. i + 1 \in DOMAIN queue /\ 1 < i + 1 /\ \A j \in DOMAIN queue' : j + 1 \in DOMAIN queue /\ (i < j => i + 1 < j + 1)
      BY <1>2, <1>6
    <3>2. fence'[a] < queue[i + 1].value
      <4>1. CASE Signals(1, a) /\ fence'[a] = queue[1].value
        BY <1>6, <2>1, <3>1, <4>1
      <4>2. CASE fence'[a] = fence[a]
        BY <2>1, <3>1, <4>2
      <4> QED
        BY <1>5, <4>1, <4>2
    <3> QED
      BY <2>1, <3>1, <3>2
  <2>3. /\ fence'[a] <= submit_counter[a]
        /\ Owes(a) => fence'[a] < submit_counter[a]
    BY <1>5, <1>6, <2>1
  <2> QED
    BY <2>2, <2>3
<1>8. ExecutionsRight'
  <2> SUFFICES ASSUME NEW a \in Allocs, NEW i \in DOMAIN queue', Executes(i + 1, a)
               PROVE  \/ \E j \in DOMAIN queue' : i < j /\ Signals(j, a)'
                      \/ Owes(a)'
                      \/ \E n \in Nodes : life'[n] = "queued" /\ responsible_allocator'[n] = a
    BY <1>4 DEF ExecutionsRight
  <2>1. i + 1 \in DOMAIN queue
    BY <1>2
  <2>2. CASE \E j \in DOMAIN queue : i + 1 < j /\ Signals(j, a)
    <3>1. PICK j \in DOMAIN queue : i + 1 < j /\ Signals(j, a)
      BY <2>2
    <3>2. j - 1 \in DOMAIN queue' /\ (j - 1) + 1 = j /\ i < j - 1
      BY <1>2, <3>1
    <3> QED
      BY <1>4, <3>1, <3>2
  <2>3. CASE ~\E j \in DOMAIN queue : i + 1 < j /\ Signals(j, a)
    BY <1>1, <1>3, <2>1, <2>3 DEF QueueInv, ExecutionsRight
  <2> QED
    BY <2>2, <2>3
<1>9. SignalsComing'
  <2> SUFFICES ASSUME NEW a \in Allocs, fence'[a] # submit_counter[a], ~Owes(a)
               PROVE  \E i \in DOMAIN queue' : Signals(i, a)' /\ queue'[i].value = submit_counter[a]
    BY <1>1, <1>3 DEF SignalsComing
  <2>1. CASE fence[a] = submit_counter[a]
    <3>1. fence'[a] = queue[1].value /\ Signals(1, a)
      BY <1>5, <2>1
    <3>2. submit_counter[a] < queue[1].value /\ queue[1].value <= submit_counter[a]
      BY <1>6, <2>1, <3>1 DEF QueueInv, SignalsRight
    <3>3. submit_counter[a] \in Nat /\ queue[1].value \in Nat
      BY <1>6, Types, OperationRight DEF QueueInv, CountInv, BaseInv, CounterType
    <3> QED
      BY <3>2, <3>3
  <2>2. CASE \E i \in DOMAIN queue : Signals(i, a) /\ queue[i].value = submit_counter[a]
    <3>1. PICK i \in DOMAIN queue : Signals(i, a) /\ queue[i].value = submit_counter[a]
      BY <2>2
    <3>2. CASE i = 1
      <4>1. \A b \in queue[1].allocs \intersect Allocs : fence'[b] = queue[1].value
        BY <1>1, <1>2, <3>1, <3>2 DEF GPU, FinishLists, SignalFence, Signals
      <4> QED
        BY <3>1, <3>2, <4>1 DEF Signals
    <3>3. CASE i # 1
      <4>1. i - 1 \in DOMAIN queue' /\ (i - 1) + 1 = i
        BY <1>2, <3>3
      <4> QED
        BY <1>2, <1>4, <3>1, <4>1
    <3> QED
      BY <3>2, <3>3
  <2> QED
    BY <2>1, <2>2 DEF QueueInv, SignalsComing
<1> QED
  BY <1>7, <1>8, <1>9

LEMMA QueueInvInit == Init => QueueInv
<1> SUFFICES ASSUME Init PROVE SignalsRight /\ SignalsComing /\ ExecutionsRight
  BY CountInvInit DEF QueueInv
<1>1. DOMAIN queue = {} /\ \A a \in Allocs : /\ ~Owes(a) /\ fence[a] <= submit_counter[a]
                                         /\ fence[a] = submit_counter[a]
  BY DEF Init, Owes
<1> QED
  BY <1>1 DEF SignalsRight, SignalsComing, ExecutionsRight

LEMMA QueueInvStep == QueueInv /\ [Next]_vars => QueueInv'
<1> SUFFICES ASSUME QueueInv, [Next]_vars PROVE SignalsRight' /\ SignalsComing' /\ ExecutionsRight'
  BY CountInvStep DEF QueueInv
<1>1. CASE UNCHANGED vars
  <2>1. UNCHANGED <<counters, pool, queue, fence, pc, node>>
    BY <1>1 DEF vars
  <2>2. \A a \in Allocs : Owes(a)' <=> Owes(a)
    BY <2>1, OwesSame DEF pool
  <2> QED
    BY <2>1, <2>2, QueueKept DEF QueueInv, counters, pool
<1>2. CASE Next
  BY <1>2, CreateQueue, SubmitQueue, ApplicationQueue, ReleaseQueue, GPUQueue DEF Next
<1> QED
  BY <1>1, <1>2

\* The fence of an allocator counts its finished submissions, in order (cmd_list_pool.hh:64), and
\* a thread that waits for it in try_reset_blocking waits for a signal that is queued or about to be
\* (cmd_list_pool.cc:132).
THEOREM SignalsAlwaysAscend == Spec => []SignalsAscend
<1>1. QueueInv => SignalsAscend
  <2> SUFFICES ASSUME QueueInv, NEW a \in Allocs
               PROVE  /\ \A i \in SignalsOf(a) :
                           /\ queue[i].value \in fence[a] + 1 .. submit_counter[a]
                           /\ \A j \in SignalsOf(a) : i < j => queue[i].value < queue[j].value
                      /\ \/ submit_counter[a] \in {fence[a]} \union {queue[i].value : i \in SignalsOf(a)}
                         \/ \E t \in Threads : pc[t] = "signal" /\ responsible_allocator[node[t]] = a
    BY DEF SignalsAscend
  <2>1. \A j : j \in SignalsOf(a) <=> j \in DOMAIN queue /\ Signals(j, a)
    BY DEF SignalsOf, Uses, Signals
  <2>2. ASSUME NEW i \in SignalsOf(a)
        PROVE  /\ queue[i].value \in fence[a] + 1 .. submit_counter[a]
               /\ \A j \in SignalsOf(a) : i < j => queue[i].value < queue[j].value
    <3>1. /\ fence[a] < queue[i].value /\ queue[i].value <= submit_counter[a]
          /\ \A j \in SignalsOf(a) : i < j => queue[i].value < queue[j].value
      BY <2>1, <2>2 DEF QueueInv, SignalsRight
    <3>2. fence[a] \in Nat /\ submit_counter[a] \in Nat /\ queue[i].value \in Nat
      BY <2>1, <2>2, Types, OperationRight DEF QueueInv, CountInv, BaseInv, CounterType
    <3> QED
      BY <3>1, <3>2
  <2>3. \/ submit_counter[a] \in {fence[a]} \union {queue[i].value : i \in SignalsOf(a)}
        \/ \E t \in Threads : pc[t] = "signal" /\ responsible_allocator[node[t]] = a
    BY <2>1 DEF QueueInv, SignalsComing, Owes
  <2> QED
    BY <2>2, <2>3
<1> QED
  BY <1>1, QueueInvInit, QueueInvStep, PTL DEF Spec

-----------------------------------------------------------------------------
(* Resets                                                                  *)

Reset == \A a \in Allocs : num_in_flight'[a] < num_in_flight[a] =>
           /\ Uses(a) = {}
           /\ id' = id => Open(a) = {}

LEMMA DoResetDone ==
  ASSUME QueueInv, assertion = "none", NEW t \in Threads, pc[t] \in {"look", "wait"},
         fence[Active(t)] >= submit_counter[Active(t)], DoReset(t)
  PROVE  Reset
<1>1. pc[t] \in Finding
  BY DEF Finding
<1>2. PICK a \in Allocs : a = Active(t)
  BY <1>1, ActiveRight DEF QueueInv, CountInv
<1>3. Open(a) = {}
  BY <1>2 DEF QueueInv, CountInv, LoadsRight, LoadsAt
<1>4. Uses(a) = {}
  BY <1>2, <1>3, FenceReachedDone
<1>5. \A b \in Allocs : num_in_flight[b] \in Nat /\ (b # a => num_in_flight'[b] = num_in_flight[b])
  BY <1>2, Types, SizesAssumption DEF DoReset, QueueInv, CountInv, BaseInv, CounterType
<1> QED
  BY <1>3, <1>4, <1>5 DEF Reset

LEMMA StepResets ==
  ASSUME QueueInv, [Next]_vars
  PROVE  Reset
<1>1. \A a \in Allocs : num_in_flight[a] \in Nat
  BY Types, SizesAssumption DEF QueueInv, CountInv, BaseInv, CounterType
<1>2. CASE UNCHANGED num_in_flight
  BY <1>1, <1>2 DEF Reset
<1>3. ASSUME NEW t \in Threads, Create(t), assertion = "none"
      PROVE  Reset
  <2>1. CASE TakeList(t)
    <3>1. \A a \in Allocs : num_in_flight'[a] = num_in_flight[a] \/ num_in_flight'[a] = num_in_flight[a] + 1
      BY <2>1, Types DEF TakeList, QueueInv, CountInv, BaseInv, CounterType
    <3> QED
      BY <1>1, <3>1 DEF Reset
  <2>2. CASE LoadSubmits(t) \/ LoadDiscarded(t)
    BY <1>2, <2>2 DEF LoadSubmits, LoadDiscarded, counters
  <2>3. CASE LookAtFence(t) /\ DoReset(t) /\ FenceReached(Active(t))
    <3>1. /\ pc[t] = "look" /\ fence[Active(t)] = submit_counter[Active(t)]
      BY <2>3 DEF LookAtFence, FenceReached
    <3>2. fence[Active(t)] >= submit_counter[Active(t)]
      <4>1. Active(t) \in Allocs
        BY <3>1, ActiveRight DEF QueueInv, CountInv, Finding
      <4> QED
        BY <3>1, <4>1, Types DEF QueueInv, CountInv, BaseInv, CounterType
    <3> QED
      BY <1>3, <2>3, <3>1, <3>2, DoResetDone
  <2>4. CASE LookAtFence(t) /\ ~(DoReset(t) /\ FenceReached(Active(t)))
    BY <1>2, <2>4 DEF LookAtFence
  <2>5. CASE WaitForFence(t)
    BY <1>3, <2>5, DoResetDone DEF WaitForFence
  <2> QED
    BY <1>3, <2>1, <2>2, <2>3, <2>4, <2>5 DEF Create
<1>4. CASE ReplaceBackend
  <2>1. queue = <<>>
    BY <1>4 DEF ReplaceBackend
  <2>2. \A a \in Allocs : Uses(a) = {}
    BY <2>1 DEF Uses
  <2>3. CASE ReplaceAssociation
    BY <2>2, <2>3, ReplacedRight, Types DEF QueueInv, CountInv, BaseInv, Reset
  <2>4. CASE ~ReplaceAssociation
    BY <1>2, <1>4, <2>4 DEF ReplaceBackend, counters
  <2> QED
    BY <2>3, <2>4
<1>5. CASE UNCHANGED vars
  BY <1>2, <1>5 DEF vars, counters
<1>6. ASSUME NEW t \in Threads, Submit(t) \/ ReleaseNode(t)
      PROVE  Reset
  BY <1>2, <1>6 DEF Submit, CreateBarrierList, ExecuteCommandLists, CountSubmit, SignalGPU, SubmitEnd, ReleaseNode, counters
<1>7. CASE GPU
  BY <1>2, <1>7 DEF GPU, FinishLists, SignalFence, counters
<1>8. CASE Application /\ ~ReplaceBackend
  BY <1>2, <1>8 DEF Application, RecordCommandList, ThreadReplaced, Discard, SubmitBegin, counters
<1> QED
  BY <1>3, <1>4, <1>5, <1>6, <1>7, <1>8 DEF Next

\* An allocator is reset only when no list of it is open and none on the GPU: loading the counters
\* one after the other "can only ever prevent resets, never cause them too early"
\* (cmd_list_pool.cc:105).
THEOREM ResetAlwaysDone == Spec => ResetOnlyWhenDone
<1>1. QueueInv /\ [Next]_vars =>
        [\A a \in Allocs : num_in_flight'[a] < num_in_flight[a] =>
           /\ Uses(a) = {}
           /\ id' = id => Open(a) = {}]_vars
  BY StepResets DEF Reset
<1> QED
  BY <1>1, QueueInvInit, QueueInvStep, PTL DEF Spec, ResetOnlyWhenDone

-----------------------------------------------------------------------------
(* The lifecycle of command lists                                          *)

\* what the refinement mapping reads off the pool
Recorded(a) == {n \in Open(a) : life[n] = "recorded"}

opened    == [a \in Allocs |-> Cardinality(Recorded(a))]
submitted == [a \in Allocs |-> Cardinality(ExecutionsOf(a))]

\* the counter of submissions only grows
LastRight == \A a \in Allocs : submit_counter_at_last_reset[a] <= submit_counter[a]

LifeInv == QueueInv /\ LastRight

LEMMA RecordedFinite ==
  ASSUME NEW a
  PROVE  /\ IsFiniteSet(Recorded(a)) /\ Cardinality(Recorded(a)) \in Nat
         /\ Recorded(a) \subseteq Nodes /\ Recorded(a) \subseteq Open(a)
<1>1. Recorded(a) \subseteq Nodes /\ Recorded(a) \subseteq Open(a)
  BY DEF Recorded, Open
<1>2. IsFiniteSet(Recorded(a))
  BY <1>1, FS_Subset, SizesAssumption
<1> QED
  BY <1>1, <1>2, FS_CardinalityType

\* Nodes that are recorded before and after make the same lists of an allocator.
LEMMA RecordedSame ==
  ASSUME \A n \in Nodes :
           \/ UNCHANGED <<life[n], responsible_allocator[n]>>
           \/ life[n] # "recorded" /\ life'[n] # "recorded"
  PROVE  UNCHANGED opened
<1>1. \A a : Recorded(a)' = Recorded(a)
  BY DEF Recorded, Open
<1> QED
  BY <1>1 DEF opened

LEMMA ExecutionsFinite ==
  ASSUME QueueType, NEW a
  PROVE  /\ IsFiniteSet(ExecutionsOf(a)) /\ Cardinality(ExecutionsOf(a)) \in Nat
         /\ ExecutionsOf(a) \subseteq 1 .. Len(queue) /\ Len(queue) \in Nat
<1>1. ExecutionsOf(a) \subseteq 1 .. Len(queue) /\ Len(queue) \in Nat
  BY OperationRight DEF ExecutionsOf, Uses
<1>2. IsFiniteSet(1 .. Len(queue))
  BY <1>1, FS_Interval
<1>3. IsFiniteSet(ExecutionsOf(a))
  BY <1>1, <1>2, FS_Subset
<1> QED
  BY <1>1, <1>3, FS_CardinalityType

LEMMA ExecutionsAppended ==
  ASSUME QueueType, NEW op \in Operation, queue' = Append(queue, op), NEW a
  PROVE  Cardinality(ExecutionsOf(a)') =
           Cardinality(ExecutionsOf(a)) + IF op.op = "execute" /\ a \in op.allocs THEN 1 ELSE 0
<1> DEFINE last == Len(queue) + 1
<1>1. /\ Len(queue) \in Nat /\ DOMAIN queue = 1 .. Len(queue)
      /\ DOMAIN queue' = 1 .. last /\ queue'[last] = op
      /\ \A i \in DOMAIN queue : queue'[i] = queue[i]
  BY QueueAppended
<1>2. last \notin ExecutionsOf(a)
  BY <1>1, ExecutionsFinite
<1>3. CASE op.op = "execute" /\ a \in op.allocs
  <2>1. ExecutionsOf(a)' = ExecutionsOf(a) \union {last}
    BY <1>1, <1>3 DEF ExecutionsOf, Uses
  <2>2. Cardinality(ExecutionsOf(a) \union {last}) = Cardinality(ExecutionsOf(a)) + 1
    BY <1>2, ExecutionsFinite, FS_AddElement
  <2> QED
    BY <1>3, <2>1, <2>2
<1>4. CASE ~(op.op = "execute" /\ a \in op.allocs)
  <2>1. ExecutionsOf(a)' = ExecutionsOf(a)
    BY <1>1, <1>4 DEF ExecutionsOf, Uses
  <2> QED
    BY <1>4, <2>1, ExecutionsFinite
<1> QED
  BY <1>3, <1>4

LEMMA ExecutionsTail ==
  ASSUME QueueType, queue # <<>>, queue' = Tail(queue), NEW a
  PROVE  Cardinality(ExecutionsOf(a)') =
           Cardinality(ExecutionsOf(a)) - IF 1 \in ExecutionsOf(a) THEN 1 ELSE 0
<1> DEFINE later == ExecutionsOf(a) \ {1}
<1>1. /\ Len(queue) \in Nat \ {0} /\ DOMAIN queue = 1 .. Len(queue)
      /\ DOMAIN queue' = 1 .. Len(queue) - 1
      /\ \A i \in DOMAIN queue' : queue'[i] = queue[i + 1]
  BY TailRight, OperationRight DEF QueueType
<1>2. IsFiniteSet(later)
  BY ExecutionsFinite, FS_Subset
<1>3. ExecutionsOf(a)' = {i \in DOMAIN queue' : i + 1 \in later}
  BY <1>1 DEF ExecutionsOf, Uses
<1>4. \A i \in later : i - 1 \in ExecutionsOf(a)' /\ i \in Int
  BY <1>1, <1>3, ExecutionsFinite
<1>5. ExistsBijection(later, ExecutionsOf(a)')
  <2> DEFINE f == [i \in later |-> i - 1]
  <2>1. f \in [later -> ExecutionsOf(a)']
    BY <1>4
  <2>2. \A i, j \in later : f[i] = f[j] => i = j
    BY <1>4
  <2>3. \A k \in ExecutionsOf(a)' : k + 1 \in later /\ f[k + 1] = k
    BY <1>1, <1>3
  <2> HIDE DEF f
  <2>4. f \in Bijection(later, ExecutionsOf(a)')
    BY <2>1, <2>2, <2>3 DEF Bijection, Injection, Surjection, IsInjective
  <2> QED
    BY <2>4 DEF ExistsBijection
<1>6. Cardinality(ExecutionsOf(a)') = Cardinality(later)
  BY <1>2, <1>5, FS_Bijection
<1>7. Cardinality(later) = Cardinality(ExecutionsOf(a)) - IF 1 \in ExecutionsOf(a) THEN 1 ELSE 0
  <2>1. CASE 1 \in ExecutionsOf(a)
    BY <2>1, ExecutionsFinite, FS_RemoveElement
  <2>2. CASE 1 \notin ExecutionsOf(a)
    <3>1. later = ExecutionsOf(a)
      BY <2>2
    <3>2. Cardinality(ExecutionsOf(a)) \in Nat
      BY ExecutionsFinite
    <3> HIDE DEF later
    <3> QED
      BY <2>2, <3>1, <3>2
  <2> QED
    BY <2>1, <2>2
<1> QED
  BY <1>6, <1>7

LEMMA Stutters ==
  ASSUME UNCHANGED <<num_in_flight, opened, submitted>>
  PROVE  UNCHANGED Lifecycle!lifecycle
  BY DEF Lifecycle!lifecycle, opened, submitted, Recorded

LEMMA SubmittedSame ==
  ASSUME QueueType, \/ UNCHANGED queue
                    \/ \E op \in Operation : op.op = "signal" /\ queue' = Append(queue, op)
  PROVE  UNCHANGED submitted
<1>1. CASE UNCHANGED queue
  BY <1>1 DEF submitted, ExecutionsOf, Uses
<1>2. ASSUME NEW op \in Operation, op.op = "signal", queue' = Append(queue, op)
      PROVE  UNCHANGED submitted
  <2>1. \A a : Cardinality(ExecutionsOf(a)') = Cardinality(ExecutionsOf(a)) + 0
    BY <1>2, ExecutionsAppended
  <2>2. \A a : Cardinality(ExecutionsOf(a)) \in Nat
    BY ExecutionsFinite
  <2> QED
    BY <2>1, <2>2 DEF submitted
<1> QED
  BY <1>1, <1>2

\* acquire
LEMMA TakeMaps ==
  ASSUME QueueInv, NEW t \in Threads, TakeList(t)
  PROVE  Lifecycle!Next
<1>1. PICK n \in Nodes : n = node[t] /\ life[n] = "acquired"
  BY DEF TakeList, QueueInv, CountInv, BaseInv, NodesRight, Finding
<1>2. PICK a \in Allocs : a = Active(t)
  BY ActiveRight DEF TakeList, QueueInv, CountInv, Finding
<1>3. /\ num_in_flight[a] < ListsPerAlloc
      /\ num_in_flight' = [num_in_flight EXCEPT ![a] = @ + 1]
      /\ UNCHANGED queue
  BY <1>2, Types DEF TakeList, QueueInv, CountInv, BaseInv, FullRight, CounterType
<1>4. \A m \in Nodes : /\ life'[m] = IF m = n THEN "recorded" ELSE life[m]
                      /\ responsible_allocator'[m] = IF m = n THEN a ELSE responsible_allocator[m]
  BY <1>1, <1>2, Types DEF TakeList, QueueInv, CountInv, BaseInv, PoolType
<1>5. /\ Recorded(a)' = Recorded(a) \union {n} /\ n \notin Recorded(a)
      /\ \A b \in Allocs : b # a => Recorded(b)' = Recorded(b)
  BY <1>1, <1>4 DEF Recorded, Open
<1>6. Cardinality(Recorded(a)') = Cardinality(Recorded(a)) + 1
  BY <1>5, RecordedFinite, FS_AddElement
<1>7. opened' = [opened EXCEPT ![a] = @ + 1]
  BY <1>5, <1>6 DEF opened
<1>8. UNCHANGED submitted
  BY <1>3, SubmittedSame, Types DEF QueueInv, CountInv, BaseInv
<1>9. Lifecycle!HandOut(a)
  BY <1>3, <1>7, <1>8 DEF Lifecycle!HandOut, opened, submitted, Recorded
<1> QED
  BY <1>9 DEF Lifecycle!Next

\* do_reset
LEMMA ResetMaps ==
  ASSUME QueueInv, assertion = "none", NEW t \in Threads, pc[t] \in {"look", "wait"},
         fence[Active(t)] >= submit_counter[Active(t)], DoReset(t),
         UNCHANGED <<queue, life, responsible_allocator>>
  PROVE  Lifecycle!Next
<1>1. PICK a \in Allocs : a = Active(t)
  BY ActiveRight DEF QueueInv, CountInv, Finding
<1>2. Open(a) = {}
  BY <1>1 DEF QueueInv, CountInv, LoadsRight, LoadsAt
<1>3. Uses(a) = {}
  BY <1>1, <1>2, FenceReachedDone
<1>4. opened[a] = 0
  <2>1. Recorded(a) = {}
    BY <1>2 DEF Recorded
  <2> QED
    BY <2>1, FS_EmptySet DEF opened
<1>5. submitted[a] = 0
  <2>1. ExecutionsOf(a) = {}
    BY <1>3 DEF ExecutionsOf
  <2> QED
    BY <2>1, FS_EmptySet DEF submitted
<1>6. UNCHANGED <<opened, submitted>>
  BY RecordedSame, SubmittedSame, Types DEF QueueInv, CountInv, BaseInv
<1>7. num_in_flight' = [num_in_flight EXCEPT ![a] = 0]
  BY <1>1 DEF DoReset
<1>8. Lifecycle!Recycle(a)
  BY <1>4, <1>5, <1>6, <1>7 DEF Lifecycle!Recycle, opened, submitted, Recorded
<1> QED
  BY <1>8 DEF Lifecycle!Next

LEMMA CreateMaps ==
  ASSUME QueueInv, NEW t \in Threads, assertion = "none", Create(t)
  PROVE  Lifecycle!Next \/ UNCHANGED Lifecycle!lifecycle
<1>1. CASE TakeList(t)
  BY <1>1, TakeMaps
<1>2. CASE LookAtFence(t) /\ DoReset(t) /\ FenceReached(Active(t))
  <2>1. /\ pc[t] = "look" /\ fence[Active(t)] = submit_counter[Active(t)]
        /\ UNCHANGED <<queue, life, responsible_allocator>>
    BY <1>2 DEF LookAtFence, FenceReached, pool
  <2>2. Active(t) \in Allocs
    BY <2>1, ActiveRight DEF QueueInv, CountInv, Finding
  <2>3. fence[Active(t)] >= submit_counter[Active(t)]
    BY <2>1, <2>2, Types DEF QueueInv, CountInv, BaseInv, CounterType
  <2> QED
    BY <1>2, <2>1, <2>3, ResetMaps
<1>3. CASE WaitForFence(t)
  BY <1>3, ResetMaps DEF WaitForFence, pool
<1>4. ASSUME UNCHANGED <<num_in_flight, queue, life, responsible_allocator>>
      PROVE  UNCHANGED Lifecycle!lifecycle
  BY <1>4, RecordedSame, SubmittedSame, Stutters, Types DEF QueueInv, CountInv, BaseInv
<1>5. CASE LoadSubmits(t) \/ LoadDiscarded(t)
  BY <1>4, <1>5 DEF LoadSubmits, LoadDiscarded, counters, pool
<1>6. CASE LookAtFence(t) /\ ~(DoReset(t) /\ FenceReached(Active(t)))
  BY <1>4, <1>6 DEF LookAtFence, pool
<1> QED
  BY <1>1, <1>2, <1>3, <1>5, <1>6 DEF Create

\* on_discard
LEMMA DiscardMaps ==
  ASSUME QueueInv, NEW t \in Threads, NEW n \in Nodes, Discard(t, n)
  PROVE  Lifecycle!Next
<1>1. life[n] = "recorded" /\ UNCHANGED <<num_in_flight, queue, responsible_allocator>>
  BY DEF Discard
<1>2. PICK a \in Allocs : a = responsible_allocator[n]
  BY <1>1 DEF QueueInv, CountInv, BaseInv, NodesRight
<1>3. \A m \in Nodes : life'[m] = IF m = n THEN "spent" ELSE life[m]
  BY Types DEF Discard, QueueInv, CountInv, BaseInv, PoolType
<1>4. /\ Recorded(a)' = Recorded(a) \ {n} /\ n \in Recorded(a)
      /\ \A b \in Allocs : b # a => Recorded(b)' = Recorded(b)
  BY <1>1, <1>2, <1>3 DEF Recorded, Open
<1>5. /\ Cardinality(Recorded(a)') = Cardinality(Recorded(a)) - 1
      /\ Cardinality(Recorded(a)) > 0
  <2>1. Cardinality(Recorded(a) \ {n}) = Cardinality(Recorded(a)) - 1
    BY <1>4, RecordedFinite, FS_RemoveElement
  <2>2. Cardinality(Recorded(a)) # 0 /\ Cardinality(Recorded(a)) \in Nat
    BY <1>4, RecordedFinite, FS_EmptySet
  <2> QED
    BY <1>4, <2>1, <2>2
<1>6. opened[a] > 0 /\ opened' = [opened EXCEPT ![a] = @ - 1]
  BY <1>4, <1>5 DEF opened
<1>7. UNCHANGED submitted
  BY <1>1, SubmittedSame, Types DEF QueueInv, CountInv, BaseInv
<1>8. Lifecycle!Discard(a)
  BY <1>1, <1>6, <1>7 DEF Lifecycle!Discard, opened, submitted, Recorded
<1> QED
  BY <1>8 DEF Lifecycle!Next

\* No allocator has more lists to submit than it can hand out.
LEMMA OpenBounded ==
  ASSUME LifeInv, NEW a \in Allocs
  PROVE  Cardinality(Open(a)) <= ListsPerAlloc
<1>1. /\ num_in_flight[a] \in 0 .. ListsPerAlloc /\ num_discarded[a] \in Nat
      /\ submit_counter[a] \in Nat /\ submit_counter_at_last_reset[a] \in Nat
  BY Types DEF LifeInv, QueueInv, CountInv, BaseInv, CounterType
<1>2. num_in_flight[a] = Cardinality(Open(a)) + num_discarded[a]
                          + submit_counter[a] - submit_counter_at_last_reset[a]
  BY DEF LifeInv, QueueInv, CountInv, CountersExact
<1>3. submit_counter_at_last_reset[a] <= submit_counter[a]
  BY DEF LifeInv, LastRight
<1> QED
  BY <1>1, <1>2, <1>3, OpenFinite, SizesAssumption

\* ExecuteCommandLists
LEMMA SubmitMaps ==
  ASSUME LifeInv, NEW t \in Threads, ExecuteCommandLists(t)
  PROVE  Lifecycle!Next
<1> DEFINE mine(a) == {n \in Submitted : responsible_allocator[n] = a}
           lists   == [a \in Allocs |-> Cardinality(mine(a))]
           op      == [op |-> "execute", allocs |-> {responsible_allocator[n] : n \in Submitted}, value |-> 0]
<1>1. /\ submitter = t /\ submitter # NoThread /\ pc[t] = "submit"
      /\ \A n \in Submitted : n \in Nodes /\ life[n] = "recorded"
  BY SentinelsAssumption, Types DEF ExecuteCommandLists, LifeInv, QueueInv, CountInv, BaseInv, ThreadsRight,
                                    SubmitRight, SubmitType, Submitted
<1>2. \A n \in Submitted : responsible_allocator[n] \in Allocs
  BY <1>1 DEF LifeInv, QueueInv, CountInv, BaseInv, NodesRight
<1>3. /\ UNCHANGED <<num_in_flight, responsible_allocator>>
      /\ \A n \in Nodes : life'[n] = IF n \in Submitted THEN "queued" ELSE life[n]
  BY DEF ExecuteCommandLists, counters
<1>4. \A a \in Allocs : mine(a) \subseteq Recorded(a) /\ Recorded(a)' = Recorded(a) \ mine(a)
  BY <1>1, <1>3 DEF Recorded, Open
<1>5. op \in Operation /\ op.op = "execute" /\ queue' = Append(queue, op)
  BY <1>2 DEF Operation, ExecuteCommandLists
<1>6. \A a \in Allocs : a \in op.allocs <=> mine(a) # {}
  OBVIOUS
<1> HIDE DEF op
<1>7. ASSUME NEW a \in Allocs
      PROVE  /\ Cardinality(mine(a)) \in 0 .. ListsPerAlloc
             /\ Cardinality(mine(a)) <= Cardinality(Recorded(a))
             /\ Cardinality(Recorded(a)') = Cardinality(Recorded(a)) - Cardinality(mine(a))
             /\ mine(a) # {} <=> Cardinality(mine(a)) > 0
  <2>1. mine(a) \subseteq Recorded(a) /\ Recorded(a)' = Recorded(a) \ mine(a)
    BY <1>4
  <2> HIDE DEF mine
  <2>2. /\ IsFiniteSet(Recorded(a)) /\ Cardinality(Recorded(a)) \in Nat
        /\ IsFiniteSet(Open(a)) /\ Cardinality(Open(a)) \in Nat
    BY RecordedFinite, OpenFinite
  <2>3. /\ Cardinality(Recorded(a)) <= Cardinality(Open(a))
        /\ Cardinality(Open(a)) <= ListsPerAlloc
    BY <2>2, RecordedFinite, OpenBounded, FS_Subset
  <2>4. IsFiniteSet(mine(a)) /\ Cardinality(mine(a)) <= Cardinality(Recorded(a))
    BY <2>1, <2>2, FS_Subset
  <2>5. Cardinality(mine(a)) \in Nat
    BY <2>4, FS_CardinalityType
  <2>6. mine(a) = {} <=> Cardinality(mine(a)) = 0
    BY <2>4, FS_EmptySet
  <2>7. Recorded(a) \cap mine(a) = mine(a)
    BY <2>1
  <2>8. Cardinality(Recorded(a) \ mine(a)) = Cardinality(Recorded(a)) - Cardinality(mine(a))
    BY <2>2, <2>7, FS_Difference
  <2> QED
    BY <2>1, <2>2, <2>3, <2>4, <2>5, <2>6, <2>8, SizesAssumption
<1>8. ASSUME NEW a \in Allocs
      PROVE  Cardinality(ExecutionsOf(a)') =
               Cardinality(ExecutionsOf(a)) + IF Cardinality(mine(a)) > 0 THEN 1 ELSE 0
  <2>1. QueueType
    BY Types DEF LifeInv, QueueInv, CountInv, BaseInv
  <2>2. Cardinality(ExecutionsOf(a)') =
          Cardinality(ExecutionsOf(a)) + IF op.op = "execute" /\ a \in op.allocs THEN 1 ELSE 0
    BY <1>5, <2>1, ExecutionsAppended
  <2> HIDE DEF mine
  <2> QED
    BY <1>5, <1>6, <1>7, <2>2
<1>9. lists \in [Allocs -> 0 .. ListsPerAlloc]
  BY <1>7
<1>10. \A a \in Allocs : lists[a] = Cardinality(mine(a))
  OBVIOUS
<1> HIDE DEF lists, mine
<1>11. /\ \A a \in Allocs : lists[a] <= opened[a]
       /\ opened' = [a \in Allocs |-> opened[a] - lists[a]]
       /\ submitted' = [a \in Allocs |-> submitted[a] + IF lists[a] > 0 THEN 1 ELSE 0]
  BY <1>7, <1>8, <1>10 DEF opened, submitted
<1>12. Lifecycle!Submit(lists)
  BY <1>3, <1>11 DEF Lifecycle!Submit, opened, submitted, Recorded
<1> QED
  BY <1>9, <1>12 DEF Lifecycle!Next

LEMMA SubmitStepMaps ==
  ASSUME LifeInv, NEW t \in Threads, Submit(t)
  PROVE  Lifecycle!Next \/ UNCHANGED Lifecycle!lifecycle
<1>1. CASE ExecuteCommandLists(t)
  BY <1>1, SubmitMaps
<1>2. CASE CreateBarrierList(t)
  <2>1. UNCHANGED <<num_in_flight, queue, responsible_allocator>>
    BY <1>2 DEF CreateBarrierList, counters
  <2>2. \A m \in Nodes : UNCHANGED life[m] \/ (life[m] # "recorded" /\ life'[m] # "recorded")
    BY <1>2, Types DEF CreateBarrierList, AcquireNode, LifeInv, QueueInv, CountInv, BaseInv, PoolType
  <2> QED
    BY <2>1, <2>2, RecordedSame, SubmittedSame, Stutters, Types DEF LifeInv, QueueInv, CountInv, BaseInv
<1>3. ASSUME NEW n \in Nodes, CountSubmit(t, n)
      PROVE  UNCHANGED Lifecycle!lifecycle
  <2>1. UNCHANGED <<num_in_flight, queue, responsible_allocator>>
    BY <1>3 DEF CountSubmit
  <2>2. pc[t] = "notify" /\ submitter = t /\ n \in Submitted
    BY <1>3 DEF CountSubmit, NextFreed, Submitted, LifeInv, QueueInv, CountInv, BaseInv, ThreadsRight
  <2>3. life[n] = "queued"
    BY <2>2, SentinelsAssumption DEF LifeInv, QueueInv, CountInv, BaseInv, SubmitRight
  <2>4. \A m \in Nodes : life'[m] = IF m = n THEN "spent" ELSE life[m]
    BY <1>3, Types DEF CountSubmit, LifeInv, QueueInv, CountInv, BaseInv, PoolType
  <2>5. \A m \in Nodes : UNCHANGED life[m] \/ (life[m] # "recorded" /\ life'[m] # "recorded")
    BY <2>3, <2>4
  <2> QED
    BY <2>1, <2>5, RecordedSame, SubmittedSame, Stutters, Types DEF LifeInv, QueueInv, CountInv, BaseInv
<1>4. CASE SignalGPU(t)
  <2>1. /\ pc[t] = "signal" /\ UNCHANGED <<num_in_flight, life, responsible_allocator>>
    BY <1>4 DEF SignalGPU, counters, pool
  <2>2. PICK a \in Allocs : a = responsible_allocator[node[t]]
    BY <2>1 DEF LifeInv, QueueInv, CountInv, BaseInv, NodesRight
  <2>3. SignalValue(a) \in Nat
    BY Types DEF SignalValue, LifeInv, QueueInv, CountInv, BaseInv, CounterType
  <2>4. \E op \in Operation : op.op = "signal" /\ queue' = Append(queue, op)
    <3>1. [op |-> "signal", allocs |-> {a}, value |-> SignalValue(a)] \in Operation
      BY <2>3 DEF Operation
    <3> QED
      BY <1>4, <2>2, <3>1 DEF SignalGPU
  <2> QED
    BY <2>1, <2>4, RecordedSame, SubmittedSame, Stutters, Types DEF LifeInv, QueueInv, CountInv, BaseInv
<1>5. CASE SubmitEnd(t)
  BY <1>5, RecordedSame, SubmittedSame, Stutters, Types
     DEF SubmitEnd, counters, pool, LifeInv, QueueInv, CountInv, BaseInv
<1> QED
  BY <1>1, <1>2, <1>3, <1>4, <1>5 DEF Submit

LEMMA ReleaseMaps ==
  ASSUME QueueInv, NEW t \in Threads, ReleaseNode(t)
  PROVE  UNCHANGED Lifecycle!lifecycle
<1>1. /\ UNCHANGED <<num_in_flight, queue>> /\ node[t] \in Nodes /\ life[node[t]] = "spent"
  BY DEF ReleaseNode, counters, QueueInv, CountInv, BaseInv, NodesRight
<1>2. \A m \in Nodes : \/ m # node[t] /\ UNCHANGED <<life[m], responsible_allocator[m]>>
                       \/ m = node[t] /\ life[m] # "recorded" /\ life'[m] = "free"
  BY <1>1, Types DEF ReleaseNode, QueueInv, CountInv, BaseInv, PoolType
<1> QED
  BY <1>1, <1>2, RecordedSame, SubmittedSame, Stutters, Types DEF QueueInv, CountInv, BaseInv

\* the GPU
LEMMA GPUMaps ==
  ASSUME QueueInv, GPU
  PROVE  Lifecycle!Next \/ UNCHANGED Lifecycle!lifecycle
<1>1. /\ queue # <<>> /\ queue' = Tail(queue) /\ QueueType
      /\ UNCHANGED <<num_in_flight, life, responsible_allocator>>
  BY Types DEF GPU, FinishLists, SignalFence, counters, pool, QueueInv, CountInv, BaseInv
<1>2. UNCHANGED opened
  BY <1>1, RecordedSame
<1>3. /\ 1 \in DOMAIN queue /\ Head(queue) = queue[1] /\ queue[1].allocs \subseteq Allocs
      /\ queue[1].op \in {"execute", "signal"}
  BY <1>1, TailRight, OperationRight
<1>4. \A a : 1 \in ExecutionsOf(a) <=> queue[1].op = "execute" /\ a \in queue[1].allocs
  BY <1>3 DEF ExecutionsOf, Uses
<1>5. \A a : /\ Cardinality(ExecutionsOf(a)') =
                  Cardinality(ExecutionsOf(a)) - IF 1 \in ExecutionsOf(a) THEN 1 ELSE 0
             /\ Cardinality(ExecutionsOf(a)) \in Nat
             /\ 1 \in ExecutionsOf(a) => Cardinality(ExecutionsOf(a)) # 0
  BY <1>1, ExecutionsTail, ExecutionsFinite, FS_EmptySet
<1>6. CASE queue[1].op = "signal"
  <2>1. UNCHANGED submitted
    BY <1>4, <1>5, <1>6 DEF submitted
  <2> QED
    BY <1>1, <1>2, <2>1, Stutters
<1>7. CASE queue[1].op = "execute"
  <2> DEFINE S == queue[1].allocs
  <2>1. \A a \in S : submitted[a] > 0
    BY <1>3, <1>4, <1>5, <1>7 DEF submitted
  <2>2. submitted' = [a \in Allocs |-> IF a \in S THEN submitted[a] - 1 ELSE submitted[a]]
    BY <1>4, <1>5, <1>7 DEF submitted
  <2>3. S \in SUBSET Allocs
    BY <1>3
  <2> HIDE DEF S
  <2>4. Lifecycle!Finish(S)
    BY <1>1, <1>2, <2>1, <2>2 DEF Lifecycle!Finish, opened, submitted, Recorded
  <2> QED
    BY <2>3, <2>4 DEF Lifecycle!Next
<1> QED
  BY <1>3, <1>6, <1>7

LEMMA ReplaceMaps ==
  ASSUME QueueInv, ReplaceBackend
  PROVE  Lifecycle!Next \/ UNCHANGED Lifecycle!lifecycle
<1>1. queue = <<>> /\ UNCHANGED queue /\ UNCHANGED submitted
  BY SubmittedSame, Types DEF ReplaceBackend, QueueInv, CountInv, BaseInv
<1>2. CASE UNCHANGED <<counters, pool>>
  BY <1>1, <1>2, RecordedSame, Stutters DEF counters, pool
<1>3. CASE /\ num_in_flight' = [a \in Allocs |-> 0]
           /\ life' = [n \in Nodes |-> "free"]
  <2>1. \A a \in Allocs : submitted[a] = 0
    <3>1. \A a \in Allocs : ExecutionsOf(a) = {}
      BY <1>1 DEF ExecutionsOf, Uses
    <3> QED
      BY <3>1, FS_EmptySet DEF submitted
  <2>2. opened' = [a \in Allocs |-> 0]
    <3>1. \A a \in Allocs : Recorded(a)' = {}
      BY <1>3 DEF Recorded, Open
    <3>2. Cardinality({}) = 0
      BY FS_EmptySet
    <3> QED
      BY <3>1, <3>2 DEF opened
  <2>3. Lifecycle!Replace
    BY <1>1, <1>3, <2>1, <2>2 DEF Lifecycle!Replace, opened, submitted, Recorded
  <2> QED
    BY <2>3 DEF Lifecycle!Next
<1> QED
  BY <1>2, <1>3 DEF ReplaceBackend

LEMMA ApplicationMaps ==
  ASSUME QueueInv, Application
  PROVE  Lifecycle!Next \/ UNCHANGED Lifecycle!lifecycle
<1>1. CASE ReplaceBackend
  BY <1>1, ReplaceMaps
<1>2. ASSUME NEW t \in Threads, NEW n \in Nodes, Discard(t, n)
      PROVE  Lifecycle!Next
  BY <1>2, DiscardMaps
<1>3. ASSUME NEW t \in Threads, RecordCommandList(t)
      PROVE  UNCHANGED Lifecycle!lifecycle
  <2>1. UNCHANGED <<num_in_flight, queue, responsible_allocator>>
    BY <1>3 DEF RecordCommandList, counters
  <2>2. \A m \in Nodes : UNCHANGED life[m] \/ (life[m] # "recorded" /\ life'[m] # "recorded")
    BY <1>3, Types DEF RecordCommandList, AcquireNode, QueueInv, CountInv, BaseInv, PoolType
  <2> QED
    BY <2>1, <2>2, RecordedSame, SubmittedSame, Stutters, Types DEF QueueInv, CountInv, BaseInv
<1>4. ASSUME UNCHANGED <<counters, pool, queue>>
      PROVE  UNCHANGED Lifecycle!lifecycle
  BY <1>4, RecordedSame, SubmittedSame, Stutters, Types DEF counters, pool, QueueInv, CountInv, BaseInv
<1>5. ASSUME NEW t \in Threads, ThreadReplaced(t)
      PROVE  UNCHANGED Lifecycle!lifecycle
  BY <1>4, <1>5 DEF ThreadReplaced
<1>6. ASSUME NEW t \in Threads, NEW cls \in SUBSET Nodes, NEW n \in 0 .. MaxBarriers, SubmitBegin(t, cls, n)
      PROVE  UNCHANGED Lifecycle!lifecycle
  BY <1>4, <1>6 DEF SubmitBegin
<1> QED
  BY <1>1, <1>2, <1>3, <1>5, <1>6 DEF Application

LEMMA LastKept ==
  ASSUME LifeInv, [Next]_vars
  PROVE  LastRight'
<1>1. \A a \in Allocs : submit_counter[a] \in Nat /\ submit_counter_at_last_reset[a] \in Nat
  BY Types DEF LifeInv, QueueInv, CountInv, BaseInv, CounterType
<1>2. CASE UNCHANGED <<submit_counter, submit_counter_at_last_reset>>
  BY <1>2 DEF LifeInv, LastRight
<1>3. ASSUME NEW t \in Threads, NEW n \in Nodes, CountSubmit(t, n)
      PROVE  LastRight'
  <2>1. \A a \in Allocs : submit_counter'[a] = submit_counter[a] \/ submit_counter'[a] = submit_counter[a] + 1
    BY <1>3, Types DEF CountSubmit, LifeInv, QueueInv, CountInv, BaseInv, CounterType
  <2>2. UNCHANGED submit_counter_at_last_reset
    BY <1>3 DEF CountSubmit
  <2> QED
    BY <1>1, <2>1, <2>2 DEF LifeInv, LastRight
<1>4. ASSUME NEW t \in Threads, DoReset(t), UNCHANGED submit_counter
      PROVE  LastRight'
  <2>1. \A a \in Allocs : \/ submit_counter_at_last_reset'[a] = submit_counter_at_last_reset[a]
                          \/ submit_counter_at_last_reset'[a] = submit_counter[a]
    BY <1>4, Types DEF DoReset, LifeInv, QueueInv, CountInv, BaseInv, CounterType
  <2> QED
    BY <1>1, <1>4, <2>1 DEF LifeInv, LastRight
<1>5. ASSUME NEW t \in Threads, Create(t)
      PROVE  LastRight'
  BY <1>2, <1>4, <1>5 DEF Create, TakeList, LoadSubmits, LoadDiscarded, LookAtFence, WaitForFence, counters
<1>6. ASSUME NEW t \in Threads, Submit(t) \/ ReleaseNode(t)
      PROVE  LastRight'
  BY <1>2, <1>3, <1>6 DEF Submit, CreateBarrierList, ExecuteCommandLists, SignalGPU, SubmitEnd, ReleaseNode, counters
<1>7. CASE ReplaceBackend
  <2>1. CASE /\ submit_counter' = [a \in Allocs |-> 0]
             /\ submit_counter_at_last_reset' = [a \in Allocs |-> 0]
    BY <2>1 DEF LastRight
  <2> QED
    BY <1>2, <1>7, <2>1 DEF ReplaceBackend, counters
<1>8. CASE Application /\ ~ReplaceBackend
  BY <1>2, <1>8 DEF Application, RecordCommandList, ThreadReplaced, Discard, SubmitBegin, counters
<1>9. CASE GPU \/ UNCHANGED vars
  BY <1>2, <1>9 DEF GPU, FinishLists, SignalFence, vars, counters
<1> QED
  BY <1>5, <1>6, <1>7, <1>8, <1>9 DEF Next

\* The pool is a command list pool: a list is handed out, discarded or submitted once, and memory is
\* recycled when all of an allocator's lists are disposed of and executed (cmd_list_pool.cc:94).
THEOREM LifecycleImplemented == Spec => Implements
<1>1. Init => LifeInv /\ Lifecycle!Init
  <2> SUFFICES ASSUME Init PROVE LastRight /\ Lifecycle!Init
    BY QueueInvInit DEF LifeInv
  <2>1. LastRight
    BY DEF Init, LastRight
  <2>2. \A a \in Allocs : Recorded(a) = {} /\ ExecutionsOf(a) = {}
    BY DEF Init, Recorded, Open, ExecutionsOf, Uses
  <2>3. opened = [a \in Allocs |-> 0] /\ submitted = [a \in Allocs |-> 0]
    BY <2>2, FS_EmptySet DEF opened, submitted
  <2> QED
    BY <2>1, <2>3 DEF Init, Lifecycle!Init, opened, submitted, Recorded
<1>2. LifeInv /\ [Next]_vars => LifeInv'
  BY LastKept, QueueInvStep DEF LifeInv
<1>3. LifeInv /\ [Next]_vars => [Lifecycle!Next]_Lifecycle!lifecycle
  <2> SUFFICES ASSUME LifeInv, [Next]_vars
               PROVE  Lifecycle!Next \/ UNCHANGED Lifecycle!lifecycle
    OBVIOUS
  <2>1. CASE UNCHANGED vars
    BY <2>1, RecordedSame, SubmittedSame, Stutters, Types
       DEF vars, counters, pool, LifeInv, QueueInv, CountInv, BaseInv
  <2>2. CASE Next
    BY <2>2, CreateMaps, SubmitStepMaps, ReleaseMaps, GPUMaps, ApplicationMaps DEF Next, LifeInv
  <2> QED
    BY <2>1, <2>2
<1> QED
  BY <1>1, <1>2, <1>3, PTL DEF Spec, Implements, Lifecycle!Spec

-----------------------------------------------------------------------------
(* No assertion, as long as the application keeps to its limits            *)

\* The application leaves no more lists of a bundle unsubmitted than this has allocators, each of
\* which may then be held up by one; and the handle pool has a node for every allocator (it has one
\* for every list).
LimitsHold == MaxDangling <= NumAllocs /\ Cardinality(Allocs) <= Cardinality(Nodes)

\* lists that calls in progress will yet add to bundle i
Creating(i)  == IF \E t \in Threads : pc[t] \in Finding /\ index[t] = i THEN 1 ELSE 0
Announced(i) == IF submitter # NoThread /\ index[submitter] = i THEN sub_needed ELSE 0

DanglingFits ==
  \A i \in Indices : Cardinality(Dangling(i)) + Creating(i) + Announced(i) <= MaxDangling

\* how many allocators the bundle of t is from the k-th
TurnsTo(t, k) ==
  IF k >= mActiveIndex[index[t]] THEN k - mActiveIndex[index[t]]
                                 ELSE k + NumAllocs - mActiveIndex[index[t]]

\* No list of the k-th allocator of t is open, t gets there while it may still wait for it, and what
\* t has loaded of it is what there is.
RoomAt(t, k) ==
  /\ Open(<<index[t], k>>) = {}
  /\ it[t] >= NumAllocs => TurnsTo(t, k) < 2 * NumAllocs - it[t]
  /\ pc[t] = "loaded" /\ mActiveIndex[index[t]] = k =>
       submits[t] = submit_counter[Active(t)] - submit_counter_at_last_reset[Active(t)]

RoomFor(t) ==
  /\ pc[t] \in Finding => \E k \in 0 .. NumAllocs - 1 : RoomAt(t, k)
  /\ pc[t] \notin Finding => it[t] = 0
  /\ pc[t] = "look" => it[t] < NumAllocs
  /\ pc[t] = "loaded" => submits[t] >= 0

\* whoever took a node is looking for a list
AcquiredRight ==
  \A n \in Nodes : life[n] = "acquired" => \E t \in Threads : pc[t] \in Finding /\ node[t] = n

RoomAhead == DanglingFits /\ (\A t \in Threads : RoomFor(t)) /\ AcquiredRight

RoomInv == LifeInv /\ (assertion = "none" => RoomAhead)

LEMMA RoomTypes ==
  ASSUME LifeInv
  PROVE  /\ BaseInv /\ TypeOK
         /\ pc \in [Threads -> Points] /\ node \in [Threads -> Nodes \union {NoNode}]
         /\ it \in [Threads -> Nat] /\ submits \in [Threads -> Int] /\ index \in [Threads -> Nat]
         /\ submit_counter \in [Allocs -> Nat] /\ submit_counter_at_last_reset \in [Allocs -> Nat]
         /\ mActiveIndex \in [Indices -> 0 .. NumAllocs - 1]
         /\ life \in [Nodes -> {"free", "acquired", "recorded", "queued", "spent"}]
         /\ responsible_allocator \in [Nodes -> Allocs \union {NoAlloc}]
         /\ submitter \in Threads \union {NoThread} /\ sub_needed \in Nat
         /\ NumAllocs \in Nat \ {0} /\ MaxDangling \in Nat /\ NoThread \notin Threads
  BY Types, SizesAssumption, BoundsAssumption, SentinelsAssumption
     DEF LifeInv, QueueInv, CountInv, BaseInv, AssocType, ThreadType, CounterType, PoolType, SubmitType

LEMMA DanglingFinite ==
  ASSUME NEW i
  PROVE  IsFiniteSet(Dangling(i)) /\ Cardinality(Dangling(i)) \in Nat /\ Dangling(i) \subseteq Nodes
<1>1. Dangling(i) \subseteq Nodes
  BY DEF Dangling
<1> QED
  BY <1>1, SizesAssumption, FS_Subset, FS_CardinalityType

\* what a thread does by itself
Acts(t) ==
  \/ RecordCommandList(t) \/ ThreadReplaced(t)
  \/ \E n \in Nodes : Discard(t, n)
  \/ \E cls \in SUBSET Nodes, n \in 0 .. MaxBarriers : SubmitBegin(t, cls, n)
  \/ Create(t) \/ Submit(t) \/ ReleaseNode(t)

LEMMA Steps ==
  ASSUME [Next]_vars
  PROVE  \/ UNCHANGED vars
         \/ assertion = "none" /\ (ReplaceBackend \/ GPU \/ \E t \in Threads : Acts(t))
  BY DEF Next, Application, Acts

\* Where a thread goes, and what becomes of its locals.
LEMMA ActsShape ==
  ASSUME NEW t \in Threads, Acts(t)
  PROVE  /\ pc' = pc \/ \E to : pc' = [pc EXCEPT ![t] = to]
         /\ node' = node \/ \E n : node' = [node EXCEPT ![t] = n]
         /\ it' = it \/ \E n : it' = [it EXCEPT ![t] = n]
         /\ submits' = submits \/ \E n : submits' = [submits EXCEPT ![t] = n]
         /\ mActiveIndex' = mActiveIndex
              \/ (pc[t] \in Finding /\ \E k : mActiveIndex' = [mActiveIndex EXCEPT ![index[t]] = k])
         /\ \/ submitter' = submitter /\ (sub_needed' = sub_needed \/ pc[t] = "submit")
            \/ submitter = NoThread /\ submitter' = t
            \/ pc[t] = "notify" /\ submitter' = NoThread
         /\ UNCHANGED assoc \/ GetCurrentIndex(t) \/ ThreadEnds(t)
<1>1. CASE TakeList(t)
  BY <1>1 DEF TakeList, Goto
<1>2. CASE LoadSubmits(t)
  BY <1>2 DEF LoadSubmits, Goto, submit
<1>3. CASE LoadDiscarded(t)
  BY <1>3 DEF LoadDiscarded, NextAllocator, Goto, Fail, submit, Finding
<1>4. CASE LookAtFence(t) \/ WaitForFence(t)
  BY <1>4 DEF LookAtFence, WaitForFence, DoReset, NextAllocator, Goto, Fail, submit, Finding
<1>5. CASE RecordCommandList(t)
  BY <1>5 DEF RecordCommandList, AcquireNode, Goto, submit
<1>6. CASE ThreadReplaced(t)
  BY <1>6 DEF ThreadReplaced, submit
<1>7. CASE \E n \in Nodes : Discard(t, n)
  BY <1>7 DEF Discard, Goto, submit
<1>8. CASE \E cls \in SUBSET Nodes, n \in 0 .. MaxBarriers : SubmitBegin(t, cls, n)
  BY <1>8 DEF SubmitBegin, Goto, submit
<1>9. CASE CreateBarrierList(t)
  BY <1>9 DEF CreateBarrierList, AcquireNode, Goto
<1>10. CASE ExecuteCommandLists(t) \/ SignalGPU(t) \/ SubmitEnd(t) \/ ReleaseNode(t)
  BY <1>10 DEF ExecuteCommandLists, SignalGPU, SubmitEnd, ReleaseNode, Goto, submit
<1>11. CASE \E n \in Nodes : CountSubmit(t, n)
  BY <1>11 DEF CountSubmit, Goto
<1> QED
  BY <1>1, <1>2, <1>3, <1>4, <1>5, <1>6, <1>7, <1>8, <1>9, <1>10, <1>11 DEF Acts, Create, Submit

\* What a thread does is not seen in the locals of another, nor in its bundle while it is in create.
LEMMA OthersKept ==
  ASSUME LifeInv, NEW t \in Threads, Acts(t), NEW u \in Threads, u # t
  PROVE  /\ pc'[u] = pc[u] /\ node'[u] = node[u] /\ it'[u] = it[u] /\ submits'[u] = submits[u]
         /\ index'[u] = index[u]
         /\ pc[u] \in Finding => mActiveIndex'[index[u]] = mActiveIndex[index[u]]
         /\ submitter' = u <=> submitter = u
         /\ submitter = u => sub_needed' = sub_needed
<1>1. pc'[u] = pc[u] /\ node'[u] = node[u]
  BY ActsShape, RoomTypes
<1>2. it'[u] = it[u] /\ submits'[u] = submits[u]
  BY ActsShape, RoomTypes
<1>3. index'[u] = index[u]
  BY ActsShape, RoomTypes, IndexGiven, ThreadEndsRight, Types DEF assoc, BaseInv
<1>4. ASSUME pc[u] \in Finding
      PROVE  mActiveIndex'[index[u]] = mActiveIndex[index[u]]
  <2>1. CASE pc[t] \in Finding
    <3>1. index[u] \in Indices /\ index[t] \in Indices /\ index[u] # index[t]
      BY <1>4, <2>1, ActiveRight, RoomTypes
    <3> QED
      BY <3>1, ActsShape, RoomTypes
  <2>2. CASE pc[t] \notin Finding
    BY <2>2, ActsShape
  <2> QED
    BY <2>1, <2>2
<1>5. pc[t] \in {"submit", "notify"} => submitter = t
  BY RoomTypes DEF BaseInv, ThreadsRight
<1>6. (submitter' = u <=> submitter = u) /\ (submitter = u => sub_needed' = sub_needed)
  BY <1>5, ActsShape, RoomTypes
<1> QED
  BY <1>1, <1>2, <1>3, <1>4, <1>6

\* Lists come from TakeList only; all else can only end them.
LEMMA NodesKept ==
  ASSUME LifeInv, [Next]_vars, NEW n \in Nodes
  PROVE  \/ \E t \in Threads : TakeList(t) /\ n = node[t]
         \/ /\ life'[n] \in {"recorded", "queued", "spent"} =>
                 /\ life[n] \in {"recorded", "queued", "spent"}
                 /\ responsible_allocator'[n] = responsible_allocator[n]
            /\ life'[n] \in {"recorded", "queued"} => life[n] \in {"recorded", "queued"}
<1> DEFINE Kept == /\ life'[n] \in {"recorded", "queued", "spent"} =>
                        /\ life[n] \in {"recorded", "queued", "spent"}
                        /\ responsible_allocator'[n] = responsible_allocator[n]
                   /\ life'[n] \in {"recorded", "queued"} => life[n] \in {"recorded", "queued"}
<1>a. /\ life \in [Nodes -> {"free", "acquired", "recorded", "queued", "spent"}]
      /\ responsible_allocator \in [Nodes -> Allocs \union {NoAlloc}]
  BY RoomTypes
<1>1. CASE UNCHANGED pool
  BY <1>1 DEF pool
<1>2. ASSUME NEW m \in Nodes, NEW to \in {"free", "acquired", "spent"},
             life' = [life EXCEPT ![m] = to],
             to = "spent" => life[m] \in {"recorded", "queued", "spent"},
             responsible_allocator' = responsible_allocator
               \/ (to = "free" /\ responsible_allocator' = [responsible_allocator EXCEPT ![m] = NoAlloc])
      PROVE  Kept
  <2>1. life'[n] = IF n = m THEN to ELSE life[n]
    BY <1>a, <1>2
  <2>2. n # m => responsible_allocator'[n] = responsible_allocator[n]
    BY <1>a, <1>2
  <2> QED
    BY <1>2, <2>1, <2>2
<1>3. ASSUME NEW t \in Threads, TakeList(t), n # node[t]
      PROVE  Kept
  <2>1. /\ life' = [life EXCEPT ![node[t]] = "recorded"]
        /\ responsible_allocator' = [responsible_allocator EXCEPT ![node[t]] = Active(t)]
    BY <1>3 DEF TakeList
  <2>2. life'[n] = life[n] /\ responsible_allocator'[n] = responsible_allocator[n]
    BY <1>3, <1>a, <2>1
  <2> QED
    BY <2>2
<1>4. ASSUME NEW t \in Threads, AcquireNode(t), UNCHANGED responsible_allocator
      PROVE  Kept
  <2>1. CASE UNCHANGED life
    BY <1>4, <2>1
  <2>2. CASE \E m \in Nodes : life[m] = "free" /\ life' = [life EXCEPT ![m] = "acquired"]
    BY <1>2, <1>4, <2>2
  <2> QED
    BY <1>4, <2>1, <2>2 DEF AcquireNode
<1>5. ASSUME NEW t \in Threads, Create(t), ~TakeList(t)
      PROVE  UNCHANGED pool
  BY <1>5 DEF Create, LoadSubmits, LoadDiscarded, LookAtFence, WaitForFence
<1>6. CASE \E t \in Threads : RecordCommandList(t)
  BY <1>1, <1>4, <1>6 DEF RecordCommandList, pool
<1>7. CASE \E t \in Threads : CreateBarrierList(t)
  BY <1>4, <1>7 DEF CreateBarrierList
<1>8. ASSUME NEW t \in Threads, NEW m \in Nodes, Discard(t, m)
      PROVE  Kept
  <2>1. /\ life' = [life EXCEPT ![m] = "spent"] /\ life[m] = "recorded" /\ UNCHANGED responsible_allocator
    BY <1>8 DEF Discard
  <2> QED
    BY <1>2, <2>1
<1>9. ASSUME NEW t \in Threads, NEW m \in Nodes, CountSubmit(t, m)
      PROVE  Kept
  <2>1. /\ life' = [life EXCEPT ![m] = "spent"] /\ UNCHANGED responsible_allocator
        /\ pc[t] = "notify" /\ m \in Submitted
    BY <1>9 DEF CountSubmit, NextFreed, Submitted
  <2>2. submitter = t /\ life[m] = "queued"
    BY <2>1, RoomTypes DEF BaseInv, ThreadsRight, SubmitRight
  <2> QED
    BY <1>2, <2>1, <2>2
<1>10. ASSUME NEW t \in Threads, ReleaseNode(t)
       PROVE  Kept
  <2>1. /\ life' = [life EXCEPT ![node[t]] = "free"]
        /\ responsible_allocator' = [responsible_allocator EXCEPT ![node[t]] = NoAlloc]
        /\ pc[t] = "release"
    BY <1>10 DEF ReleaseNode
  <2>2. node[t] \in Nodes
    BY <2>1, RoomTypes DEF BaseInv, NodesRight
  <2> QED
    BY <1>2, <2>1, <2>2
<1>11. ASSUME NEW t \in Threads, ExecuteCommandLists(t)
       PROVE  Kept
  <2>1. /\ life' = [m \in Nodes |-> IF m \in Submitted THEN "queued" ELSE life[m]]
        /\ UNCHANGED responsible_allocator /\ pc[t] = "submit"
    BY <1>11 DEF ExecuteCommandLists
  <2>2. \A m \in Submitted : life[m] = "recorded"
    <3>1. submitter = t
      BY <2>1, RoomTypes DEF BaseInv, ThreadsRight
    <3> QED
      BY <2>1, <3>1, RoomTypes DEF BaseInv, SubmitRight
  <2> QED
    BY <2>1, <2>2
<1>12. CASE ReplaceBackend
  <2>1. CASE life' = [m \in Nodes |-> "free"]
    BY <2>1
  <2> QED
    BY <1>1, <1>12, <2>1 DEF ReplaceBackend
<1>13. ASSUME NEW t \in Threads,
              \/ ThreadReplaced(t) \/ SignalGPU(t) \/ SubmitEnd(t)
              \/ \E cls \in SUBSET Nodes, k \in 0 .. MaxBarriers : SubmitBegin(t, cls, k)
       PROVE  UNCHANGED pool
  BY <1>13 DEF ThreadReplaced, SignalGPU, SubmitEnd, SubmitBegin
<1>14. CASE GPU \/ UNCHANGED vars
  BY <1>1, <1>14 DEF GPU, FinishLists, SignalFence, vars
<1>15. ASSUME NEW t \in Threads, Acts(t)
       PROVE  Kept \/ \E u \in Threads : TakeList(u) /\ n = node[u]
  <2>1. CASE Create(t)
    BY <1>1, <1>3, <1>5, <2>1
  <2>2. CASE Submit(t)
    BY <1>1, <1>7, <1>9, <1>11, <1>13, <2>2 DEF Submit
  <2> QED
    BY <1>6, <1>8, <1>10, <1>13, <1>1, <1>15, <2>1, <2>2 DEF Acts
<1> QED
  BY <1>12, <1>14, <1>15, Steps

\* Nobody opens lists of an allocator but the thread that is there.
LEMMA OpenKept ==
  ASSUME LifeInv, [Next]_vars, NEW a \in Allocs, Open(a) = {},
         \A t \in Threads : TakeList(t) => Active(t) # a
  PROVE  Open(a)' = {}
<1> SUFFICES ASSUME NEW n \in Nodes, n \in Open(a)' PROVE FALSE
  BY DEF Open
<1>1. life'[n] \in {"recorded", "queued"} /\ responsible_allocator'[n] = a
  BY DEF Open
<1>2. CASE \E t \in Threads : TakeList(t) /\ n = node[t]
  <2>1. PICK t \in Threads : TakeList(t) /\ n = node[t]
    BY <1>2
  <2>2. responsible_allocator' = [responsible_allocator EXCEPT ![n] = Active(t)]
    BY <2>1 DEF TakeList
  <2>3. responsible_allocator'[n] = Active(t)
    BY <2>2, RoomTypes
  <2> QED
    BY <1>1, <2>1, <2>3
<1>3. CASE ~\E t \in Threads : TakeList(t) /\ n = node[t]
  BY <1>1, <1>3, NodesKept DEF Open
<1> QED
  BY <1>2, <1>3

\* The submissions of an allocator without open lists are as many as they are until its owner
\* resets it.
LEMMA SubmitsKept ==
  ASSUME LifeInv, [Next]_vars, NEW a \in Allocs, Open(a) = {}
  PROVE  \/ submit_counter'[a] = submit_counter[a]
            /\ submit_counter_at_last_reset'[a] = submit_counter_at_last_reset[a]
         \/ ReplaceBackend
         \/ \E t \in Threads : Create(t) /\ DoReset(t) /\ a = Active(t)
<1>a. submit_counter \in [Allocs -> Nat] /\ submit_counter_at_last_reset \in [Allocs -> Nat]
  BY RoomTypes
<1>1. CASE UNCHANGED counters
  BY <1>1 DEF counters
<1>2. ASSUME NEW t \in Threads, Create(t), DoReset(t), a # Active(t)
      PROVE  submit_counter'[a] = submit_counter[a]
             /\ submit_counter_at_last_reset'[a] = submit_counter_at_last_reset[a]
  <2>1. submit_counter_at_last_reset'
          = [submit_counter_at_last_reset EXCEPT ![Active(t)] = submit_counter[Active(t)]]
    BY <1>2 DEF DoReset
  <2>2. submit_counter' = submit_counter
    BY <1>2 DEF Create, TakeList, LoadSubmits, LoadDiscarded, LookAtFence, WaitForFence, counters
  <2> QED
    BY <1>a, <1>2, <2>1, <2>2
<1>3. ASSUME NEW t \in Threads, Create(t), ~DoReset(t)
      PROVE  UNCHANGED <<submit_counter, submit_counter_at_last_reset>>
  BY <1>3 DEF Create, TakeList, LoadSubmits, LoadDiscarded, LookAtFence, WaitForFence, counters
<1>4. ASSUME NEW t \in Threads, NEW m \in Nodes, CountSubmit(t, m)
      PROVE  submit_counter'[a] = submit_counter[a]
             /\ submit_counter_at_last_reset'[a] = submit_counter_at_last_reset[a]
  <2>1. /\ submit_counter' = [submit_counter EXCEPT ![responsible_allocator[m]] = @ + 1]
        /\ UNCHANGED submit_counter_at_last_reset
        /\ pc[t] = "notify" /\ m \in Submitted
    BY <1>4 DEF CountSubmit, NextFreed, Submitted
  <2>2. submitter = t /\ life[m] = "queued"
    BY <2>1, RoomTypes DEF BaseInv, ThreadsRight, SubmitRight
  <2>3. responsible_allocator[m] # a
    BY <2>2 DEF Open
  <2> QED
    BY <1>a, <2>1, <2>3
<1>5. ASSUME NEW t \in Threads, Acts(t), ~Create(t), ~\E m \in Nodes : CountSubmit(t, m)
      PROVE  UNCHANGED <<submit_counter, submit_counter_at_last_reset>>
  BY <1>5 DEF Acts, Submit, RecordCommandList, ThreadReplaced, Discard, SubmitBegin, ReleaseNode,
              CreateBarrierList, ExecuteCommandLists, SignalGPU, SubmitEnd, counters
<1>6. CASE GPU \/ UNCHANGED vars
  BY <1>1, <1>6 DEF GPU, FinishLists, SignalFence, vars
<1> QED
  BY <1>1, <1>2, <1>3, <1>4, <1>5, <1>6, Steps

-----------------------------------------------------------------------------
(* The application keeps to its limit also while its threads are in calls. *)

\* A thread that enters the backend has a bundle that no call in progress uses.
LEMMA OwnIndex ==
  ASSUME LifeInv, NEW t \in Threads, GetCurrentIndex(t),
         NEW u \in Threads, u # t, pc[u] \in Finding \/ submitter = u
  PROVE  index[u] # CurrentIndex(t)
<1>1. AssocType /\ AssocRight /\ ThreadsRight
  BY RoomTypes, Types DEF BaseInv
<1>2. ts_id[u] = id
  BY <1>1 DEF ThreadsRight
<1>3. /\ AssocRight' /\ id' = id /\ ts_id'[t] = id /\ index'[t] = CurrentIndex(t)
      /\ ts_id'[u] = ts_id[u] /\ index'[u] = index[u]
  BY <1>1, IndexGiven
<1> QED
  BY <1>2, <1>3 DEF AssocRight

LEMMA ComingTypes ==
  ASSUME LifeInv, LifeInv', NEW i
  PROVE  /\ Creating(i) \in {0, 1} /\ Creating(i)' \in {0, 1}
         /\ Announced(i) \in Nat /\ Announced(i)' \in Nat
<1>1. sub_needed \in Nat /\ sub_needed' \in Nat
  BY Types, TypesNext DEF LifeInv, QueueInv, CountInv, BaseInv, SubmitType
<1> QED
  BY <1>1 DEF Creating, Announced

LEMMA CreatingLess ==
  ASSUME NEW i, \A u \in Threads : pc'[u] \in Finding /\ index'[u] = i => pc[u] \in Finding /\ index[u] = i
  PROVE  Creating(i)' <= Creating(i)
  BY DEF Creating

LEMMA AnnouncedLess ==
  ASSUME LifeInv, LifeInv', NEW i,
         submitter' # NoThread /\ index'[submitter'] = i =>
           submitter' = submitter /\ index[submitter] = i /\ sub_needed' <= sub_needed
  PROVE  Announced(i)' <= Announced(i)
<1>1. sub_needed \in Nat /\ sub_needed' \in Nat
  BY Types, TypesNext DEF LifeInv, QueueInv, CountInv, BaseInv, SubmitType
<1> QED
  BY <1>1 DEF Announced

LEMMA DanglingLess ==
  ASSUME LifeInv, [Next]_vars, NEW i \in Indices, \A t \in Threads : TakeList(t) => index[t] # i
  PROVE  Cardinality(Dangling(i)') <= Cardinality(Dangling(i)) /\ Cardinality(Dangling(i)') \in Nat
<1>1. Dangling(i)' \subseteq Dangling(i)
  <2> SUFFICES ASSUME NEW n \in Nodes, n \in Dangling(i)' PROVE n \in Dangling(i)
    BY DEF Dangling
  <2>1. /\ life'[n] \in {"recorded", "queued", "spent"}
        /\ responsible_allocator'[n] \in {i} \X (0 .. NumAllocs - 1)
    BY DEF Dangling
  <2>2. ~\E t \in Threads : TakeList(t) /\ n = node[t]
    <3> SUFFICES ASSUME NEW t \in Threads, TakeList(t), n = node[t] PROVE FALSE
      OBVIOUS
    <3>1. responsible_allocator' = [responsible_allocator EXCEPT ![n] = Active(t)]
      BY DEF TakeList
    <3>2. responsible_allocator'[n] = <<index[t], mActiveIndex[index[t]]>>
      BY <3>1, RoomTypes DEF Active
    <3> QED
      BY <2>1, <3>2
  <2> QED
    BY <2>1, <2>2, NodesKept DEF Dangling
<1> QED
  BY <1>1, DanglingFinite, FS_Subset, FS_CardinalityType

LEMMA OneMore ==
  ASSUME NEW S, NEW x, IsFiniteSet(S)
  PROVE  /\ IsFiniteSet(S \union {x})
         /\ Cardinality(S \union {x}) <= Cardinality(S) + 1
         /\ Cardinality(S \union {x}) \in Nat
<1>1. Cardinality(S) \in Nat
  BY FS_CardinalityType
<1> QED
  BY <1>1, FS_AddElement, FS_CardinalityType

\* The list that a call hands out was on its way before.
LEMMA TakeDangling ==
  ASSUME LifeInv, LifeInv', [Next]_vars, NEW t \in Threads, TakeList(t), DanglingFits, NEW i \in Indices
  PROVE  Cardinality(Dangling(i)') + Creating(i)' + Announced(i)' <= MaxDangling
<1>a. /\ pc \in [Threads -> Points] /\ life \in [Nodes -> {"free", "acquired", "recorded", "queued", "spent"}]
      /\ responsible_allocator \in [Nodes -> Allocs \union {NoAlloc}] /\ MaxDangling \in Nat
  BY RoomTypes
<1>b. /\ Cardinality(Dangling(i)) + Creating(i) + Announced(i) <= MaxDangling
      /\ Cardinality(Dangling(i)) \in Nat
  BY DanglingFinite DEF DanglingFits
<1>c. /\ Creating(i) \in {0, 1} /\ Creating(i)' \in {0, 1}
      /\ Announced(i) \in Nat /\ Announced(i)' \in Nat
  BY ComingTypes
<1>1. /\ pc[t] = "find" /\ UNCHANGED <<submitter, sub_needed, index>>
      /\ \/ pc' = [pc EXCEPT ![t] = "submit"]
         \/ pc' = [pc EXCEPT ![t] = "idle"]
      /\ life' = [life EXCEPT ![node[t]] = "recorded"]
      /\ responsible_allocator' = [responsible_allocator EXCEPT ![node[t]] = Active(t)]
  BY DEF TakeList, Goto, assoc
<1>2. \A u \in Threads : pc'[u] \in Finding => u # t /\ pc[u] \in Finding
  BY <1>a, <1>1 DEF Finding
<1>3. Creating(i)' <= Creating(i)
  BY <1>1, <1>2, CreatingLess
<1>4. Announced(i)' = Announced(i)
  BY <1>1 DEF Announced
<1>5. ASSUME NEW u \in Threads, TakeList(u)
      PROVE  u = t
  <2>1. pc'[u] \in {"submit", "idle"} /\ pc[u] = "find"
    BY <1>a, <1>5 DEF TakeList, Goto
  <2> QED
    BY <1>a, <1>1, <2>1
<1>6. CASE index[t] # i
  <2>1. Cardinality(Dangling(i)') <= Cardinality(Dangling(i)) /\ Cardinality(Dangling(i)') \in Nat
    BY <1>5, <1>6, DanglingLess
  <2> QED
    BY <1>a, <1>b, <1>c, <1>3, <1>4, <2>1
<1>7. CASE index[t] = i
  <2>1. Creating(i) = 1 /\ Creating(i)' = 0
    <3>1. \A u \in Threads \ {t} : pc[u] \in Finding => index[u] # i
      BY <1>1, <1>7, ActiveRight, RoomTypes DEF Finding
    <3>2. ~\E u \in Threads : pc'[u] \in Finding /\ index'[u] = i
      BY <1>1, <1>2, <3>1
    <3>3. pc[t] \in Finding
      BY <1>1 DEF Finding
    <3> QED
      BY <1>7, <3>2, <3>3 DEF Creating
  <2> DEFINE n == node[t]
  <2>2. Dangling(i)' \subseteq Dangling(i) \union {n}
    <3>1. \A m \in Nodes : m # n => life'[m] = life[m] /\ responsible_allocator'[m] = responsible_allocator[m]
      BY <1>a, <1>1
    <3> QED
      BY <3>1 DEF Dangling
  <2> HIDE DEF n
  <2>3. /\ IsFiniteSet(Dangling(i) \union {n})
        /\ Cardinality(Dangling(i) \union {n}) <= Cardinality(Dangling(i)) + 1
        /\ Cardinality(Dangling(i) \union {n}) \in Nat
    BY DanglingFinite, OneMore
  <2>4. /\ Cardinality(Dangling(i)') <= Cardinality(Dangling(i) \union {n})
        /\ Cardinality(Dangling(i)') \in Nat
    BY <2>2, <2>3, FS_Subset, FS_CardinalityType
  <2> QED
    BY <1>a, <1>b, <1>c, <1>4, <2>1, <2>3, <2>4
<1> QED
  BY <1>6, <1>7

\* What a call will add to a bundle, it announces when it begins.
LEMMA ComingStep ==
  ASSUME LifeInv, LifeInv', [Next]_vars, assertion' = "none", NEW i \in Indices
  PROVE  \/ Creating(i)' + Announced(i)' <= Creating(i) + Announced(i)
         \/ Cardinality(Dangling(i)) + Creating(i)' + Announced(i)' <= MaxDangling
<1>a. /\ pc \in [Threads -> Points] /\ index \in [Threads -> Nat] /\ sub_needed \in Nat
      /\ submitter \in Threads \union {NoThread} /\ NoThread \notin Threads /\ MaxDangling \in Nat
      /\ Cardinality(Dangling(i)) \in Nat
  BY RoomTypes, DanglingFinite
<1>b. /\ Creating(i) \in {0, 1} /\ Creating(i)' \in {0, 1}
      /\ Announced(i) \in Nat /\ Announced(i)' \in Nat
  BY ComingTypes
<1>c. sub_needed <= sub_needed
  BY <1>a
<1>1. ASSUME UNCHANGED <<pc, index, submitter, sub_needed>> \/ (\A t \in Threads : pc'[t] = "idle")
      PROVE  Creating(i)' <= Creating(i) /\ Announced(i)' <= Announced(i)
  <2>1. CASE UNCHANGED <<pc, index, submitter, sub_needed>>
    BY <1>a, <1>c, <2>1, CreatingLess, AnnouncedLess
  <2>2. CASE \A t \in Threads : pc'[t] = "idle"
    <3>1. submitter' = NoThread
      BY <2>2, Types, TypesNext DEF LifeInv, QueueInv, CountInv, BaseInv, ThreadsRight, SubmitType
    <3> QED
      BY <2>2, <3>1, CreatingLess, AnnouncedLess DEF Finding
  <2> QED
    BY <1>1, <2>1, <2>2
<1>2. ASSUME NEW t \in Threads, Acts(t)
      PROVE  \/ Creating(i)' + Announced(i)' <= Creating(i) + Announced(i)
             \/ Cardinality(Dangling(i)) + Creating(i)' + Announced(i)' <= MaxDangling
  <2>1. \A u \in Threads \ {t} :
          /\ pc'[u] = pc[u] /\ index'[u] = index[u]
          /\ submitter' = u <=> submitter = u
          /\ submitter = u => sub_needed' = sub_needed
    BY <1>2, OthersKept
  <2>2. ASSUME pc'[t] \in Finding => pc[t] \in Finding, submitter' = t => submitter = t /\ sub_needed' <= sub_needed,
               pc'[t] \in Finding \/ submitter' = t => index'[t] = index[t]
        PROVE  Creating(i)' <= Creating(i) /\ Announced(i)' <= Announced(i)
    <3>1. Creating(i)' <= Creating(i)
      BY <2>1, <2>2, CreatingLess
    <3>2. submitter' \in Threads \union {NoThread}
      BY <1>a, <1>2, ActsShape
    <3>3. Announced(i)' <= Announced(i)
      BY <1>c, <2>1, <2>2, <3>2, AnnouncedLess
    <3> QED
      BY <3>1, <3>3
  <2>3. CASE RecordCommandList(t)
    <3>1. /\ pc[t] = "idle" /\ GetCurrentIndex(t) /\ UNCHANGED <<submitter, sub_needed>>
          /\ Cardinality(Dangling(CurrentIndex(t))) < MaxDangling
      BY <2>3 DEF RecordCommandList, Fail, submit
    <3>2. submitter # t
      BY <3>1, RoomTypes DEF BaseInv, ThreadsRight
    <3>3. index'[t] = CurrentIndex(t)
      BY <3>1, IndexGiven, Types, RoomTypes DEF BaseInv
    <3>4. Announced(i)' <= Announced(i)
      BY <1>a, <1>c, <2>1, <3>1, <3>2, AnnouncedLess
    <3>5. CASE i = CurrentIndex(t)
      <4>1. Announced(i)' = 0
        <5>1. submitter # NoThread => index[submitter] # i
          BY <1>a, <3>1, <3>2, <3>5, OwnIndex
        <5> QED
          BY <1>a, <2>1, <3>1, <3>2, <5>1 DEF Announced
      <4> QED
        BY <1>a, <1>b, <3>1, <3>5, <4>1
    <3>6. CASE i # CurrentIndex(t)
      <4>1. Creating(i)' <= Creating(i)
        BY <2>1, <3>3, <3>6, CreatingLess
      <4> QED
        BY <1>b, <3>4, <4>1
    <3> QED
      BY <3>5, <3>6
  <2>4. ASSUME NEW cls \in SUBSET Nodes, NEW n \in 0 .. MaxBarriers, SubmitBegin(t, cls, n)
        PROVE  \/ Creating(i)' + Announced(i)' <= Creating(i) + Announced(i)
               \/ Cardinality(Dangling(i)) + Creating(i)' + Announced(i)' <= MaxDangling
    <3>1. /\ pc[t] = "idle" /\ GetCurrentIndex(t) /\ submitter' = t /\ sub_needed' = n
          /\ Cardinality(Dangling(CurrentIndex(t))) + n <= MaxDangling
          /\ pc' = [pc EXCEPT ![t] = "submit"]
      BY <2>4 DEF SubmitBegin, Fail, Goto
    <3>2. index'[t] = CurrentIndex(t) /\ pc'[t] = "submit"
      BY <1>a, <3>1, IndexGiven, Types, RoomTypes DEF BaseInv
    <3>3. CASE i = CurrentIndex(t)
      <4>1. Announced(i)' = n
        BY <1>a, <3>1, <3>2, <3>3 DEF Announced
      <4>2. Creating(i)' = 0
        <5>1. \A u \in Threads \ {t} : pc[u] \in Finding => index[u] # i
          BY <3>1, <3>3, OwnIndex
        <5>2. ~\E u \in Threads : pc'[u] \in Finding /\ index'[u] = i
          BY <2>1, <3>2, <5>1 DEF Finding
        <5> QED
          BY <5>2 DEF Creating
      <4> QED
        BY <1>a, <3>1, <3>3, <4>1, <4>2
    <3>4. CASE i # CurrentIndex(t)
      <4>1. Announced(i)' = 0
        BY <3>1, <3>2, <3>4 DEF Announced
      <4>2. Creating(i)' <= Creating(i)
        BY <2>1, <3>2, <3>4, CreatingLess
      <4> QED
        BY <1>b, <4>1, <4>2
    <3> QED
      BY <3>3, <3>4
  <2>5. CASE CreateBarrierList(t)
    <3>1. /\ pc[t] = "submit" /\ sub_needed > 0 /\ sub_needed' = sub_needed - 1
          /\ submitter' = submitter /\ index' = index
      BY <2>5 DEF CreateBarrierList, assoc
    <3>2. submitter = t
      BY <3>1, RoomTypes DEF BaseInv, ThreadsRight
    <3>3. CASE index[t] = i
      <4>1. Announced(i) = sub_needed /\ Announced(i)' = sub_needed - 1
        BY <1>a, <3>1, <3>2, <3>3 DEF Announced
      <4> QED
        BY <1>a, <1>b, <4>1
    <3>4. CASE index[t] # i
      <4>1. Announced(i)' = 0
        BY <3>1, <3>2, <3>4 DEF Announced
      <4>2. Creating(i)' <= Creating(i)
        BY <2>1, <3>1, <3>4, CreatingLess
      <4> QED
        BY <1>b, <4>1, <4>2
    <3> QED
      BY <3>3, <3>4
  <2>6. CASE ThreadReplaced(t) \/ (\E n \in Nodes : Discard(t, n)) \/ ReleaseNode(t) \/ (Submit(t) /\ ~CreateBarrierList(t))
    <3>1. /\ \/ pc' = pc /\ pc[t] = "idle"
             \/ \E to \in {"idle", "release", "notify", "signal"} : pc' = [pc EXCEPT ![t] = to]
          /\ submitter' \in {submitter, NoThread} /\ sub_needed' = sub_needed
          /\ UNCHANGED index \/ (pc[t] = "idle" /\ submitter' = submitter)
      <4>1. CASE ThreadReplaced(t)
        BY <4>1 DEF ThreadReplaced, submit
      <4>2. CASE \E n \in Nodes : Discard(t, n)
        BY <4>2 DEF Discard, Goto, submit, assoc
      <4>3. CASE ReleaseNode(t)
        BY <4>3 DEF ReleaseNode, Goto, submit, assoc
      <4>4. CASE \E n \in Nodes : CountSubmit(t, n)
        BY <4>4 DEF CountSubmit, Goto, assoc
      <4>5. CASE ExecuteCommandLists(t) \/ SignalGPU(t) \/ SubmitEnd(t)
        BY <4>5 DEF ExecuteCommandLists, SignalGPU, SubmitEnd, Goto, submit, assoc
      <4> QED
        BY <2>6, <4>1, <4>2, <4>3, <4>4, <4>5 DEF Submit
    <3>2. pc'[t] \notin Finding
      BY <1>a, <3>1 DEF Finding
    <3>3. submitter' = t => submitter = t /\ sub_needed' <= sub_needed /\ index'[t] = index[t]
      BY <1>a, <1>c, <3>1, RoomTypes DEF BaseInv, ThreadsRight
    <3> QED
      BY <1>b, <2>2, <3>2, <3>3
  <2>7. CASE Create(t)
    <3>1. pc[t] \in Finding /\ UNCHANGED <<submitter, sub_needed, index>>
      BY <2>7 DEF Create, TakeList, LoadSubmits, LoadDiscarded, LookAtFence, WaitForFence, submit, assoc, Finding
    <3> QED
      BY <1>b, <1>c, <2>2, <3>1
  <2> QED
    BY <1>2, <2>3, <2>4, <2>5, <2>6, <2>7 DEF Acts
<1>3. CASE UNCHANGED vars \/ GPU
  <2>1. UNCHANGED <<pc, index, submitter, sub_needed>>
    BY <1>3 DEF vars, GPU, FinishLists, SignalFence, submit, assoc
  <2> QED
    BY <1>1, <1>b, <2>1
<1>4. CASE ReplaceBackend
  <2>1. \A t \in Threads : pc'[t] = "idle"
    BY <1>4 DEF ReplaceBackend
  <2> QED
    BY <1>1, <1>b, <2>1
<1> QED
  BY <1>2, <1>3, <1>4, Steps

LEMMA DanglingFitsStep ==
  ASSUME LifeInv, LifeInv', DanglingFits, [Next]_vars, assertion' = "none"
  PROVE  DanglingFits'
<1> SUFFICES ASSUME NEW i \in Indices
             PROVE  Cardinality(Dangling(i)') + Creating(i)' + Announced(i)' <= MaxDangling
  BY DEF DanglingFits
<1>1. CASE \E t \in Threads : TakeList(t)
  BY <1>1, TakeDangling
<1>2. CASE ~\E t \in Threads : TakeList(t)
  <2>1. Cardinality(Dangling(i)') <= Cardinality(Dangling(i)) /\ Cardinality(Dangling(i)') \in Nat
    BY <1>2, DanglingLess
  <2>2. /\ Cardinality(Dangling(i)) \in Nat /\ MaxDangling \in Nat
        /\ Cardinality(Dangling(i)) + Creating(i) + Announced(i) <= MaxDangling
    BY DanglingFinite, RoomTypes DEF DanglingFits
  <2>3. /\ Creating(i) \in {0, 1} /\ Creating(i)' \in {0, 1}
        /\ Announced(i) \in Nat /\ Announced(i)' \in Nat
    BY ComingTypes
  <2> QED
    BY <2>1, <2>2, <2>3, ComingStep
<1> QED
  BY <1>1, <1>2

-----------------------------------------------------------------------------
(* Whoever looks for a list finds one.                                     *)

\* As long as fewer lists of a bundle dangle than it has allocators, one of these has none open.
LEMMA OneSettled ==
  ASSUME LifeInv, NEW i \in Indices, Cardinality(Dangling(i)) < NumAllocs
  PROVE  \E k \in 0 .. NumAllocs - 1 : Open(<<i, k>>) = {}
<1> SUFFICES ASSUME \A k \in 0 .. NumAllocs - 1 : Open(<<i, k>>) # {} PROVE FALSE
  OBVIOUS
<1> DEFINE K == 0 .. NumAllocs - 1
           f == [k \in K |-> CHOOSE n \in Dangling(i) : n \in Open(<<i, k>>)]
<1>0. NumAllocs \in Nat \ {0}
  BY SizesAssumption
<1>1. ASSUME NEW k \in K PROVE \E n \in Dangling(i) : n \in Open(<<i, k>>)
  <2>1. PICK n \in Nodes : n \in Open(<<i, k>>)
    BY DEF Open
  <2>2. life[n] \in {"recorded", "queued"} /\ responsible_allocator[n] = <<i, k>>
    BY <2>1 DEF Open
  <2>3. responsible_allocator[n] \in {i} \X (0 .. NumAllocs - 1)
    BY <2>2
  <2>4. n \in Dangling(i)
    BY <2>2, <2>3 DEF Dangling
  <2> QED
    BY <2>1, <2>4
<1>2. \A k \in K : f[k] \in Dangling(i) /\ f[k] \in Open(<<i, k>>)
  BY <1>1
<1>3. f \in [K -> Dangling(i)]
  <2>1. f = [k \in K |-> f[k]]
    OBVIOUS
  <2> HIDE DEF f
  <2> QED
    BY <1>2, <2>1
<1> HIDE DEF f
<1>4. \A j, k \in K : f[j] = f[k] => j = k
  <2> SUFFICES ASSUME NEW j \in K, NEW k \in K, f[j] = f[k] PROVE j = k
    OBVIOUS
  <2>1. responsible_allocator[f[j]] = <<i, j>> /\ responsible_allocator[f[k]] = <<i, k>>
    BY <1>2 DEF Open
  <2> QED
    BY <2>1
<1>5. Cardinality(K) = NumAllocs /\ IsFiniteSet(K)
  BY <1>0, FS_Interval
<1>6. f \in Injection(K, Dangling(i))
  BY <1>3, <1>4 DEF Injection, IsInjective
<1>7. Cardinality(K) <= Cardinality(Dangling(i))
  BY <1>6, DanglingFinite, FS_Injection
<1> HIDE DEF K
<1> QED
  BY <1>0, <1>5, <1>7, DanglingFinite

LEMMA BundleOf ==
  ASSUME LifeInv, NEW t \in Threads, pc[t] \in Finding
  PROVE  /\ index[t] \in Indices /\ Active(t) \in Allocs
         /\ mActiveIndex[index[t]] \in 0 .. NumAllocs - 1
         /\ \A k \in 0 .. NumAllocs - 1 : <<index[t], k>> \in Allocs
         /\ \A u \in Threads \ {t} : pc[u] \in Finding => index[u] # index[t] /\ Active(u) # Active(t)
  BY ActiveRight, RoomTypes DEF Allocs

\* A thread in create for which nothing changes but what others do with their lists.
LEMMA RoomSame ==
  ASSUME LifeInv, [Next]_vars, NEW u \in Threads, pc[u] \in Finding, RoomFor(u), ~Create(u), ~ReplaceBackend,
         pc'[u] = pc[u], index'[u] = index[u], it'[u] = it[u], submits'[u] = submits[u],
         mActiveIndex'[index[u]] = mActiveIndex[index[u]]
  PROVE  RoomFor(u)'
<1>1. PICK k \in 0 .. NumAllocs - 1 : RoomAt(u, k)
  BY DEF RoomFor
<1>2. PICK a \in Allocs : a = <<index[u], k>>
  BY BundleOf
<1>3. \A t \in Threads : Create(t) => Active(t) # a
  <2> SUFFICES ASSUME NEW t \in Threads, Create(t) PROVE Active(t) # a
    OBVIOUS
  <2>1. t # u
    OBVIOUS
  <2>2. pc[t] \in Finding
    BY DEF Create, TakeList, LoadSubmits, LoadDiscarded, LookAtFence, WaitForFence, Finding
  <2>3. index[t] # index[u]
    BY <2>1, <2>2, BundleOf
  <2> QED
    BY <1>2, <2>3 DEF Active
<1>4. Open(a) = {} /\ Open(a)' = {}
  <2>1. Open(a) = {}
    BY <1>1, <1>2 DEF RoomAt
  <2> QED
    BY <1>3, <2>1, OpenKept DEF Create
<1>5. /\ submit_counter'[a] = submit_counter[a]
      /\ submit_counter_at_last_reset'[a] = submit_counter_at_last_reset[a]
  BY <1>3, <1>4, SubmitsKept
<1>6. TurnsTo(u, k)' = TurnsTo(u, k) /\ Active(u)' = Active(u) /\ <<index'[u], k>> = a
  BY <1>2 DEF TurnsTo, Active
<1>7. RoomAt(u, k)'
  <2>1. Open(<<index[u], k>>)' = {}
    BY <1>4, <1>6 DEF Open
  <2>2. pc[u] = "loaded" /\ mActiveIndex[index[u]] = k => Active(u) = a
    BY <1>2 DEF Active
  <2> QED
    BY <1>1, <1>5, <1>6, <2>1, <2>2 DEF RoomAt
<1> QED
  BY <1>7 DEF RoomFor

\* What a thread loads is what there is.
LEMMA LoadRoom ==
  ASSUME LifeInv, NEW t \in Threads, LoadSubmits(t), RoomFor(t)
  PROVE  RoomFor(t)'
<1>1. /\ pc[t] = "find" /\ pc'[t] = "loaded"
      /\ UNCHANGED <<index, mActiveIndex, it, life, responsible_allocator, submit_counter,
                     submit_counter_at_last_reset>>
      /\ submits'[t] = submit_counter[Active(t)] - submit_counter_at_last_reset[Active(t)]
  BY RoomTypes DEF LoadSubmits, Goto, assoc, counters, pool
<1>2. pc[t] \in Finding
  BY <1>1 DEF Finding
<1>3. PICK k \in 0 .. NumAllocs - 1 : RoomAt(t, k)
  BY <1>2 DEF RoomFor
<1>4. submits'[t] >= 0
  <2>1. PICK a \in Allocs : a = Active(t)
    BY <1>2, BundleOf
  <2>2. /\ submit_counter_at_last_reset[a] <= submit_counter[a]
        /\ submit_counter_at_last_reset[a] \in Nat /\ submit_counter[a] \in Nat
    BY RoomTypes DEF LifeInv, LastRight
  <2> QED
    BY <1>1, <2>1, <2>2
<1>5. RoomAt(t, k)'
  BY <1>1, <1>3 DEF RoomAt, Open, TurnsTo, Active
<1> QED
  BY <1>1, <1>4, <1>5 DEF RoomFor, Finding

\* The allocator a thread is sure to find may be reset when it gets there.
LEMMA SettledUpToDate ==
  ASSUME LifeInv, NEW t \in Threads, pc[t] = "loaded", NEW k \in 0 .. NumAllocs - 1, RoomAt(t, k),
         mActiveIndex[index[t]] = k
  PROVE  UpToDate(t, num_in_flight[Active(t)] - num_discarded[Active(t)])
<1>1. PICK a \in Allocs : a = Active(t)
  BY BundleOf DEF Finding
<1>2. Open(a) = {}
  BY <1>1 DEF RoomAt, Active
<1>3. submits[t] = submit_counter[a] - submit_counter_at_last_reset[a]
  BY <1>1 DEF RoomAt
<1>4. num_in_flight[a] = Cardinality(Open(a)) + num_discarded[a]
                          + submit_counter[a] - submit_counter_at_last_reset[a]
  BY DEF LifeInv, QueueInv, CountInv, CountersExact
<1>5. /\ num_in_flight[a] \in Nat /\ num_discarded[a] \in Nat
      /\ submit_counter[a] \in Nat /\ submit_counter_at_last_reset[a] \in Nat
  BY Types, SizesAssumption, RoomTypes DEF BaseInv, CounterType
<1>6. Cardinality(Open(a)) = 0
  BY <1>2, FS_EmptySet
<1>7. submits[t] = num_in_flight[a] - num_discarded[a]
  BY <1>3, <1>4, <1>5, <1>6
<1> QED
  BY <1>1, <1>7 DEF UpToDate

\* A thread that goes on to the next allocator comes closer to the one it is sure to find.
LEMMA NextRoom ==
  ASSUME LifeInv, NEW t \in Threads, pc[t] \in {"loaded", "look"}, RoomFor(t), NextAllocator(t),
         UNCHANGED <<index, life, responsible_allocator>>,
         pc[t] = "loaded" => ~UpToDate(t, num_in_flight[Active(t)] - num_discarded[Active(t)])
  PROVE  RoomFor(t)' /\ assertion' = assertion
<1> DEFINE i == index[t]
           active == mActiveIndex[i]
           next == mActiveIndex'[i]
<1>a. pc[t] \in Finding
  BY DEF Finding
<1>b. /\ i \in Indices /\ active \in 0 .. NumAllocs - 1 /\ NumAllocs \in Nat \ {0} /\ it[t] \in Nat
      /\ pc \in [Threads -> Points]
  BY <1>a, RoomTypes, BundleOf
<1>1. PICK k \in 0 .. NumAllocs - 1 : RoomAt(t, k)
  BY <1>a DEF RoomFor
<1>2. it'[t] = it[t] + 1 /\ next = (active + 1) % NumAllocs
  BY <1>b, RoomTypes DEF NextAllocator
<1>3. next = IF active = NumAllocs - 1 THEN 0 ELSE active + 1
  <2>1. CASE active = NumAllocs - 1
    <3>1. active + 1 = NumAllocs
      BY <1>b, <2>1
    <3>2. NumAllocs % NumAllocs = 0
      BY <1>b
    <3> QED
      BY <1>2, <2>1, <3>1, <3>2
  <2>2. CASE active # NumAllocs - 1
    <3>1. active + 1 \in 0 .. NumAllocs - 1
      BY <1>b, <2>2
    <3> HIDE DEF active
    <3>2. (active + 1) % NumAllocs = active + 1
      BY <1>b, <3>1
    <3> QED
      BY <1>2, <2>2, <3>2
  <2> QED
    BY <2>1, <2>2
<1>4. /\ TurnsTo(t, k) = IF k >= active THEN k - active ELSE k + NumAllocs - active
      /\ TurnsTo(t, k)' = IF k >= next THEN k - next ELSE k + NumAllocs - next
  BY DEF TurnsTo
<1>5. it[t] >= NumAllocs => TurnsTo(t, k) < 2 * NumAllocs - it[t] /\ active # k
  <2> SUFFICES ASSUME it[t] >= NumAllocs PROVE TurnsTo(t, k) < 2 * NumAllocs - it[t] /\ active # k
    OBVIOUS
  <2>1. pc[t] = "loaded"
    <3>1. pc[t] = "look" => it[t] < NumAllocs
      BY DEF RoomFor
    <3> QED
      BY <1>b, <3>1
  <2> QED
    BY <1>1, <2>1, SettledUpToDate DEF RoomAt
<1>6. Open(<<i, k>>)' = {}
  BY <1>1 DEF RoomAt, Open
<1> HIDE DEF active, next
<1>7. /\ it[t] + 1 < 2 * NumAllocs
      /\ it'[t] >= NumAllocs => TurnsTo(t, k)' < 2 * NumAllocs - it'[t]
  <2>1. CASE it[t] >= NumAllocs
    <3>1. TurnsTo(t, k) \in Nat /\ TurnsTo(t, k) # 0 /\ TurnsTo(t, k)' = TurnsTo(t, k) - 1
      BY <1>b, <1>3, <1>4, <1>5, <2>1
    <3> QED
      BY <1>b, <1>2, <1>5, <2>1, <3>1
  <2>2. CASE it[t] < NumAllocs
    <3>1. it[t] + 1 <= NumAllocs /\ it[t] + 1 < 2 * NumAllocs
      BY <1>b, <2>2
    <3>2. next \in 0 .. NumAllocs - 1
      BY <1>b, <1>3
    <3>3. TurnsTo(t, k)' \in Nat /\ TurnsTo(t, k)' < NumAllocs
      BY <1>b, <1>4, <3>2
    <3> QED
      BY <1>b, <1>2, <3>1, <3>3
  <2> QED
    BY <1>b, <2>1, <2>2
<1>8. pc'[t] = "find" /\ assertion' = assertion
  <2>1. it[t] + 1 # 2 * NumAllocs
    BY <1>b, <1>7
  <2> QED
    BY <1>b, <2>1 DEF NextAllocator, Goto
<1>9. RoomAt(t, k)'
  BY <1>6, <1>7, <1>8 DEF RoomAt
<1> QED
  BY <1>8, <1>9 DEF RoomFor, Finding

LEMMA ResetRoom ==
  ASSUME LifeInv, NEW t \in Threads, pc[t] \in {"look", "wait"}, RoomFor(t), DoReset(t), UNCHANGED <<assoc, pool>>
  PROVE  RoomFor(t)'
<1>1. pc'[t] = "find" /\ UNCHANGED <<mActiveIndex, it, index, life, responsible_allocator>>
  BY RoomTypes DEF DoReset, Goto, assoc, pool
<1>2. PICK k \in 0 .. NumAllocs - 1 : RoomAt(t, k)
  BY DEF RoomFor, Finding
<1>3. RoomAt(t, k)'
  BY <1>1, <1>2 DEF RoomAt, Open, TurnsTo
<1> QED
  BY <1>1, <1>3 DEF RoomFor, Finding

\* Loading the two counters tells what to do next.
LEMMA DecideRoom ==
  ASSUME LifeInv, NEW t \in Threads, LoadDiscarded(t), RoomFor(t), assertion' = "none"
  PROVE  RoomFor(t)'
<1>1. pc[t] = "loaded" /\ UNCHANGED <<index, life, responsible_allocator>>
  BY DEF LoadDiscarded, assoc, pool
<1>2. CASE NextAllocator(t) /\ ~UpToDate(t, num_in_flight[Active(t)] - num_discarded[Active(t)])
  BY <1>1, <1>2, NextRoom
<1>3. CASE /\ Goto(t, IF it[t] < NumAllocs THEN "look" ELSE "wait")
           /\ UNCHANGED <<mActiveIndex, it, assertion>>
  <2>1. pc'[t] = IF it[t] < NumAllocs THEN "look" ELSE "wait"
    BY <1>3, RoomTypes DEF Goto
  <2>2. PICK k \in 0 .. NumAllocs - 1 : RoomAt(t, k)
    BY <1>1 DEF RoomFor, Finding
  <2>3. RoomAt(t, k)'
    BY <1>1, <1>3, <2>1, <2>2 DEF RoomAt, Open, TurnsTo
  <2> QED
    BY <1>3, <2>1, <2>3 DEF RoomFor, Finding
<1> QED
  BY <1>2, <1>3 DEF LoadDiscarded, Fail

\* A thread that begins to look has fewer unsubmitted lists than allocators.
LEMMA EnterRoom ==
  ASSUME LifeInv, LifeInv', [Next]_vars, NEW t \in Threads, it[t] = 0, ~Create(t),
         pc'[t] = "find", it'[t] = it[t], index'[t] \in Indices, pc[t] \notin Finding,
         Cardinality(Dangling(index'[t])) < NumAllocs
  PROVE  RoomFor(t)'
<1>1. PICK i \in Indices : i = index'[t]
  OBVIOUS
<1>2. PICK k \in 0 .. NumAllocs - 1 : Open(<<i, k>>) = {}
  BY <1>1, OneSettled
<1>3. PICK a \in Allocs : a = <<i, k>>
  BY DEF Allocs
<1>4. \A u \in Threads : TakeList(u) => Active(u) # a
  <2> SUFFICES ASSUME NEW u \in Threads, TakeList(u) PROVE Active(u) # a
    OBVIOUS
  <2>1. pc[u] = "find" /\ u # t /\ Acts(u)
    BY DEF TakeList, Create, Acts
  <2>2. pc'[t] = pc[t]
    BY <2>1, OthersKept
  <2> QED
    BY <2>2 DEF Finding
<1>5. Open(a)' = {}
  BY <1>2, <1>3, <1>4, OpenKept
<1>6. RoomAt(t, k)'
  <2>1. Open(<<i, k>>)' = {}
    BY <1>3, <1>5
  <2>2. ~(it'[t] >= NumAllocs)
    BY SizesAssumption
  <2> QED
    BY <1>1, <2>1, <2>2 DEF RoomAt, Open
<1> QED
  BY <1>6 DEF RoomFor, Finding

\* Where a thread that runs create goes, and where one that runs anything else does not.
LEMMA CreateGoes ==
  ASSUME LifeInv, NEW t \in Threads, Create(t)
  PROVE  /\ pc[t] \in Finding
         /\ \/ /\ TakeList(t) /\ pc'[t] \in {"submit", "idle"} /\ it'[t] = 0
               /\ node[t] \in Nodes /\ life'[node[t]] = "recorded"
            \/ ~TakeList(t) /\ pc'[t] \in Finding /\ UNCHANGED <<node, life>>
<1>a. /\ pc \in [Threads -> Points] /\ it \in [Threads -> Nat]
      /\ life \in [Nodes -> {"free", "acquired", "recorded", "queued", "spent"}]
  BY RoomTypes
<1>1. pc[t] \in Finding
  BY DEF Create, TakeList, LoadSubmits, LoadDiscarded, LookAtFence, WaitForFence, Finding
<1>2. CASE TakeList(t)
  <2>1. pc'[t] \in {"submit", "idle"} /\ it'[t] = 0
    BY <1>a, <1>2 DEF TakeList, Goto
  <2>2. node[t] \in Nodes
    BY <1>1, RoomTypes DEF BaseInv, NodesRight
  <2>3. life'[node[t]] = "recorded"
    BY <1>a, <1>2, <2>2 DEF TakeList
  <2> QED
    BY <1>1, <1>2, <2>1, <2>2, <2>3
<1>3. CASE ~TakeList(t)
  <2>1. UNCHANGED <<node, life>>
    BY <1>3 DEF Create, LoadSubmits, LoadDiscarded, LookAtFence, WaitForFence, pool
  <2>2. pc' = pc \/ \E to \in Finding : pc' = [pc EXCEPT ![t] = to]
    <3>1. CASE LoadSubmits(t)
      BY <3>1 DEF LoadSubmits, Goto, Finding
    <3>2. CASE LoadDiscarded(t)
      BY <3>2 DEF LoadDiscarded, NextAllocator, Goto, Finding
    <3>3. CASE LookAtFence(t) \/ WaitForFence(t)
      BY <3>3 DEF LookAtFence, WaitForFence, DoReset, NextAllocator, Goto, Finding
    <3> QED
      BY <1>3, <3>1, <3>2, <3>3 DEF Create
  <2> QED
    BY <1>a, <1>1, <1>3, <2>1, <2>2
<1> QED
  BY <1>2, <1>3

LEMMA OutsideGoes ==
  ASSUME LifeInv, NEW t \in Threads,
         \/ ThreadReplaced(t) \/ (\E n \in Nodes : Discard(t, n)) \/ ReleaseNode(t)
         \/ \E cls \in SUBSET Nodes, n \in 0 .. MaxBarriers : SubmitBegin(t, cls, n)
         \/ Submit(t) /\ ~CreateBarrierList(t)
  PROVE  /\ pc[t] \notin Finding /\ pc'[t] \notin Finding /\ it' = it
         /\ \A n \in Nodes : life'[n] = "acquired" => life[n] = "acquired"
<1>a. /\ pc \in [Threads -> Points]
      /\ life \in [Nodes -> {"free", "acquired", "recorded", "queued", "spent"}]
  BY RoomTypes
<1>1. CASE ThreadReplaced(t)
  BY <1>1 DEF ThreadReplaced, Finding, pool
<1>2. CASE \E n \in Nodes : Discard(t, n)
  BY <1>2, <1>a DEF Discard, Goto, Finding
<1>3. CASE ReleaseNode(t)
  <2>1. /\ pc[t] = "release" /\ life' = [life EXCEPT ![node[t]] = "free"] /\ it' = it
        /\ pc'[t] \in {"notify", "idle"}
    BY <1>3, <1>a DEF ReleaseNode, Goto
  <2> QED
    BY <1>a, <2>1 DEF Finding
<1>4. CASE \E cls \in SUBSET Nodes, n \in 0 .. MaxBarriers : SubmitBegin(t, cls, n)
  BY <1>4, <1>a DEF SubmitBegin, Goto, Finding, pool
<1>5. CASE \E n \in Nodes : CountSubmit(t, n)
  BY <1>5, <1>a DEF CountSubmit, Goto, Finding
<1>6. CASE ExecuteCommandLists(t)
  BY <1>6, <1>a DEF ExecuteCommandLists, Goto, Finding
<1>7. CASE SignalGPU(t) \/ SubmitEnd(t)
  BY <1>7, <1>a DEF SignalGPU, SubmitEnd, Goto, Finding, pool
<1> QED
  BY <1>1, <1>2, <1>3, <1>4, <1>5, <1>6, <1>7 DEF Submit

LEMMA AcquireGoes ==
  ASSUME LifeInv, NEW t \in Threads, AcquireNode(t), assertion' = "none", assertion = "none",
         NEW n \in Nodes, life'[n] = "acquired"
  PROVE  pc'[t] = "find" /\ (life[n] = "acquired" \/ node'[t] = n)
<1>1. PICK m \in Nodes : life' = [life EXCEPT ![m] = "acquired"] /\ node' = [node EXCEPT ![t] = m]
  BY DEF AcquireNode, Fail
<1>2. pc' = [pc EXCEPT ![t] = "find"]
  BY DEF AcquireNode, Fail, Goto
<1> QED
  BY <1>1, <1>2, RoomTypes

LEMMA RoomForStep ==
  ASSUME RoomInv, LifeInv', LimitsHold, [Next]_vars, assertion = "none", assertion' = "none", NEW u \in Threads
  PROVE  RoomFor(u)'
<1>a. /\ LifeInv /\ RoomFor(u) /\ DanglingFits /\ it \in [Threads -> Nat] /\ pc \in [Threads -> Points]
      /\ NumAllocs \in Nat /\ MaxDangling \in Nat /\ MaxDangling <= NumAllocs
  BY RoomTypes DEF RoomInv, RoomAhead, LimitsHold
<1>1. CASE Create(u)
  <2>1. CASE TakeList(u)
    BY <1>a, <1>1, <2>1, CreateGoes DEF RoomFor, Finding
  <2>2. CASE LoadSubmits(u)
    BY <1>a, <2>2, LoadRoom
  <2>3. CASE LoadDiscarded(u)
    BY <1>a, <2>3, DecideRoom
  <2>4. CASE LookAtFence(u)
    <3>1. pc[u] = "look" /\ UNCHANGED <<assoc, pool>> /\ UNCHANGED <<index, life, responsible_allocator>>
      BY <2>4 DEF LookAtFence, assoc, pool
    <3>2. DoReset(u) \/ NextAllocator(u)
      BY <2>4 DEF LookAtFence, Fail
    <3> QED
      BY <1>a, <3>1, <3>2, ResetRoom, NextRoom
  <2>5. CASE WaitForFence(u)
    BY <1>a, <2>5, ResetRoom DEF WaitForFence
  <2> QED
    BY <1>1, <2>1, <2>2, <2>3, <2>4, <2>5 DEF Create
<1>2. CASE RecordCommandList(u)
  <2>1. /\ pc[u] = "idle" /\ GetCurrentIndex(u) /\ UNCHANGED it
        /\ CurrentIndex(u) < NumThreads /\ Cardinality(Dangling(CurrentIndex(u))) < MaxDangling
        /\ AcquireNode(u)
    BY <1>2 DEF RecordCommandList, Fail
  <2>2. index'[u] = CurrentIndex(u) /\ CurrentIndex(u) \in Nat
    BY <1>a, <2>1, IndexGiven, Types, RoomTypes DEF BaseInv
  <2>3. index'[u] \in Indices
    BY <2>1, <2>2, SizesAssumption DEF Indices
  <2>4. Cardinality(Dangling(index'[u])) < NumAllocs
    <3>1. PICK i \in Indices : i = index'[u]
      BY <2>3
    <3>2. Cardinality(Dangling(i)) \in Nat
      BY DanglingFinite
    <3> QED
      BY <1>a, <2>1, <2>2, <3>1, <3>2
  <2>5. pc'[u] = "find" /\ pc[u] \notin Finding
    BY <1>a, <2>1 DEF AcquireNode, Goto, Fail, Finding
  <2>6. it[u] = 0 /\ it'[u] = it[u] /\ ~Create(u)
    BY <1>a, <2>1, <2>5, CreateGoes DEF RoomFor
  <2> QED
    BY <1>a, <2>3, <2>4, <2>5, <2>6, EnterRoom
<1>3. CASE CreateBarrierList(u)
  <2>1. pc[u] = "submit" /\ sub_needed > 0 /\ AcquireNode(u) /\ UNCHANGED it /\ UNCHANGED index
    BY <1>3 DEF CreateBarrierList, assoc
  <2>2. submitter = u /\ index[u] \in Indices
    BY <1>a, <2>1, RoomTypes, SizesAssumption DEF BaseInv, ThreadsRight, Indices
  <2>3. PICK i \in Indices : i = index[u]
    BY <2>2
  <2>4. Cardinality(Dangling(i)) < NumAllocs
    <3>1. Announced(i) > 0
      BY <2>1, <2>2, <2>3, SentinelsAssumption DEF Announced
    <3>2. /\ Cardinality(Dangling(i)) + Creating(i) + Announced(i) <= MaxDangling
          /\ Cardinality(Dangling(i)) \in Nat /\ Creating(i) \in {0, 1} /\ Announced(i) \in Nat
      BY <1>a, DanglingFinite, ComingTypes DEF DanglingFits
    <3> QED
      BY <1>a, <3>1, <3>2
  <2>5. pc'[u] = "find" /\ pc[u] \notin Finding
    BY <1>a, <2>1 DEF AcquireNode, Goto, Fail, Finding
  <2>6. it[u] = 0 /\ it'[u] = it[u] /\ ~Create(u)
    BY <1>a, <2>1, <2>5, CreateGoes DEF RoomFor
  <2>7. index'[u] \in Indices /\ Cardinality(Dangling(index'[u])) < NumAllocs
    BY <2>1, <2>3, <2>4
  <2> QED
    BY <1>a, <2>5, <2>6, <2>7, EnterRoom
<1>4. ASSUME pc'[u] \notin Finding, pc[u] \notin Finding, it'[u] = it[u]
      PROVE  RoomFor(u)'
  BY <1>a, <1>4 DEF RoomFor, Finding
<1>5. ASSUME ~Create(u), ~ReplaceBackend, pc'[u] = pc[u], index'[u] = index[u], it'[u] = it[u], submits'[u] = submits[u],
             pc[u] \in Finding => mActiveIndex'[index[u]] = mActiveIndex[index[u]]
      PROVE  RoomFor(u)'
  BY <1>a, <1>4, <1>5, RoomSame
<1>6. CASE ReplaceBackend
  <2>1. pc[u] = "idle" /\ UNCHANGED <<pc, it>>
    BY <1>6 DEF ReplaceBackend
  <2> QED
    BY <1>4, <2>1 DEF Finding
<1>7. ASSUME NEW t \in Threads, Acts(t), t # u
      PROVE  RoomFor(u)'
  BY <1>a, <1>1, <1>5, <1>6, <1>7, OthersKept
<1>8. CASE Acts(u)
  <2>1. CASE \/ ThreadReplaced(u) \/ (\E n \in Nodes : Discard(u, n)) \/ ReleaseNode(u)
             \/ \E cls \in SUBSET Nodes, n \in 0 .. MaxBarriers : SubmitBegin(u, cls, n)
             \/ Submit(u) /\ ~CreateBarrierList(u)
    BY <1>a, <1>4, <2>1, OutsideGoes
  <2> QED
    BY <1>1, <1>2, <1>3, <1>8, <2>1 DEF Acts
<1>9. CASE GPU \/ UNCHANGED vars
  <2>1. UNCHANGED <<pc, index, it, submits, mActiveIndex>>
    BY <1>9 DEF GPU, FinishLists, SignalFence, vars, assoc
  <2> QED
    BY <1>1, <1>5, <1>6, <2>1
<1> QED
  BY <1>6, <1>7, <1>8, <1>9, Steps

LEMMA AcquiredStep ==
  ASSUME RoomInv, [Next]_vars, assertion = "none", assertion' = "none"
  PROVE  AcquiredRight'
<1> SUFFICES ASSUME NEW n \in Nodes, life'[n] = "acquired"
             PROVE  \E t \in Threads : pc'[t] \in Finding /\ node'[t] = n
  BY DEF AcquiredRight
<1>a. LifeInv /\ AcquiredRight
  BY DEF RoomInv, RoomAhead
<1>1. ASSUME life[n] # "acquired"
      PROVE  \E t \in Threads : pc'[t] \in Finding /\ node'[t] = n
  <2>1. ASSUME NEW t \in Threads, AcquireNode(t)
        PROVE  \E v \in Threads : pc'[v] \in Finding /\ node'[v] = n
    BY <1>a, <1>1, <2>1, AcquireGoes DEF Finding
  <2>2. ASSUME NEW t \in Threads, Acts(t)
        PROVE  AcquireNode(t)
    <3>1. CASE Create(t)
      BY <1>a, <1>1, <3>1, CreateGoes, RoomTypes DEF TakeList
    <3>2. CASE RecordCommandList(t) \/ CreateBarrierList(t)
      BY <1>1, <3>2 DEF RecordCommandList, CreateBarrierList, Fail
    <3> QED
      BY <1>a, <1>1, <2>2, <3>1, <3>2, OutsideGoes DEF Acts
  <2>3. ~(GPU \/ UNCHANGED vars \/ ReplaceBackend)
    BY <1>1 DEF GPU, FinishLists, SignalFence, vars, pool, ReplaceBackend
  <2> QED
    BY <2>1, <2>2, <2>3, Steps
<1>2. ASSUME life[n] = "acquired"
      PROVE  \E t \in Threads : pc'[t] \in Finding /\ node'[t] = n
  <2>1. PICK t \in Threads : pc[t] \in Finding /\ node[t] = n
    BY <1>a, <1>2 DEF AcquiredRight
  <2>2. CASE Create(t)
    BY <1>a, <2>1, <2>2, CreateGoes
  <2>3. CASE Acts(t) /\ ~Create(t)
    <3>1. pc[t] \notin Finding
      BY <1>a, <2>3, OutsideGoes DEF Acts, RecordCommandList, CreateBarrierList, Finding
    <3> QED
      BY <2>1, <3>1
  <2>4. CASE \E u \in Threads : Acts(u) /\ u # t
    BY <1>a, <2>1, <2>4, OthersKept
  <2>5. CASE GPU \/ UNCHANGED vars
    BY <2>1, <2>5 DEF GPU, FinishLists, SignalFence, vars
  <2>6. ~ReplaceBackend
    BY <2>1 DEF ReplaceBackend, Finding
  <2> QED
    BY <2>2, <2>3, <2>4, <2>5, <2>6, Steps
<1> QED
  BY <1>1, <1>2

LEMMA LifeInvStep == LifeInv /\ [Next]_vars => LifeInv'
  BY LastKept, QueueInvStep DEF LifeInv

LEMMA RoomInvStep == LimitsHold => (RoomInv /\ [Next]_vars => RoomInv')
<1> SUFFICES ASSUME LimitsHold, RoomInv, [Next]_vars PROVE RoomInv'
  OBVIOUS
<1>1. LifeInv'
  BY LifeInvStep DEF RoomInv
<1>2. CASE assertion' = "none"
  <2>1. assertion = "none"
    BY <1>2 DEF Next, vars
  <2>2. DanglingFits'
    BY <1>1, <1>2, <2>1, DanglingFitsStep DEF RoomInv, RoomAhead
  <2>3. \A t \in Threads : RoomFor(t)'
    BY <1>1, <1>2, <2>1, RoomForStep
  <2> QED
    BY <1>1, <1>2, <2>1, <2>2, <2>3, AcquiredStep DEF RoomInv, RoomAhead
<1> QED
  BY <1>1, <1>2 DEF RoomInv

LEMMA RoomInvInit == Init => RoomInv
<1> SUFFICES ASSUME Init PROVE RoomInv
  OBVIOUS
<1>1. LifeInv
  BY QueueInvInit DEF LifeInv, Init, LastRight
<1>2. DanglingFits
  <2> SUFFICES ASSUME NEW i \in Indices
               PROVE  Cardinality(Dangling(i)) + Creating(i) + Announced(i) <= MaxDangling
    BY DEF DanglingFits
  <2>1. Dangling(i) = {} /\ Creating(i) = 0 /\ Announced(i) = 0
    BY DEF Init, Dangling, Creating, Announced, Finding
  <2> QED
    BY <2>1, FS_EmptySet, BoundsAssumption
<1>3. (\A t \in Threads : RoomFor(t)) /\ AcquiredRight
  BY DEF Init, RoomFor, AcquiredRight, Finding
<1> QED
  BY <1>1, <1>2, <1>3 DEF RoomInv, RoomAhead

-----------------------------------------------------------------------------
(* There is a node for every list.                                         *)

LEMMA Numbered ==
  ASSUME NEW T, IsFiniteSet(T), NEW m \in Nat, Cardinality(T) <= m
  PROVE  \E g \in [T -> 0 .. m - 1] : \A x, y \in T : g[x] = g[y] => x = y
<1>1. Cardinality(T) \in Nat /\ ExistsBijection(T, 1 .. Cardinality(T))
  BY FS_CardinalityType, Fun_ExistsBijSymmetric
<1>2. PICK b : b \in Bijection(T, 1 .. Cardinality(T))
  BY <1>1, Fun_ExistsBij
<1>3. b \in [T -> 1 .. Cardinality(T)] /\ \A x, y \in T : b[x] = b[y] => x = y
  BY <1>2 DEF Bijection, Injection, IsInjective
<1> DEFINE g == [x \in T |-> b[x] - 1]
<1>4. \A x \in T : b[x] - 1 \in 0 .. m - 1
  BY <1>1, <1>3
<1>5. g \in [T -> 0 .. m - 1]
  BY <1>4
<1>6. \A x, y \in T : g[x] = g[y] => x = y
  <2> SUFFICES ASSUME NEW x \in T, NEW y \in T, g[x] = g[y] PROVE x = y
    OBVIOUS
  <2>1. b[x] - 1 = b[y] - 1 /\ b[x] \in Int /\ b[y] \in Int
    BY <1>3
  <2> QED
    BY <1>3, <2>1
<1> QED
  BY <1>5, <1>6

\* If a set falls into classes none of which has more than m elements, and one of them has fewer, it
\* has fewer elements than m for each class.
LEMMA ClassesFit ==
  ASSUME NEW S, IsFiniteSet(S), NEW I, IsFiniteSet(I), NEW cls \in [S -> I], NEW m \in Nat, NEW i \in I,
         \A j \in I : Cardinality({n \in S : cls[n] = j}) <= m,
         Cardinality({n \in S : cls[n] = i}) < m
  PROVE  Cardinality(S) < Cardinality(I \X (0 .. m - 1))
<1> DEFINE Class(j) == {n \in S : cls[n] = j}
           Room(j)  == IF j = i THEN m - 1 ELSE m
           Into(j, g) == g \in [Class(j) -> 0 .. Room(j) - 1] /\ \A x, y \in Class(j) : g[x] = g[y] => x = y
           G == [j \in I |-> CHOOSE g : Into(j, g)]
           T == (I \X (0 .. m - 1)) \ {<<i, m - 1>>}
           f == [n \in S |-> <<cls[n], G[cls[n]][n]>>]
<1>1. ASSUME NEW j \in I
      PROVE  /\ IsFiniteSet(Class(j)) /\ Room(j) \in Nat /\ Cardinality(Class(j)) <= Room(j)
  <2>1. IsFiniteSet(Class(j)) /\ Cardinality(Class(j)) \in Nat
    <3>1. Class(j) \in SUBSET S
      OBVIOUS
    <3> HIDE DEF Class
    <3> QED
      BY <3>1, FS_Subset, FS_CardinalityType
  <2>2. j = i => Cardinality(Class(j)) < m
    OBVIOUS
  <2>3. Cardinality(Class(j)) <= m
    OBVIOUS
  <2> HIDE DEF Class
  <2> QED
    BY <2>1, <2>2, <2>3
<1>2. ASSUME NEW j \in I
      PROVE  Into(j, G[j])
  <2>1. \E g : Into(j, g)
    <3> HIDE DEF Class, Room
    <3> QED
      BY <1>1, Numbered
  <2> QED
    BY <2>1
<1>3. ASSUME NEW n \in S
      PROVE  f[n] \in T
  <2> DEFINE j == cls[n]
  <2>1. j \in I /\ n \in Class(j)
    OBVIOUS
  <2>2. G[j][n] \in 0 .. Room(j) - 1
    <3>1. Into(j, G[j])
      BY <1>2, <2>1
    <3> HIDE DEF Room, Class, G
    <3> QED
      BY <2>1, <3>1
  <2> HIDE DEF G, j
  <2>3. G[j][n] \in 0 .. m - 1 /\ (j = i => G[j][n] # m - 1)
    BY <2>2
  <2>4. f[n] = <<j, G[j][n]>>
    BY DEF j
  <2> QED
    BY <2>1, <2>3, <2>4
<1>4. \A x, y \in S : f[x] = f[y] => x = y
  <2> SUFFICES ASSUME NEW x \in S, NEW y \in S, f[x] = f[y] PROVE x = y
    OBVIOUS
  <2>1. cls[x] = cls[y] /\ G[cls[x]][x] = G[cls[x]][y]
    <3> HIDE DEF G
    <3> QED
      OBVIOUS
  <2>2. cls[x] \in I /\ x \in Class(cls[x]) /\ y \in Class(cls[x])
    BY <2>1
  <2>3. Into(cls[x], G[cls[x]])
    BY <1>2, <2>2
  <2> HIDE DEF G, Class, Room
  <2> QED
    BY <2>1, <2>2, <2>3
<1>5. f \in [S -> T]
  <2> HIDE DEF G, T
  <2>1. f = [n \in S |-> f[n]]
    OBVIOUS
  <2> HIDE DEF f
  <2> QED
    BY <1>3, <2>1
<1>6. IsFiniteSet(I \X (0 .. m - 1)) /\ Cardinality(I \X (0 .. m - 1)) \in Nat
  <2>1. IsFiniteSet(0 .. m - 1)
    <3>1. 0 \in Int /\ m - 1 \in Int
      OBVIOUS
    <3> QED
      BY <3>1, FS_Interval
  <2>2. IsFiniteSet(I \X (0 .. m - 1))
    BY <2>1, FS_Product
  <2> QED
    BY <2>2, FS_CardinalityType
<1>7. m - 1 \in 0 .. m - 1
  <2>1. Cardinality(Class(i)) \in Nat /\ Cardinality(Class(i)) < m
    BY <1>1, FS_CardinalityType
  <2> HIDE DEF Class
  <2> QED
    BY <2>1
<1>8. IsFiniteSet(T) /\ Cardinality(T) = Cardinality(I \X (0 .. m - 1)) - 1
  <2> DEFINE U == I \X (0 .. m - 1)
             x == <<i, m - 1>>
  <2>1. x \in U /\ IsFiniteSet(U)
    BY <1>6, <1>7
  <2> HIDE DEF U, x
  <2>2. IsFiniteSet(U \ {x}) /\ Cardinality(U \ {x}) = Cardinality(U) - 1
    BY <2>1, FS_RemoveElement
  <2> QED
    BY <2>2 DEF U, x
<1>9. Cardinality(S) <= Cardinality(T)
  <2> HIDE DEF f, T
  <2>1. f \in Injection(S, T)
    BY <1>4, <1>5 DEF Injection, IsInjective
  <2> QED
    BY <1>8, <2>1, FS_Injection
<1>10. Cardinality(S) \in Nat
  BY FS_CardinalityType
<1> HIDE DEF T
<1> QED
  BY <1>6, <1>8, <1>9, <1>10

\* As long as the lists of every bundle keep to its limit, those in the making included, a bundle
\* that is not at its limit has a node left.
LEMMA NodeLeft ==
  ASSUME LifeInv, RoomAhead, LimitsHold, NEW i \in Indices, Cardinality(Dangling(i)) < MaxDangling,
         \A t \in Threads : pc[t] \in Finding => index[t] # i
  PROVE  \E n \in Nodes : life[n] = "free"
<1> SUFFICES ASSUME \A n \in Nodes : life[n] # "free" PROVE FALSE
  OBVIOUS
<1> DEFINE taker(n) == CHOOSE t \in Threads : pc[t] \in Finding /\ node[t] = n
           cls == [n \in Nodes |-> IF life[n] = "acquired" THEN index[taker(n)] ELSE responsible_allocator[n][1]]
<1>a. /\ life \in [Nodes -> {"free", "acquired", "recorded", "queued", "spent"}]
      /\ NumAllocs \in Nat \ {0} /\ MaxDangling \in Nat /\ MaxDangling <= NumAllocs
  BY RoomTypes DEF LimitsHold
<1>1. \A n \in Nodes : life[n] = "acquired" =>
        taker(n) \in Threads /\ pc[taker(n)] \in Finding /\ node[taker(n)] = n
  BY DEF RoomAhead, AcquiredRight
<1> HIDE DEF taker
<1>2. \A n \in Nodes : life[n] # "acquired" =>
        /\ responsible_allocator[n] \in Allocs
        /\ n \in Dangling(responsible_allocator[n][1])
  <2> SUFFICES ASSUME NEW n \in Nodes, life[n] # "acquired"
               PROVE  /\ responsible_allocator[n] \in Allocs
                      /\ n \in Dangling(responsible_allocator[n][1])
    OBVIOUS
  <2>1. life[n] \in {"recorded", "queued", "spent"}
    BY <1>a
  <2>2. responsible_allocator[n] \in Allocs
    BY <2>1, RoomTypes DEF BaseInv, NodesRight
  <2>3. responsible_allocator[n] \in {responsible_allocator[n][1]} \X (0 .. NumAllocs - 1)
    BY <2>2 DEF Allocs
  <2> QED
    BY <2>1, <2>2, <2>3 DEF Dangling
<1>3. cls \in [Nodes -> Indices]
  <2>1. \A n \in Nodes : cls[n] \in Indices
    <3>1. \A n \in Nodes : life[n] = "acquired" => index[taker(n)] \in Indices
      BY <1>1, BundleOf
    <3>2. \A n \in Nodes : life[n] # "acquired" => responsible_allocator[n][1] \in Indices
      BY <1>2 DEF Allocs
    <3> QED
      BY <3>1, <3>2
  <2>2. cls = [n \in Nodes |-> cls[n]]
    OBVIOUS
  <2> HIDE DEF cls
  <2> QED
    BY <2>1, <2>2
<1> DEFINE Class(j) == {n \in Nodes : cls[n] = j}
<1>4. ASSUME NEW j \in Indices
      PROVE  Cardinality(Class(j)) <= Cardinality(Dangling(j)) + Creating(j) /\ Cardinality(Class(j)) \in Nat
  <2>1. CASE \E t \in Threads : pc[t] \in Finding /\ index[t] = j
    <3>1. PICK t \in Threads : pc[t] \in Finding /\ index[t] = j
      BY <2>1
    <3>2. PICK x : x = node[t]
      OBVIOUS
    <3>3. Class(j) \subseteq Dangling(j) \union {x}
      <4> SUFFICES ASSUME NEW n \in Nodes, cls[n] = j PROVE n \in Dangling(j) \union {x}
        OBVIOUS
      <4>1. CASE life[n] = "acquired"
        <5>1. index[taker(n)] = j
          BY <4>1
        <5>2. taker(n) = t
          BY <1>1, <3>1, <4>1, <5>1, BundleOf
        <5> QED
          BY <1>1, <3>2, <4>1, <5>2
      <4>2. CASE life[n] # "acquired"
        BY <1>2, <4>2
      <4> QED
        BY <4>1, <4>2
    <3>4. Creating(j) = 1
      BY <2>1 DEF Creating
    <3>5. /\ IsFiniteSet(Dangling(j) \union {x})
          /\ Cardinality(Dangling(j) \union {x}) <= Cardinality(Dangling(j)) + 1
          /\ Cardinality(Dangling(j) \union {x}) \in Nat
      BY DanglingFinite, OneMore
    <3> HIDE DEF Class
    <3>6. IsFiniteSet(Class(j)) /\ Cardinality(Class(j)) <= Cardinality(Dangling(j) \union {x})
      BY <3>3, <3>5, FS_Subset
    <3>7. Cardinality(Class(j)) \in Nat /\ Cardinality(Dangling(j)) \in Nat
      BY <3>6, FS_CardinalityType, DanglingFinite
    <3> QED
      BY <3>4, <3>5, <3>6, <3>7
  <2>2. CASE ~\E t \in Threads : pc[t] \in Finding /\ index[t] = j
    <3>1. Class(j) \subseteq Dangling(j)
      BY <1>1, <1>2, <2>2
    <3>2. Creating(j) = 0
      BY <2>2 DEF Creating
    <3> HIDE DEF Class
    <3>3. IsFiniteSet(Class(j)) /\ Cardinality(Class(j)) <= Cardinality(Dangling(j))
      BY <3>1, DanglingFinite, FS_Subset
    <3>4. Cardinality(Class(j)) \in Nat /\ Cardinality(Dangling(j)) \in Nat
      BY <3>3, FS_CardinalityType, DanglingFinite
    <3> QED
      BY <3>2, <3>3, <3>4
  <2> QED
    BY <2>1, <2>2
<1>5. ASSUME NEW j \in Indices
      PROVE  Cardinality(Class(j)) <= NumAllocs
  <2>1. /\ Cardinality(Dangling(j)) + Creating(j) + Announced(j) <= MaxDangling
        /\ Cardinality(Dangling(j)) \in Nat /\ Creating(j) \in {0, 1} /\ Announced(j) \in Nat
    BY DanglingFinite, RoomTypes DEF RoomAhead, DanglingFits, Creating, Announced
  <2>2. Cardinality(Class(j)) <= Cardinality(Dangling(j)) + Creating(j) /\ Cardinality(Class(j)) \in Nat
    BY <1>4
  <2> HIDE DEF Class
  <2> QED
    BY <1>a, <2>1, <2>2
<1>6. Cardinality(Class(i)) < NumAllocs
  <2>1. Creating(i) = 0 /\ Cardinality(Dangling(i)) \in Nat
    BY DanglingFinite DEF Creating
  <2>2. Cardinality(Class(i)) <= Cardinality(Dangling(i)) + Creating(i) /\ Cardinality(Class(i)) \in Nat
    BY <1>4
  <2> HIDE DEF Class
  <2> QED
    BY <1>a, <2>1, <2>2
<1>7. IsFiniteSet(Nodes) /\ IsFiniteSet(Indices)
  <2>1. 0 \in Int /\ NumThreads - 1 \in Int
    BY SizesAssumption
  <2> QED
    BY <2>1, SizesAssumption, FS_Interval DEF Indices
<1>8. Cardinality(Nodes) < Cardinality(Allocs)
  <2> HIDE DEF cls
  <2>1. Cardinality(Nodes) < Cardinality(Indices \X (0 .. NumAllocs - 1))
    BY <1>a, <1>3, <1>5, <1>6, <1>7, ClassesFit
  <2> QED
    BY <2>1 DEF Allocs
<1>9. Cardinality(Nodes) \in Nat /\ Cardinality(Allocs) \in Nat
  <2>1. 0 \in Int /\ NumAllocs - 1 \in Int
    BY <1>a
  <2>2. IsFiniteSet(0 .. NumAllocs - 1)
    BY <2>1, FS_Interval
  <2>3. IsFiniteSet(Allocs)
    BY <1>7, <2>2, FS_Product DEF Allocs
  <2> QED
    BY <1>7, <2>3, FS_CardinalityType
<1> QED
  BY <1>8, <1>9 DEF LimitsHold

-----------------------------------------------------------------------------
(* No assertion.                                                           *)

LEMMA NodeForEveryone ==
  ASSUME LifeInv, RoomAhead, LimitsHold, NEW t \in Threads, AcquireNode(t), NEW i \in Indices,
         Cardinality(Dangling(i)) < MaxDangling,
         \A u \in Threads : pc[u] \in Finding => index[u] # i
  PROVE  assertion' = assertion
  BY NodeLeft DEF AcquireNode

\* The counters of an allocator agree with each other, and with its fence, however they are loaded.
LEMMA CreateAsserts ==
  ASSUME LifeInv, RoomAhead, assertion = "none", NEW t \in Threads, Create(t)
  PROVE  assertion' = assertion
<1>1. CASE TakeList(t) \/ LoadSubmits(t) \/ WaitForFence(t)
  BY <1>1 DEF TakeList, LoadSubmits, WaitForFence, DoReset
<1>2. CASE LoadDiscarded(t)
  <2>1. PICK a \in Allocs : a = Active(t)
    BY <1>2, BundleOf DEF LoadDiscarded, Finding
  <2>2. pc[t] = "loaded" /\ UNCHANGED <<index, life, responsible_allocator>>
    BY <1>2 DEF LoadDiscarded, assoc, pool
  <2>3. submits[t] \in 0 .. num_in_flight[a] - num_discarded[a]
    <3>1. submits[t] >= 0 /\ submits[t] \in Int
      BY <2>2, RoomTypes DEF RoomAhead, RoomFor
    <3>2. submits[t] <= submit_counter[a] - submit_counter_at_last_reset[a]
      BY <2>1, <2>2 DEF LifeInv, QueueInv, CountInv, LoadsRight, LoadsAt
    <3>3. num_in_flight[a] = Cardinality(Open(a)) + num_discarded[a]
                              + submit_counter[a] - submit_counter_at_last_reset[a]
      BY DEF LifeInv, QueueInv, CountInv, CountersExact
    <3>4. /\ num_in_flight[a] \in Nat /\ num_discarded[a] \in Nat
          /\ submit_counter[a] \in Nat /\ submit_counter_at_last_reset[a] \in Nat
      BY Types, SizesAssumption, RoomTypes DEF BaseInv, CounterType
    <3>5. Cardinality(Open(a)) \in Nat
      BY OpenFinite
    <3> QED
      BY <3>1, <3>2, <3>3, <3>4, <3>5
  <2>4. ASSUME NextAllocator(t), ~UpToDate(t, num_in_flight[a] - num_discarded[a])
        PROVE  assertion' = assertion
    BY <2>1, <2>2, <2>4, NextRoom DEF RoomAhead
  <2> QED
    BY <1>2, <2>1, <2>3, <2>4 DEF LoadDiscarded
<1>3. CASE LookAtFence(t)
  <2>1. pc[t] = "look" /\ UNCHANGED <<index, life, responsible_allocator>>
    BY <1>3 DEF LookAtFence, assoc, pool
  <2>2. PICK a \in Allocs : a = Active(t)
    BY <2>1, BundleOf DEF Finding
  <2>3. ~(fence[a] > submit_counter[a])
    <3>1. fence[a] <= submit_counter[a]
      BY DEF LifeInv, QueueInv, SignalsRight
    <3>2. fence[a] \in Nat /\ submit_counter[a] \in Nat
      BY Types, RoomTypes DEF BaseInv, CounterType
    <3> QED
      BY <3>1, <3>2
  <2>4. ASSUME NextAllocator(t) PROVE assertion' = assertion
    BY <2>1, <2>4, NextRoom DEF RoomAhead
  <2> QED
    BY <1>3, <2>2, <2>3, <2>4 DEF LookAtFence, DoReset
<1> QED
  BY <1>1, <1>2, <1>3 DEF Create

\* Destroying a backend fails over an allocator of which a list is open.
LEMMA ReplaceAsserts ==
  ASSUME LifeInv, ReplaceBackend
  PROVE  \/ assertion' = assertion
         \/ assertion' = "reset_success" /\ \E a \in Allocs : Open(a)' # {}
<1> SUFFICES ASSUME NEW a \in Allocs, ~IsDestructible(a), Fail("reset_success"),
                    UNCHANGED pool
             PROVE  assertion' = "reset_success" /\ Open(a)' # {}
  BY DEF ReplaceBackend
<1>1. num_in_flight[a] = Cardinality(Open(a)) + num_discarded[a]
                          + submit_counter[a] - submit_counter_at_last_reset[a]
  BY DEF LifeInv, QueueInv, CountInv, CountersExact
<1>2. /\ num_in_flight[a] \in Nat /\ num_discarded[a] \in Nat
      /\ submit_counter[a] \in Nat /\ submit_counter_at_last_reset[a] \in Nat
  BY Types, SizesAssumption, RoomTypes DEF BaseInv, CounterType
<1>3. submit_counter[a] - submit_counter_at_last_reset[a] # num_in_flight[a] - num_discarded[a]
  BY DEF IsDestructible
<1>4. Cardinality(Open(a)) # 0
  BY <1>1, <1>2, <1>3
<1>5. Open(a)' = Open(a)
  BY DEF Open, pool
<1> QED
  BY <1>4, <1>5, FS_EmptySet DEF Fail

LEMMA StepAsserts ==
  ASSUME RoomInv, LimitsHold, [Next]_vars, assertion = "none"
  PROVE  NeverAsserts'
<1>a. LifeInv /\ RoomAhead /\ AssocType /\ AssocRight /\ pc \in [Threads -> Points] /\ MaxDangling \in Nat
  BY RoomTypes, Types DEF RoomInv, BaseInv
<1>1. ASSUME NEW t \in Threads, RecordCommandList(t)
      PROVE  assertion' \in {assertion, "more threads than configured"}
  <2>1. CASE CurrentIndex(t) >= NumThreads /\ Fail("more threads than configured")
    BY <2>1 DEF Fail
  <2>2. CASE /\ CurrentIndex(t) < NumThreads /\ Cardinality(Dangling(CurrentIndex(t))) < MaxDangling
             /\ AcquireNode(t)
    <3>1. pc[t] = "idle" /\ GetCurrentIndex(t)
      BY <1>1 DEF RecordCommandList
    <3>2. CurrentIndex(t) \in Indices
      BY <1>a, <2>2, <3>1, IndexGiven, SizesAssumption DEF Indices
    <3>3. \A u \in Threads : pc[u] \in Finding => index[u] # CurrentIndex(t)
      BY <1>a, <3>1, OwnIndex DEF Finding
    <3> QED
      BY <1>a, <2>2, <3>2, <3>3, NodeForEveryone
  <2> QED
    BY <1>1, <2>1, <2>2 DEF RecordCommandList
<1>2. ASSUME NEW t \in Threads, CreateBarrierList(t)
      PROVE  assertion' = assertion
  <2>1. pc[t] = "submit" /\ sub_needed > 0 /\ AcquireNode(t)
    BY <1>2 DEF CreateBarrierList
  <2>2. submitter = t /\ index[t] \in Indices /\ ts_id[t] = id
    BY <1>a, <2>1, RoomTypes, SizesAssumption DEF BaseInv, ThreadsRight, Indices
  <2>3. PICK i \in Indices : i = index[t]
    BY <2>2
  <2>4. Cardinality(Dangling(i)) < MaxDangling
    <3>1. Announced(i) > 0 /\ Announced(i) \in Nat
      BY <1>a, <2>1, <2>2, <2>3, RoomTypes DEF Announced
    <3>2. /\ Cardinality(Dangling(i)) + Creating(i) + Announced(i) <= MaxDangling
          /\ Cardinality(Dangling(i)) \in Nat /\ Creating(i) \in {0, 1}
      BY <1>a, DanglingFinite DEF RoomAhead, DanglingFits, Creating
    <3> QED
      BY <1>a, <3>1, <3>2
  <2>5. \A u \in Threads : pc[u] \in Finding => index[u] # i
    <3> SUFFICES ASSUME NEW u \in Threads, pc[u] \in Finding PROVE index[u] # i
      OBVIOUS
    <3>1. u # t /\ ts_id[u] = id
      BY <1>a, <2>1, RoomTypes DEF BaseInv, ThreadsRight, Finding
    <3> QED
      BY <1>a, <2>2, <2>3, <3>1 DEF AssocRight
  <2> QED
    BY <1>a, <2>1, <2>4, <2>5, NodeForEveryone
<1>3. ASSUME NEW t \in Threads, Acts(t)
      PROVE  assertion' \in {assertion, "more threads than configured",
                            "too many commandlists submitted at once"}
  <2>1. CASE Create(t)
    BY <1>a, <2>1, CreateAsserts
  <2>2. CASE Submit(t) \/ ReleaseNode(t) \/ ThreadReplaced(t) \/ (\E n \in Nodes : Discard(t, n))
    BY <1>2, <2>2 DEF Submit, ExecuteCommandLists, CountSubmit, SignalGPU, SubmitEnd, ReleaseNode,
                      ThreadReplaced, Discard
  <2>3. CASE \E cls \in SUBSET Nodes, n \in 0 .. MaxBarriers : SubmitBegin(t, cls, n)
    BY <2>3 DEF SubmitBegin, Fail
  <2> QED
    BY <1>1, <1>3, <2>1, <2>2, <2>3 DEF Acts
<1>4. CASE GPU \/ UNCHANGED vars
  BY <1>4 DEF GPU, FinishLists, SignalFence, vars, NeverAsserts
<1>5. CASE ReplaceBackend
  BY <1>a, <1>5, ReplaceAsserts DEF NeverAsserts
<1>6. CASE \E t \in Threads : Acts(t)
  BY <1>3, <1>6 DEF NeverAsserts
<1> QED
  BY <1>4, <1>5, <1>6, Steps

\* An application that leaves no more lists of a bundle unsubmitted than this has allocators never
\* meets an assertion of the pool but the ones about its own numbers, of threads and of lists in one
\* submit, and about lists it leaked, whatever its threads record, discard and submit and however far the GPU is behind.
THEOREM NeverAssertsCorrect == LimitsHold => (Spec => []NeverAsserts)
<1> SUFFICES ASSUME LimitsHold PROVE Spec => []NeverAsserts
  OBVIOUS
<1>1. Init => RoomInv /\ NeverAsserts
  BY RoomInvInit DEF Init, NeverAsserts
<1>2. RoomInv /\ NeverAsserts /\ [Next]_vars => (RoomInv /\ NeverAsserts)'
  <2> SUFFICES ASSUME RoomInv, NeverAsserts, [Next]_vars PROVE (RoomInv /\ NeverAsserts)'
    OBVIOUS
  <2>1. CASE assertion = "none"
    BY <2>1, RoomInvStep, StepAsserts
  <2>2. CASE assertion # "none"
    <3>1. UNCHANGED vars
      BY <2>2 DEF Next
    <3>2. NeverAsserts'
      BY <3>1 DEF NeverAsserts, Open, vars, pool
    <3> QED
      BY <3>2, RoomInvStep
  <2> QED
    BY <2>1, <2>2
<1> QED
  BY <1>1, <1>2, PTL DEF Spec
=============================================================================
