------------------------- MODULE VkFenceRing_proofs -------------------------
(***************************************************************************)
(* The fences of a Vulkan command list pool: that acquireFence always      *)
(* finds one if there is one more than allocators, that the fence an       *)
(* allocator remembers covers all of its submissions, and hence that the   *)
(* pool recycles only what the GPU is done with; and that no assertion of  *)
(* the pool fires while the application keeps to its limits.               *)
(***************************************************************************)
EXTENDS VkCmdListPool_proofs, SequenceTheorems

\* When submit holds no fence, the allocators alone hold references, each at most one, and
\* there are more fences than allocators.
LEMMA UnreferencedFence ==
  ASSUME RefInv, SafetyFences > 0, sub_fence = NoFence
  PROVE  \E f \in Fences : ref_count[f] = 0
<1> SUFFICES ASSUME \A f \in Fences : ref_count[f] # 0 PROVE FALSE
  OBVIOUS
<1>1. ASSUME NEW f \in Fences PROVE Remembering(f) # {}
  <2>1. Owed(f) = 0
    BY RefFacts DEF Owed
  <2>2. Cardinality(Remembering(f)) # 0
    BY <2>1, RememberingFinite DEF RefInv, RefCountsExact
  <2> QED
    BY <2>2, FS_EmptySet
<1> DEFINE one == [f \in Fences |-> CHOOSE a \in Remembering(f) : TRUE]
<1>2. \A f \in Fences : one[f] \in Allocs /\ latest_fence[one[f]] = f
  BY <1>1 DEF Remembering
<1> HIDE DEF one
<1>3. one \in Injection(Fences, Allocs)
  <2>1. one \in [Fences -> Allocs]
    BY <1>2 DEF one
  <2>2. \A f, h \in Fences : one[f] = one[h] => f = h
    BY <1>2
  <2> QED
    BY <2>1, <2>2 DEF Injection, IsInjective
<1>4. Cardinality(Fences) <= Cardinality(Allocs)
  BY <1>3, AllocsFinite, FS_Injection
<1>5. Cardinality(Fences) = NumFences
  BY AllocsFinite, FS_Interval DEF Fences
<1>6. Cardinality(Allocs) \in Nat
  BY AllocsFinite, FS_CardinalityType
<1> QED
  BY <1>4, <1>5, <1>6, SizesAssumption DEF NumFences

\* Only acquireFence turns an unreferenced fence into a referenced one.
LEMMA UnreferencedStays ==
  ASSUME RefInv, NEW t \in Threads, Create(t), NEW f \in Fences, ref_count[f] = 0
  PROVE  ref_count'[f] = 0
<1>1. CASE Reset(t)
  <2>1. Remembering(f) = {}
    <3>1. Cardinality(Remembering(f)) = 0
      BY RememberingFinite, RefFacts DEF RefInv, RefCountsExact
    <3> QED
      BY <3>1, RememberingFinite, FS_EmptySet
  <2>2. Active(t) \in Allocs
    BY ActiveType DEF RefInv, SubmitInv
  <2>3. latest_fence[Active(t)] # f
    BY <2>1, <2>2 DEF Remembering
  <2>4. \/ ref_count' = [ref_count EXCEPT ![latest_fence[Active(t)]] = @ - 1]
        \/ ref_count' = ref_count
    BY <1>1 DEF Reset
  <2> QED
    BY <2>3, <2>4, RefFacts
<1>2. CASE TakeBuffer(t) \/ LoadCounter(t) \/ NextAllocator(t)
  BY <1>2 DEF TakeBuffer, LoadCounter, NextAllocator, ring
<1> QED
  BY <1>1, <1>2 DEF Create

\* One iteration of acquireFence: it does not pass the last unreferenced fence.
LEMMA NextFenceAhead ==
  ASSUME RingInv, SafetyFences > 0, NEW t \in Threads, NextFence(t), pc'[t] = "fence_any"
  PROVE  /\ \E f \in Fences : ref_count'[f] = 0 /\ StepsTo(f)' < NumFences - it'[t]
         /\ assertion' = assertion
<1>a. /\ RefInv /\ it \in [Threads -> Nat] /\ NumFences \in Nat \ {0}
      /\ pc \in [Threads -> Points] /\ mNextFence \in Fences /\ t # NoThread
  BY RefFacts, AllocsFinite, NoThreadAssumption
  DEF RingInv, RefInv, SubmitInv, TypeOK, ThreadType
<1>b. /\ submitter = t /\ pc[t] \in {"fence_ready", "fence_any"} /\ ~Acquirable(t, mNextFence)
      /\ ref_count' = ref_count /\ mNextFence' = WrappedIncrement(mNextFence, NumFences)
  BY DEF NextFence
<1>c. it' = [it EXCEPT ![t] = IF it[t] = NumFences - 1 THEN 0 ELSE @ + 1]
  BY DEF NextFence
<1>d. mNextFence' = IF mNextFence = NumFences - 1 THEN 0 ELSE mNextFence + 1
  BY <1>b DEF WrappedIncrement
<1>e. sub_fence = NoFence
  BY <1>a, <1>b DEF RefInv, SubmitInv, FenceHeld, Submitting
<1>1. CASE pc[t] = "fence_ready"
  <2>1. it[t] = NumFences - 1 /\ assertion' = assertion
    BY <1>1 DEF NextFence
  <2>2. PICK f \in Fences : ref_count[f] = 0
    BY <1>a, <1>e, UnreferencedFence
  <2>3. StepsTo(f)' < NumFences
    BY <1>a, <1>d DEF StepsTo, Fences
  <2>4. it'[t] = 0
    BY <1>a, <1>c, <2>1
  <2> QED
    BY <1>a, <1>b, <2>1, <2>2, <2>3, <2>4
<1>2. CASE pc[t] = "fence_any"
  <2>1. PICK f \in Fences : ref_count[f] = 0 /\ StepsTo(f) < NumFences - it[t]
    BY <1>2 DEF RingInv, FenceAhead
  <2>2. f # mNextFence
    BY <1>b, <1>2, <2>1 DEF Acquirable
  <2>3. StepsTo(f)' = StepsTo(f) - 1 /\ StepsTo(f) \in Nat \ {0}
    BY <1>a, <1>d, <2>2 DEF StepsTo, Fences
  <2>4. it[t] # NumFences - 1 /\ it[t] \in Nat
    BY <1>a, <2>1, <2>3
  <2>5. it'[t] = it[t] + 1 /\ assertion' = assertion
    <3>1. it'[t] = it[t] + 1
      BY <1>a, <1>c, <2>4
    <3>2. assertion' = assertion
      BY <2>4 DEF NextFence
    <3> QED
      BY <3>1, <3>2
  <2>6. StepsTo(f)' < NumFences - it'[t]
    BY <1>a, <2>1, <2>3, <2>4, <2>5
  <2> QED
    BY <1>b, <2>1, <2>5, <2>6
<1> QED
  BY <1>b, <1>1, <1>2

LEMMA FenceAheadStep ==
  ASSUME RingInv, SafetyFences > 0, [Next]_vars, NEW t \in Threads, pc'[t] = "fence_any"
  PROVE  \E f \in Fences : ref_count'[f] = 0 /\ StepsTo(f)' < NumFences - it'[t]
<1>a. /\ RefInv /\ it \in [Threads -> Nat] /\ pc \in [Threads -> Points] /\ SubmitExclusive
  BY DEF RingInv, RefInv, SubmitInv, TypeOK, ThreadType
<1>b. pc[t] = "fence_any" =>
        /\ submitter = t
        /\ \E f \in Fences : ref_count[f] = 0 /\ StepsTo(f) < NumFences - it[t]
  BY <1>a DEF RingInv, FenceAhead, SubmitExclusive, SubmitPoints, Points
<1>1. ASSUME NEW u \in Threads, Create(u)
      PROVE  \E f \in Fences : ref_count'[f] = 0 /\ StepsTo(f)' < NumFences - it'[t]
  <2>1. /\ pc[u] \in {"find", "block"} /\ mNextFence' = mNextFence
        /\ pc' = pc \/ \E to \in {"block", "idle", "submit"} : pc' = [pc EXCEPT ![u] = to]
        /\ it' = it \/ \E i : it' = [it EXCEPT ![u] = i]
    BY <1>1 DEF Create, TakeBuffer, LoadCounter, Reset, NextAllocator, Goto, ring
  <2>2. pc[t] = "fence_any" /\ u # t
    BY <1>a, <2>1
  <2>3. it'[t] = it[t]
    BY <1>a, <2>1, <2>2
  <2>4. PICK f \in Fences : ref_count[f] = 0 /\ StepsTo(f) < NumFences - it[t]
    BY <1>b, <2>2
  <2>5. ref_count'[f] = 0
    BY <1>a, <1>1, <2>4, UnreferencedStays
  <2>6. StepsTo(f)' = StepsTo(f)
    BY <2>1 DEF StepsTo
  <2> QED
    BY <2>3, <2>4, <2>5, <2>6
<1>2. ASSUME NEW u \in Threads, Submit(u)
      PROVE  \E f \in Fences : ref_count'[f] = 0 /\ StepsTo(f)' < NumFences - it'[t]
  <2>1. submitter = u
    BY <1>2 DEF Submit, CreateBarrierList, BarriersDone, TakeFence, NextFence, QueueSubmit,
                GatherAllocators, ExchangeFence, CountPending
  <2>2. \/ NextFence(u)
        \/ UNCHANGED <<pc, ref_count, mNextFence, it>> /\ pc[u] \in {"submit", "gather"}
        \/ \E to \in Points \ {"fence_any"} : pc' = [pc EXCEPT ![u] = to]
    BY <1>2 DEF Submit, CreateBarrierList, AcquireNode, BarriersDone, TakeFence, QueueSubmit,
                GatherAllocators, ExchangeFence, CountPending, EndSubmit, Goto, Points, ring
  <2>3. u = t
    <3>1. CASE NextFence(u)
      <4>1. u # t => pc'[t] = pc[t]
        BY <1>a, <3>1 DEF NextFence, Goto
      <4> QED
        BY <1>b, <2>1, <4>1
    <3>2. CASE ~NextFence(u)
      <4>1. u # t => pc'[t] = pc[t]
        BY <1>a, <2>2, <3>2
      <4> QED
        BY <1>b, <2>1, <4>1
    <3> QED
      BY <3>1, <3>2
  <2>4. NextFence(t)
    BY <1>a, <2>2, <2>3
  <2> QED
    BY <2>4, NextFenceAhead
<1>3. CASE \/ Application \/ (\E u \in Threads : ReleaseNode(u))
           \/ (\E q \in Queues : GpuComplete(q)) \/ UNCHANGED vars
  <2>1. /\ UNCHANGED it
        /\ \/ pc' = pc /\ UNCHANGED <<ref_count, mNextFence>>
           \/ pc' = pc /\ \A u \in Threads : pc[u] = "idle"
           \/ /\ UNCHANGED <<ref_count, mNextFence>>
              /\ \E u \in Threads, to \in {"find", "release", "submit", "idle"} :
                    pc' = [pc EXCEPT ![u] = to]
    BY <1>3 DEF Application, RecordCommandList, AcquireNode, Discard, SubmitBegin, Reinitialize,
                ReleaseNode, GpuComplete, Goto, vars, ring
  <2>2. pc[t] = "fence_any" /\ UNCHANGED <<ref_count, mNextFence, it>>
    BY <1>a, <2>1
  <2> QED
    BY <1>b, <2>2 DEF StepsTo
<1> QED
  BY <1>1, <1>2, <1>3 DEF Next

LEMMA NotFull ==
  ASSUME RingInv, SafetyFences > 0, [Next]_vars
  PROVE  RingNeverFull'
<1>a. assertion # "Fence ringbuffer is full" /\ pc \in [Threads -> Points]
  BY DEF RingInv, RingNeverFull, RefInv, SubmitInv, TypeOK, ThreadType
<1>1. ASSUME NEW t \in Threads, NextFence(t)
      PROVE  RingNeverFull'
  <2>1. CASE pc'[t] = "fence_any"
    BY <1>a, <1>1, <2>1, NextFenceAhead DEF RingNeverFull
  <2>2. CASE pc'[t] # "fence_any"
    BY <1>a, <1>1, <2>2 DEF NextFence, Goto, RingNeverFull
  <2> QED
    BY <2>1, <2>2
<1>2. CASE \E t \in Threads : Create(t)
  BY <1>a, <1>2 DEF Create, TakeBuffer, LoadCounter, Reset, NextAllocator, Fail, RingNeverFull
<1>3. ASSUME NEW t \in Threads, Submit(t), ~NextFence(t)
      PROVE  RingNeverFull'
  BY <1>a, <1>3 DEF Submit, CreateBarrierList, AcquireNode, BarriersDone, TakeFence, QueueSubmit,
                GatherAllocators, ExchangeFence, CountPending, Fail, RingNeverFull
<1>4. CASE \/ Application \/ (\E t \in Threads : ReleaseNode(t))
           \/ (\E q \in Queues : GpuComplete(q)) \/ UNCHANGED vars
  BY <1>a, <1>4 DEF Application, RecordCommandList, AcquireNode, Discard, SubmitBegin,
                    Reinitialize, ReleaseNode, GpuComplete, Fail, vars, RingNeverFull
<1> QED
  BY <1>1, <1>2, <1>3, <1>4 DEF Next

\* With a single fence beyond one per allocator, acquireFence finds a fence in every submission
\* that has a valid list, however far the GPU is behind: cmd_list_pool.cc:253 cannot fail.
THEOREM RingNeverFullCorrect ==
  SafetyFences > 0 /\ ~EmptySubmits => (Spec => []RingNeverFull)
<1> SUFFICES ASSUME SafetyFences > 0, ~EmptySubmits PROVE Spec => []RingNeverFull
  OBVIOUS
<1>1. Init => RingInv
  <2> SUFFICES ASSUME Init PROVE RingInv
    OBVIOUS
  <2>1. FenceAhead /\ RingNeverFull
    BY DEF Init, FenceAhead, RingNeverFull
  <2> QED
    BY <2>1, RefInvInit DEF RingInv
<1>2. RingInv /\ [Next]_vars => RingInv'
  <2> SUFFICES ASSUME RingInv, [Next]_vars PROVE RingInv'
    OBVIOUS
  <2>1. RefInv'
    BY RefInvInductive DEF RingInv
  <2>2. FenceAhead'
    BY FenceAheadStep DEF FenceAhead
  <2> QED
    BY <2>1, <2>2, NotFull DEF RingInv
<1>3. RingInv => RingNeverFull
  BY DEF RingInv
<1> QED
  BY <1>1, <1>2, <1>3, PTL DEF Spec

-----------------------------------------------------------------------------
(* What is queued on the GPU                                               *)

FenceOf(s) == queue[s[1]][s[2]].fence
ListsIn(s) == queue[s[1]][s[2]].lists
Uses(s, a) == \E l \in ListsIn(s) : l[1] = a

\* Every submission the GPU has not finished has a fence of its own, which is not signalled, and so
\* has the one about to be queued.
FencesPending ==
  /\ \A s \in Unfinished : ~signalled[FenceOf(s)]
  /\ \A s, r \in Unfinished : FenceOf(s) = FenceOf(r) => s = r
  /\ Submitting({"queue_submit"}) =>
       ~signalled[sub_fence] /\ \A s \in Unfinished : FenceOf(s) # sub_fence

\* The pending command buffers are those of the unfinished submissions.
ListsPending ==
  /\ \A s \in Unfinished : \A l \in ListsIn(s) : buf[l] = "pending" /\ l[1][2] = s[1]
  /\ \A l \in Lists : buf[l] = "pending" => \E s \in Unfinished : l \in ListsIn(s)
  /\ \A s, r \in Unfinished : s # r => ListsIn(s) \cap ListsIn(r) = {}

LastOf(q) == <<q, Len(queue[q])>>

\* What the submit in progress has queued is the last of its queue, unless it is finished.
SubQueued ==
  Submitting(Queued) =>
    /\ \A s \in Unfinished : FenceOf(s) = sub_fence => s = LastOf(target[submitter])
    /\ \A s \in Unfinished : s = LastOf(target[submitter]) =>
         /\ FenceOf(s) = sub_fence /\ sub_lists \subseteq ListsIn(s)
         /\ Submitting({"gather"}) => ListsIn(s) = sub_lists

\* will submit still make allocator a remember its fence, if it has lists of a?
Owes(a) == Submitting({"gather"}) \/ a \in sub_allocs

Covers(s, a) ==
  /\ Uses(s, a)
  /\ latest_fence[a] = FenceOf(s) \/ (sub_fence = FenceOf(s) /\ Owes(a))

\* An allocator remembers but one fence: it is, or is about to be, that of an unfinished submission
\* with its lists, as late on its queue as any other such submission.
LatestRight ==
  \A s \in Unfinished, a \in Allocs :
    Uses(s, a) => \E r \in Unfinished : r[1] = s[1] /\ r[2] >= s[2] /\ Covers(r, a)

QueueInv == CountInv /\ FencesPending /\ ListsPending /\ SubQueued /\ LatestRight

LEMMA QueueShape ==
  ASSUME TypeOK
  PROVE  /\ \A q \in Queues : /\ queue[q] \in Seq([fence : Fences, lists : SUBSET Lists])
                              /\ Len(queue[q]) \in Nat /\ DOMAIN queue[q] = 1 .. Len(queue[q])
         /\ \A q \in Queues, i \in Int : <<q, i>> \in Unfinished <=> i \in 1 .. Len(queue[q])
         /\ \A s \in Unfinished : /\ s[1] \in Queues /\ s[2] \in 1 .. Len(queue[s[1]])
                                  /\ s[2] \in Int /\ s = <<s[1], s[2]>>
                                  /\ FenceOf(s) \in Fences /\ ListsIn(s) \subseteq Lists
<1>1. \A q \in Queues : queue[q] \in Seq([fence : Fences, lists : SUBSET Lists])
  BY DEF TypeOK, DeviceType
<1>2. \A q \in Queues : Len(queue[q]) \in Nat /\ DOMAIN queue[q] = 1 .. Len(queue[q])
  BY <1>1, LenProperties
<1>3. \A q \in Queues, i \in Int : <<q, i>> \in Unfinished <=> i \in 1 .. Len(queue[q])
  BY <1>2 DEF Unfinished
<1>4. \A s \in Unfinished : s[1] \in Queues /\ s[2] \in 1 .. Len(queue[s[1]]) /\ s = <<s[1], s[2]>>
  BY <1>2 DEF Unfinished
<1>5. ASSUME NEW s \in Unfinished
      PROVE  s[2] \in Int /\ FenceOf(s) \in Fences /\ ListsIn(s) \subseteq Lists
  <2>1. queue[s[1]][s[2]] \in [fence : Fences, lists : SUBSET Lists]
    BY <1>1, <1>2, <1>4, ElementOfSeq
  <2>2. s[2] \in Int
    BY <1>2, <1>4
  <2> QED
    BY <2>1, <2>2 DEF FenceOf, ListsIn
<1> QED
  BY <1>1, <1>2, <1>3, <1>4, <1>5

\* A submission is queued.
LEMMA SubmissionAppended ==
  ASSUME TypeOK, NEW q \in Queues, NEW e \in [fence : Fences, lists : SUBSET Lists], NEW new,
         queue'[q] = Append(queue[q], e), \A p \in Queues : p # q => queue'[p] = queue[p],
         new = <<q, Len(queue[q]) + 1>>
  PROVE  /\ Unfinished' = Unfinished \union {new} /\ new \notin Unfinished
         /\ FenceOf(new)' = e.fence /\ ListsIn(new)' = e.lists
         /\ \A s \in Unfinished : FenceOf(s)' = FenceOf(s) /\ ListsIn(s)' = ListsIn(s)
         /\ new = LastOf(q)'
<1>1. /\ queue[q] \in Seq([fence : Fences, lists : SUBSET Lists])
      /\ Len(queue[q]) \in Nat /\ DOMAIN queue[q] = 1 .. Len(queue[q])
      /\ new[1] = q /\ new[2] = Len(queue[q]) + 1
  BY QueueShape
<1>2. queue'[q] = Append(queue[q], e) /\ \A p \in Queues : p # q => queue'[p] = queue[p]
  OBVIOUS
<1>3. /\ Len(queue'[q]) = Len(queue[q]) + 1
      /\ queue'[q][Len(queue[q]) + 1] = e
      /\ \A i \in 1 .. Len(queue[q]) : queue'[q][i] = queue[q][i]
      /\ DOMAIN queue'[q] = 1 .. Len(queue[q]) + 1
  BY <1>1, <1>2, AppendProperties, LenProperties
<1>4. FenceOf(new)' = e.fence /\ ListsIn(new)' = e.lists
  BY <1>1, <1>3 DEF FenceOf, ListsIn
<1>5. Unfinished' = Unfinished \union {new} /\ new \notin Unfinished
  BY <1>1, <1>2, <1>3 DEF Unfinished
<1>6. ASSUME NEW s \in Unfinished
      PROVE  FenceOf(s)' = FenceOf(s) /\ ListsIn(s)' = ListsIn(s)
  <2>1. s[1] \in Queues /\ s[2] \in 1 .. Len(queue[s[1]])
    BY QueueShape
  <2>2. queue'[s[1]][s[2]] = queue[s[1]][s[2]]
    BY <1>2, <1>3, <2>1
  <2> QED
    BY <2>2 DEF FenceOf, ListsIn
<1> QED
  BY <1>3, <1>4, <1>5, <1>6 DEF LastOf

Later(q, s)   == <<s[1], IF s[1] = q THEN s[2] + 1 ELSE s[2]>>
Earlier(q, s) == <<s[1], IF s[1] = q THEN s[2] - 1 ELSE s[2]>>

\* The GPU finishes the first submission of a queue: the later ones move up.
LEMMA SubmissionFinished ==
  ASSUME TypeOK, NEW q \in Queues, queue[q] # << >>,
         queue'[q] = Tail(queue[q]), \A p \in Queues : p # q => queue'[p] = queue[p]
  PROVE  /\ <<q, 1>> \in Unfinished
         /\ FenceOf(<<q, 1>>) = Head(queue[q]).fence /\ ListsIn(<<q, 1>>) = Head(queue[q]).lists
         /\ \A s \in Unfinished' : /\ Later(q, s) \in Unfinished /\ Later(q, s) # <<q, 1>>
                                   /\ FenceOf(s)' = FenceOf(Later(q, s))
                                   /\ ListsIn(s)' = ListsIn(Later(q, s))
                                   /\ Earlier(q, Later(q, s)) = s
                                   /\ s[2] \in Int /\ s[2] >= 1
         /\ \A r \in Unfinished : r # <<q, 1>> => /\ Earlier(q, r) \in Unfinished'
                                                  /\ Later(q, Earlier(q, r)) = r
         /\ \A p \in Queues, s \in Unfinished' : s = LastOf(p)' <=> Later(q, s) = LastOf(p)
<1>1. /\ queue[q] \in Seq([fence : Fences, lists : SUBSET Lists])
      /\ Len(queue[q]) \in Nat /\ DOMAIN queue[q] = 1 .. Len(queue[q])
  BY QueueShape
<1>2. queue'[q] = Tail(queue[q]) /\ \A p \in Queues : p # q => queue'[p] = queue[p]
  OBVIOUS
<1>3. /\ Len(queue[q]) > 0 /\ Head(queue[q]) = queue[q][1]
      /\ Len(queue'[q]) = Len(queue[q]) - 1
      /\ DOMAIN queue'[q] = 1 .. Len(queue[q]) - 1
      /\ \A i \in 1 .. Len(queue[q]) - 1 : queue'[q][i] = queue[q][i + 1]
  <2>1. /\ Tail(queue[q]) \in Seq([fence : Fences, lists : SUBSET Lists])
        /\ Len(Tail(queue[q])) = Len(queue[q]) - 1
        /\ \A i \in 1 .. Len(Tail(queue[q])) : Tail(queue[q])[i] = queue[q][i + 1]
    BY <1>1, HeadTailProperties
  <2>2. Len(queue[q]) > 0 /\ Head(queue[q]) = queue[q][1]
    BY <1>1
  <2>3. DOMAIN Tail(queue[q]) = 1 .. Len(Tail(queue[q]))
    BY <2>1, LenProperties
  <2> QED
    BY <1>2, <2>1, <2>2, <2>3
<1>4. /\ <<q, 1>> \in Unfinished
      /\ FenceOf(<<q, 1>>) = Head(queue[q]).fence /\ ListsIn(<<q, 1>>) = Head(queue[q]).lists
  BY <1>1, <1>3, QueueShape DEF FenceOf, ListsIn
<1>5. \A s : s \in Unfinished' <=>
         /\ s = <<s[1], s[2]>> /\ s[1] \in Queues /\ s[2] \in Int
         /\ 1 <= s[2] /\ s[2] <= Len(queue'[s[1]])
  <2>1. \A p \in Queues : DOMAIN queue'[p] = 1 .. Len(queue'[p]) /\ Len(queue'[p]) \in Nat
    BY <1>1, <1>2, <1>3, QueueShape
  <2> QED
    BY <2>1 DEF Unfinished
<1>6. \A s : s \in Unfinished <=>
         /\ s = <<s[1], s[2]>> /\ s[1] \in Queues /\ s[2] \in Int
         /\ 1 <= s[2] /\ s[2] <= Len(queue[s[1]])
  BY QueueShape
<1>7. ASSUME NEW s \in Unfinished'
      PROVE  /\ Later(q, s) \in Unfinished /\ Later(q, s) # <<q, 1>>
             /\ FenceOf(s)' = FenceOf(Later(q, s)) /\ ListsIn(s)' = ListsIn(Later(q, s))
             /\ Earlier(q, Later(q, s)) = s /\ s[2] \in Int /\ s[2] >= 1
  <2>1. /\ s = <<s[1], s[2]>> /\ s[1] \in Queues /\ s[2] \in Int
        /\ 1 <= s[2] /\ s[2] <= Len(queue'[s[1]])
    BY <1>5
  <2>2. /\ Later(q, s)[1] = s[1] /\ Later(q, s)[2] = IF s[1] = q THEN s[2] + 1 ELSE s[2]
        /\ Later(q, s) = <<Later(q, s)[1], Later(q, s)[2]>>
    BY DEF Later
  <2>a. /\ Len(queue[q]) \in Nat
        /\ s[1] = q => Len(queue'[s[1]]) = Len(queue[s[1]]) - 1
        /\ s[1] # q => queue'[s[1]] = queue[s[1]]
    BY <1>1, <1>2, <1>3, <2>1
  <2>b. /\ 1 <= Later(q, s)[2] /\ Later(q, s)[2] <= Len(queue[s[1]])
        /\ Later(q, s)[2] \in Int
    BY <2>1, <2>2, <2>a
  <2>3. Later(q, s) \in Unfinished
    BY <1>6, <2>1, <2>2, <2>b
  <2>4. queue'[s[1]][s[2]] = queue[s[1]][IF s[1] = q THEN s[2] + 1 ELSE s[2]]
    <3>1. CASE s[1] = q
      <4>1. s[2] \in 1 .. Len(queue[q]) - 1
        BY <1>3, <2>1, <2>a, <3>1
      <4> QED
        BY <1>3, <3>1, <4>1
    <3>2. CASE s[1] # q
      BY <2>a, <3>2
    <3> QED
      BY <3>1, <3>2
  <2>5. Later(q, s) # <<q, 1>>
    BY <2>1, <2>2
  <2>6. Earlier(q, Later(q, s)) = s
    BY <2>1, <2>2 DEF Earlier
  <2> QED
    BY <2>1, <2>2, <2>3, <2>4, <2>5, <2>6 DEF FenceOf, ListsIn
<1>8. ASSUME NEW r \in Unfinished, r # <<q, 1>>
      PROVE  Earlier(q, r) \in Unfinished' /\ Later(q, Earlier(q, r)) = r
  <2>1. /\ r = <<r[1], r[2]>> /\ r[1] \in Queues /\ r[2] \in Int
        /\ 1 <= r[2] /\ r[2] <= Len(queue[r[1]])
    BY <1>6
  <2>2. /\ Earlier(q, r)[1] = r[1] /\ Earlier(q, r)[2] = IF r[1] = q THEN r[2] - 1 ELSE r[2]
        /\ Earlier(q, r) = <<Earlier(q, r)[1], Earlier(q, r)[2]>>
    BY DEF Earlier
  <2>3. r[1] = q => r[2] # 1
    BY <1>8, <2>1
  <2>a. /\ Len(queue[q]) \in Nat
        /\ r[1] = q => Len(queue'[r[1]]) = Len(queue[r[1]]) - 1
        /\ r[1] # q => queue'[r[1]] = queue[r[1]]
    BY <1>1, <1>2, <1>3, <2>1
  <2>b. /\ 1 <= Earlier(q, r)[2] /\ Earlier(q, r)[2] <= Len(queue'[r[1]])
        /\ Earlier(q, r)[2] \in Int
    BY <2>1, <2>2, <2>3, <2>a
  <2>4. Earlier(q, r) \in Unfinished'
    BY <1>5, <2>1, <2>2, <2>b
  <2>5. Later(q, Earlier(q, r)) = r
    BY <2>1, <2>2 DEF Later
  <2> QED
    BY <2>4, <2>5
<1>9. ASSUME NEW p \in Queues, NEW s \in Unfinished'
      PROVE  s = LastOf(p)' <=> Later(q, s) = LastOf(p)
  <2>1. s = <<s[1], s[2]>> /\ s[2] \in Int
    BY <1>5
  <2>2. LastOf(p)' = <<p, Len(queue'[p])>> /\ LastOf(p) = <<p, Len(queue[p])>>
    BY DEF LastOf
  <2>3. Len(queue[p]) \in Nat /\ Len(queue'[p]) = IF p = q THEN Len(queue[p]) - 1 ELSE Len(queue[p])
    BY <1>2, <1>3, QueueShape
  <2> QED
    BY <2>1, <2>2, <2>3 DEF Later
<1> QED
  BY <1>4, <1>7, <1>8, <1>9

\* A step that leaves the queues and the fences alone.
LEMMA QueueFrame ==
  ASSUME QueueInv, UNCHANGED <<queue, signalled, sub_fence, sub_allocs>>,
         \A l \in Lists : buf'[l] = "pending" <=> buf[l] = "pending",
         \A a \in Allocs : latest_fence'[a] = latest_fence[a] \/ \A s \in Unfinished : ~Uses(s, a),
         Submitting({"queue_submit"})' => Submitting({"queue_submit"}),
         Submitting({"gather"})' <=> Submitting({"gather"}),
         Submitting(Queued)' => /\ Submitting(Queued) /\ UNCHANGED sub_lists
                                /\ target'[submitter'] = target[submitter]
  PROVE  FencesPending' /\ ListsPending' /\ SubQueued' /\ LatestRight'
<1>1. /\ Unfinished' = Unfinished
      /\ \A s : FenceOf(s)' = FenceOf(s) /\ ListsIn(s)' = ListsIn(s)
      /\ \A q : LastOf(q)' = LastOf(q)
  BY DEF Unfinished, FenceOf, ListsIn, LastOf
<1>2. \A s, a : Uses(s, a)' <=> Uses(s, a)
  BY <1>1 DEF Uses
<1>3. FencesPending'
  BY <1>1 DEF QueueInv, FencesPending
<1>4. ListsPending'
  BY <1>1, QueueShape DEF QueueInv, CountInv, SubmitInv, ListsPending
<1>5. SubQueued'
  BY <1>1 DEF QueueInv, SubQueued
<1>6. \A s \in Unfinished, a \in Allocs : Covers(s, a) => Covers(s, a)'
  BY <1>1, <1>2 DEF Covers, Owes
<1>7. LatestRight'
  BY <1>1, <1>2, <1>6 DEF QueueInv, LatestRight
<1> QED
  BY <1>3, <1>4, <1>5, <1>7

\* An allocator that is reset has nothing left on the GPU, nor in the submit in progress.
LEMMA ResetUnused ==
  ASSUME QueueInv, NEW t \in Threads, Reset(t)
  PROVE  /\ \A l \in ListsOf(Active(t)) : buf[l] \notin {"live", "pending"} /\ l \notin sub_lists
         /\ \A s \in Unfinished : ~Uses(s, Active(t))
<1> PICK a \in Allocs : a = Active(t)
  BY ActiveType DEF QueueInv, CountInv, SubmitInv
<1>a. /\ CountInv /\ pc[t] \in {"find", "block"} /\ Loaded(t) /\ CanReset(t)
      /\ num_pending_execution[a] > 0 => FenceReady(a)
  BY DEF QueueInv, Reset
<1>b. \A l \in ListsOf(a) : /\ l \notin sub_lists /\ buf[l] # "live"
                            /\ buf[l] \in {"pending", "executed"} => num_pending_execution[a] > 0
  BY <1>a, AllBack DEF ListsOf
<1>1. \A l \in ListsOf(a) : buf[l] # "live" /\ l \notin sub_lists
  BY <1>b
<1>2. ASSUME NEW l \in ListsOf(a), buf[l] = "pending"
      PROVE  signalled[latest_fence[a]]
  BY <1>2, <1>a, <1>b DEF FenceReady
<1>3. ASSUME NEW s \in Unfinished, Uses(s, a)
      PROVE  FALSE
  <2>1. PICK r \in Unfinished : Covers(r, a)
    BY <1>3 DEF QueueInv, LatestRight
  <2>2. PICK l \in ListsIn(s) : l[1] = a
    BY <1>3 DEF Uses
  <2>3. l \in ListsOf(a) /\ buf[l] = "pending"
    BY <2>2, QueueShape DEF QueueInv, CountInv, SubmitInv, ListsPending, ListsOf
  <2>4. latest_fence[a] # FenceOf(r)
    BY <1>2, <2>1, <2>3 DEF QueueInv, FencesPending
  <2>5. sub_fence = FenceOf(r) /\ Owes(a)
    BY <2>1, <2>4 DEF Covers
  <2>6. CASE Submitting({"gather"})
    <3>1. Submitting(Queued)
      BY <2>6 DEF Submitting, Queued
    <3>2. ListsIn(r) = sub_lists
      BY <2>5, <2>6, <3>1 DEF QueueInv, SubQueued
    <3>3. PICK m \in sub_lists : m[1] = a
      BY <2>1, <3>2 DEF Covers, Uses
    <3> QED
      BY <1>1, <3>3, Typings DEF QueueInv, CountInv, ListsOf
  <2>7. CASE a \in sub_allocs
    <3>1. \E m \in sub_lists : m[1] = a
      BY <2>7 DEF QueueInv, CountInv, NotifyRight
    <3> QED
      BY <1>1, <3>1, Typings DEF QueueInv, CountInv, ListsOf
  <2> QED
    BY <2>5, <2>6, <2>7 DEF Owes
<1>4. ASSUME NEW l \in ListsOf(a)
      PROVE  buf[l] # "pending"
  <2>1. buf[l] = "pending" => \E s \in Unfinished : l \in ListsIn(s)
    BY DEF QueueInv, ListsPending, ListsOf
  <2> QED
    BY <1>3, <2>1 DEF Uses, ListsOf
<1> QED
  BY <1>1, <1>3, <1>4

LatePoints == Queued \union {"queue_submit"}

\* A step of a thread outside the late part of submit that leaves the GPU alone.
LEMMA QuietStep ==
  ASSUME QueueInv, NEW t \in Threads,
         pc[t] \notin LatePoints, pc'[t] \notin LatePoints,
         \A u \in Threads : u # t => pc'[u] = pc[u] /\ target'[u] = target[u],
         UNCHANGED <<queue, signalled, sub_fence, sub_allocs>>,
         \/ submitter' = submitter /\ (submitter # t => UNCHANGED sub_lists)
         \/ submitter = NoThread /\ submitter' = t,
         \A l \in Lists : buf'[l] = "pending" <=> buf[l] = "pending",
         \A a \in Allocs : latest_fence'[a] = latest_fence[a] \/ \A s \in Unfinished : ~Uses(s, a)
  PROVE  FencesPending' /\ ListsPending' /\ SubQueued' /\ LatestRight'
<1>1. /\ submitter \in Threads \union {NoThread} /\ NoThread \notin Threads
  BY Typings DEF QueueInv, CountInv
<1>2. ASSUME NEW S \in SUBSET LatePoints
      PROVE  Submitting(S)' <=> Submitting(S)
  BY <1>1, <1>2 DEF Submitting
<1>3. {"queue_submit"} \in SUBSET LatePoints /\ {"gather"} \in SUBSET LatePoints /\ Queued \in SUBSET LatePoints
  BY DEF LatePoints, Queued
<1>4. Submitting(Queued)' => UNCHANGED sub_lists /\ target'[submitter'] = target[submitter]
  BY <1>1, <1>3 DEF Submitting
<1> QED
  BY <1>2, <1>3, <1>4, QueueFrame

\* The steps of recording, and those of submit before it has a fence.
LEMMA QuietSteps ==
  ASSUME QueueInv, NEW t \in Threads,
         \/ \E q \in Queues : RecordCommandList(t, q)
         \/ LoadCounter(t) \/ NextAllocator(t)
         \/ CreateBarrierList(t) \/ BarriersDone(t) \/ NextFence(t)
  PROVE  FencesPending' /\ ListsPending' /\ SubQueued' /\ LatestRight'
<1>0. /\ pc \in [Threads -> Points] /\ target \in [Threads -> Queues]
  BY Typings DEF QueueInv, CountInv
<1>1. /\ UNCHANGED <<queue, buf, signalled, latest_fence, sub_fence, sub_allocs, submitter, sub_lists>>
      /\ target' = target \/ \E q \in Queues : target' = [target EXCEPT ![t] = q]
      /\ pc[t] \in {"idle", "find", "block", "submit", "fence_ready", "fence_any"}
      /\ \/ pc' = pc
         \/ \E to \in {"find", "block", "fence_ready", "fence_any"} : Goto(t, to)
  BY DEF RecordCommandList, LoadCounter, NextAllocator, CreateBarrierList, BarriersDone, NextFence,
         AcquireNode, ring, node, device, submit
<1>2. pc'[t] \notin LatePoints /\ pc[t] \notin LatePoints
  BY <1>0, <1>1 DEF Goto, LatePoints, Queued
<1>3. \A u \in Threads : u # t => pc'[u] = pc[u] /\ target'[u] = target[u]
  BY <1>0, <1>1 DEF Goto
<1> QED
  BY <1>1, <1>2, <1>3, QuietStep

LEMMA TakeQueue ==
  ASSUME QueueInv, NEW t \in Threads, TakeBuffer(t)
  PROVE  FencesPending' /\ ListsPending' /\ SubQueued' /\ LatestRight'
<1>1. /\ UNCHANGED <<queue, signalled, latest_fence, sub_fence, sub_allocs, submitter, target>>
      /\ pc[t] \in {"find", "block"}
      /\ \E to \in {"submit", "idle"} : Goto(t, to)
      /\ submitter # t => UNCHANGED sub_lists
  BY DEF TakeBuffer, ring
<1>2. /\ pc'[t] \notin LatePoints /\ pc[t] \notin LatePoints
      /\ \A u \in Threads : u # t => pc'[u] = pc[u] /\ target'[u] = target[u]
  BY <1>1, Typings DEF QueueInv, CountInv, Goto, LatePoints, Queued
<1>3. \A l \in Lists : buf'[l] = "pending" <=> buf[l] = "pending"
  <2> PICK a \in Allocs : a = Active(t)
    BY ActiveType DEF QueueInv, CountInv, SubmitInv
  <2>1. num_in_flight[a] \in 0 .. ListsPerAlloc - 1
    BY Typings DEF TakeBuffer, IsFull, QueueInv, CountInv
  <2>2. PICK l \in Lists : l = <<a, num_in_flight[a]>>
    BY <2>1, ListShape
  <2>3. buf[l] = "free"
    BY <2>1, <2>2 DEF QueueInv, CountInv, HandedOutRight
  <2> QED
    BY <2>2, <2>3, Typings DEF TakeBuffer, QueueInv, CountInv
<1> QED
  BY <1>1, <1>2, <1>3, QuietStep

LEMMA ResetQueue ==
  ASSUME QueueInv, NEW t \in Threads, Reset(t)
  PROVE  FencesPending' /\ ListsPending' /\ SubQueued' /\ LatestRight'
<1> PICK a \in Allocs : a = Active(t)
  BY ActiveType DEF QueueInv, CountInv, SubmitInv
<1>1. /\ UNCHANGED <<queue, signalled, sub_fence, sub_allocs, submitter, sub_lists, target, pc>>
      /\ pc[t] \notin LatePoints
      /\ latest_fence' = latest_fence \/ latest_fence' = [latest_fence EXCEPT ![a] = NoFence]
      /\ \A l \in Lists : buf'[l] = IF l[1] = a THEN "free" ELSE buf[l]
  BY DEF Reset, submit, LatePoints, Queued
<1>2. \A b \in Allocs : latest_fence'[b] = latest_fence[b] \/ \A s \in Unfinished : ~Uses(s, b)
  BY <1>1, ResetUnused DEF QueueInv, CountInv, SubmitInv, TypeOK, NodeType
<1>3. \A l \in Lists : buf'[l] = "pending" <=> buf[l] = "pending"
  BY <1>1, ResetUnused DEF ListsOf
<1> QED
  BY <1>1, <1>2, <1>3, QuietStep

LEMMA DiscardQueue ==
  ASSUME QueueInv, NEW t \in Threads, ReleaseNode(t) \/ \E l \in Lists : Discard(t, l)
  PROVE  FencesPending' /\ ListsPending' /\ SubQueued' /\ LatestRight'
<1>1. /\ UNCHANGED <<queue, signalled, latest_fence, sub_fence, sub_allocs, submitter, sub_lists, target>>
      /\ pc[t] \in {"idle", "release"} /\ \E to \in {"idle", "release"} : Goto(t, to)
  BY DEF Discard, ReleaseNode, ring, node, device, submit
<1>2. /\ pc[t] \notin LatePoints /\ pc'[t] \notin LatePoints
      /\ \A u \in Threads : u # t => pc'[u] = pc[u]
  BY <1>1, Typings DEF QueueInv, CountInv, Goto, LatePoints, Queued
<1>3. \A m \in Lists : buf'[m] = "pending" <=> buf[m] = "pending"
  BY Typings DEF Discard, ReleaseNode, device, QueueInv, CountInv
<1> QED
  BY <1>1, <1>2, <1>3, QuietStep

LEMMA BeginQueue ==
  ASSUME QueueInv, NEW t \in Threads, NEW q \in Queues, NEW cls \in SUBSET Lists,
         NEW n \in 0 .. MaxBarrierLists, SubmitBegin(t, q, cls, n)
  PROVE  FencesPending' /\ ListsPending' /\ SubQueued' /\ LatestRight'
<1>1. /\ UNCHANGED <<queue, buf, signalled, latest_fence, sub_fence, sub_allocs>>
      /\ submitter = NoThread /\ submitter' = t /\ pc[t] = "idle" /\ Goto(t, "submit")
      /\ target' = [target EXCEPT ![t] = q]
  BY DEF SubmitBegin, ring, node, device
<1>2. /\ pc[t] \notin LatePoints /\ pc'[t] \notin LatePoints
      /\ \A u \in Threads : u # t => pc'[u] = pc[u] /\ target'[u] = target[u]
  BY <1>1, Typings DEF QueueInv, CountInv, Goto, LatePoints, Queued
<1> QED
  BY <1>1, <1>2, QuietStep

\* Where the submit in progress is, before and after a step of its own.
LEMMA SubmitterAt ==
  ASSUME QueueInv, NEW t \in Threads, submitter = t
  PROVE  /\ \A S : Submitting(S) <=> pc[t] \in S
         /\ \A to \in Points : \A S : Goto(t, to) /\ UNCHANGED submitter => (Submitting(S)' <=> to \in S)
         /\ submitter' = NoThread => \A S : ~Submitting(S)'
<1>1. t # NoThread /\ pc \in [Threads -> Points]
  BY Typings DEF QueueInv, CountInv
<1> QED
  BY <1>1 DEF Submitting, Goto

\* No submission is unfinished with a fence that is signalled.
LEMMA TakeFenceQueue ==
  ASSUME QueueInv, NEW t \in Threads, TakeFence(t), signalled[mNextFence]
  PROVE  FencesPending' /\ ListsPending' /\ SubQueued' /\ LatestRight'
<1> PICK f \in Fences : f = mNextFence
  BY DEF QueueInv, CountInv, SubmitInv, TypeOK, RingType
<1>1. /\ submitter = t /\ pc[t] \in {"fence_ready", "fence_any"} /\ Goto(t, "queue_submit")
      /\ UNCHANGED <<queue, buf, latest_fence, submitter, sub_allocs>>
      /\ sub_fence' = f /\ signalled' = [signalled EXCEPT ![f] = FALSE]
  BY DEF TakeFence, node, device
<1>2. /\ Submitting({"queue_submit"})' /\ ~Submitting(Queued)'
      /\ ~Submitting({"gather"}) /\ ~Submitting({"gather"})' /\ ~Submitting({"notify", "count"})
  BY <1>1, SubmitterAt DEF Queued, Points
<1>3. \A h \in Fences : signalled'[h] = IF h = f THEN FALSE ELSE signalled[h]
  BY <1>1 DEF QueueInv, CountInv, SubmitInv, TypeOK, RingType
<1>4. /\ Unfinished' = Unfinished
      /\ \A s : FenceOf(s)' = FenceOf(s) /\ ListsIn(s)' = ListsIn(s) /\ \A a : Uses(s, a)' <=> Uses(s, a)
  BY <1>1 DEF Unfinished, FenceOf, ListsIn, Uses
<1>5. \A s \in Unfinished : FenceOf(s) # f /\ FenceOf(s) \in Fences
  BY QueueShape DEF QueueInv, CountInv, SubmitInv, FencesPending
<1>6. FencesPending'
  BY <1>1, <1>3, <1>4, <1>5 DEF QueueInv, FencesPending
<1>7. ListsPending'
  BY <1>1, <1>4 DEF QueueInv, ListsPending
<1>8. SubQueued'
  BY <1>2 DEF SubQueued
<1>9. sub_allocs = {}
  BY <1>2 DEF QueueInv, CountInv, NotifyRight
<1>10. \A s \in Unfinished, a \in Allocs : Covers(s, a) => Covers(s, a)'
  BY <1>1, <1>2, <1>4, <1>9 DEF Covers, Owes
<1>11. LatestRight'
  BY <1>4, <1>10 DEF QueueInv, LatestRight
<1> QED
  BY <1>6, <1>7, <1>8, <1>11

LEMMA QueueSubmitQueue ==
  ASSUME QueueInv, NEW t \in Threads, QueueSubmit(t)
  PROVE  FencesPending' /\ ListsPending' /\ SubQueued' /\ LatestRight'
<1> PICK q \in Queues : q = target[t]
  BY Typings DEF QueueInv, CountInv
<1> PICK e : e = [fence |-> sub_fence, lists |-> sub_lists]
  OBVIOUS
<1> PICK new : new = <<q, Len(queue[q]) + 1>>
  OBVIOUS
<1>1. /\ submitter = t /\ pc[t] = "queue_submit" /\ Goto(t, "gather")
      /\ UNCHANGED <<signalled, latest_fence, submitter, sub_fence, sub_lists, sub_allocs, target>>
      /\ queue' = [queue EXCEPT ![q] = Append(@, e)]
      /\ \A l \in Lists : buf'[l] = IF l \in sub_lists THEN "pending" ELSE buf[l]
  BY DEF QueueSubmit, ring, node, submit
<1>2. /\ Submitting({"queue_submit"}) /\ ~Submitting({"queue_submit"})'
      /\ ~Submitting({"gather"}) /\ Submitting({"gather"})'
      /\ ~Submitting({"notify", "count"}) /\ ~Submitting(Queued)
      /\ Submitting({"queue_submit", "gather", "notify", "count"})
  BY <1>1, SubmitterAt DEF Queued, Points
<1>3. /\ sub_fence # NoFence /\ sub_allocs = {}
      /\ \A l \in sub_lists : l \in Lists /\ buf[l] = "live" /\ l[1][2] = q
      /\ sub_lists \subseteq Lists
  BY <1>1, <1>2, Typings DEF QueueInv, CountInv, SubmitInv, FenceHeld, NotifyRight, SubListsRight
<1>4. e \in [fence : Fences, lists : SUBSET Lists] /\ e.fence = sub_fence /\ e.lists = sub_lists
  BY <1>3 DEF QueueInv, CountInv, SubmitInv, TypeOK, SubmitType
<1>5. /\ Unfinished' = Unfinished \union {new} /\ new \notin Unfinished
      /\ FenceOf(new)' = sub_fence /\ ListsIn(new)' = sub_lists
      /\ \A s \in Unfinished : FenceOf(s)' = FenceOf(s) /\ ListsIn(s)' = ListsIn(s)
      /\ new = LastOf(q)' /\ new[1] = q
  <2>1. /\ TypeOK /\ queue'[q] = Append(queue[q], e)
        /\ \A p \in Queues : p # q => queue'[p] = queue[p]
    BY <1>1 DEF QueueInv, CountInv, SubmitInv, TypeOK, DeviceType
  <2>2. /\ Unfinished' = Unfinished \union {new} /\ new \notin Unfinished
        /\ FenceOf(new)' = e.fence /\ ListsIn(new)' = e.lists
        /\ \A s \in Unfinished : FenceOf(s)' = FenceOf(s) /\ ListsIn(s)' = ListsIn(s)
        /\ new = LastOf(q)'
    <3>1. e \in [fence : Fences, lists : SUBSET Lists]
      BY <1>4
    <3> QED
      BY <2>1, <3>1, SubmissionAppended
  <2> QED
    BY <1>4, <2>2
<1>6. /\ ~signalled[sub_fence] /\ \A s \in Unfinished : FenceOf(s) # sub_fence
      /\ \A s \in Unfinished : ListsIn(s) \subseteq Lists
  BY <1>2, QueueShape DEF QueueInv, CountInv, SubmitInv, FencesPending
<1>7. FencesPending'
  <2>1. \A s \in Unfinished' : ~signalled'[FenceOf(s)']
    BY <1>1, <1>5, <1>6 DEF QueueInv, FencesPending
  <2>2. \A s, r \in Unfinished' : FenceOf(s)' = FenceOf(r)' => s = r
    BY <1>5, <1>6 DEF QueueInv, FencesPending
  <2> QED
    BY <1>2, <2>1, <2>2 DEF FencesPending
<1>8. ListsPending'
  <2>1. ASSUME NEW s \in Unfinished', NEW l \in ListsIn(s)'
        PROVE  buf'[l] = "pending" /\ l[1][2] = s[1]
    BY <1>1, <1>3, <1>5, <1>6, <2>1 DEF QueueInv, ListsPending
  <2>2. ASSUME NEW l \in Lists, buf'[l] = "pending"
        PROVE  \E s \in Unfinished' : l \in ListsIn(s)'
    BY <1>1, <1>5, <2>2 DEF QueueInv, ListsPending
  <2>3. ASSUME NEW s \in Unfinished', NEW r \in Unfinished', s # r
        PROVE  ListsIn(s)' \cap ListsIn(r)' = {}
    <3>1. \A u \in Unfinished : ListsIn(u) \cap sub_lists = {}
      BY <1>3 DEF QueueInv, ListsPending
    <3> QED
      BY <1>5, <2>3, <3>1 DEF QueueInv, ListsPending
  <2> QED
    BY <2>1, <2>2, <2>3 DEF ListsPending
<1>9. SubQueued'
  BY <1>1, <1>5, <1>6 DEF SubQueued
<1>10. \A s \in Unfinished, a \in Allocs : Covers(s, a) => Covers(s, a)'
  BY <1>1, <1>5, <1>6 DEF Covers, Uses
<1>11. LatestRight'
  <2> SUFFICES ASSUME NEW s \in Unfinished', NEW a \in Allocs, Uses(s, a)'
               PROVE  \E r \in Unfinished' : r[1] = s[1] /\ r[2] >= s[2] /\ Covers(r, a)'
    BY DEF LatestRight
  <2>1. CASE s \in Unfinished
    <3>1. Uses(s, a)
      BY <1>5, <2>1 DEF Uses
    <3>2. PICK r \in Unfinished : r[1] = s[1] /\ r[2] >= s[2] /\ Covers(r, a)
      BY <2>1, <3>1 DEF QueueInv, LatestRight
    <3> QED
      BY <1>5, <1>10, <3>2
  <2>2. CASE s = new
    <3>1. Covers(new, a)'
      BY <1>1, <1>2, <1>5, <2>2 DEF Covers, Owes
    <3>2. Len(queue[q]) \in Nat
      BY QueueShape DEF QueueInv, CountInv, SubmitInv
    <3>3. new[2] >= new[2]
      BY <3>2
    <3> QED
      BY <1>5, <2>2, <3>1, <3>3
  <2> QED
    BY <1>5, <2>1, <2>2
<1> QED
  BY <1>7, <1>8, <1>9, <1>11

\* A submission with the fence of submit in progress is the one it has queued.
LEMMA QueuedBySubmit ==
  ASSUME QueueInv, Submitting(Queued), NEW s \in Unfinished, FenceOf(s) = sub_fence
  PROVE  /\ s = LastOf(target[submitter]) /\ sub_lists \subseteq ListsIn(s)
         /\ Submitting({"gather"}) => ListsIn(s) = sub_lists
  BY DEF QueueInv, SubQueued

LEMMA GatherQueue ==
  ASSUME QueueInv, NEW t \in Threads, GatherAllocators(t)
  PROVE  FencesPending' /\ ListsPending' /\ SubQueued' /\ LatestRight'
<1> DEFINE allocs == {l[1] : l \in sub_lists}
<1>1. /\ submitter = t /\ pc[t] = "gather"
      /\ UNCHANGED <<queue, signalled, latest_fence, buf, target>>
      /\ \/ UNCHANGED <<pc, submit>>
         \/ EndSubmit(t) /\ allocs = {}
         \/ sub_allocs' = allocs /\ Goto(t, "notify") /\ UNCHANGED <<submitter, sub_lists, sub_fence>>
  <2>1. IsFiniteSet(allocs)
    <3>1. allocs \in SUBSET Allocs
      BY Typings, ListShape DEF QueueInv, CountInv
    <3> QED
      BY <3>1, AllocsFinite, FS_Subset
  <2>2. Cardinality(allocs) = 0 => allocs = {}
    BY <2>1, FS_EmptySet
  <2> QED
    BY <2>2 DEF GatherAllocators, node, device
<1> HIDE DEF allocs
<1>2. Submitting(Queued) /\ Submitting({"gather"}) /\ ~Submitting({"queue_submit"})
  BY <1>1, SubmitterAt DEF Queued
<1>3. /\ Unfinished' = Unfinished
      /\ \A s : FenceOf(s)' = FenceOf(s) /\ ListsIn(s)' = ListsIn(s) /\ \A a : Uses(s, a)' <=> Uses(s, a)
      /\ \A q : LastOf(q)' = LastOf(q)
  BY <1>1 DEF Unfinished, FenceOf, ListsIn, Uses, LastOf
<1>4. ListsPending'
  BY <1>1, <1>3 DEF QueueInv, ListsPending
<1>5. CASE UNCHANGED <<pc, submit>>
  <2>1. \A S : Submitting(S)' <=> Submitting(S)
    BY <1>5 DEF Submitting, submit
  <2>2. UNCHANGED <<submitter, sub_lists, sub_fence, sub_allocs>>
    BY <1>5 DEF submit
  <2> QED
    BY <1>1, <2>1, <2>2, QueueFrame
<1>6. CASE EndSubmit(t) /\ allocs = {}
  <2>1. \A S : ~Submitting(S)'
    BY <1>1, <1>6, SubmitterAt DEF EndSubmit
  <2>2. \A s \in Unfinished, a \in Allocs : Covers(s, a) => latest_fence[a] = FenceOf(s)
    BY <1>2, <1>6, QueuedBySubmit DEF Covers, Uses, allocs
  <2>3. \A s \in Unfinished, a \in Allocs : Covers(s, a) => Covers(s, a)'
    BY <1>1, <1>3, <2>2 DEF Covers
  <2>4. LatestRight'
    BY <1>3, <2>3 DEF QueueInv, LatestRight
  <2>5. FencesPending' /\ SubQueued'
    BY <1>1, <1>3, <2>1 DEF QueueInv, FencesPending, SubQueued
  <2> QED
    BY <1>4, <2>4, <2>5
<1>7. CASE sub_allocs' = allocs /\ Goto(t, "notify") /\ UNCHANGED <<submitter, sub_lists, sub_fence>>
  <2>1. ~Submitting({"queue_submit"})' /\ ~Submitting({"gather"})'
    BY <1>1, <1>7, SubmitterAt DEF Points
  <2>2. \A s \in Unfinished, a \in Allocs : Covers(s, a) /\ FenceOf(s) = sub_fence => a \in allocs
    BY <1>2, QueuedBySubmit DEF Covers, Uses, allocs
  <2>3. \A s \in Unfinished, a \in Allocs : Covers(s, a) => Covers(s, a)'
    BY <1>1, <1>3, <1>7, <2>2 DEF Covers, Owes
  <2>4. LatestRight'
    BY <1>3, <2>3 DEF QueueInv, LatestRight
  <2>5. FencesPending' /\ SubQueued'
    BY <1>1, <1>2, <1>3, <1>7, <2>1 DEF QueueInv, FencesPending, SubQueued
  <2> QED
    BY <1>4, <2>4, <2>5
<1> QED
  BY <1>1, <1>5, <1>6, <1>7

\* The allocator learns of the submission that is the last of its queue.
LEMMA ExchangeQueue ==
  ASSUME QueueInv, NEW t \in Threads, NEW a \in Allocs, ExchangeFence(t, a)
  PROVE  FencesPending' /\ ListsPending' /\ SubQueued' /\ LatestRight'
<1>1. /\ submitter = t /\ pc[t] = "notify" /\ a \in sub_allocs /\ Goto(t, "count")
      /\ UNCHANGED <<queue, signalled, buf, target, submitter, sub_lists, sub_fence>>
      /\ latest_fence' = [latest_fence EXCEPT ![a] = sub_fence] /\ sub_allocs' = sub_allocs \ {a}
  BY DEF ExchangeFence, device
<1>2. /\ Submitting(Queued) /\ Submitting(Queued)' /\ ~Submitting({"gather"}) /\ ~Submitting({"gather"})'
      /\ ~Submitting({"queue_submit"})'
  BY <1>1, SubmitterAt DEF Queued, Points
<1>3. /\ Unfinished' = Unfinished
      /\ \A s : FenceOf(s)' = FenceOf(s) /\ ListsIn(s)' = ListsIn(s) /\ \A b : Uses(s, b)' <=> Uses(s, b)
      /\ \A q : LastOf(q)' = LastOf(q)
  BY <1>1 DEF Unfinished, FenceOf, ListsIn, Uses, LastOf
<1>4. ListsPending'
  BY <1>1, <1>3 DEF QueueInv, ListsPending
<1>5. FencesPending' /\ SubQueued'
  BY <1>1, <1>2, <1>3 DEF QueueInv, FencesPending, SubQueued
<1>6. \A b \in Allocs : latest_fence'[b] = IF b = a THEN sub_fence ELSE latest_fence[b]
  BY <1>1 DEF QueueInv, CountInv, SubmitInv, TypeOK, NodeType
<1>7. \A s \in Unfinished, b \in Allocs : b # a /\ Covers(s, b) => Covers(s, b)'
  BY <1>1, <1>2, <1>3, <1>6 DEF Covers, Owes
<1>8. ASSUME NEW s \in Unfinished, Uses(s, a)
      PROVE  \E r \in Unfinished : r[1] = s[1] /\ r[2] >= s[2] /\ Covers(r, a)'
  <2>1. PICK l \in sub_lists : l[1] = a
    BY <1>1 DEF QueueInv, CountInv, NotifyRight
  <2>2. PICK q \in Queues : q = target[t] /\ l[1][2] = q
    BY <1>1, <2>1, Typings DEF QueueInv, CountInv, SubListsRight
  <2>3. PICK r : r = LastOf(q)
    OBVIOUS
  <2>4. s[1] = q
    BY <1>8, <2>1, <2>2 DEF Uses, QueueInv, ListsPending
  <2>5. /\ s[2] \in 1 .. Len(queue[q]) /\ Len(queue[q]) \in Nat
    BY <2>4, QueueShape DEF QueueInv, CountInv, SubmitInv
  <2>6. /\ r = <<q, Len(queue[q])>> /\ r[1] = q /\ r[2] = Len(queue[q])
    BY <2>3 DEF LastOf
  <2>7. r \in Unfinished /\ r[2] >= s[2]
    BY <2>5, <2>6, QueueShape DEF QueueInv, CountInv, SubmitInv
  <2>8. FenceOf(r) = sub_fence /\ sub_lists \subseteq ListsIn(r)
    BY <1>1, <1>2, <2>2, <2>3, <2>7 DEF QueueInv, SubQueued
  <2>9. Uses(r, a)
    BY <2>1, <2>8 DEF Uses
  <2>10. Covers(r, a)'
    BY <1>3, <1>6, <2>8, <2>9 DEF Covers
  <2> QED
    BY <2>4, <2>6, <2>7, <2>10
<1>9. LatestRight'
  BY <1>3, <1>7, <1>8 DEF QueueInv, LatestRight
<1> QED
  BY <1>4, <1>5, <1>9

LEMMA CountQueue ==
  ASSUME QueueInv, NEW t \in Threads, NEW a \in Allocs, CountPending(t, a)
  PROVE  FencesPending' /\ ListsPending' /\ SubQueued' /\ LatestRight'
<1>1. /\ submitter = t /\ pc[t] = "count"
      /\ UNCHANGED <<queue, signalled, buf, target, latest_fence>>
      /\ \/ sub_allocs = {} /\ EndSubmit(t)
         \/ /\ Goto(t, "notify") /\ sub_lists' \subseteq sub_lists
            /\ UNCHANGED <<submitter, sub_fence, sub_allocs>>
  BY DEF CountPending, device, ring
<1>2. /\ Submitting(Queued) /\ ~Submitting({"gather"})
  BY <1>1, SubmitterAt DEF Queued, Points
<1>3. /\ Unfinished' = Unfinished
      /\ \A s : FenceOf(s)' = FenceOf(s) /\ ListsIn(s)' = ListsIn(s) /\ \A b : Uses(s, b)' <=> Uses(s, b)
      /\ \A q : LastOf(q)' = LastOf(q)
  BY <1>1 DEF Unfinished, FenceOf, ListsIn, Uses, LastOf
<1>4. ListsPending'
  BY <1>1, <1>3 DEF QueueInv, ListsPending
<1>5. ~Submitting({"queue_submit"})' /\ ~Submitting({"gather"})'
  BY <1>1, SubmitterAt DEF Points, EndSubmit
<1>6. FencesPending'
  BY <1>1, <1>3, <1>5 DEF QueueInv, FencesPending
<1>7. SubQueued'
  <2>1. CASE EndSubmit(t)
    BY <1>1, <2>1, SubmitterAt DEF EndSubmit, SubQueued
  <2>2. CASE Goto(t, "notify") /\ sub_lists' \subseteq sub_lists /\ UNCHANGED <<submitter, sub_fence, sub_allocs>>
    BY <1>1, <1>2, <1>3, <1>5, <2>2 DEF QueueInv, SubQueued
  <2> QED
    BY <1>1, <2>1, <2>2
<1>8. \A s \in Unfinished, b \in Allocs : Covers(s, b) => Covers(s, b)'
  BY <1>1, <1>2, <1>3, <1>5 DEF Covers, Owes
<1>9. LatestRight'
  BY <1>3, <1>8 DEF QueueInv, LatestRight
<1> QED
  BY <1>4, <1>6, <1>7, <1>9

\* What the GPU finishes is the first submission of a queue.
LEMMA CompleteFacts ==
  ASSUME QueueInv, NEW q \in Queues, GpuComplete(q)
  PROVE  /\ <<q, 1>> \in Unfinished /\ queue[q] # << >>
         /\ \A f \in Fences : signalled'[f] = IF f = FenceOf(<<q, 1>>) THEN TRUE ELSE signalled[f]
         /\ \A l \in Lists : buf'[l] = IF l \in ListsIn(<<q, 1>>) THEN "executed" ELSE buf[l]
         /\ \A s \in Unfinished' : /\ Later(q, s) \in Unfinished /\ Later(q, s) # <<q, 1>>
                                   /\ FenceOf(s)' = FenceOf(Later(q, s))
                                   /\ ListsIn(s)' = ListsIn(Later(q, s))
                                   /\ Earlier(q, Later(q, s)) = s
                                   /\ s[2] \in Int /\ s[2] >= 1
         /\ \A r \in Unfinished : r # <<q, 1>> => /\ Earlier(q, r) \in Unfinished'
                                                  /\ Later(q, Earlier(q, r)) = r
         /\ \A p \in Queues, s \in Unfinished' : s = LastOf(p)' <=> Later(q, s) = LastOf(p)
<1>1. /\ queue[q] # << >> /\ queue'[q] = Tail(queue[q])
      /\ \A p \in Queues : p # q => queue'[p] = queue[p]
      /\ TypeOK
  BY DEF GpuComplete, QueueInv, CountInv, SubmitInv, TypeOK, DeviceType
<1>2. /\ <<q, 1>> \in Unfinished
      /\ FenceOf(<<q, 1>>) = Head(queue[q]).fence /\ ListsIn(<<q, 1>>) = Head(queue[q]).lists
  BY <1>1, SubmissionFinished
<1>3. \A f \in Fences : signalled'[f] = IF f = FenceOf(<<q, 1>>) THEN TRUE ELSE signalled[f]
  BY <1>1, <1>2 DEF GpuComplete, TypeOK, RingType
<1>4. \A l \in Lists : buf'[l] = IF l \in ListsIn(<<q, 1>>) THEN "executed" ELSE buf[l]
  BY <1>2 DEF GpuComplete, QueueInv, ListsPending
<1> QED
  BY <1>1, <1>2, <1>3, <1>4, SubmissionFinished

LEMMA CompleteQueue ==
  ASSUME QueueInv, NEW q \in Queues, GpuComplete(q)
  PROVE  FencesPending' /\ ListsPending' /\ SubQueued' /\ LatestRight'
<1> PICK head : head = <<q, 1>>
  OBVIOUS
<1> DEFINE L(s) == Later(q, s)
<1>1. /\ head \in Unfinished
      /\ \A f \in Fences : signalled'[f] = IF f = FenceOf(head) THEN TRUE ELSE signalled[f]
      /\ \A l \in Lists : buf'[l] = IF l \in ListsIn(head) THEN "executed" ELSE buf[l]
      /\ \A s \in Unfinished' : /\ L(s) \in Unfinished /\ L(s) # head
                                /\ FenceOf(s)' = FenceOf(L(s)) /\ ListsIn(s)' = ListsIn(L(s))
                                /\ Earlier(q, L(s)) = s /\ s[2] \in Int /\ s[2] >= 1
      /\ \A r \in Unfinished : r # head => Earlier(q, r) \in Unfinished' /\ L(Earlier(q, r)) = r
      /\ \A p \in Queues, s \in Unfinished' : s = LastOf(p)' <=> L(s) = LastOf(p)
  <2>1. /\ head \in Unfinished
        /\ \A f \in Fences : signalled'[f] = IF f = FenceOf(head) THEN TRUE ELSE signalled[f]
        /\ \A l \in Lists : buf'[l] = IF l \in ListsIn(head) THEN "executed" ELSE buf[l]
    BY CompleteFacts
  <2>2. \A s \in Unfinished' : /\ Later(q, s) \in Unfinished /\ Later(q, s) # head
                               /\ FenceOf(s)' = FenceOf(Later(q, s))
                               /\ ListsIn(s)' = ListsIn(Later(q, s))
                               /\ Earlier(q, Later(q, s)) = s /\ s[2] \in Int /\ s[2] >= 1
    BY CompleteFacts
  <2>3. /\ \A r \in Unfinished : r # head => Earlier(q, r) \in Unfinished' /\ Later(q, Earlier(q, r)) = r
        /\ \A p \in Queues, s \in Unfinished' : s = LastOf(p)' <=> Later(q, s) = LastOf(p)
    BY CompleteFacts
  <2> QED
    BY <2>1, <2>2, <2>3
<1>2. ASSUME NEW r \in Unfinished, r # head
      PROVE  \E s \in Unfinished' : L(s) = r
  BY <1>1, <1>2
<1>3. \A s \in Unfinished' : L(s)[1] = s[1] /\ L(s)[2] = IF s[1] = q THEN s[2] + 1 ELSE s[2]
  BY DEF Later
<1>4. UNCHANGED <<submitter, sub_fence, sub_lists, sub_allocs, pc, target, latest_fence>>
  BY DEF GpuComplete, submit, node
<1>5. \A S : Submitting(S)' <=> Submitting(S)
  BY <1>4 DEF Submitting
<1>6. \A s \in Unfinished : FenceOf(s) \in Fences /\ ListsIn(s) \subseteq Lists
  BY QueueShape DEF QueueInv, CountInv, SubmitInv
<1>a. \A s, r \in Unfinished' : L(s) = L(r) => s = r
  <2> HIDE DEF L
  <2> QED
    BY <1>1
<1> HIDE DEF L
<1>7. FencesPending'
  <2>1. \A s \in Unfinished' : ~signalled'[FenceOf(s)']
    <3>1. \A s \in Unfinished' : FenceOf(L(s)) # FenceOf(head)
      BY <1>1 DEF QueueInv, FencesPending
    <3>2. \A s \in Unfinished' : FenceOf(s)' \in Fences /\ signalled'[FenceOf(s)'] = signalled[FenceOf(L(s))]
      BY <1>1, <1>6, <3>1
    <3> QED
      BY <1>1, <3>2 DEF QueueInv, FencesPending
  <2>2. \A s, r \in Unfinished' : FenceOf(s)' = FenceOf(r)' => s = r
    BY <1>1, <1>a DEF QueueInv, FencesPending
  <2>3. Submitting({"queue_submit"}) =>
          ~signalled'[sub_fence] /\ \A s \in Unfinished' : FenceOf(s)' # sub_fence
    <3> SUFFICES ASSUME Submitting({"queue_submit"})
                 PROVE  ~signalled'[sub_fence] /\ \A s \in Unfinished' : FenceOf(s)' # sub_fence
      OBVIOUS
    <3>1. /\ ~signalled[sub_fence] /\ \A s \in Unfinished : FenceOf(s) # sub_fence
      BY DEF QueueInv, FencesPending
    <3>2. sub_fence \in Fences
      <4>1. Submitting({"queue_submit", "gather", "notify", "count"})
        BY DEF Submitting
      <4> QED
        BY <4>1 DEF QueueInv, CountInv, SubmitInv, FenceHeld, TypeOK, SubmitType
    <3> QED
      BY <1>1, <3>1, <3>2
  <2> QED
    BY <1>4, <1>5, <2>1, <2>2, <2>3 DEF FencesPending
<1>8. ListsPending'
  <2>1. ASSUME NEW s \in Unfinished', NEW l \in ListsIn(s)'
        PROVE  buf'[l] = "pending" /\ l[1][2] = s[1]
    <3>1. /\ l \in ListsIn(L(s)) /\ L(s) \in Unfinished /\ L(s) # head /\ L(s)[1] = s[1]
      BY <1>1, <1>3, <2>1
    <3>2. /\ l \in Lists /\ l \notin ListsIn(head) /\ buf[l] = "pending" /\ l[1][2] = s[1]
      BY <1>1, <1>6, <3>1 DEF QueueInv, ListsPending
    <3> QED
      BY <1>1, <3>2
  <2>2. ASSUME NEW l \in Lists, buf'[l] = "pending"
        PROVE  \E s \in Unfinished' : l \in ListsIn(s)'
    <3>1. buf[l] = "pending" /\ l \notin ListsIn(head)
      BY <1>1, <2>2
    <3>2. PICK r \in Unfinished : l \in ListsIn(r)
      BY <3>1 DEF QueueInv, ListsPending
    <3> QED
      BY <1>1, <1>2, <3>1, <3>2
  <2>3. \A s, r \in Unfinished' : s # r => ListsIn(s)' \cap ListsIn(r)' = {}
    BY <1>1 DEF QueueInv, ListsPending
  <2> QED
    BY <2>1, <2>2, <2>3 DEF ListsPending
<1>9. SubQueued'
  <2> SUFFICES ASSUME Submitting(Queued)
               PROVE  /\ \A s \in Unfinished' : FenceOf(s)' = sub_fence => s = LastOf(target[submitter])'
                      /\ \A s \in Unfinished' : s = LastOf(target[submitter])' =>
                           /\ FenceOf(s)' = sub_fence /\ sub_lists \subseteq ListsIn(s)'
                           /\ Submitting({"gather"}) => ListsIn(s)' = sub_lists
    BY <1>4, <1>5 DEF SubQueued
  <2>1. PICK p \in Queues : p = target[submitter]
    BY Typings DEF QueueInv, CountInv, Submitting
  <2>2. LastOf(target[submitter])' = LastOf(p)' /\ LastOf(target[submitter]) = LastOf(p)
    BY <1>4, <2>1 DEF LastOf
  <2> QED
    BY <1>1, <2>1, <2>2 DEF QueueInv, SubQueued
<1>10. \A s \in Unfinished', a \in Allocs : /\ Uses(s, a)' <=> Uses(L(s), a)
                                            /\ Covers(s, a)' <=> Covers(L(s), a)
  BY <1>1, <1>4, <1>5 DEF Uses, Covers, Owes
<1>11. LatestRight'
  <2> SUFFICES ASSUME NEW s \in Unfinished', NEW a \in Allocs, Uses(s, a)'
               PROVE  \E r \in Unfinished' : r[1] = s[1] /\ r[2] >= s[2] /\ Covers(r, a)'
    BY DEF LatestRight
  <2>1. L(s) \in Unfinished /\ Uses(L(s), a)
    BY <1>1, <1>10
  <2>2. PICK u \in Unfinished : u[1] = L(s)[1] /\ u[2] >= L(s)[2] /\ Covers(u, a)
    BY <2>1 DEF QueueInv, LatestRight
  <2>3. u # head
    <3>1. head[1] = q /\ head[2] = 1
      OBVIOUS
    <3>2. s[2] \in Int /\ s[2] >= 1
      BY <1>1
    <3> QED
      BY <1>3, <2>2, <3>1, <3>2
  <2>4. PICK r \in Unfinished' : L(r) = u
    BY <1>2, <2>3
  <2>5. r[1] = s[1] /\ r[2] \in Int /\ s[2] \in Int
    <3>1. L(r)[1] = r[1] /\ L(s)[1] = s[1] /\ r[2] \in Int /\ s[2] \in Int
      BY <1>1, <1>3
    <3> QED
      BY <2>2, <2>4, <3>1
  <2>6. r[2] >= s[2]
    <3>1. L(r)[2] >= L(s)[2]
      BY <2>2, <2>4
    <3> QED
      BY <1>3, <2>5, <3>1
  <2>7. Covers(r, a)'
    BY <1>10, <2>2, <2>4
  <2> QED
    BY <2>5, <2>6, <2>7
<1> QED
  BY <1>7, <1>8, <1>9, <1>11

LEMMA ReinitializeQueue ==
  ASSUME QueueInv, Reinitialize
  PROVE  FencesPending' /\ ListsPending' /\ SubQueued' /\ LatestRight'
<1>1. /\ \A t \in Threads : pc[t] = "idle"
      /\ \A q \in Queues : queue[q] = << >>
      /\ \A l \in Lists : buf'[l] = "free"
      /\ UNCHANGED <<queue, pc, submitter>>
  BY DEF Reinitialize, submit
<1>2. Unfinished = {} /\ Unfinished' = {}
  BY <1>1 DEF Unfinished
<1>3. \A S \in SUBSET LatePoints : ~Submitting(S)'
  BY <1>1, Typings DEF Submitting, QueueInv, CountInv, LatePoints, Queued
<1>4. ~Submitting({"queue_submit"})' /\ ~Submitting(Queued)'
  BY <1>3 DEF LatePoints
<1> QED
  BY <1>1, <1>2, <1>4 DEF FencesPending, ListsPending, SubQueued, LatestRight

LEMMA QueueInvInit == Init => QueueInv
<1> SUFFICES ASSUME Init PROVE QueueInv
  OBVIOUS
<1>1. Unfinished = {} /\ \A S : ~Submitting(S)
  BY DEF Init, Unfinished, Submitting
<1>2. \A l \in Lists : buf[l] # "pending"
  BY DEF Init
<1> QED
  BY <1>1, <1>2, CountInvInit DEF QueueInv, FencesPending, ListsPending, SubQueued, LatestRight

\* The fences a step resets are signalled: what OnlyReadyFencesReset says of every step.
ReadyStep == \A f \in Fences : ref_count[f] = 0 /\ ref_count'[f] > 0 => signalled[f]

LEMMA QueueInvStep == QueueInv /\ [Next]_vars /\ [ReadyStep]_vars => QueueInv'
<1> SUFFICES ASSUME QueueInv, [Next]_vars, [ReadyStep]_vars PROVE QueueInv'
  OBVIOUS
<1>1. CountInv'
  BY CountInvStep DEF QueueInv
<1>2. FencesPending' /\ ListsPending' /\ SubQueued' /\ LatestRight'
  <2>1. CASE \E t \in Threads : Create(t)
    BY <2>1, TakeQueue, QuietSteps, ResetQueue DEF Create
  <2>2. CASE \E t \in Threads : Submit(t)
    <3>1. PICK t \in Threads : Submit(t)
      BY <2>2
    <3>2. CASE CreateBarrierList(t) \/ BarriersDone(t) \/ NextFence(t)
      BY <3>2, QuietSteps
    <3>3. CASE TakeFence(t)
      <4>1. PICK f \in Fences : f = mNextFence
        BY DEF QueueInv, CountInv, SubmitInv, TypeOK, RingType
      <4>2. ref_count[f] = 0 /\ ref_count'[f] = 1
        BY <3>3, <4>1 DEF TakeFence, Acquirable, QueueInv, CountInv, SubmitInv, TypeOK, RingType
      <4>3. signalled[f]
        <5>1. ReadyStep
          BY <4>2 DEF vars, ring
        <5> QED
          BY <4>2, <5>1 DEF ReadyStep
      <4> QED
        BY <3>3, <4>1, <4>3, TakeFenceQueue
    <3>4. CASE QueueSubmit(t) \/ GatherAllocators(t)
      BY <3>4, QueueSubmitQueue, GatherQueue
    <3>5. CASE \E a \in Allocs : ExchangeFence(t, a) \/ CountPending(t, a)
      BY <3>5, ExchangeQueue, CountQueue
    <3> QED
      BY <3>1, <3>2, <3>3, <3>4, <3>5 DEF Submit
  <2>3. CASE Application
    BY <2>3, QuietSteps, DiscardQueue, BeginQueue, ReinitializeQueue DEF Application
  <2>4. CASE \E q \in Queues : GpuComplete(q)
    BY <2>4, CompleteQueue
  <2>5. CASE UNCHANGED vars
    <3>1. UNCHANGED <<queue, signalled, buf, latest_fence, sub_fence, sub_lists, sub_allocs, submitter, pc, target>>
      BY <2>5 DEF vars, ring, node, device, submit
    <3>2. \A S : Submitting(S)' <=> Submitting(S)
      BY <3>1 DEF Submitting
    <3> QED
      BY <3>1, <3>2, QueueFrame
  <2>6. CASE \E t \in Threads : ReleaseNode(t)
    BY <2>6, DiscardQueue
  <2> QED
    BY <2>1, <2>2, <2>3, <2>4, <2>5, <2>6 DEF Next
<1> QED
  BY <1>1, <1>2 DEF QueueInv

LEMMA StepResetsDone ==
  ASSUME QueueInv, [Next]_vars, NEW l \in Lists, buf'[l] = "free"
  PROVE  /\ buf[l] # "pending"
         /\ l \notin sub_lists
         /\ buf[l] = "live" => UNCHANGED vars \/ \A t \in Threads : pc[t] = "idle"
<1>1. CASE buf[l] = "free"
  BY <1>1 DEF QueueInv, CountInv, SubListsRight
<1>2. CASE buf'[l] # buf[l]
  <2>1. CASE \E t \in Threads : Reset(t)
    <3>1. PICK t \in Threads : Reset(t)
      BY <2>1
    <3>2. l[1] = Active(t)
      BY <1>2, <3>1 DEF Reset
    <3> QED
      BY <3>1, <3>2, ResetUnused DEF ListsOf
  <2>2. CASE Reinitialize
    <3>1. \A q \in Queues : queue[q] = << >>
      BY <2>2 DEF Reinitialize
    <3>2. Unfinished = {}
      BY <3>1 DEF Unfinished
    <3>3. buf[l] # "pending"
      BY <3>2 DEF QueueInv, ListsPending
    <3>4. /\ \A t \in Threads : pc[t] = "idle"
          /\ submitter = NoThread
      BY <2>2, Typings DEF Reinitialize, QueueInv, CountInv, SubListsRight
    <3> QED
      BY <3>3, <3>4 DEF QueueInv, CountInv, SubListsRight
  <2>3. CASE ~(\E t \in Threads : Reset(t)) /\ ~Reinitialize
    <3>1. CASE \E t \in Threads : TakeBuffer(t)
      BY <1>2, <3>1 DEF TakeBuffer, QueueInv, CountInv, SubmitInv, TypeOK, DeviceType
    <3>2. CASE \E t \in Threads, m \in Lists : Discard(t, m)
      BY <1>2, <3>2 DEF Discard, QueueInv, CountInv, SubmitInv, TypeOK, DeviceType
    <3>3. CASE \E t \in Threads : QueueSubmit(t)
      BY <1>2, <3>3 DEF QueueSubmit
    <3>4. CASE \E q \in Queues : GpuComplete(q)
      BY <1>2, <3>4 DEF GpuComplete
    <3>5. CASE UNCHANGED buf
      BY <1>2, <3>5
    <3>6. CASE \E t \in Threads : Create(t)
      BY <2>3, <3>1, <3>5, <3>6 DEF Create, LoadCounter, NextAllocator, device
    <3>7. CASE \E t \in Threads : Submit(t)
      BY <3>3, <3>5, <3>7
      DEF Submit, CreateBarrierList, BarriersDone, TakeFence, NextFence, GatherAllocators,
          ExchangeFence, CountPending, device
    <3>8. CASE Application
      BY <2>3, <3>2, <3>5, <3>8 DEF Application, RecordCommandList, SubmitBegin, device
    <3>9. CASE \E t \in Threads : ReleaseNode(t)
      BY <3>5, <3>9 DEF ReleaseNode, device
    <3> QED
      BY <2>3, <3>4, <3>5, <3>6, <3>7, <3>8, <3>9 DEF Next, vars, device
  <2> QED
    BY <2>1, <2>2, <2>3
<1> QED
  BY <1>1, <1>2

\* As long as acquireFence resets none but signalled fences, do_reset recycles the command buffers of
\* an allocator only when the GPU and submit are done with all of them and the application has given
\* them up, although the allocator remembers only one fence and learns of it after the submission.
THEOREM ResetAlwaysDone == Spec /\ OnlyReadyFencesReset => ResetOnlyWhenDone
<1>1. QueueInv /\ [Next]_vars =>
        [\A l \in Lists : buf'[l] = "free" =>
           /\ buf[l] # "pending"
           /\ l \notin sub_lists
           /\ buf[l] = "live" => \A t \in Threads : pc[t] = "idle"]_vars
  BY StepResetsDone
<1>2. [ReadyStep]_vars <=>
        [\A f \in Fences : ref_count[f] = 0 /\ ref_count'[f] > 0 => signalled[f]]_vars
  BY DEF ReadyStep
<1> QED
  BY QueueInvInit, QueueInvStep, <1>1, <1>2, PTL DEF Spec, OnlyReadyFencesReset, ResetOnlyWhenDone

-----------------------------------------------------------------------------
(* The lifecycle of command lists                                          *)

\* what the refinement mapping reads off the pool
Open(a)    == {l \in ListsOf(a) : buf[l] = "live"}
UsersOf(a) == {s \in Unfinished : ListsOf(a) \cap ListsIn(s) # {}}

opened    == [a \in Allocs |-> Cardinality(Open(a))]
submitted == [a \in Allocs |-> Cardinality(UsersOf(a))]

LEMMA OpenFinite ==
  ASSUME NEW a
  PROVE  IsFiniteSet(Open(a)) /\ Cardinality(Open(a)) \in Nat /\ Open(a) \subseteq Lists
<1>1. Open(a) \in SUBSET Lists
  BY DEF Open, ListsOf
<1> QED
  BY <1>1, AllocsFinite, FS_Subset, FS_CardinalityType

LEMMA OpenSame ==
  ASSUME \A l \in Lists : buf'[l] = "live" <=> buf[l] = "live"
  PROVE  UNCHANGED opened
<1>1. \A a : Open(a)' = Open(a)
  BY DEF Open, ListsOf
<1> QED
  BY <1>1 DEF opened

LEMMA UnfinishedFinite ==
  ASSUME TypeOK
  PROVE  /\ IsFiniteSet(Unfinished) /\ Cardinality(Unfinished) \in Nat
         /\ \A a : IsFiniteSet(UsersOf(a)) /\ Cardinality(UsersOf(a)) \in Nat
<1> DEFINE at    == [q \in Queues |-> {q} \X DOMAIN queue[q]]
           parts == {{q} \X DOMAIN queue[q] : q \in Queues}
<1>1. \A q \in Queues : IsFiniteSet({q} \X DOMAIN queue[q])
  <2> SUFFICES ASSUME NEW q \in Queues PROVE IsFiniteSet({q} \X DOMAIN queue[q])
    OBVIOUS
  <2>1. IsFiniteSet(DOMAIN queue[q])
    <3>1. DOMAIN queue[q] = 1 .. Len(queue[q]) /\ Len(queue[q]) \in Nat
      BY QueueShape
    <3> QED
      BY <3>1, FS_Interval
  <2>2. IsFiniteSet({q})
    BY FS_Singleton
  <2> QED
    BY <2>1, <2>2, FS_Product
<1>2. IsFiniteSet(parts)
  <2>1. at \in Surjection(Queues, parts)
    BY DEF Surjection
  <2> HIDE DEF at, parts
  <2> QED
    BY <2>1, FS_Surjection, SizesAssumption
<1>3. \A T \in parts : IsFiniteSet(T)
  BY <1>1
<1>4. IsFiniteSet(Unfinished)
  <2>1. Unfinished = UNION parts
    BY DEF Unfinished
  <2> HIDE DEF parts
  <2> QED
    BY <1>2, <1>3, <2>1, FS_UNION
<1>5. \A a : UsersOf(a) \in SUBSET Unfinished
  BY DEF UsersOf
<1>6. \A a : IsFiniteSet(UsersOf(a))
  BY <1>4, <1>5, FS_Subset
<1> QED
  BY <1>4, <1>6, FS_CardinalityType

LEMMA UsersSame ==
  ASSUME UNCHANGED queue
  PROVE  UNCHANGED submitted
  BY DEF submitted, UsersOf, Unfinished, ListsIn

LEMMA Stutters ==
  ASSUME UNCHANGED <<num_in_flight, opened, submitted>>
  PROVE  UNCHANGED Lifecycle!lifecycle
  BY DEF Lifecycle!lifecycle, opened, submitted, Open, UsersOf, ListsIn

\* cmd_allocator_node::acquire
LEMMA TakeMaps ==
  ASSUME QueueInv, NEW t \in Threads, TakeBuffer(t)
  PROVE  Lifecycle!Next
<1>1. PICK a \in Allocs : a = Active(t)
  BY ActiveType DEF QueueInv, CountInv, SubmitInv
<1>2. /\ num_in_flight[a] \in 0 .. ListsPerAlloc - 1
      /\ num_in_flight' = [num_in_flight EXCEPT ![a] = @ + 1]
      /\ UNCHANGED queue
  BY <1>1, Typings DEF TakeBuffer, IsFull, QueueInv, CountInv
<1>3. PICK l \in Lists : l = <<a, num_in_flight[a]>>
  BY <1>2, ListShape
<1>4. buf[l] = "free" /\ \A m \in Lists : buf'[m] = IF m = l THEN "live" ELSE buf[m]
  BY <1>1, <1>2, <1>3, Typings DEF TakeBuffer, QueueInv, CountInv, HandedOutRight
<1>5. /\ Open(a)' = Open(a) \union {l} /\ l \notin Open(a)
      /\ \A b \in Allocs : b # a => Open(b)' = Open(b)
  BY <1>3, <1>4 DEF Open, ListsOf
<1>6. Cardinality(Open(a)') = Cardinality(Open(a)) + 1
  BY <1>5, OpenFinite, FS_AddElement
<1>7. opened' = [opened EXCEPT ![a] = @ + 1]
  BY <1>5, <1>6 DEF opened
<1>8. UNCHANGED submitted
  BY <1>2, UsersSame
<1>9. num_in_flight[a] < ListsPerAlloc
  BY <1>2, SizesAssumption
<1>10. Lifecycle!HandOut(a)
  BY <1>2, <1>7, <1>8, <1>9 DEF Lifecycle!HandOut, opened, submitted, Open, UsersOf, ListsIn
<1> QED
  BY <1>10 DEF Lifecycle!Next

\* try_reset, when it succeeds
LEMMA ResetMaps ==
  ASSUME QueueInv, NEW t \in Threads, Reset(t)
  PROVE  Lifecycle!Next
<1>1. PICK a \in Allocs : a = Active(t)
  BY ActiveType DEF QueueInv, CountInv, SubmitInv
<1>2. /\ \A l \in Lists : l[1] = a => buf[l] # "live"
      /\ \A s \in Unfinished : ~Uses(s, a)
  BY <1>1, ResetUnused DEF ListsOf
<1>3. opened[a] = 0
  <2>1. Open(a) = {}
    BY <1>2 DEF Open, ListsOf
  <2> QED
    BY <2>1, FS_EmptySet DEF opened
<1>4. submitted[a] = 0
  <2>1. UsersOf(a) = {}
    BY <1>2 DEF UsersOf, Uses, ListsOf
  <2> QED
    BY <2>1, FS_EmptySet DEF submitted
<1>5. UNCHANGED <<opened, submitted>>
  <2>1. \A l \in Lists : buf'[l] = IF l[1] = a THEN "free" ELSE buf[l]
    BY <1>1 DEF Reset
  <2> QED
    BY <1>2, <2>1, OpenSame, UsersSame DEF Reset
<1>6. num_in_flight' = [num_in_flight EXCEPT ![a] = 0]
  BY <1>1 DEF Reset
<1>7. Lifecycle!Recycle(a)
  BY <1>3, <1>4, <1>5, <1>6 DEF Lifecycle!Recycle, opened, submitted, Open, UsersOf, ListsIn
<1> QED
  BY <1>7 DEF Lifecycle!Next

\* freeAndDiscard
LEMMA DiscardMaps ==
  ASSUME QueueInv, NEW t \in Threads, NEW l \in Lists, Discard(t, l)
  PROVE  Lifecycle!Next
<1>1. /\ buf[l] = "live" /\ UNCHANGED <<num_in_flight, queue>>
      /\ \A m \in Lists : buf'[m] = IF m = l THEN "discarded" ELSE buf[m]
  BY Typings DEF Discard, QueueInv, CountInv
<1>2. PICK a \in Allocs : a = l[1]
  BY ListShape
<1>3. /\ Open(a)' = Open(a) \ {l} /\ l \in Open(a)
      /\ \A b \in Allocs : b # a => Open(b)' = Open(b)
  BY <1>1, <1>2 DEF Open, ListsOf
<1>4. Cardinality(Open(a)') = Cardinality(Open(a)) - 1 /\ Cardinality(Open(a)) > 0
  <2>1. Cardinality(Open(a) \ {l}) = Cardinality(Open(a)) - 1
    BY <1>3, OpenFinite, FS_RemoveElement
  <2>2. Cardinality(Open(a)) # 0 /\ Cardinality(Open(a)) \in Nat
    BY <1>3, OpenFinite, FS_EmptySet
  <2> QED
    BY <1>3, <2>1, <2>2
<1>5. opened[a] > 0 /\ opened' = [opened EXCEPT ![a] = @ - 1]
  BY <1>3, <1>4 DEF opened
<1>6. UNCHANGED submitted
  BY <1>1, UsersSame
<1>7. Lifecycle!Discard(a)
  BY <1>1, <1>5, <1>6 DEF Lifecycle!Discard, opened, submitted, Open, UsersOf, ListsIn
<1> QED
  BY <1>7 DEF Lifecycle!Next

\* vkQueueSubmit
LEMMA SubmitMaps ==
  ASSUME QueueInv, NEW t \in Threads, QueueSubmit(t)
  PROVE  Lifecycle!Next
<1> PICK q \in Queues : q = target[t]
  BY Typings DEF QueueInv, CountInv
<1> PICK e : e = [fence |-> sub_fence, lists |-> sub_lists]
  OBVIOUS
<1> PICK new : new = <<q, Len(queue[q]) + 1>>
  OBVIOUS
<1> DEFINE mine(a) == SubmittedBy(a)
           lists   == [a \in Allocs |-> Cardinality(mine(a))]
<1>1. /\ TypeOK /\ UNCHANGED num_in_flight
      /\ queue'[q] = Append(queue[q], e) /\ \A p \in Queues : p # q => queue'[p] = queue[p]
      /\ \A l \in Lists : buf'[l] = IF l \in sub_lists THEN "pending" ELSE buf[l]
      /\ submitter = t /\ pc[t] = "queue_submit"
  BY DEF QueueSubmit, node, QueueInv, CountInv, SubmitInv, TypeOK, DeviceType
<1>2. ~Submitting(Queued) /\ Submitting({"queue_submit", "gather", "notify", "count"})
  BY <1>1, SubmitterAt DEF Queued
<1>3. /\ \A l \in sub_lists : l \in Lists /\ buf[l] = "live"
      /\ sub_lists \subseteq Lists
  BY <1>2, Typings DEF QueueInv, CountInv, SubListsRight
<1>4. e \in [fence : Fences, lists : SUBSET Lists] /\ e.lists = sub_lists
  <2>1. sub_fence \in Fences
    BY <1>1, <1>2 DEF QueueInv, CountInv, SubmitInv, FenceHeld, TypeOK, SubmitType
  <2> QED
    BY <1>3, <2>1
<1>5. /\ Unfinished' = Unfinished \union {new} /\ new \notin Unfinished
      /\ ListsIn(new)' = sub_lists
      /\ \A s \in Unfinished : ListsIn(s)' = ListsIn(s)
  <2>1. /\ Unfinished' = Unfinished \union {new} /\ new \notin Unfinished
        /\ ListsIn(new)' = e.lists
        /\ \A s \in Unfinished : ListsIn(s)' = ListsIn(s)
    <3>1. TypeOK /\ queue'[q] = Append(queue[q], e) /\ \A p \in Queues : p # q => queue'[p] = queue[p]
      BY <1>1
    <3>2. e \in [fence : Fences, lists : SUBSET Lists]
      BY <1>4
    <3>3. /\ Unfinished' = Unfinished \union {new} /\ new \notin Unfinished
          /\ FenceOf(new)' = e.fence /\ ListsIn(new)' = e.lists
          /\ \A s \in Unfinished : FenceOf(s)' = FenceOf(s) /\ ListsIn(s)' = ListsIn(s)
          /\ new = LastOf(q)'
      BY <3>1, <3>2, SubmissionAppended
    <3> QED
      BY <3>1, <3>2, <3>3
  <2> QED
    BY <1>4, <2>1
<1>6. \A a \in Allocs : /\ mine(a) \subseteq Open(a) /\ Open(a)' = Open(a) \ mine(a)
                        /\ mine(a) = ListsOf(a) \cap sub_lists
  BY <1>1, <1>3 DEF Open, ListsOf, SubmittedBy
<1> HIDE DEF mine
<1>7. ASSUME NEW a \in Allocs
      PROVE  /\ Cardinality(mine(a)) \in 0 .. ListsPerAlloc
             /\ Cardinality(mine(a)) <= Cardinality(Open(a))
             /\ Cardinality(Open(a)') = Cardinality(Open(a)) - Cardinality(mine(a))
             /\ mine(a) # {} <=> Cardinality(mine(a)) > 0
  <2>1. mine(a) \subseteq Open(a) /\ Open(a)' = Open(a) \ mine(a)
    BY <1>6
  <2>2. /\ IsFiniteSet(Open(a)) /\ Cardinality(Open(a)) \in Nat
    BY OpenFinite
  <2>3. Cardinality(Open(a)) <= ListsPerAlloc
    <3>1. /\ Cardinality({l \in ListsOf(a) : buf[l] # "free"}) = num_in_flight[a]
          /\ num_in_flight[a] \in 0 .. ListsPerAlloc /\ ListsPerAlloc \in Nat
      BY Typings, SizesAssumption DEF QueueInv, CountInv, CountersExact
    <3>2. Open(a) \in SUBSET {l \in ListsOf(a) : buf[l] # "free"}
      BY DEF Open
    <3>3. IsFiniteSet({l \in ListsOf(a) : buf[l] # "free"})
      <4>1. {l \in ListsOf(a) : buf[l] # "free"} \in SUBSET Lists
        BY DEF ListsOf
      <4> QED
        BY <4>1, AllocsFinite, FS_Subset
    <3>4. Cardinality(Open(a)) <= Cardinality({l \in ListsOf(a) : buf[l] # "free"})
      BY <3>2, <3>3, FS_Subset
    <3> QED
      BY <2>2, <3>1, <3>4
  <2>4. IsFiniteSet(mine(a)) /\ Cardinality(mine(a)) <= Cardinality(Open(a))
    BY <2>1, <2>2, FS_Subset
  <2>5. Cardinality(mine(a)) \in Nat
    BY <2>4, FS_CardinalityType
  <2>6. mine(a) = {} <=> Cardinality(mine(a)) = 0
    BY <2>4, FS_EmptySet
  <2>7. Open(a) \cap mine(a) = mine(a)
    BY <2>1
  <2>8. Cardinality(Open(a) \ mine(a)) = Cardinality(Open(a)) - Cardinality(mine(a))
    BY <2>2, <2>7, FS_Difference
  <2> QED
    BY <2>1, <2>2, <2>3, <2>4, <2>5, <2>6, <2>8, SizesAssumption
<1>8. ASSUME NEW a \in Allocs
      PROVE  Cardinality(UsersOf(a)') =
               Cardinality(UsersOf(a)) + IF Cardinality(mine(a)) > 0 THEN 1 ELSE 0
  <2>1. /\ IsFiniteSet(UsersOf(a)) /\ Cardinality(UsersOf(a)) \in Nat /\ new \notin UsersOf(a)
    BY <1>1, <1>5, UnfinishedFinite DEF UsersOf
  <2>b. mine(a) # {} <=> Cardinality(mine(a)) > 0
    BY <1>7
  <2>2. CASE mine(a) # {}
    <3>1. UsersOf(a)' = UsersOf(a) \union {new}
      BY <1>5, <1>6, <2>2 DEF UsersOf, ListsOf
    <3>2. Cardinality(UsersOf(a) \union {new}) = Cardinality(UsersOf(a)) + 1
      BY <2>1, FS_AddElement
    <3> QED
      BY <2>2, <2>b, <3>1, <3>2
  <2>3. CASE mine(a) = {}
    <3>1. ListsOf(a)' = ListsOf(a) /\ ListsOf(a) \cap ListsIn(new)' = {}
      BY <1>5, <1>6, <2>3 DEF ListsOf
    <3>2. UsersOf(a)' \subseteq UsersOf(a) /\ UsersOf(a) \subseteq UsersOf(a)'
      BY <1>5, <3>1 DEF UsersOf
    <3>3. UsersOf(a)' = UsersOf(a)
      BY <3>2
    <3> QED
      BY <2>1, <2>b, <2>3, <3>3
  <2> QED
    BY <2>2, <2>3
<1>9. lists \in [Allocs -> 0 .. ListsPerAlloc]
  BY <1>7
<1>10. \A a \in Allocs : lists[a] = Cardinality(mine(a))
  OBVIOUS
<1> HIDE DEF lists
<1>11. /\ \A a \in Allocs : lists[a] <= opened[a]
       /\ opened' = [a \in Allocs |-> opened[a] - lists[a]]
       /\ submitted' = [a \in Allocs |-> submitted[a] + IF lists[a] > 0 THEN 1 ELSE 0]
  BY <1>7, <1>8, <1>10 DEF opened, submitted
<1>12. Lifecycle!Submit(lists)
  BY <1>1, <1>11 DEF Lifecycle!Submit, opened, submitted, Open, UsersOf, ListsIn
<1> QED
  BY <1>9, <1>12 DEF Lifecycle!Next

\* The GPU finishes a submission.
LEMMA UsersLess ==
  ASSUME QueueInv, NEW q \in Queues, GpuComplete(q), NEW a
  PROVE  Cardinality(UsersOf(a)') =
           Cardinality(UsersOf(a)) - IF <<q, 1>> \in UsersOf(a) THEN 1 ELSE 0
<1> PICK head : head = <<q, 1>>
  OBVIOUS
<1> DEFINE rest == UsersOf(a) \ {head}
<1>1. IsFiniteSet(UsersOf(a)) /\ Cardinality(UsersOf(a)) \in Nat /\ IsFiniteSet(rest)
  BY UnfinishedFinite, FS_RemoveElement DEF QueueInv, CountInv, SubmitInv
<1>2. /\ \A s \in Unfinished' : /\ Later(q, s) \in Unfinished /\ Later(q, s) # head
                                /\ ListsIn(s)' = ListsIn(Later(q, s))
                                /\ Earlier(q, Later(q, s)) = s
      /\ \A r \in Unfinished : r # head => /\ Earlier(q, r) \in Unfinished'
                                           /\ Later(q, Earlier(q, r)) = r
  BY CompleteFacts
<1>3. \A r \in rest : Earlier(q, r) \in UsersOf(a)' /\ Later(q, Earlier(q, r)) = r
  BY <1>2 DEF UsersOf, ListsOf
<1>4. \A s \in UsersOf(a)' : Later(q, s) \in rest /\ Earlier(q, Later(q, s)) = s
  BY <1>2 DEF UsersOf, ListsOf
<1> HIDE DEF rest
<1>5. ExistsBijection(rest, UsersOf(a)')
  <2> DEFINE f == [r \in rest |-> Earlier(q, r)]
  <2>1. f \in [rest -> UsersOf(a)']
    BY <1>3
  <2>2. \A r, s \in rest : f[r] = f[s] => r = s
    BY <1>3
  <2>3. \A s \in UsersOf(a)' : Later(q, s) \in rest /\ f[Later(q, s)] = s
    BY <1>4
  <2> HIDE DEF f
  <2>4. f \in Bijection(rest, UsersOf(a)')
    BY <2>1, <2>2, <2>3 DEF Bijection, Injection, Surjection, IsInjective
  <2> QED
    BY <2>4 DEF ExistsBijection
<1>6. Cardinality(UsersOf(a)') = Cardinality(rest)
  BY <1>1, <1>5, FS_Bijection
<1>7. Cardinality(rest) = Cardinality(UsersOf(a)) - IF head \in UsersOf(a) THEN 1 ELSE 0
  BY <1>1, FS_RemoveElement DEF rest
<1> QED
  BY <1>6, <1>7

LEMMA CompleteMaps ==
  ASSUME QueueInv, NEW q \in Queues, GpuComplete(q)
  PROVE  Lifecycle!Next
<1> DEFINE S == {a \in Allocs : <<q, 1>> \in UsersOf(a)}
<1>1. UNCHANGED <<num_in_flight, opened>>
  <2>1. \A l \in Lists : buf'[l] = IF l \in ListsIn(<<q, 1>>) THEN "executed" ELSE buf[l]
    BY CompleteFacts
  <2>2. \A l \in Lists : l \in ListsIn(<<q, 1>>) => buf[l] = "pending"
    BY CompleteFacts DEF QueueInv, ListsPending
  <2>3. UNCHANGED opened
    BY <2>1, <2>2, OpenSame
  <2> QED
    BY <2>3 DEF GpuComplete, node
<1>2. \A a \in Allocs : /\ Cardinality(UsersOf(a)) \in Nat
                        /\ a \in S => Cardinality(UsersOf(a)) # 0
                        /\ Cardinality(UsersOf(a)') = Cardinality(UsersOf(a)) - IF a \in S THEN 1 ELSE 0
  BY UsersLess, UnfinishedFinite, FS_EmptySet DEF QueueInv, CountInv, SubmitInv
<1>3. S \in SUBSET Allocs
  OBVIOUS
<1> HIDE DEF S
<1>4. \A a \in S : submitted[a] > 0
  BY <1>2, <1>3 DEF submitted
<1>5. submitted' = [a \in Allocs |-> IF a \in S THEN submitted[a] - 1 ELSE submitted[a]]
  BY <1>2 DEF submitted
<1>6. Lifecycle!Finish(S)
  BY <1>1, <1>4, <1>5 DEF Lifecycle!Finish, opened, submitted, Open, UsersOf, ListsIn
<1> QED
  BY <1>3, <1>6 DEF Lifecycle!Next

\* destroy and initialize
LEMMA ReinitializeMaps ==
  ASSUME QueueInv, Reinitialize
  PROVE  Lifecycle!Next
<1>1. /\ num_in_flight' = [a \in Allocs |-> 0] /\ UNCHANGED queue
      /\ \A q \in Queues : queue[q] = << >>
      /\ buf' = [l \in Lists |-> "free"]
  BY DEF Reinitialize
<1>2. UNCHANGED submitted
  BY <1>1, UsersSame
<1>3. \A a \in Allocs : submitted[a] = 0
  <2>1. \A a \in Allocs : UsersOf(a) = {}
    BY <1>1 DEF UsersOf, Unfinished
  <2> QED
    BY <2>1, FS_EmptySet DEF submitted
<1>4. opened' = [a \in Allocs |-> 0]
  <2>1. \A a \in Allocs : Open(a)' = {}
    BY <1>1 DEF Open, ListsOf
  <2>2. Cardinality({}) = 0
    BY FS_EmptySet
  <2> QED
    BY <2>1, <2>2 DEF opened
<1>5. Lifecycle!Replace
  BY <1>1, <1>2, <1>3, <1>4 DEF Lifecycle!Replace, opened, submitted, Open, UsersOf, ListsIn
<1> QED
  BY <1>5 DEF Lifecycle!Next

LEMMA StepMaps ==
  ASSUME QueueInv, [Next]_vars
  PROVE  Lifecycle!Next \/ UNCHANGED Lifecycle!lifecycle
<1>1. CASE UNCHANGED <<num_in_flight, buf, queue>>
  BY <1>1, OpenSame, UsersSame, Stutters
<1>2. CASE \E t \in Threads : TakeBuffer(t) \/ Reset(t) \/ QueueSubmit(t)
  BY <1>2, TakeMaps, ResetMaps, SubmitMaps
<1>3. CASE \E t \in Threads, l \in Lists : Discard(t, l)
  BY <1>3, DiscardMaps
<1>4. CASE Reinitialize \/ \E q \in Queues : GpuComplete(q)
  BY <1>4, ReinitializeMaps, CompleteMaps
<1>5. CASE \E t \in Threads : Create(t)
  BY <1>1, <1>2, <1>5 DEF Create, LoadCounter, NextAllocator, device, node
<1>6. CASE \E t \in Threads : Submit(t)
  BY <1>1, <1>2, <1>6
  DEF Submit, CreateBarrierList, BarriersDone, TakeFence, NextFence, GatherAllocators,
      ExchangeFence, CountPending, device, node
<1>7. CASE Application
  <2>1. CASE \E t \in Threads, q \in Queues : RecordCommandList(t, q)
    BY <1>1, <2>1 DEF RecordCommandList, device, node
  <2>2. CASE \E t \in Threads, q \in Queues, cls \in SUBSET Lists, n \in 0 .. MaxBarrierLists :
               SubmitBegin(t, q, cls, n)
    BY <1>1, <2>2 DEF SubmitBegin, device, node
  <2> QED
    BY <1>3, <1>4, <1>7, <2>1, <2>2 DEF Application
<1>8. CASE \E t \in Threads : ReleaseNode(t)
  BY <1>1, <1>8 DEF ReleaseNode, device, node
<1> QED
  BY <1>1, <1>4, <1>5, <1>6, <1>7, <1>8 DEF Next, vars, device, node

\* As long as acquireFence resets none but signalled fences, the pool is a command list pool like that
\* of D3D12: a list is handed out, then discarded or submitted once, and the memory of an allocator is
\* recycled when all of its lists are disposed of and executed (cmd_list_pool.hh:103).
THEOREM LifecycleImplemented == Spec /\ OnlyReadyFencesReset => Implements
<1>1. Init => QueueInv /\ Lifecycle!Init
  <2> SUFFICES ASSUME Init PROVE Lifecycle!Init
    BY QueueInvInit
  <2>1. \A a \in Allocs : Open(a) = {} /\ UsersOf(a) = {}
    BY DEF Init, Open, UsersOf, Unfinished, ListsOf
  <2>2. opened = [a \in Allocs |-> 0] /\ submitted = [a \in Allocs |-> 0]
    BY <2>1, FS_EmptySet DEF opened, submitted
  <2> QED
    BY <2>2 DEF Init, Lifecycle!Init, opened, submitted, Open, UsersOf, ListsIn
<1>2. QueueInv /\ [Next]_vars => [Lifecycle!Next]_Lifecycle!lifecycle
  BY StepMaps
<1>3. [ReadyStep]_vars <=>
        [\A f \in Fences : ref_count[f] = 0 /\ ref_count'[f] > 0 => signalled[f]]_vars
  BY DEF ReadyStep
<1> QED
  BY QueueInvStep, <1>1, <1>2, <1>3, PTL DEF Spec, OnlyReadyFencesReset, Implements, Lifecycle!Spec

-----------------------------------------------------------------------------
(* When acquireFence finds a signalled fence                               *)

\* Enough fences for the number of submissions the application lets the GPU be behind.
FencesSuffice == SafetyFences > 0 /\ MaxUnfinished - 1 <= SafetyFences /\ ~EmptySubmits

NotTrying == {"idle", "release", "submit", "queue_submit", "gather", "notify", "count"}

\* The first round of acquireFence has, until its end, an unreferenced and signalled fence ahead.
ReadyAheadOf(t) ==
  /\ pc[t] \in NotTrying => it[t] = 0
  /\ pc[t] # "fence_any"
  /\ pc[t] = "fence_ready" =>
       \E f \in Fences : ref_count[f] = 0 /\ signalled[f] /\ StepsTo(f) < NumFences - it[t]

ReadyAhead == \A t \in Threads : ReadyAheadOf(t)

\* how far the GPU is behind
BehindRight ==
  /\ \A s \in Unfinished : ListsIn(s) # {}
  /\ submitter # NoThread /\ ~Submitting(Queued) => Cardinality(Unfinished) < MaxUnfinished

\* A fence that is not signalled is that of an unfinished submission.
UnsignalledQueued ==
  \A f \in Fences : ~signalled[f] =>
    \/ Submitting({"queue_submit"}) /\ f = sub_fence
    \/ \E s \in Unfinished : FenceOf(s) = f

ReadyInv == QueueInv /\ RefInv /\ ReadyAhead /\ BehindRight /\ UnsignalledQueued

\* Among the fences that are remembered or unsignalled, the one of some unfinished submission is both:
\* they are not all the fences.
LEMMA ReadyFence ==
  ASSUME ReadyInv, FencesSuffice, sub_fence = NoFence, Cardinality(Unfinished) < MaxUnfinished
  PROVE  \E f \in Fences : ref_count[f] = 0 /\ signalled[f]
<1> SUFFICES ASSUME \A f \in Fences : ref_count[f] = 0 => ~signalled[f] PROVE FALSE
  OBVIOUS
<1> DEFINE R == {f \in Fences : Remembering(f) # {}}
           U == {f \in Fences : \E s \in Unfinished : FenceOf(s) = f}
<1>1. Fences = R \union U
  <2> SUFFICES ASSUME NEW f \in Fences PROVE f \in R \/ f \in U
    OBVIOUS
  <2>1. CASE ref_count[f] = 0
    <3>1. sub_fence # f
      BY RefFacts DEF ReadyInv
    <3> QED
      BY <2>1, <3>1 DEF ReadyInv, UnsignalledQueued
  <2>2. CASE ref_count[f] # 0
    <3>1. Owed(f) = 0
      BY RefFacts DEF Owed, ReadyInv
    <3>2. Cardinality(Remembering(f)) # 0
      BY <2>2, <3>1, RememberingFinite DEF ReadyInv, RefInv, RefCountsExact
    <3>3. Remembering(f) # {}
      BY <3>2, FS_EmptySet
    <3> QED
      BY <3>3
  <2> QED
    BY <2>1, <2>2
<1>2. /\ IsFiniteSet(Fences) /\ Cardinality(Fences) = Cardinality(Allocs) + SafetyFences
      /\ Cardinality(Allocs) \in Nat /\ IsFiniteSet(Allocs)
      /\ IsFiniteSet(Unfinished) /\ Cardinality(Unfinished) \in Nat
      /\ SafetyFences \in Nat /\ MaxUnfinished \in Nat
  <2>1. IsFiniteSet(Fences) /\ Cardinality(Fences) = NumFences
    BY AllocsFinite, FS_Interval DEF Fences
  <2>2. Cardinality(Allocs) \in Nat /\ IsFiniteSet(Allocs)
    BY AllocsFinite, FS_CardinalityType
  <2>3. IsFiniteSet(Unfinished) /\ Cardinality(Unfinished) \in Nat
    BY UnfinishedFinite DEF ReadyInv, QueueInv, CountInv, SubmitInv
  <2> QED
    BY <2>1, <2>2, <2>3, SizesAssumption, ApplicationAssumption DEF NumFences
<1>3. IsFiniteSet(R) /\ Cardinality(R) <= Cardinality(Allocs) /\ Cardinality(R) \in Nat
  <2> DEFINE one == [f \in R |-> CHOOSE a \in Remembering(f) : TRUE]
  <2>1. \A f \in R : one[f] \in Allocs /\ latest_fence[one[f]] = f
    BY DEF Remembering
  <2>2. one \in [R -> Allocs]
    BY <2>1
  <2> HIDE DEF one
  <2>3. one \in Injection(R, Allocs)
    BY <2>1, <2>2 DEF Injection, IsInjective
  <2> HIDE DEF R
  <2> QED
    BY <1>2, <2>3, FS_Injection, FS_CardinalityType
<1>4. IsFiniteSet(U) /\ Cardinality(U) <= Cardinality(Unfinished) /\ Cardinality(U) \in Nat
  <2> DEFINE g == [s \in Unfinished |-> FenceOf(s)]
  <2>1. \A s \in Unfinished : FenceOf(s) \in Fences
    BY QueueShape DEF ReadyInv, QueueInv, CountInv, SubmitInv
  <2>2. g \in Surjection(Unfinished, U)
    BY <2>1 DEF Surjection
  <2> HIDE DEF g, U
  <2> QED
    BY <1>2, <2>2, FS_Surjection, FS_CardinalityType
<1>5. CASE Unfinished = {}
  <2>1. Fences = R
    BY <1>1, <1>5
  <2> HIDE DEF R
  <2> QED
    BY <1>2, <1>3, <2>1 DEF FencesSuffice
<1>6. CASE Unfinished # {}
  <2>1. PICK h \in U : h \in R
    <3>1. PICK s \in Unfinished : TRUE
      BY <1>6
    <3>2. PICK l \in ListsIn(s) : l \in Lists
      BY QueueShape DEF ReadyInv, QueueInv, CountInv, SubmitInv, BehindRight
    <3>3. PICK a \in Allocs : a = l[1]
      BY <3>2, ListShape
    <3>4. Uses(s, a)
      BY <3>2, <3>3 DEF Uses
    <3>5. PICK r \in Unfinished : Covers(r, a)
      BY <3>4 DEF ReadyInv, QueueInv, LatestRight
    <3>6. FenceOf(r) \in Fences
      BY QueueShape DEF ReadyInv, QueueInv, CountInv, SubmitInv
    <3>7. latest_fence[a] = FenceOf(r)
      BY <3>5, <3>6, RefFacts DEF Covers, ReadyInv
    <3> QED
      BY <3>6, <3>7 DEF Remembering
  <2>2. Fences = R \union (U \ {h})
    BY <1>1, <2>1
  <2>3. h \in U
    BY <2>1
  <2> HIDE DEF R, U
  <2>4. IsFiniteSet(U \ {h}) /\ Cardinality(U \ {h}) = Cardinality(U) - 1
    BY <1>4, <2>3, FS_RemoveElement
  <2>5. Cardinality(R \union (U \ {h})) <= Cardinality(R) + Cardinality(U \ {h})
    <3>1. IsFiniteSet(R \cap (U \ {h}))
      BY <1>3, FS_Intersection
    <3>2. Cardinality(R \cap (U \ {h})) \in Nat
      BY <3>1, FS_CardinalityType
    <3>3. Cardinality(U \ {h}) \in Int
      BY <1>4, <2>4
    <3>4. Cardinality(R \union (U \ {h})) =
            Cardinality(R) + Cardinality(U \ {h}) - Cardinality(R \cap (U \ {h}))
      BY <1>3, <2>4, FS_Union
    <3> QED
      BY <1>3, <3>2, <3>3, <3>4
  <2>6. Cardinality(Allocs) + SafetyFences <= Cardinality(R) + Cardinality(U) - 1
    BY <1>2, <1>3, <1>4, <2>2, <2>4, <2>5
  <2> QED
    BY <1>2, <1>3, <1>4, <2>6 DEF FencesSuffice
<1> QED
  BY <1>5, <1>6

LEMMA ResetsReady ==
  ASSUME ReadyInv, [Next]_vars
  PROVE  ReadyStep
<1>0. /\ RefInv /\ ref_count \in [Fences -> Int] /\ mNextFence \in Fences
  BY RefFacts DEF ReadyInv
<1>1. CASE \E t \in Threads : Create(t)
  BY <1>0, <1>1, UnreferencedStays DEF ReadyStep
<1>2. ASSUME NEW t \in Threads, TakeFence(t)
      PROVE  ReadyStep
  <2>1. pc[t] = "fence_ready"
    BY <1>2 DEF TakeFence, ReadyInv, ReadyAhead, ReadyAheadOf
  <2>2. signalled[mNextFence]
    BY <1>2, <2>1 DEF TakeFence, Acquirable
  <2> QED
    BY <1>0, <1>2, <2>2 DEF TakeFence, ReadyStep
<1>3. ASSUME NEW t \in Threads, GatherAllocators(t)
      PROVE  ReadyStep
  <2>1. Submitting({"queue_submit", "gather"})
    BY <1>3, NoThreadAssumption DEF GatherAllocators, Submitting
  <2>2. sub_fence \in Fences => ref_count[sub_fence] # 0
    <3>1. sub_fence \in Fences => /\ ref_count[sub_fence] = Cardinality(Remembering(sub_fence)) + Owed(sub_fence)
                                  /\ Owed(sub_fence) = 1
      BY <1>0, <2>1 DEF RefInv, RefCountsExact, Owed
    <3>2. Cardinality(Remembering(sub_fence)) \in Nat
      BY RememberingFinite
    <3> QED
      BY <3>1, <3>2
  <2>3. \/ ref_count' = ref_count
        \/ \E n : ref_count' = [ref_count EXCEPT ![sub_fence] = n]
    BY <1>3 DEF GatherAllocators
  <2>4. \A f \in Fences : ref_count'[f] = ref_count[f] \/ f = sub_fence
    BY <1>0, <2>3
  <2> QED
    BY <1>0, <2>2, <2>4 DEF ReadyStep
<1>4. ASSUME NEW t \in Threads, NEW a \in Allocs, ExchangeFence(t, a)
      PROVE  ReadyStep
  <2>1. \A f \in Fences : ref_count'[f] = ref_count[f] \/ ref_count'[f] = ref_count[f] - 1
    BY <1>0, <1>4 DEF ExchangeFence
  <2> QED
    BY <1>0, <2>1 DEF ReadyStep
<1>5. CASE Reinitialize
  BY <1>5 DEF Reinitialize, ReadyStep
<1>6. CASE UNCHANGED ref_count
  BY <1>0, <1>6 DEF ReadyStep
<1> QED
  BY <1>1, <1>2, <1>3, <1>4, <1>5, <1>6
  DEF Next, Application, Submit, vars, ring, RecordCommandList, Discard,
      ReleaseNode, SubmitBegin, CreateBarrierList, BarriersDone, NextFence, QueueSubmit, CountPending, GpuComplete

\* Steps of other threads take no fence away.
LEMMA ReadyKept ==
  ASSUME ReadyInv, NEW u \in Threads, it \in [Threads -> Nat],
         UNCHANGED <<pc[u], it[u], mNextFence>>,
         pc[u] = "fence_ready" =>
           \A f \in Fences : ref_count[f] = 0 /\ signalled[f] => ref_count'[f] = 0 /\ signalled'[f]
  PROVE  ReadyAheadOf(u)'
<1>1. \A f \in Fences : StepsTo(f)' = StepsTo(f)
  BY DEF StepsTo
<1> QED
  BY <1>1 DEF ReadyInv, ReadyAhead, ReadyAheadOf

\* One iteration of acquireFence: it does not pass the fence that is ahead.
LEMMA NextFenceReady ==
  ASSUME ReadyInv, NEW t \in Threads, NextFence(t)
  PROVE  ReadyAheadOf(t)'
<1>a. /\ RefInv /\ it \in [Threads -> Nat] /\ NumFences \in Nat \ {0}
      /\ pc \in [Threads -> Points] /\ mNextFence \in Fences
  BY RefFacts, AllocsFinite DEF ReadyInv, RefInv, SubmitInv, TypeOK, ThreadType
<1>b. /\ pc[t] = "fence_ready" /\ ~Acquirable(t, mNextFence)
      /\ UNCHANGED <<ref_count, signalled>> /\ mNextFence' = WrappedIncrement(mNextFence, NumFences)
      /\ it' = [it EXCEPT ![t] = IF it[t] = NumFences - 1 THEN 0 ELSE @ + 1]
      /\ it[t] # NumFences - 1 => UNCHANGED pc
  BY DEF NextFence, ReadyInv, ReadyAhead, ReadyAheadOf
<1>d. mNextFence' = IF mNextFence = NumFences - 1 THEN 0 ELSE mNextFence + 1
  BY <1>b DEF WrappedIncrement
<1>1. PICK f \in Fences : ref_count[f] = 0 /\ signalled[f] /\ StepsTo(f) < NumFences - it[t]
  BY <1>b DEF ReadyInv, ReadyAhead, ReadyAheadOf
<1>2. f # mNextFence
  BY <1>b, <1>1 DEF Acquirable
<1>3. StepsTo(f)' = StepsTo(f) - 1 /\ StepsTo(f) \in Nat \ {0}
  BY <1>a, <1>d, <1>2 DEF StepsTo, Fences
<1>4. it[t] # NumFences - 1 /\ it[t] \in Nat
  BY <1>a, <1>1, <1>3
<1>5. it'[t] = it[t] + 1 /\ pc'[t] = "fence_ready"
  BY <1>a, <1>b, <1>4
<1>6. StepsTo(f)' < NumFences - it'[t]
  BY <1>a, <1>1, <1>3, <1>4, <1>5
<1> QED
  BY <1>b, <1>1, <1>5, <1>6 DEF ReadyAheadOf, NotTrying

\* Submit has no fence before it looks for one.
LEMMA BarriersDoneReady ==
  ASSUME ReadyInv, FencesSuffice, NEW t \in Threads, BarriersDone(t)
  PROVE  ReadyAheadOf(t)'
<1>a. /\ submitter = t /\ pc[t] = "submit" /\ t # NoThread /\ pc'[t] = "fence_ready"
      /\ it'[t] = 0 /\ UNCHANGED <<ref_count, signalled, mNextFence>>
  BY RefFacts, NoThreadAssumption DEF ReadyInv, ReadyAhead, ReadyAheadOf, NotTrying, BarriersDone, Goto, ring
<1>1. sub_fence = NoFence /\ Cardinality(Unfinished) < MaxUnfinished
  BY <1>a DEF ReadyInv, RefInv, SubmitInv, FenceHeld, Submitting, BehindRight, Queued
<1>2. PICK f \in Fences : ref_count[f] = 0 /\ signalled[f]
  BY <1>1, ReadyFence
<1>3. StepsTo(f)' < NumFences - it'[t]
  <2>1. mNextFence \in Fences /\ NumFences \in Nat \ {0}
    BY RefFacts, AllocsFinite DEF ReadyInv
  <2> QED
    BY <1>a, <2>1 DEF StepsTo, Fences
<1> QED
  BY <1>a, <1>2, <1>3 DEF ReadyAheadOf, NotTrying

LEMMA ReadyAheadStep ==
  ASSUME ReadyInv, FencesSuffice, [Next]_vars
  PROVE  ReadyAhead'
<1>a. /\ RefInv /\ it \in [Threads -> Nat] /\ pc \in [Threads -> Points]
      /\ signalled \in [Fences -> BOOLEAN]
  BY DEF ReadyInv, RefInv, SubmitInv, TypeOK, ThreadType, RingType
<1>b. \A u \in Threads : pc[u] = "fence_ready" => submitter = u
  BY DEF ReadyInv, RefInv, SubmitInv, SubmitExclusive, SubmitPoints, Points
<1> SUFFICES ASSUME NEW u \in Threads PROVE ReadyAheadOf(u)'
  BY DEF ReadyAhead
<1>1. ASSUME NEW t \in Threads, Create(t)
      PROVE  ReadyAheadOf(u)'
  <2>1. /\ pc[t] \in {"find", "block"} /\ UNCHANGED <<mNextFence, signalled>>
        /\ \/ UNCHANGED pc \/ Goto(t, "block")
           \/ it' = [it EXCEPT ![t] = 0] /\ \E to \in {"submit", "idle"} : Goto(t, to)
        /\ it' = it \/ \E i : it' = [it EXCEPT ![t] = i]
    BY <1>1 DEF Create, TakeBuffer, LoadCounter, Reset, NextAllocator, ring
  <2>2. CASE u = t
    BY <1>a, <2>1, <2>2 DEF ReadyAheadOf, Goto, NotTrying
  <2>3. CASE u # t
    <3>1. UNCHANGED <<pc[u], it[u], mNextFence>>
      BY <1>a, <2>1, <2>3 DEF Goto
    <3>2. \A f \in Fences : ref_count[f] = 0 /\ signalled[f] => ref_count'[f] = 0 /\ signalled'[f]
      BY <1>a, <1>1, <2>1, UnreferencedStays
    <3> QED
      BY <1>a, <3>1, <3>2, ReadyKept
  <2> QED
    BY <2>2, <2>3
<1>2. ASSUME NEW t \in Threads, Submit(t)
      PROVE  ReadyAheadOf(u)'
  <2>1. CASE NextFence(t) /\ u = t
    BY <2>1, NextFenceReady
  <2>2. CASE BarriersDone(t) /\ u = t
    BY <2>2, BarriersDoneReady
  <2>3. /\ submitter = t
        /\ \/ UNCHANGED pc \/ \E to \in Points : Goto(t, to)
        /\ it' = it \/ \E i : it' = [it EXCEPT ![t] = i]
    BY <1>2 DEF Submit, CreateBarrierList, AcquireNode, BarriersDone, TakeFence, NextFence, QueueSubmit,
                GatherAllocators, ExchangeFence, CountPending, EndSubmit, Points
  <2>4. CASE u = t /\ ~NextFence(t) /\ ~BarriersDone(t)
    <3>1. /\ \/ it' = [it EXCEPT ![t] = 0]
             \/ it' = it /\ pc[t] \in NotTrying
          /\ \/ UNCHANGED pc /\ pc[t] \in NotTrying
             \/ \E to \in NotTrying \union {"find"} : Goto(t, to)
      BY <1>2, <2>4 DEF Submit, CreateBarrierList, AcquireNode, TakeFence, QueueSubmit,
                GatherAllocators, ExchangeFence, CountPending, EndSubmit, NotTrying
    <3>2. it'[t] = 0
      BY <1>a, <3>1 DEF ReadyInv, ReadyAhead, ReadyAheadOf
    <3>3. pc'[t] \in NotTrying \union {"find"}
      BY <1>a, <3>1 DEF Goto
    <3> QED
      BY <2>4, <3>2, <3>3 DEF ReadyAheadOf, NotTrying
  <2>5. CASE u # t
    <3>1. UNCHANGED <<pc[u], it[u]>> /\ pc[u] # "fence_ready"
      BY <1>a, <1>b, <2>3, <2>5 DEF Goto
    <3> QED
      BY <3>1 DEF ReadyInv, ReadyAhead, ReadyAheadOf
  <2> QED
    BY <2>1, <2>2, <2>4, <2>5
<1>3. CASE \/ Application \/ (\E t \in Threads : ReleaseNode(t))
           \/ (\E q \in Queues : GpuComplete(q)) \/ UNCHANGED vars
  <2>1. /\ UNCHANGED it
        /\ \A f \in Fences : signalled[f] => signalled'[f]
        /\ \/ pc' = pc /\ UNCHANGED <<ref_count, mNextFence>>
           \/ pc' = pc /\ \A t \in Threads : pc[t] = "idle"
           \/ /\ UNCHANGED <<ref_count, mNextFence>>
              /\ \E t \in Threads, to \in {"find", "release", "submit", "idle"} :
                    Goto(t, to) /\ pc[t] \in {"idle", "release"}
    BY <1>3, <1>a DEF Application, RecordCommandList, AcquireNode, Discard, SubmitBegin, Reinitialize,
                ReleaseNode, GpuComplete, vars, ring
  <2>2. CASE pc'[u] # pc[u]
    <3>1. pc[u] \in {"idle", "release"} /\ pc'[u] \in {"find", "release", "submit", "idle"}
      BY <1>a, <2>1, <2>2 DEF Goto
    <3> QED
      BY <2>1, <3>1 DEF ReadyInv, ReadyAhead, ReadyAheadOf, NotTrying
  <2>3. CASE pc'[u] = pc[u] /\ pc[u] = "fence_ready"
    BY <1>a, <2>1, <2>3, ReadyKept
  <2>4. CASE pc'[u] = pc[u] /\ pc[u] # "fence_ready"
    BY <2>1, <2>4 DEF ReadyInv, ReadyAhead, ReadyAheadOf
  <2> QED
    BY <2>2, <2>3, <2>4
<1> QED
  BY <1>1, <1>2, <1>3 DEF Next

\* The application bounds how far the GPU is behind, and submits lists.
LEMMA BehindStep ==
  ASSUME ReadyInv, FencesSuffice, [Next]_vars
  PROVE  BehindRight'
<1>a. /\ TypeOK /\ SubmitExclusive /\ pc \in [Threads -> Points]
      /\ submitter \in Threads \union {NoThread} /\ NoThread \notin Threads
  BY NoThreadAssumption DEF ReadyInv, RefInv, SubmitInv, TypeOK, ThreadType, SubmitType
<1>1. ASSUME UNCHANGED <<queue, submitter>>,
             submitter # NoThread => (pc'[submitter] \notin Queued => pc[submitter] \notin Queued)
      PROVE  BehindRight'
  <2>1. Unfinished' = Unfinished /\ \A s : ListsIn(s)' = ListsIn(s)
    BY <1>1 DEF Unfinished, ListsIn
  <2>2. submitter # NoThread /\ ~Submitting(Queued)' => ~Submitting(Queued)
    BY <1>1 DEF Submitting
  <2> QED
    BY <1>1, <2>1, <2>2 DEF ReadyInv, BehindRight
<1>2. ASSUME UNCHANGED queue, submitter' = NoThread
      PROVE  BehindRight'
  BY <1>2 DEF ReadyInv, BehindRight, Unfinished, ListsIn
<1>3. ASSUME NEW t \in Threads, QueueSubmit(t)
      PROVE  BehindRight'
  <2> PICK q \in Queues : q = target[t]
    BY Typings DEF ReadyInv, QueueInv, CountInv
  <2> PICK e : e = [fence |-> sub_fence, lists |-> sub_lists]
    OBVIOUS
  <2> PICK new : new = <<q, Len(queue[q]) + 1>>
    OBVIOUS
  <2>1. /\ queue'[q] = Append(queue[q], e) /\ \A p \in Queues : p # q => queue'[p] = queue[p]
        /\ submitter = t /\ pc[t] = "queue_submit" /\ Goto(t, "gather") /\ UNCHANGED submitter
    BY <1>3, <1>a DEF QueueSubmit, submit, TypeOK, DeviceType
  <2>2. /\ Submitting({"queue_submit", "gather", "notify", "count"}) /\ ~Submitting({"notify", "count"})
        /\ Submitting(Queued)'
    BY <2>1, <1>a DEF Submitting, Queued, Goto
  <2>3. /\ e \in [fence : Fences, lists : SUBSET Lists] /\ e.lists = sub_lists /\ sub_lists # {}
    BY <2>1, <2>2, <1>a DEF ReadyInv, RefInv, SubmitInv, FenceHeld, ListsSubmitted, FencesSuffice, TypeOK, SubmitType
  <2>a. TypeOK /\ queue'[q] = Append(queue[q], e) /\ \A p \in Queues : p # q => queue'[p] = queue[p]
    BY <1>a, <2>1
  <2>b. e \in [fence : Fences, lists : SUBSET Lists]
    BY <2>3
  <2>4. /\ Unfinished' = Unfinished \union {new} /\ ListsIn(new)' = e.lists
        /\ \A s \in Unfinished : ListsIn(s)' = ListsIn(s)
    BY <2>a, <2>b, SubmissionAppended
  <2>5. \A s \in Unfinished' : ListsIn(s)' # {}
    BY <2>3, <2>4 DEF ReadyInv, BehindRight
  <2> QED
    BY <2>2, <2>5 DEF BehindRight
<1>4. ASSUME NEW q \in Queues, GpuComplete(q)
      PROVE  BehindRight'
  <2>1. /\ \A s \in Unfinished' : /\ Later(q, s) \in Unfinished
                                  /\ ListsIn(s)' = ListsIn(Later(q, s)) /\ Earlier(q, Later(q, s)) = s
        /\ UNCHANGED <<submitter, pc>>
    BY <1>4, CompleteFacts DEF ReadyInv, GpuComplete, submit
  <2>2. Cardinality(Unfinished') <= Cardinality(Unfinished) /\ Cardinality(Unfinished') \in Nat
    <3> DEFINE f == [s \in Unfinished' |-> Later(q, s)]
    <3>1. \A s \in Unfinished' : f[s] \in Unfinished /\ Earlier(q, f[s]) = s
      BY <2>1
    <3>2. f \in [Unfinished' -> Unfinished]
      BY <2>1
    <3> HIDE DEF f
    <3>3. f \in Injection(Unfinished', Unfinished)
      BY <3>1, <3>2 DEF Injection, IsInjective
    <3> QED
      BY <1>a, <3>3, FS_Injection, UnfinishedFinite, FS_CardinalityType
  <2>3. Cardinality(Unfinished) \in Nat /\ MaxUnfinished \in Nat
    BY <1>a, UnfinishedFinite, ApplicationAssumption
  <2>4. \A s \in Unfinished' : ListsIn(s)' # {}
    BY <2>1 DEF ReadyInv, BehindRight
  <2>5. submitter # NoThread /\ ~Submitting(Queued)' => submitter # NoThread /\ ~Submitting(Queued)
    BY <2>1 DEF Submitting
  <2>6. submitter' # NoThread /\ ~Submitting(Queued)' => Cardinality(Unfinished)' < MaxUnfinished
    BY <2>1, <2>2, <2>3, <2>5 DEF ReadyInv, BehindRight
  <2> QED
    BY <2>4, <2>6 DEF BehindRight
<1>5. ASSUME NEW t \in Threads, NEW q \in Queues, NEW cls \in SUBSET Lists, NEW n \in 0 .. MaxBarrierLists,
             SubmitBegin(t, q, cls, n)
      PROVE  BehindRight'
  BY <1>5 DEF SubmitBegin, device, ReadyInv, BehindRight, Unfinished, ListsIn
<1>6. ASSUME NEW t \in Threads, \/ Create(t) \/ CreateBarrierList(t) \/ BarriersDone(t)
                                \/ TakeFence(t) \/ NextFence(t) \/ \E q \in Queues : RecordCommandList(t, q)
      PROVE  BehindRight'
  <2>1. /\ pc[t] \notin Queued /\ UNCHANGED <<queue, submitter>>
        /\ UNCHANGED pc \/ \E to \in Points : Goto(t, to)
    BY <1>6 DEF Create, TakeBuffer, LoadCounter, Reset, NextAllocator, CreateBarrierList, AcquireNode,
                BarriersDone, TakeFence, NextFence, RecordCommandList, Queued, Points, submit, device
  <2>2. \A u \in Threads : u # t => pc'[u] = pc[u]
    BY <1>a, <2>1 DEF Goto
  <2> QED
    BY <1>1, <1>a, <2>1, <2>2
<1>7. ASSUME NEW t \in Threads, \/ GatherAllocators(t)
                                \/ \E a \in Allocs : ExchangeFence(t, a) \/ CountPending(t, a)
      PROVE  BehindRight'
  <2>1. /\ submitter = t /\ UNCHANGED queue
        /\ \/ submitter' = NoThread
           \/ UNCHANGED submitter /\ UNCHANGED pc
           \/ UNCHANGED submitter /\ \E to \in {"notify", "count"} : Goto(t, to)
    BY <1>7 DEF GatherAllocators, ExchangeFence, CountPending, EndSubmit, submit, device
  <2>2. UNCHANGED submitter => pc'[submitter] = pc[submitter] \/ pc'[submitter] \in Queued \/ submitter' = NoThread
    BY <1>a, <2>1 DEF Goto, Queued
  <2> QED
    BY <1>1, <1>2, <2>1, <2>2
<1>8. CASE UNCHANGED <<queue, submitter, pc>>
  BY <1>1, <1>8
<1>9. ASSUME NEW t \in Threads, ReleaseNode(t) \/ \E l \in Lists : Discard(t, l)
      PROVE  BehindRight'
  <2>1. /\ UNCHANGED <<queue, submitter>> /\ pc[t] \in {"idle", "release"}
        /\ \E to \in Points : Goto(t, to)
    BY <1>9 DEF ReleaseNode, Discard, Points, device, submit
  <2>2. pc[t] \notin Queued /\ \A u \in Threads : u # t => pc'[u] = pc[u]
    BY <1>a, <2>1 DEF Goto, Queued
  <2> QED
    BY <1>1, <1>a, <2>1, <2>2
<1> QED
  BY <1>3, <1>4, <1>5, <1>6, <1>7, <1>8, <1>9
  DEF Next, Application, Submit, vars, device, submit, Reinitialize

LEMMA UnsignalledStep ==
  ASSUME CountInv, UnsignalledQueued, [Next]_vars
  PROVE  UnsignalledQueued'
<1>a. /\ TypeOK /\ pc \in [Threads -> Points] /\ signalled \in [Fences -> BOOLEAN] /\ mNextFence \in Fences
      /\ submitter \in Threads \union {NoThread} /\ NoThread \notin Threads
  BY NoThreadAssumption DEF CountInv, SubmitInv, TypeOK, ThreadType, SubmitType, RingType
<1>1. ASSUME UNCHANGED <<queue, signalled>>,
             Submitting({"queue_submit"}) => Submitting({"queue_submit"})' /\ UNCHANGED sub_fence
      PROVE  UnsignalledQueued'
  BY <1>1 DEF UnsignalledQueued, Unfinished, FenceOf
<1>2. ASSUME NEW t \in Threads, TakeFence(t)
      PROVE  UnsignalledQueued'
  <2>1. /\ Submitting({"queue_submit"})' /\ ~Submitting({"queue_submit"}) /\ UNCHANGED queue
        /\ sub_fence' = mNextFence /\ \A f \in Fences : f # mNextFence => signalled'[f] = signalled[f]
    BY <1>a, <1>2 DEF TakeFence, Submitting, Goto, device
  <2> QED
    BY <2>1 DEF UnsignalledQueued, Unfinished, FenceOf
<1>3. ASSUME NEW t \in Threads, QueueSubmit(t)
      PROVE  UnsignalledQueued'
  <2> PICK q \in Queues : q = target[t]
    BY Typings DEF CountInv
  <2> PICK e : e = [fence |-> sub_fence, lists |-> sub_lists]
    OBVIOUS
  <2> PICK new : new = <<q, Len(queue[q]) + 1>>
    OBVIOUS
  <2>1. /\ queue'[q] = Append(queue[q], e) /\ \A p \in Queues : p # q => queue'[p] = queue[p]
        /\ UNCHANGED signalled
        /\ submitter = t /\ pc[t] = "queue_submit"
    BY <1>3, <1>a DEF QueueSubmit, ring, TypeOK, DeviceType
  <2>2. Submitting({"queue_submit", "gather", "notify", "count"})
    BY <2>1, <1>a DEF Submitting
  <2>3. e \in [fence : Fences, lists : SUBSET Lists] /\ e.fence = sub_fence
    BY <2>2, <1>a DEF CountInv, SubmitInv, FenceHeld, TypeOK, SubmitType
  <2>a. TypeOK /\ queue'[q] = Append(queue[q], e) /\ \A p \in Queues : p # q => queue'[p] = queue[p]
    BY <1>a, <2>1
  <2>b. e \in [fence : Fences, lists : SUBSET Lists]
    BY <2>3
  <2>4. /\ Unfinished' = Unfinished \union {new} /\ FenceOf(new)' = e.fence
        /\ \A s \in Unfinished : FenceOf(s)' = FenceOf(s)
    BY <2>a, <2>b, SubmissionAppended
  <2> QED
    BY <2>1, <2>3, <2>4 DEF UnsignalledQueued
<1>4. ASSUME NEW q \in Queues, GpuComplete(q)
      PROVE  UnsignalledQueued'
  <2>1. /\ <<q, 1>> \in Unfinished
        /\ \A f \in Fences : signalled'[f] = IF f = FenceOf(<<q, 1>>) THEN TRUE ELSE signalled[f]
        /\ \A s \in Unfinished' : FenceOf(s)' = FenceOf(Later(q, s))
        /\ \A r \in Unfinished : r # <<q, 1>> => Earlier(q, r) \in Unfinished' /\ Later(q, Earlier(q, r)) = r
    <3>1. /\ queue[q] # << >> /\ queue'[q] = Tail(queue[q])
          /\ \A p \in Queues : p # q => queue'[p] = queue[p]
          /\ signalled' = [signalled EXCEPT ![Head(queue[q]).fence] = TRUE]
      BY <1>4, <1>a DEF GpuComplete, TypeOK, DeviceType
    <3>2. TypeOK
      BY <1>a
    <3> QED
      BY <1>a, <3>1, <3>2, SubmissionFinished
  <2>2. UNCHANGED sub_fence /\ (Submitting({"queue_submit"})' <=> Submitting({"queue_submit"}))
    BY <1>4 DEF GpuComplete, submit, Submitting
  <2>3. ASSUME NEW f \in Fences, ~signalled'[f], ~(Submitting({"queue_submit"}) /\ f = sub_fence)
        PROVE  \E s \in Unfinished' : FenceOf(s)' = f
    <3>1. ~signalled[f] /\ f # FenceOf(<<q, 1>>)
      BY <2>1, <2>3
    <3>2. PICK r \in Unfinished : FenceOf(r) = f
      BY <2>3, <3>1 DEF UnsignalledQueued
    <3>3. PICK s \in Unfinished' : Later(q, s) = r
      BY <2>1, <3>1, <3>2
    <3> QED
      BY <2>1, <3>2, <3>3
  <2> QED
    BY <2>2, <2>3 DEF UnsignalledQueued
<1>5. CASE Reinitialize
  BY <1>5 DEF Reinitialize, UnsignalledQueued
<1>6. ASSUME NEW t \in Threads,
             \/ Create(t) \/ CreateBarrierList(t) \/ BarriersDone(t) \/ NextFence(t)
             \/ \E q \in Queues : RecordCommandList(t, q)
             \/ ReleaseNode(t) \/ \E l \in Lists : Discard(t, l)
             \/ GatherAllocators(t) \/ \E a \in Allocs : ExchangeFence(t, a) \/ CountPending(t, a)
      PROVE  UnsignalledQueued'
  <2>1. /\ pc[t] # "queue_submit" /\ UNCHANGED <<queue, signalled>>
        /\ UNCHANGED pc \/ \E to \in Points : Goto(t, to)
        /\ UNCHANGED <<submitter, sub_fence>> \/ submitter = t
    BY <1>6 DEF Create, TakeBuffer, LoadCounter, Reset, NextAllocator, CreateBarrierList, AcquireNode,
                BarriersDone, NextFence, RecordCommandList, ReleaseNode, Discard, GatherAllocators,
                ExchangeFence, CountPending, EndSubmit, Points, submit, device, ring
  <2>2. \A u \in Threads : u # t => pc'[u] = pc[u]
    BY <1>a, <2>1 DEF Goto
  <2>3. Submitting({"queue_submit"}) => Submitting({"queue_submit"})' /\ UNCHANGED sub_fence
    BY <1>a, <2>1, <2>2 DEF Submitting
  <2> QED
    BY <1>1, <2>1, <2>3
<1>7. ASSUME NEW t \in Threads, NEW q \in Queues, NEW cls \in SUBSET Lists, NEW n \in 0 .. MaxBarrierLists,
             SubmitBegin(t, q, cls, n)
      PROVE  UnsignalledQueued'
  BY <1>1, <1>7 DEF SubmitBegin, device, ring, Submitting
<1>8. CASE UNCHANGED <<queue, signalled, submitter, pc, sub_fence>>
  BY <1>1, <1>8 DEF Submitting
<1> QED
  BY <1>2, <1>3, <1>4, <1>5, <1>6, <1>7, <1>8
  DEF Next, Application, Submit, vars, device, ring, submit

LEMMA ReadyInvInit == Init => ReadyInv
<1> SUFFICES ASSUME Init PROVE ReadyInv
  OBVIOUS
<1>1. Unfinished = {} /\ submitter = NoThread
  BY DEF Init, Unfinished
<1>2. ReadyAhead /\ UnsignalledQueued
  BY DEF Init, ReadyAhead, ReadyAheadOf, UnsignalledQueued
<1>3. BehindRight
  BY <1>1 DEF BehindRight
<1> QED
  BY <1>2, <1>3, QueueInvInit, RefInvInit DEF ReadyInv

LEMMA ReadyInvStep == FencesSuffice => (ReadyInv /\ [Next]_vars => ReadyInv')
<1> SUFFICES ASSUME FencesSuffice, ReadyInv, [Next]_vars PROVE ReadyInv'
  OBVIOUS
<1>1. QueueInv'
  BY ResetsReady, QueueInvStep DEF ReadyInv
<1>2. RefInv'
  BY RefInvInductive DEF ReadyInv, FencesSuffice
<1> QED
  BY <1>1, <1>2, ReadyAheadStep, BehindStep, UnsignalledStep DEF ReadyInv, QueueInv

\* If there is a fence for every allocator and for every submission but one that the GPU is behind,
\* acquireFence finds a signalled fence in its first round: no fence of a submission the GPU is still
\* at is ever reset, although an allocator gives back its reference as soon as it has a newer fence
\* (cmd_list_pool.cc:230).
THEOREM OnlyReadyFences == FencesSuffice => (Spec => OnlyReadyFencesReset)
<1> SUFFICES ASSUME FencesSuffice PROVE Spec => OnlyReadyFencesReset
  OBVIOUS
<1>1. ReadyInv /\ [Next]_vars => ReadyInv'
  BY ReadyInvStep
<1>2. ReadyInv /\ [Next]_vars =>
        [\A f \in Fences : ref_count[f] = 0 /\ ref_count'[f] > 0 => signalled[f]]_vars
  BY ResetsReady DEF ReadyStep
<1> QED
  BY ReadyInvInit, <1>1, <1>2, PTL DEF Spec, OnlyReadyFencesReset

\* So with as many fences, the pool recycles the command buffers of an allocator only when they are
\* done with, and implements the lifecycle of command lists.
THEOREM PoolCorrect == FencesSuffice => (Spec => ResetOnlyWhenDone /\ Implements)
<1> SUFFICES ASSUME FencesSuffice PROVE Spec => ResetOnlyWhenDone /\ Implements
  OBVIOUS
<1>1. Spec => OnlyReadyFencesReset
  BY OnlyReadyFences
<1>2. Spec /\ OnlyReadyFencesReset => ResetOnlyWhenDone
  BY ResetAlwaysDone
<1>3. Spec /\ OnlyReadyFencesReset => Implements
  BY LifecycleImplemented
<1> QED
  BY <1>1, <1>2, <1>3

-----------------------------------------------------------------------------
(* What a thread that waits for a fence waits for                          *)

\* t is in try_reset_blocking, and the fence its allocator remembers is not signalled
Waits(t) ==
  LET a == Active(t)
  IN  /\ pc[t] = "block" /\ IsFull(a)
      /\ num_pending_execution[a] > 0 /\ ~FenceReady(a)

NobodyWaitsInVain ==
  \A t \in Threads : Waits(t) => \E s \in Unfinished : FenceOf(s) = latest_fence[Active(t)]

\* An allocator remembers a fence before its first list counts as submitted, until it is reset.
NotedRight ==
  \A a \in Allocs : num_pending_execution[a] > 0 \/ a \in sub_noted => latest_fence[a] \in Fences

WaitInv == CountInv /\ RefInv /\ NotedRight /\ UnsignalledQueued

LEMMA NotedStep ==
  ASSUME CountInv, NotedRight, [Next]_vars
  PROVE  NotedRight'
<1>a. /\ num_pending_execution \in [Allocs -> Nat] /\ latest_fence \in [Allocs -> Fences \union {NoFence}]
      /\ sub_fence \in Fences \union {NoFence} /\ SubmitInv
      /\ pc \in [Threads -> Points] /\ NoThread \notin Threads
  BY NoThreadAssumption DEF CountInv, SubmitInv, TypeOK, NodeType, SubmitType, ThreadType
<1>1. ASSUME UNCHANGED <<num_pending_execution, latest_fence>>, sub_noted' = sub_noted \/ sub_noted' = {}
      PROVE  NotedRight'
  BY <1>1 DEF NotedRight
<1>2. ASSUME NEW t \in Threads, Reset(t)
      PROVE  NotedRight'
  <2> PICK a \in Allocs : a = Active(t)
    BY ActiveType DEF CountInv, SubmitInv
  <2>1. \A l \in ListsOf(a) : l \notin sub_lists
    BY <1>2, AllBack DEF Reset, ListsOf
  <2>2. a \notin sub_noted
    <3> SUFFICES ASSUME a \in sub_noted PROVE FALSE
      OBVIOUS
    <3>1. Submitting({"count"})
      BY DEF CountInv, NotifyRight
    <3>2. Submitting({"notify", "count"})
      BY <3>1 DEF Submitting
    <3>3. \E l \in sub_lists : l[1] = a
      BY <3>2 DEF CountInv, NotifyRight
    <3> QED
      BY <2>1, <3>3, <1>a, Typings DEF ListsOf
  <2>3. /\ UNCHANGED sub_noted
        /\ \A b \in Allocs : num_pending_execution'[b] = IF b = a THEN 0 ELSE num_pending_execution[b]
        /\ \A b \in Allocs : b # a => latest_fence'[b] = latest_fence[b]
    BY <1>2, <1>a DEF Reset, submit
  <2> QED
    BY <2>2, <2>3 DEF NotedRight
<1>3. ASSUME NEW t \in Threads, NEW a \in Allocs, ExchangeFence(t, a)
      PROVE  NotedRight'
  <2>1. Submitting({"queue_submit", "gather", "notify", "count"})
    BY <1>3, <1>a DEF ExchangeFence, Submitting
  <2>2. sub_fence \in Fences
    BY <1>a, <2>1 DEF SubmitInv, FenceHeld
  <2>3. /\ sub_noted' = {a} /\ UNCHANGED num_pending_execution
        /\ \A b \in Allocs : latest_fence'[b] = IF b = a THEN sub_fence ELSE latest_fence[b]
    BY <1>3, <1>a DEF ExchangeFence
  <2> QED
    BY <2>2, <2>3 DEF NotedRight
<1>4. ASSUME NEW t \in Threads, NEW a \in Allocs, CountPending(t, a)
      PROVE  NotedRight'
  <2>1. /\ a \in sub_noted /\ UNCHANGED latest_fence /\ sub_noted' = {}
        /\ \A b \in Allocs : b # a => num_pending_execution'[b] = num_pending_execution[b]
    BY <1>4, <1>a DEF CountPending, EndSubmit
  <2> QED
    BY <2>1 DEF NotedRight
<1>5. CASE Reinitialize
  <2>1. submitter = NoThread /\ UNCHANGED sub_noted
    BY <1>5, <1>a, Typings DEF Reinitialize, submit, CountInv, SubListsRight
  <2>2. sub_noted = {}
    BY <2>1 DEF CountInv, NotifyRight, Submitting
  <2>3. \A a \in Allocs : num_pending_execution'[a] = 0
    BY <1>5 DEF Reinitialize
  <2> QED
    BY <2>1, <2>2, <2>3 DEF NotedRight
<1>6. ASSUME NEW t \in Threads,
             \/ TakeBuffer(t) \/ LoadCounter(t) \/ NextAllocator(t)
             \/ CreateBarrierList(t) \/ BarriersDone(t) \/ TakeFence(t) \/ NextFence(t)
             \/ QueueSubmit(t) \/ GatherAllocators(t)
             \/ \E q \in Queues : RecordCommandList(t, q)
             \/ ReleaseNode(t) \/ \E l \in Lists : Discard(t, l)
      PROVE  NotedRight'
  BY <1>1, <1>6
  DEF TakeBuffer, LoadCounter, NextAllocator, CreateBarrierList, BarriersDone, TakeFence, NextFence,
      QueueSubmit, GatherAllocators, EndSubmit, RecordCommandList, Discard, ReleaseNode, node, submit
<1>7. ASSUME NEW t \in Threads, NEW q \in Queues, NEW cls \in SUBSET Lists, NEW n \in 0 .. MaxBarrierLists,
             SubmitBegin(t, q, cls, n)
      PROVE  NotedRight'
  BY <1>1, <1>7 DEF SubmitBegin, node
<1>8. CASE (\E q \in Queues : GpuComplete(q)) \/ UNCHANGED vars
  BY <1>1, <1>8 DEF GpuComplete, vars, node, submit
<1> QED
  BY <1>2, <1>3, <1>4, <1>5, <1>6, <1>7, <1>8 DEF Next, Application, Create, Submit

LEMMA WaitInvInit == Init => WaitInv
<1> SUFFICES ASSUME Init PROVE NotedRight /\ UnsignalledQueued
  BY CountInvInit, RefInvInit DEF WaitInv
<1> QED
  BY DEF Init, NotedRight, UnsignalledQueued

LEMMA WaitInvStep == ~EmptySubmits => (WaitInv /\ [Next]_vars => WaitInv')
  BY CountInvStep, RefInvInductive, NotedStep, UnsignalledStep DEF WaitInv

LEMMA WaitsCovered == WaitInv => NobodyWaitsInVain
<1> SUFFICES ASSUME WaitInv, NEW t \in Threads, Waits(t)
             PROVE  \E s \in Unfinished : FenceOf(s) = latest_fence[Active(t)]
  BY DEF NobodyWaitsInVain
<1> PICK a \in Allocs : a = Active(t)
  BY ActiveType DEF WaitInv, CountInv, SubmitInv
<1>1. latest_fence[a] \in Fences /\ ~signalled[latest_fence[a]]
  BY DEF Waits, FenceReady, WaitInv, NotedRight
<1>2. CASE Submitting({"queue_submit"})
  <2>1. Submitting({"queue_submit", "gather"}) /\ Submitting({"queue_submit", "gather", "notify", "count"})
    BY <1>2 DEF Submitting
  <2>2. latest_fence[a] # sub_fence
    BY <2>1 DEF WaitInv, RefInv, SubmitInv, FenceHeld, FenceFresh
  <2> QED
    BY <1>1, <2>2 DEF WaitInv, UnsignalledQueued
<1> QED
  BY <1>1, <1>2 DEF WaitInv, UnsignalledQueued

\* A thread blocked in try_reset_blocking waits for the fence of a submission that is on a queue and
\* not finished: never for one that was reset and is yet to be queued, nor for one that was never
\* queued, however far the GPU is behind and even if a pending fence is reset (cmd_list_pool.cc:147).
THEOREM NobodyEverWaitsInVain == ~EmptySubmits => (Spec => []NobodyWaitsInVain)
<1> SUFFICES ASSUME ~EmptySubmits PROVE Spec => []NobodyWaitsInVain
  OBVIOUS
<1> QED
  BY WaitInvInit, WaitInvStep, WaitsCovered, PTL DEF Spec

-----------------------------------------------------------------------------
(* The assertions of the pool.                                             *)

Dangles(l) == buf[l] = "live" \/ l \in sub_lists
Settled(a) == \A l \in ListsOf(a) : ~Dangles(l)

\* the lists that the call thread b[1] is in will still add to bundle b
Coming(b) ==
    (IF b[1] \in Looking /\ target[b[1]] = b[2] THEN 1 ELSE 0)
  + (IF submitter = b[1] /\ target[b[1]] = b[2] THEN sub_barriers ELSE 0)

\* The application keeps to MaxDangling, whatever calls its threads are in.
DanglingFits ==
  \A b \in Bundles : Unsubmitted(b) + Coming(b) <= MaxDangling

\* turns of updateActiveIndex from the active allocator to allocator i
TurnsTo(t, i) ==
  LET active == mActiveAllocator[Bundle(t)]
  IN  IF i >= active THEN i - active ELSE i + NumAllocs - active

\* A thread that looks for a command buffer has an allocator that can be reset at any time, which
\* the second round has not come to yet, and of which it has loaded what is still true.
RoomAt(t, i) ==
  LET a == <<t, target[t], i>>
  IN  /\ Settled(a)
      /\ pc[t] = "block" => TurnsTo(t, i) < NumAllocs - it[t]
      /\ a = Active(t) => /\ disc[t] \in {NotLoaded, num_discarded[a]}
                          /\ pend[t] \in {NotLoaded, num_pending_execution[a]}

RoomAhead == \A t \in Looking : \E i \in 0 .. NumAllocs - 1 : RoomAt(t, i)

\* an allocator for every unsubmitted list, and the allocators of a queue fit the map of freeOnSubmit
LimitsHold ==
  /\ MaxDangling <= NumAllocs
  /\ \A q \in Queues : Cardinality({a \in Allocs : a[2] = q}) <= MaxUniqueAllocs

RoomInv == HandleInv /\ DanglingFits /\ RoomAhead

LEMMA DanglingFinite ==
  \A b : Dangling(b) \in SUBSET Lists /\ IsFiniteSet(Dangling(b)) /\ Cardinality(Dangling(b)) \in Nat
<1>1. \A b : Dangling(b) \in SUBSET Lists
  BY DEF Dangling
<1> QED
  BY <1>1, ListsFinite

LEMMA DanglingIs ==
  \A b : Dangling(b) = {l \in Lists : <<l[1][1], l[1][2]>> = b /\ Dangles(l)}
  BY DEF Dangling, Dangles

\* What is unsubmitted dangles, or is being released.
LEMMA UnsubmittedIs ==
  ASSUME HandleInv, NEW b
  PROVE  /\ Cardinality(Releasing(b)) \in Nat /\ Unsubmitted(b) \in Nat
         /\ Unsubmitted(b) = Cardinality(Dangling(b)) + Cardinality(Releasing(b))
         /\ Cardinality(Dangling(b)) <= Unsubmitted(b)
<1>1. Releasing(b) \in SUBSET Lists
  BY DEF Releasing, HandleInv, CountInv, SubmitInv, TypeOK, NodeType
<1> QED
  BY <1>1, ListsFinite, DanglingFinite DEF Unsubmitted

\* With fewer unsubmitted lists than allocators, one of the allocators has none.
LEMMA OneSettled ==
  ASSUME NEW t \in Threads, NEW q \in Queues, Cardinality(Dangling(<<t, q>>)) < NumAllocs
  PROVE  \E i \in 0 .. NumAllocs - 1 : Settled(<<t, q, i>>)
<1>1. SUFFICES ASSUME \A i \in 0 .. NumAllocs - 1 : ~Settled(<<t, q, i>>)
               PROVE  FALSE
  OBVIOUS
<1> DEFINE D == Dangling(<<t, q>>)
           f == [l \in D |-> l[1][3]]
<1>2. \A l \in D : l[1][3] \in 0 .. NumAllocs - 1
  BY DEF Dangling, Lists, Allocs
<1>3. ASSUME NEW i \in 0 .. NumAllocs - 1
      PROVE  \E l \in D : l[1][3] = i
  <2>1. PICK l \in ListsOf(<<t, q, i>>) : Dangles(l)
    BY <1>1 DEF Settled
  <2>2. l \in Lists /\ l[1] = <<t, q, i>>
    BY <2>1 DEF ListsOf
  <2> QED
    BY <2>1, <2>2, DanglingIs
<1>4. f \in Surjection(D, 0 .. NumAllocs - 1)
  <2> HIDE DEF D
  <2> QED
    BY <1>2, <1>3 DEF Surjection
<1>5. IsFiniteSet(D) /\ Cardinality(D) \in Nat
  BY DanglingFinite
<1>6. Cardinality(0 .. NumAllocs - 1) <= Cardinality(D)
  BY <1>4, <1>5, FS_Surjection
<1>7. NumAllocs \in Nat \ {0} /\ Cardinality(0 .. NumAllocs - 1) = NumAllocs
  BY FS_Interval, SizesAssumption
<1> QED
  BY <1>5, <1>6, <1>7

\* A list comes to dangle only when the owner of its allocator takes it.
LEMMA DanglesKept ==
  ASSUME HandleInv, [Next]_vars, NEW l \in Lists, Dangles(l)', ~Dangles(l)
  PROVE  \E t \in Threads : TakeBuffer(t) /\ l = <<Active(t), num_in_flight[Active(t)]>>
<1>a. buf \in [Lists -> {"free", "live", "discarded", "pending", "executed"}] /\ sub_lists \subseteq Lists
  BY Typings DEF HandleInv, CountInv
<1>b. ASSUME UNCHANGED <<buf, sub_lists>> PROVE FALSE
  BY <1>b DEF Dangles
<1>1. ASSUME NEW t \in Threads, TakeBuffer(t)
      PROVE  l = <<Active(t), num_in_flight[Active(t)]>>
  <2>1. /\ buf' = [buf EXCEPT ![<<Active(t), num_in_flight[Active(t)]>>] = "live"]
        /\ sub_lists' \subseteq sub_lists \union {<<Active(t), num_in_flight[Active(t)]>>}
    BY <1>1 DEF TakeBuffer
  <2> QED
    BY <1>a, <2>1 DEF Dangles
<1>2. ASSUME NEW t \in Threads, LoadCounter(t) \/ NextAllocator(t) \/ Reset(t) PROVE FALSE
  <2>1. CASE LoadCounter(t) \/ NextAllocator(t)
    BY <1>b, <2>1 DEF LoadCounter, NextAllocator, device, submit
  <2>2. CASE Reset(t)
    <3>1. sub_lists' = sub_lists /\ buf' = [k \in Lists |-> IF k[1] = Active(t) THEN "free" ELSE buf[k]]
      BY <2>2 DEF Reset, submit
    <3> QED
      BY <3>1 DEF Dangles
  <2> QED
    BY <1>2, <2>1, <2>2
<1>3. ASSUME NEW t \in Threads, Submit(t) PROVE FALSE
  <2>1. CASE CreateBarrierList(t) \/ BarriersDone(t) \/ TakeFence(t) \/ NextFence(t)
    BY <1>b, <2>1 DEF CreateBarrierList, BarriersDone, TakeFence, NextFence, device, submit
  <2>2. CASE QueueSubmit(t)
    <3>1. sub_lists' = sub_lists /\ buf' = [k \in Lists |-> IF k \in sub_lists THEN "pending" ELSE buf[k]]
      BY <2>2 DEF QueueSubmit, submit
    <3> QED
      BY <3>1 DEF Dangles
  <2>3. CASE GatherAllocators(t) \/ \E a \in Allocs : ExchangeFence(t, a) \/ CountPending(t, a)
    <3>1. buf' = buf /\ sub_lists' \subseteq sub_lists
      BY <2>3 DEF GatherAllocators, ExchangeFence, CountPending, EndSubmit, device, submit
    <3> QED
      BY <3>1 DEF Dangles
  <2> QED
    BY <1>3, <2>1, <2>2, <2>3 DEF Submit
<1>4. CASE Application
  <2>1. CASE \E t \in Threads, q \in Queues : RecordCommandList(t, q)
    BY <1>b, <2>1 DEF RecordCommandList, device, submit
  <2>2. ASSUME NEW t \in Threads, NEW k \in Lists, Discard(t, k) PROVE FALSE
    <3>1. sub_lists' = sub_lists /\ buf' = [buf EXCEPT ![k] = "discarded"]
      BY <2>2 DEF Discard, submit
    <3> QED
      BY <1>a, <3>1 DEF Dangles
  <2>3. ASSUME NEW t \in Threads, NEW q \in Queues, NEW cls \in SUBSET Lists,
               NEW n \in 0 .. MaxBarrierLists, SubmitBegin(t, q, cls, n)
        PROVE  FALSE
    <3>1. buf' = buf /\ sub_lists' = cls /\ \A k \in cls : buf[k] = "live"
      BY <2>3 DEF SubmitBegin, device
    <3> QED
      BY <3>1 DEF Dangles
  <2>4. CASE Reinitialize
    <3>1. sub_lists' = sub_lists /\ buf' = [k \in Lists |-> "free"]
      BY <2>4 DEF Reinitialize, submit
    <3> QED
      BY <3>1 DEF Dangles
  <2> QED
    BY <1>4, <2>1, <2>2, <2>3, <2>4 DEF Application
<1>5. ASSUME NEW q \in Queues, GpuComplete(q) PROVE FALSE
  <2>1. /\ sub_lists' = sub_lists
        /\ buf' = [k \in Lists |-> IF k \in Head(queue[q]).lists /\ buf[k] = "pending"
                                   THEN "executed" ELSE buf[k]]
    BY <1>5 DEF GpuComplete, submit
  <2> QED
    BY <2>1 DEF Dangles
<1>6. CASE UNCHANGED vars
  BY <1>b, <1>6 DEF vars, device, submit
<1>7. CASE \E t \in Threads : ReleaseNode(t)
  BY <1>b, <1>7 DEF ReleaseNode, device, submit
<1> QED
  BY <1>1, <1>2, <1>3, <1>4, <1>5, <1>6, <1>7 DEF Next, Create

LEMMA RoomTypes ==
  ASSUME HandleInv
  PROVE  /\ pc \in [Threads -> Points] /\ target \in [Threads -> Queues] /\ it \in [Threads -> Nat]
         /\ disc \in [Threads -> Int] /\ pend \in [Threads -> Int] /\ sub_barriers \in Nat
         /\ mActiveAllocator \in [Bundles -> 0 .. NumAllocs - 1]
         /\ submitter \in Threads \union {NoThread} /\ NoThread \notin Threads
  BY Typings DEF HandleInv, CountInv, SubmitInv, TypeOK, ThreadType, SubmitType

LEMMA OthersKept ==
  ASSUME HandleInv, NEW t \in Threads,
         \/ Create(t) \/ Submit(t) \/ ReleaseNode(t)
         \/ \E q \in Queues : RecordCommandList(t, q)
         \/ \E l \in Lists : Discard(t, l)
         \/ \E q \in Queues, cls \in SUBSET Lists, n \in 0 .. MaxBarrierLists : SubmitBegin(t, q, cls, n),
         NEW u \in Threads, u # t
  PROVE  /\ pc'[u] = pc[u] /\ target'[u] = target[u] /\ it'[u] = it[u]
         /\ disc'[u] = disc[u] /\ pend'[u] = pend[u]
         /\ \A q \in Queues : mActiveAllocator'[<<u, q>>] = mActiveAllocator[<<u, q>>]
         /\ submitter' = u <=> submitter = u
         /\ submitter = u => sub_barriers' = sub_barriers
<1>a. /\ pc \in [Threads -> Points] /\ target \in [Threads -> Queues] /\ it \in [Threads -> Nat]
      /\ disc \in [Threads -> Int] /\ pend \in [Threads -> Int]
      /\ mActiveAllocator \in [Bundles -> 0 .. NumAllocs - 1]
      /\ u # NoThread /\ t # NoThread
  BY RoomTypes
<1>1. /\ pc' = pc \/ \E to : pc' = [pc EXCEPT ![t] = to]
      /\ target' = target \/ \E q : target' = [target EXCEPT ![t] = q]
      /\ it' = it \/ \E n : it' = [it EXCEPT ![t] = n]
      /\ disc' = disc \/ \E n : disc' = [disc EXCEPT ![t] = n]
      /\ pend' = pend \/ \E n : pend' = [pend EXCEPT ![t] = n]
      /\ mActiveAllocator' = mActiveAllocator
           \/ \E n : mActiveAllocator' = [mActiveAllocator EXCEPT ![Bundle(t)] = n]
      /\ \/ submitter' = submitter /\ (sub_barriers' = sub_barriers \/ submitter = t)
         \/ submitter = NoThread /\ submitter' = t
         \/ submitter = t /\ submitter' = NoThread
  <2>1. CASE TakeBuffer(t)
    BY <2>1 DEF TakeBuffer, Goto, loaded, submit
  <2>2. CASE LoadCounter(t)
    BY <2>2 DEF LoadCounter, submit
  <2>3. CASE Reset(t)
    BY <2>3 DEF Reset, Unload, submit
  <2>4. CASE NextAllocator(t)
    BY <2>4 DEF NextAllocator, Unload, Goto, submit
  <2>5. CASE \E q \in Queues : RecordCommandList(t, q)
    BY <2>5 DEF RecordCommandList, AcquireNode, Goto, loaded, submit
  <2>6. CASE \E l \in Lists : Discard(t, l)
    BY <2>6 DEF Discard, Goto, loaded, submit
  <2>7. CASE \E q \in Queues, cls \in SUBSET Lists, n \in 0 .. MaxBarrierLists : SubmitBegin(t, q, cls, n)
    BY <2>7 DEF SubmitBegin, Goto, loaded
  <2>8. CASE CreateBarrierList(t)
    BY <2>8 DEF CreateBarrierList, AcquireNode, Goto, loaded
  <2>9. CASE BarriersDone(t)
    BY <2>9 DEF BarriersDone, Goto, loaded, submit
  <2>10. CASE TakeFence(t)
    BY <2>10 DEF TakeFence, Goto, loaded
  <2>11. CASE NextFence(t)
    BY <2>11 DEF NextFence, Goto, loaded, submit
  <2>12. CASE QueueSubmit(t)
    BY <2>12 DEF QueueSubmit, Goto, loaded, submit
  <2>13. CASE GatherAllocators(t)
    BY <2>13 DEF GatherAllocators, EndSubmit, Goto, loaded, submit
  <2>14. CASE \E a \in Allocs : ExchangeFence(t, a)
    BY <2>14 DEF ExchangeFence, Goto, loaded
  <2>15. CASE \E a \in Allocs : CountPending(t, a)
    BY <2>15 DEF CountPending, EndSubmit, Goto, loaded
  <2>16. CASE ReleaseNode(t)
    BY <2>16 DEF ReleaseNode, Goto, loaded, submit
  <2> QED
    BY <2>1, <2>2, <2>3, <2>4, <2>5, <2>6, <2>7, <2>8, <2>9, <2>10, <2>11, <2>12, <2>13, <2>14, <2>15,
       <2>16
    DEF Create, Submit
<1>2. \A q \in Queues : <<u, q>> \in Bundles /\ <<u, q>> # Bundle(t)
  BY DEF Bundles, Bundle
<1>3. pc'[u] = pc[u] /\ target'[u] = target[u] /\ it'[u] = it[u]
  BY <1>a, <1>1
<1>4. disc'[u] = disc[u] /\ pend'[u] = pend[u]
  BY <1>a, <1>1
<1>5. \A q \in Queues : mActiveAllocator'[<<u, q>>] = mActiveAllocator[<<u, q>>]
  BY <1>a, <1>1, <1>2
<1>6. (submitter' = u <=> submitter = u) /\ (submitter = u => sub_barriers' = sub_barriers)
  BY <1>a, <1>1
<1> QED
  BY <1>3, <1>4, <1>5, <1>6

\* The counters of an allocator without unsubmitted lists change only when it is reset.
LEMMA CountsKept ==
  ASSUME HandleInv, [Next]_vars, NEW a \in Allocs, Settled(a)
  PROVE  \/ num_discarded'[a] = num_discarded[a] /\ num_pending_execution'[a] = num_pending_execution[a]
         \/ Reinitialize
         \/ \E t \in Threads : Reset(t) /\ a = Active(t)
<1>a. num_discarded \in [Allocs -> Nat] /\ num_pending_execution \in [Allocs -> Nat]
  BY Typings DEF HandleInv, CountInv
<1>1. ASSUME NEW t \in Threads, Reset(t), a # Active(t)
      PROVE  num_discarded'[a] = num_discarded[a] /\ num_pending_execution'[a] = num_pending_execution[a]
  <2>1. /\ num_discarded' = [num_discarded EXCEPT ![Active(t)] = 0]
        /\ num_pending_execution' = [num_pending_execution EXCEPT ![Active(t)] = 0]
    BY <1>1 DEF Reset
  <2> QED
    BY <1>a, <1>1, <2>1
<1>2. ASSUME NEW t \in Threads, NEW l \in Lists, Discard(t, l)
      PROVE  num_discarded'[a] = num_discarded[a] /\ num_pending_execution'[a] = num_pending_execution[a]
  <2>1. /\ num_discarded' = [num_discarded EXCEPT ![l[1]] = @ + 1] /\ buf[l] = "live"
        /\ num_pending_execution' = num_pending_execution
    BY <1>2 DEF Discard
  <2>2. l[1] # a
    BY <2>1 DEF Settled, ListsOf, Dangles
  <2> QED
    BY <1>a, <2>1, <2>2
<1>3. ASSUME NEW t \in Threads, NEW b \in Allocs, CountPending(t, b)
      PROVE  num_discarded'[a] = num_discarded[a] /\ num_pending_execution'[a] = num_pending_execution[a]
  <2>1. /\ num_discarded' = num_discarded
        /\ num_pending_execution'
             = [num_pending_execution EXCEPT ![b] = @ + Cardinality(SubmittedBy(b))]
    BY <1>3 DEF CountPending
  <2>2. CASE a = b
    <3>1. SubmittedBy(b) = {}
      BY <2>2, Typings DEF Settled, ListsOf, Dangles, SubmittedBy, HandleInv, CountInv
    <3>2. Cardinality(SubmittedBy(b)) = 0
      BY <3>1, FS_EmptySet
    <3> QED
      BY <1>a, <2>1, <3>2
  <2>3. CASE a # b
    BY <1>a, <2>1, <2>3
  <2> QED
    BY <2>2, <2>3
<1>4. CASE UNCHANGED <<num_discarded, num_pending_execution>>
  BY <1>4
<1>5. ASSUME NEW t \in Threads, TakeBuffer(t) \/ LoadCounter(t) \/ NextAllocator(t)
      PROVE  UNCHANGED <<num_discarded, num_pending_execution>>
  BY <1>5 DEF TakeBuffer, LoadCounter, NextAllocator, node
<1>6. ASSUME NEW t \in Threads,
             \/ CreateBarrierList(t) \/ BarriersDone(t) \/ TakeFence(t) \/ NextFence(t)
             \/ QueueSubmit(t) \/ GatherAllocators(t) \/ \E b \in Allocs : ExchangeFence(t, b)
      PROVE  UNCHANGED <<num_discarded, num_pending_execution>>
  BY <1>6 DEF CreateBarrierList, BarriersDone, TakeFence, NextFence, QueueSubmit, GatherAllocators,
              ExchangeFence, node
<1>7. ASSUME NEW t \in Threads, NEW q \in Queues,
             \/ RecordCommandList(t, q)
             \/ \E cls \in SUBSET Lists, n \in 0 .. MaxBarrierLists : SubmitBegin(t, q, cls, n)
      PROVE  UNCHANGED <<num_discarded, num_pending_execution>>
  BY <1>7 DEF RecordCommandList, SubmitBegin, node
<1>8. ASSUME (\E q \in Queues : GpuComplete(q)) \/ UNCHANGED vars
      PROVE  UNCHANGED <<num_discarded, num_pending_execution>>
  BY <1>8 DEF GpuComplete, vars, node
<1>9. CASE \E t \in Threads : Create(t)
  BY <1>1, <1>4, <1>5, <1>9 DEF Create
<1>10. CASE \E t \in Threads : Submit(t)
  BY <1>3, <1>4, <1>6, <1>10 DEF Submit
<1>11. CASE Application
  BY <1>2, <1>4, <1>7, <1>11 DEF Application
<1>12. CASE \E t \in Threads : ReleaseNode(t)
  BY <1>4, <1>12 DEF ReleaseNode, node
<1> QED
  BY <1>4, <1>8, <1>9, <1>10, <1>11, <1>12 DEF Next

-----------------------------------------------------------------------------
(* The application keeps to its limit also while its threads are in calls. *)

LEMMA ComingType == \A b : HandleInv => Coming(b) \in Nat
  BY RoomTypes DEF Coming

LEMMA ComingTypeNext ==
  ASSUME HandleInv', NEW b
  PROVE  Coming(b)' \in Nat
<1>1. sub_barriers' \in Nat
  BY DEF HandleInv, CountInv, SubmitInv, TypeOK, SubmitType
<1> DEFINE creating == IF b[1] \in Looking' /\ target'[b[1]] = b[2] THEN 1 ELSE 0
           announced == IF submitter' = b[1] /\ target'[b[1]] = b[2] THEN sub_barriers' ELSE 0
<1>2. creating \in Nat /\ announced \in Nat
  BY <1>1
<1>3. Coming(b)' = creating + announced
  BY DEF Coming
<1> HIDE DEF creating, announced
<1> QED
  BY <1>2, <1>3

\* If nothing comes to dangle and nothing more is to come, the bound is kept.
LEMMA DanglingLess ==
  ASSUME HandleInv, NEW b \in Bundles,
         \A l \in Lists : <<l[1][1], l[1][2]>> = b /\ Dangles(l)' => Dangles(l)
  PROVE  Cardinality(Dangling(b)') <= Cardinality(Dangling(b)) /\ Cardinality(Dangling(b)') \in Nat
<1>1. Dangling(b)' = {l \in Lists : <<l[1][1], l[1][2]>> = b /\ Dangles(l)'}
  BY DEF Dangling, Dangles
<1>2. Dangling(b)' \subseteq Dangling(b)
  BY <1>1, DanglingIs
<1> QED
  BY <1>2, DanglingFinite, FS_Subset, FS_CardinalityType

LEMMA TakeDangling ==
  ASSUME HandleInv, HandleInv', NEW t \in Threads, TakeBuffer(t), [Next]_vars, NEW b \in Bundles
  PROVE  Cardinality(Dangling(b)') + Coming(b)' <= Cardinality(Dangling(b)) + Coming(b)
<1>a. /\ pc \in [Threads -> Points] /\ target \in [Threads -> Queues] /\ sub_barriers \in Nat
      /\ submitter \in Threads \union {NoThread} /\ NoThread \notin Threads
  BY RoomTypes
<1>b. Coming(b) \in Nat /\ Coming(b)' \in Nat
  BY ComingType, ComingTypeNext
<1>c. Cardinality(Dangling(b)) \in Nat
  BY DanglingFinite
<1> DEFINE new == <<Active(t), num_in_flight[Active(t)]>>
<1>1. /\ pc[t] \in {"find", "block"} /\ UNCHANGED <<target, submitter, sub_barriers>>
      /\ \/ pc' = [pc EXCEPT ![t] = "submit"]
         \/ pc' = [pc EXCEPT ![t] = "idle"]
  BY DEF TakeBuffer, Goto
<1>2. ASSUME NEW l \in Lists, Dangles(l)', ~Dangles(l)
      PROVE  l = new
  <2>1. PICK u \in Threads : TakeBuffer(u) /\ l = <<Active(u), num_in_flight[Active(u)]>>
    BY <1>2, DanglesKept
  <2>2. CASE u # t
    <3>1. pc'[u] = pc[u] /\ pc[u] \in {"find", "block"} /\ pc'[u] \in {"submit", "idle"}
      <4>1. pc'[u] = pc[u]
        BY <1>a, <1>1, <2>2
      <4>2. pc[u] \in {"find", "block"} /\ (Goto(u, "submit") \/ Goto(u, "idle"))
        BY <2>1 DEF TakeBuffer
      <4> QED
        BY <1>a, <4>1, <4>2 DEF Goto
    <3> QED
      BY <3>1
  <2> QED
    BY <2>1, <2>2
<1>3. CASE b = Bundle(t)
  <2>1. Dangling(b)' \subseteq Dangling(b) \union {new}
    <3>1. Dangling(b)' = {l \in Lists : <<l[1][1], l[1][2]>> = b /\ Dangles(l)'}
      BY DEF Dangling, Dangles
    <3> HIDE DEF new
    <3> QED
      BY <3>1, <1>2, DanglingIs
  <2> HIDE DEF new
  <2>2. Cardinality(Dangling(b)') <= Cardinality(Dangling(b)) + 1 /\ Cardinality(Dangling(b)') \in Nat
    <3>1. /\ IsFiniteSet(Dangling(b) \union {new})
          /\ Cardinality(Dangling(b) \union {new}) <= Cardinality(Dangling(b)) + 1
          /\ Cardinality(Dangling(b) \union {new}) \in Nat
      <4>1. CASE new \in Dangling(b)
        <5>1. Dangling(b) \union {new} = Dangling(b)
          BY <4>1
        <5> QED
          BY <5>1, DanglingFinite
      <4>2. CASE new \notin Dangling(b)
        <5>1. IsFiniteSet(Dangling(b)) /\ Cardinality(Dangling(b)) \in Nat
          BY DanglingFinite
        <5>2. /\ IsFiniteSet(Dangling(b) \union {new})
              /\ Cardinality(Dangling(b) \union {new}) = Cardinality(Dangling(b)) + 1
          BY <4>2, <5>1, FS_AddElement
        <5> QED
          BY <5>1, <5>2
      <4> QED
        BY <4>1, <4>2
    <3>2. IsFiniteSet(Dangling(b)') /\ Cardinality(Dangling(b)') <= Cardinality(Dangling(b) \union {new})
      BY <2>1, <3>1, FS_Subset
    <3>3. Cardinality(Dangling(b)') \in Nat
      BY <3>2, FS_CardinalityType
    <3> QED
      BY <3>1, <3>2, <3>3, <1>c
  <2>3. Coming(b)' = Coming(b) - 1
    <3>1. b[1] = t /\ b[2] = target[t] /\ b[1] \in Looking /\ b[1] \notin Looking'
      BY <1>a, <1>1, <1>3 DEF Bundle, Looking
    <3> QED
      BY <3>1, <1>a, <1>1 DEF Coming
  <2> QED
    BY <1>b, <1>c, <2>2, <2>3
<1>4. CASE b # Bundle(t)
  <2>1. \A l \in Lists : <<l[1][1], l[1][2]>> = b /\ Dangles(l)' => Dangles(l)
    <3>1. <<new[1][1], new[1][2]>> = Bundle(t)
      BY DEF Active, Bundle
    <3> HIDE DEF new
    <3> QED
      BY <1>2, <1>4, <3>1
  <2>2. Coming(b)' <= Coming(b)
    <3>1. b[1] \in Looking' => b[1] \in Looking
      BY <1>a, <1>1 DEF Looking
    <3> QED
      BY <3>1, <1>a, <1>1 DEF Coming
  <2>3. Cardinality(Dangling(b)') <= Cardinality(Dangling(b)) /\ Cardinality(Dangling(b)') \in Nat
    BY <2>1, DanglingLess
  <2> QED
    BY <1>b, <1>c, <2>2, <2>3
<1> QED
  BY <1>3, <1>4

\* What a call will add to a bundle, it announces when it begins.
LEMMA ComingStep ==
  ASSUME HandleInv, HandleInv', [Next]_vars, NEW b \in Bundles
  PROVE  \/ Coming(b)' <= Coming(b)
         \/ Unsubmitted(b) + Coming(b)' <= MaxDangling
<1>a. /\ pc \in [Threads -> Points] /\ target \in [Threads -> Queues] /\ sub_barriers \in Nat
      /\ submitter \in Threads \union {NoThread} /\ NoThread \notin Threads
      /\ sub_barriers' \in Nat /\ Coming(b) \in Nat /\ Coming(b)' \in Nat
      /\ MaxDangling \in Nat /\ Unsubmitted(b) \in Nat
  <2>1. sub_barriers' \in Nat
    BY DEF HandleInv, CountInv, SubmitInv, TypeOK, SubmitType
  <2> QED
    BY <2>1, RoomTypes, ApplicationAssumption, ComingType, ComingTypeNext,
       UnsubmittedIs
<1>b. PICK u \in Threads, q \in Queues : b = <<u, q>>
  BY DEF Bundles
<1>c. b[1] = u /\ b[2] = q
  BY <1>b
<1>d. ASSUME u \in Looking' => u \in Looking, target'[u] = target[u],
             submitter' = u => submitter = u /\ sub_barriers' <= sub_barriers
      PROVE  Coming(b)' <= Coming(b)
  <2>1. CASE target[u] = q
    <3>1. submitter' # u \/ (submitter = u /\ sub_barriers' <= sub_barriers)
      BY <1>d
    <3> DEFINE creating == IF u \in Looking THEN 1 ELSE 0
               creating_next == IF u \in Looking' THEN 1 ELSE 0
               announced == IF submitter = u THEN sub_barriers ELSE 0
               announced_next == IF submitter' = u THEN sub_barriers' ELSE 0
    <3>2. Coming(b) = creating + announced /\ Coming(b)' = creating_next + announced_next
      BY <1>c, <1>d, <2>1 DEF Coming
    <3>3. /\ creating_next \in Nat /\ creating \in Nat /\ creating_next <= creating
          /\ announced_next \in Nat /\ announced \in Nat /\ announced_next <= announced
      BY <1>a, <1>d, <3>1
    <3> HIDE DEF creating, creating_next, announced, announced_next
    <3> QED
      BY <3>2, <3>3
  <2>2. CASE target[u] # q
    <3>1. Coming(b) = 0 /\ Coming(b)' = 0
      BY <1>c, <1>d, <2>2 DEF Coming
    <3> QED
      BY <3>1
  <2> QED
    BY <2>1, <2>2
<1>1. ASSUME NEW t \in Threads, t # u,
             \/ Create(t) \/ Submit(t) \/ ReleaseNode(t)
             \/ \E p \in Queues : RecordCommandList(t, p)
             \/ \E l \in Lists : Discard(t, l)
             \/ \E p \in Queues, cls \in SUBSET Lists, n \in 0 .. MaxBarrierLists : SubmitBegin(t, p, cls, n)
      PROVE  Coming(b)' <= Coming(b)
  <2>1. /\ pc'[u] = pc[u] /\ target'[u] = target[u] /\ (submitter' = u <=> submitter = u)
        /\ submitter = u => sub_barriers' = sub_barriers
    BY <1>1, OthersKept
  <2>2. sub_barriers <= sub_barriers
    BY <1>a
  <2> QED
    BY <1>d, <2>1, <2>2 DEF Looking
<1>2. CASE Create(u)
  <2>1. /\ pc[u] \in {"find", "block"} /\ UNCHANGED <<target, submitter, sub_barriers>>
    BY <1>2 DEF Create, TakeBuffer, LoadCounter, Reset, NextAllocator, submit
  <2> QED
    BY <1>a, <1>d, <2>1 DEF Looking
<1>3. ASSUME NEW p \in Queues, RecordCommandList(u, p)
      PROVE  Coming(b)' <= Coming(b) \/ Unsubmitted(b) + Coming(b)' <= MaxDangling
  <2>1. /\ pc[u] = "idle" /\ Unsubmitted(<<u, p>>) < MaxDangling
        /\ target' = [target EXCEPT ![u] = p] /\ UNCHANGED <<submitter, sub_barriers>>
    BY <1>3 DEF RecordCommandList, submit
  <2>2. submitter # u
    BY <2>1, <1>a DEF HandleInv, CountInv, SubListsRight
  <2>3. target'[u] = p
    BY <1>a, <2>1
  <2>4. CASE q = p
    <3>1. Coming(b)' <= 1
      BY <1>a, <1>c, <2>1, <2>2 DEF Coming
    <3> QED
      BY <1>a, <1>b, <2>1, <2>4, <3>1
  <2>5. CASE q # p
    BY <1>a, <1>c, <2>1, <2>2, <2>3, <2>5 DEF Coming
  <2> QED
    BY <2>4, <2>5
<1>4. CASE ReleaseNode(u) \/ \E l \in Lists : Discard(u, l)
  <2>1. /\ UNCHANGED <<target, submitter, sub_barriers>>
        /\ \E to \in {"idle", "release"} : pc' = [pc EXCEPT ![u] = to]
    BY <1>4 DEF ReleaseNode, Discard, Goto, submit
  <2> QED
    BY <1>a, <1>d, <2>1 DEF Looking
<1>5. ASSUME NEW p \in Queues, NEW cls \in SUBSET Lists, NEW n \in 0 .. MaxBarrierLists,
             SubmitBegin(u, p, cls, n)
      PROVE  Coming(b)' <= Coming(b) \/ Unsubmitted(b) + Coming(b)' <= MaxDangling
  <2>1. /\ pc[u] = "idle" /\ pc' = [pc EXCEPT ![u] = "submit"]
        /\ Unsubmitted(<<u, p>>) + n <= MaxDangling
        /\ target' = [target EXCEPT ![u] = p] /\ submitter' = u /\ sub_barriers' = n
    BY <1>5 DEF SubmitBegin, Goto
  <2>2. target'[u] = p /\ u \notin Looking'
    BY <1>a, <2>1 DEF Looking
  <2>3. CASE q = p
    <3>1. Coming(b)' = n
      BY <1>a, <1>c, <2>1, <2>2, <2>3 DEF Coming
    <3> QED
      BY <1>b, <2>1, <2>3, <3>1
  <2>4. CASE q # p
    <3>1. Coming(b)' = 0
      BY <1>c, <2>2, <2>4 DEF Coming
    <3> QED
      BY <1>a, <3>1
  <2> QED
    BY <2>3, <2>4
<1>6. CASE CreateBarrierList(u)
  <2>1. /\ submitter = u /\ submitter' = u /\ pc[u] = "submit" /\ sub_barriers > 0
        /\ sub_barriers' = sub_barriers - 1 /\ target' = target
    BY <1>6 DEF CreateBarrierList
  <2>2. u \notin Looking
    BY <2>1 DEF Looking
  <2> QED
    BY <1>a, <1>c, <2>1, <2>2 DEF Coming
<1>7. CASE Submit(u) /\ ~CreateBarrierList(u)
  <2>1. /\ target' = target /\ submitter = u /\ sub_barriers' = sub_barriers
        /\ pc' = pc \/ \E to \in Points \ {"find", "block"} : pc' = [pc EXCEPT ![u] = to]
    <3>1. CASE BarriersDone(u) \/ TakeFence(u) \/ NextFence(u)
      BY <1>7, <3>1 DEF BarriersDone, TakeFence, NextFence, Goto, submit, Points
    <3>2. CASE QueueSubmit(u) \/ GatherAllocators(u)
      BY <1>7, <3>2 DEF QueueSubmit, GatherAllocators, EndSubmit, Goto, submit, Points
    <3>3. CASE \E a \in Allocs : ExchangeFence(u, a) \/ CountPending(u, a)
      BY <1>7, <3>3 DEF ExchangeFence, CountPending, EndSubmit, Goto, submit, Points
    <3> QED
      BY <1>7, <3>1, <3>2, <3>3 DEF Submit
  <2>2. u \in Looking' => u \in Looking
    BY <1>a, <2>1 DEF Looking
  <2>3. sub_barriers <= sub_barriers
    BY <1>a
  <2> QED
    BY <1>d, <2>1, <2>2, <2>3
<1>8. CASE Reinitialize \/ (\E p \in Queues : GpuComplete(p)) \/ UNCHANGED vars
  <2>1. UNCHANGED <<pc, target, submitter, sub_barriers>>
    BY <1>8 DEF Reinitialize, GpuComplete, vars, submit
  <2> QED
    BY <1>a, <1>d, <2>1 DEF Looking
<1>9. CASE \E t \in Threads : Create(t) \/ Submit(t) \/ ReleaseNode(t)
  BY <1>1, <1>2, <1>4, <1>6, <1>7, <1>9
<1>10. CASE Application
  <2>1. CASE \E t \in Threads, p \in Queues : RecordCommandList(t, p)
    BY <1>1, <1>3, <2>1
  <2>2. CASE \E t \in Threads, l \in Lists : Discard(t, l)
    BY <1>1, <1>4, <2>2
  <2>3. CASE \E t \in Threads, p \in Queues, cls \in SUBSET Lists, n \in 0 .. MaxBarrierLists :
               SubmitBegin(t, p, cls, n)
    BY <1>1, <1>5, <2>3
  <2> QED
    BY <1>8, <1>10, <2>1, <2>2, <2>3 DEF Application
<1> QED
  BY <1>8, <1>9, <1>10 DEF Next

\* Without a list created, nothing more is unsubmitted: a discarded list is until its node is free.
LEMMA UnsubmittedLess ==
  ASSUME HandleInv, [Next]_vars, NEW b \in Bundles, ~\E t \in Threads : TakeBuffer(t)
  PROVE  /\ Cardinality(Dangling(b)') \in Nat /\ Cardinality(Releasing(b)') \in Nat
         /\ Cardinality(Dangling(b)') + Cardinality(Releasing(b)') <= Unsubmitted(b)
<1>1. Cardinality(Dangling(b)') <= Cardinality(Dangling(b)) /\ Cardinality(Dangling(b)') \in Nat
  BY DanglesKept, DanglingLess
<1>2. /\ Unsubmitted(b) = Cardinality(Dangling(b)) + Cardinality(Releasing(b))
      /\ Cardinality(Dangling(b)) \in Nat /\ Cardinality(Releasing(b)) \in Nat
  BY UnsubmittedIs, DanglingFinite
<1>3. ASSUME NEW t \in Threads, NEW l \in Lists, Discard(t, l)
      PROVE  /\ Cardinality(Releasing(b)') \in Nat
             /\ Cardinality(Dangling(b)') + Cardinality(Releasing(b)') <= Unsubmitted(b)
  <2>1. /\ dis_lists' = {l} /\ buf[l] = "live" /\ l \notin sub_lists /\ sub_lists' = sub_lists
        /\ buf' = [buf EXCEPT ![l] = "discarded"]
    BY <1>3 DEF Discard, submit
  <2>2. CASE <<l[1][1], l[1][2]>> = b
    <3>1. Releasing(b)' = {l}
      BY <2>1, <2>2 DEF Releasing
    <3>2. Cardinality(Releasing(b)') = 1
      BY <3>1, FS_Singleton
    <3>3. Dangling(b)' = Dangling(b) \ {l} /\ l \in Dangling(b)
      BY <2>1, <2>2, Typings DEF Dangling, HandleInv, CountInv
    <3>4. Cardinality(Dangling(b) \ {l}) = Cardinality(Dangling(b)) - 1
      BY <3>3, DanglingFinite, FS_RemoveElement
    <3> QED
      BY <1>1, <1>2, <3>2, <3>3, <3>4
  <2>3. CASE <<l[1][1], l[1][2]>> # b
    <3>1. Releasing(b)' = {}
      BY <2>1, <2>3 DEF Releasing
    <3>2. Cardinality(Releasing(b)') = 0
      BY <3>1, FS_EmptySet
    <3> QED
      BY <1>1, <1>2, <3>2
  <2> QED
    BY <2>2, <2>3
<1>4. ASSUME NEW t \in Threads, ReleaseNode(t)
      PROVE  /\ Cardinality(Releasing(b)') \in Nat
             /\ Cardinality(Dangling(b)') + Cardinality(Releasing(b)') <= Unsubmitted(b)
  <2>1. Releasing(b)' = {}
    BY <1>4 DEF ReleaseNode, Releasing
  <2>2. Cardinality(Releasing(b)') = 0
    BY <2>1, FS_EmptySet
  <2> QED
    BY <1>1, <1>2, <2>2
<1>5. CASE UNCHANGED dis_lists
  <2>1. Releasing(b)' = Releasing(b)
    BY <1>5 DEF Releasing
  <2> QED
    BY <1>1, <1>2, <2>1
<1> QED
  BY <1>1, <1>3, <1>4, <1>5, DiscardFrame DEF HandleInv, CountInv

LEMMA DanglingFitsStep ==
  ASSUME HandleInv, HandleInv', DanglingFits, [Next]_vars
  PROVE  DanglingFits'
<1> SUFFICES ASSUME NEW b \in Bundles
             PROVE  Unsubmitted(b)' + Coming(b)' <= MaxDangling
  BY DEF DanglingFits
<1>0. /\ Unsubmitted(b) \in Nat /\ Coming(b) \in Nat /\ Coming(b)' \in Nat
      /\ MaxDangling \in Nat /\ Unsubmitted(b) + Coming(b) <= MaxDangling
      /\ Unsubmitted(b) = Cardinality(Dangling(b)) + Cardinality(Releasing(b))
      /\ Unsubmitted(b)' = Cardinality(Dangling(b)') + Cardinality(Releasing(b)')
      /\ Cardinality(Dangling(b)) \in Nat /\ Cardinality(Releasing(b)) \in Nat
  BY UnsubmittedIs, DanglingFinite, ComingType, ComingTypeNext, ApplicationAssumption
  DEF DanglingFits, Unsubmitted
<1>1. ASSUME NEW t \in Threads, TakeBuffer(t)
      PROVE  Unsubmitted(b)' + Coming(b)' <= MaxDangling
  <2>1. Releasing(b)' = Releasing(b)
    BY <1>1 DEF TakeBuffer, Releasing
  <2>2. Cardinality(Dangling(b)') + Coming(b)' <= Cardinality(Dangling(b)) + Coming(b)
    BY <1>1, TakeDangling
  <2>3. Cardinality(Dangling(b)') \in Nat
    <3>1. Dangling(b)' \in SUBSET Lists
      BY DEF Dangling
    <3> QED
      BY <3>1, ListsFinite
  <2> QED
    BY <1>0, <2>1, <2>2, <2>3
<1>2. CASE ~\E t \in Threads : TakeBuffer(t)
  <2>1. /\ Cardinality(Dangling(b)') \in Nat /\ Cardinality(Releasing(b)') \in Nat
        /\ Cardinality(Dangling(b)') + Cardinality(Releasing(b)') <= Unsubmitted(b)
    BY <1>2, UnsubmittedLess
  <2>2. Coming(b)' <= Coming(b) \/ Unsubmitted(b) + Coming(b)' <= MaxDangling
    BY ComingStep
  <2> QED
    BY <1>0, <2>1, <2>2
<1> QED
  BY <1>1, <1>2

-----------------------------------------------------------------------------
(* Whoever looks for a command buffer finds one.                           *)

LEMMA SettledKept ==
  ASSUME HandleInv, [Next]_vars, NEW a \in Allocs, Settled(a), ~TakeBuffer(a[1])
  PROVE  Settled(a)'
<1>1. ASSUME NEW l \in Lists, l[1] = a, Dangles(l)'
      PROVE  FALSE
  <2>1. ~Dangles(l)
    BY <1>1 DEF Settled, ListsOf
  <2>2. PICK t \in Threads : TakeBuffer(t) /\ l = <<Active(t), num_in_flight[Active(t)]>>
    BY <1>1, <2>1, DanglesKept
  <2>3. l[1][1] = t
    BY <2>2 DEF Active
  <2> QED
    BY <1>1, <2>2, <2>3
<1> QED
  BY <1>1 DEF Settled, ListsOf

\* A thread in a call for which nothing changes but what others do with their lists.
LEMMA RoomSame ==
  ASSUME HandleInv, [Next]_vars, NEW u \in Threads, u \in Looking, u \in Looking',
         NEW i \in 0 .. NumAllocs - 1, RoomAt(u, i),
         pc'[u] = pc[u], target'[u] = target[u], it'[u] = it[u],
         disc'[u] = disc[u], pend'[u] = pend[u],
         mActiveAllocator'[Bundle(u)] = mActiveAllocator[Bundle(u)],
         ~Reset(u)
  PROVE  RoomAt(u, i)'
<1>a. pc \in [Threads -> Points] /\ target \in [Threads -> Queues]
  BY RoomTypes
<1> PICK a \in Allocs : a = <<u, target[u], i>>
  BY <1>a DEF Allocs
<1>1. a[1] = u /\ Settled(a)
  BY DEF RoomAt
<1>2. pc[u] # "idle" /\ pc'[u] \in {"find", "block"}
  BY DEF Looking
<1>3. ~TakeBuffer(u)
  <2>1. ASSUME TakeBuffer(u) PROVE pc'[u] \in {"submit", "idle"}
    BY <1>a, <2>1 DEF TakeBuffer, Goto
  <2> QED
    BY <1>2, <2>1
<1>4. Settled(a)'
  BY <1>1, <1>3, SettledKept
<1>5. num_discarded'[a] = num_discarded[a] /\ num_pending_execution'[a] = num_pending_execution[a]
  <2>1. ~Reinitialize
    BY <1>2 DEF Reinitialize
  <2>2. \A t \in Threads : Reset(t) => a # Active(t)
    BY <1>1 DEF Active
  <2> QED
    BY <1>1, <2>1, <2>2, CountsKept
<1>6. Bundle(u)' = Bundle(u) /\ Active(u)' = Active(u) /\ TurnsTo(u, i)' = TurnsTo(u, i)
  BY DEF Bundle, Active, TurnsTo
<1> QED
  BY <1>4, <1>5, <1>6 DEF RoomAt

LEMMA LoadRoom ==
  ASSUME HandleInv, [Next]_vars, NEW u \in Threads, LoadCounter(u), NEW i \in 0 .. NumAllocs - 1, RoomAt(u, i)
  PROVE  RoomAt(u, i)'
<1>a. /\ disc \in [Threads -> Int] /\ pend \in [Threads -> Int]
      /\ pc \in [Threads -> Points] /\ target \in [Threads -> Queues]
  BY RoomTypes
<1>1. /\ UNCHANGED <<num_discarded, num_pending_execution, mActiveAllocator, buf, pc, target, it, sub_lists>>
      /\ \/ disc' = [disc EXCEPT ![u] = num_discarded[Active(u)]] /\ pend' = pend
         \/ pend' = [pend EXCEPT ![u] = num_pending_execution[Active(u)]] /\ disc' = disc
  BY DEF LoadCounter, node, device, submit
<1>2. Bundle(u)' = Bundle(u) /\ Active(u)' = Active(u) /\ TurnsTo(u, i)' = TurnsTo(u, i)
  BY <1>1 DEF Bundle, Active, TurnsTo
<1>3. \A a : Settled(a)' <=> Settled(a)
  BY <1>1 DEF Settled, ListsOf, Dangles
<1>4. /\ disc'[u] \in {disc[u], num_discarded[Active(u)]}
      /\ pend'[u] \in {pend[u], num_pending_execution[Active(u)]}
  BY <1>a, <1>1
<1> QED
  BY <1>1, <1>2, <1>3, <1>4 DEF RoomAt

LEMMA ResetRoom ==
  ASSUME HandleInv, [Next]_vars, NEW u \in Threads, Reset(u), NEW i \in 0 .. NumAllocs - 1, RoomAt(u, i)
  PROVE  RoomAt(u, i)'
<1>a. /\ disc \in [Threads -> Int] /\ pend \in [Threads -> Int]
      /\ pc \in [Threads -> Points] /\ target \in [Threads -> Queues]
  BY RoomTypes
<1>1. /\ UNCHANGED <<mActiveAllocator, pc, target, it, sub_lists>>
      /\ buf' = [l \in Lists |-> IF l[1] = Active(u) THEN "free" ELSE buf[l]]
      /\ disc' = [disc EXCEPT ![u] = NotLoaded] /\ pend' = [pend EXCEPT ![u] = NotLoaded]
  BY DEF Reset, Unload, submit
<1>2. Bundle(u)' = Bundle(u) /\ Active(u)' = Active(u) /\ TurnsTo(u, i)' = TurnsTo(u, i)
  BY <1>1 DEF Bundle, Active, TurnsTo
<1>3. \A a : Settled(a) => Settled(a)'
  BY <1>1 DEF Settled, ListsOf, Dangles
<1>4. disc'[u] = NotLoaded /\ pend'[u] = NotLoaded
  BY <1>a, <1>1
<1> QED
  BY <1>1, <1>2, <1>3, <1>4 DEF RoomAt

\* An allocator all of whose lists are disposed of is not passed by once its counters are read.
LEMMA SettledResets ==
  ASSUME HandleInv, NEW u \in Threads, NEW i \in 0 .. NumAllocs - 1, RoomAt(u, i),
         Active(u) = <<u, target[u], i>>, IsFull(Active(u)), Loaded(u)
  PROVE  CanReset(u)
<1> PICK a \in Allocs : a = Active(u)
  BY ActiveType DEF HandleInv, CountInv, SubmitInv
<1>1. disc[u] = num_discarded[a] /\ pend[u] = num_pending_execution[a] /\ Settled(a)
  BY DEF RoomAt, Loaded
<1> DEFINE D == {l \in ListsOf(a) : buf[l] = "discarded"}
           E == {l \in ListsOf(a) : buf[l] \in {"pending", "executed"} /\ l \notin sub_lists}
           F == {l \in ListsOf(a) : buf[l] # "free"}
<1>2. F = D \union E /\ D \cap E = {}
  BY <1>1, Typings DEF Settled, Dangles, ListsOf, HandleInv, CountInv
<1>3. D \in SUBSET Lists /\ E \in SUBSET Lists
  BY DEF ListsOf
<1>4. num_in_flight[a] = Cardinality(F) /\ num_discarded[a] = Cardinality(D)
      /\ num_pending_execution[a] = Cardinality(E)
  BY DEF HandleInv, CountInv, CountersExact
<1> HIDE DEF D, E, F
<1>5. Cardinality(F) = Cardinality(D) + Cardinality(E)
  BY <1>2, <1>3, ListsFinite, DisjointUnion
<1> QED
  BY <1>1, <1>4, <1>5 DEF CanReset

LEMMA NextRoom ==
  ASSUME HandleInv, [Next]_vars, NEW u \in Threads, NextAllocator(u), NEW i \in 0 .. NumAllocs - 1, RoomAt(u, i)
  PROVE  RoomAt(u, i)' /\ assertion' = assertion
<1>a. /\ disc \in [Threads -> Int] /\ pend \in [Threads -> Int] /\ it \in [Threads -> Nat]
      /\ pc \in [Threads -> Points] /\ target \in [Threads -> Queues]
      /\ mActiveAllocator \in [Bundles -> 0 .. NumAllocs - 1] /\ NumAllocs \in Nat \ {0}
  BY RoomTypes, SizesAssumption
<1> DEFINE active == mActiveAllocator[Bundle(u)]
<1>1. /\ UNCHANGED <<target, buf, sub_lists, num_discarded, num_pending_execution>>
      /\ mActiveAllocator' = [mActiveAllocator EXCEPT ![Bundle(u)] = WrappedIncrement(@, NumAllocs)]
      /\ it' = [it EXCEPT ![u] = IF it[u] = NumAllocs - 1 THEN 0 ELSE @ + 1]
      /\ disc' = [disc EXCEPT ![u] = NotLoaded] /\ pend' = [pend EXCEPT ![u] = NotLoaded]
      /\ pc[u] \in {"find", "block"} /\ IsFull(Active(u)) /\ Loaded(u)
      /\ pc[u] = "block" => ~CanReset(u)
  BY DEF NextAllocator, Unload, node, device, submit
<1>2. \/ it[u] # NumAllocs - 1 /\ UNCHANGED <<pc, assertion>>
      \/ it[u] = NumAllocs - 1 /\ pc[u] = "find" /\ pc' = [pc EXCEPT ![u] = "block"] /\ UNCHANGED assertion
      \/ it[u] = NumAllocs - 1 /\ pc[u] = "block"
  BY DEF NextAllocator, Goto
<1>3. Bundle(u) \in Bundles /\ Bundle(u)' = Bundle(u)
  BY <1>a, <1>1 DEF Bundle, Bundles
<1>4. /\ active \in 0 .. NumAllocs - 1
      /\ mActiveAllocator'[Bundle(u)] = IF active = NumAllocs - 1 THEN 0 ELSE active + 1
  BY <1>a, <1>1, <1>3 DEF WrappedIncrement
<1>5. disc'[u] = NotLoaded /\ pend'[u] = NotLoaded
  BY <1>a, <1>1
<1>6. \A a : Settled(a)' <=> Settled(a)
  BY <1>1 DEF Settled, ListsOf, Dangles
<1>7. /\ TurnsTo(u, i) = IF i >= active THEN i - active ELSE i + NumAllocs - active
      /\ TurnsTo(u, i)' = IF i >= mActiveAllocator'[Bundle(u)] THEN i - mActiveAllocator'[Bundle(u)]
                          ELSE i + NumAllocs - mActiveAllocator'[Bundle(u)]
  BY <1>3 DEF TurnsTo
<1>8. it'[u] = IF it[u] = NumAllocs - 1 THEN 0 ELSE it[u] + 1
  BY <1>a, <1>1
<1> HIDE DEF active
<1>9. CASE pc[u] = "block"
  <2>1. active # i
    BY <1>1, <1>9, SettledResets DEF Active, active
  <2>2. TurnsTo(u, i) < NumAllocs - it[u]
    BY <1>9 DEF RoomAt
  <2>3. TurnsTo(u, i)' = TurnsTo(u, i) - 1 /\ TurnsTo(u, i) >= 1
    BY <1>a, <1>4, <1>7, <2>1
  <2>4. it[u] # NumAllocs - 1 /\ it[u] \in Nat /\ TurnsTo(u, i) \in Int
    BY <1>a, <1>4, <1>7, <2>2, <2>3
  <2>5. UNCHANGED <<pc, assertion>> /\ TurnsTo(u, i)' < NumAllocs - it'[u]
    BY <1>a, <1>2, <1>8, <2>2, <2>3, <2>4
  <2> QED
    BY <1>1, <1>5, <1>6, <2>5 DEF RoomAt
<1>10. CASE pc[u] = "find"
  <2>1. assertion' = assertion /\ (pc'[u] = "block" => it[u] = NumAllocs - 1)
    BY <1>a, <1>2, <1>10
  <2>2. pc'[u] = "block" => TurnsTo(u, i)' < NumAllocs - it'[u]
    BY <1>a, <1>4, <1>7, <1>8, <2>1
  <2> QED
    BY <1>1, <1>5, <1>6, <2>1, <2>2 DEF RoomAt
<1> QED
  BY <1>1, <1>9, <1>10

\* A thread that begins to look has fewer unsubmitted lists than allocators.
LEMMA EnterRoom ==
  ASSUME HandleInv, DanglingFits, LimitsHold, [Next]_vars, NEW u \in Threads,
         CreateBarrierList(u) \/ \E q \in Queues : RecordCommandList(u, q), u \in Looking'
  PROVE  \E i \in 0 .. NumAllocs - 1 : RoomAt(u, i)'
<1>a. /\ disc \in [Threads -> Int] /\ pend \in [Threads -> Int] /\ sub_barriers \in Nat
      /\ pc \in [Threads -> Points] /\ target \in [Threads -> Queues]
      /\ MaxDangling \in Nat /\ NumAllocs \in Nat
  BY RoomTypes, ApplicationAssumption, SizesAssumption
<1>1. /\ pc[u] \in {"idle", "submit"} /\ pc'[u] = "find" /\ UNCHANGED <<disc, pend>>
  <2>1. /\ pc[u] \in {"idle", "submit"} /\ UNCHANGED <<disc, pend>>
        /\ pc' = pc \/ pc' = [pc EXCEPT ![u] = "find"]
    BY DEF CreateBarrierList, RecordCommandList, AcquireNode, Goto, loaded
  <2> QED
    BY <1>a, <2>1 DEF Looking
<1>2. /\ target'[u] \in Queues
      /\ Cardinality(Dangling(<<u, target'[u]>>)) < NumAllocs
  <2>1. CASE CreateBarrierList(u)
    <3>1. target' = target /\ submitter = u /\ sub_barriers > 0
      BY <2>1 DEF CreateBarrierList
    <3> PICK q \in Queues : q = target[u]
      BY <1>a
    <3>2. /\ Unsubmitted(<<u, q>>) + Coming(<<u, q>>) <= MaxDangling
          /\ Unsubmitted(<<u, q>>) \in Nat /\ Coming(<<u, q>>) \in Nat
          /\ Cardinality(Dangling(<<u, q>>)) <= Unsubmitted(<<u, q>>)
          /\ Cardinality(Dangling(<<u, q>>)) \in Nat
      BY DanglingFinite, UnsubmittedIs, ComingType DEF DanglingFits, Bundles
    <3>3. Coming(<<u, q>>) > 0
      BY <1>a, <3>1 DEF Coming
    <3> QED
      BY <1>a, <3>1, <3>2, <3>3 DEF LimitsHold
  <2>2. ASSUME NEW q \in Queues, RecordCommandList(u, q)
        PROVE  /\ target'[u] \in Queues
               /\ Cardinality(Dangling(<<u, target'[u]>>)) < NumAllocs
    <3>1. target' = [target EXCEPT ![u] = q] /\ Unsubmitted(<<u, q>>) < MaxDangling
      BY <2>2 DEF RecordCommandList
    <3>2. target'[u] = q
      BY <1>a, <3>1
    <3>3. /\ Cardinality(Dangling(<<u, q>>)) \in Nat /\ Unsubmitted(<<u, q>>) \in Nat
          /\ Cardinality(Dangling(<<u, q>>)) <= Unsubmitted(<<u, q>>)
      BY DanglingFinite, UnsubmittedIs
    <3> QED
      BY <1>a, <3>1, <3>2, <3>3 DEF LimitsHold
  <2> QED
    BY <2>1, <2>2
<1> PICK p \in Queues : p = target'[u]
  BY <1>2
<1>3. PICK i \in 0 .. NumAllocs - 1 : Settled(<<u, p, i>>)
  BY <1>2, OneSettled
<1>4. <<u, p, i>> \in Allocs /\ <<u, p, i>>[1] = u
  BY DEF Allocs
<1>5. Settled(<<u, p, i>>)'
  <2>1. ~TakeBuffer(u)
    BY <1>1 DEF TakeBuffer
  <2> QED
    BY <1>3, <1>4, <2>1, SettledKept
<1>6. disc'[u] = NotLoaded /\ pend'[u] = NotLoaded
  BY <1>1 DEF HandleInv, CountInv, LoadedRight, LoadedAt
<1>7. RoomAt(u, i)'
  BY <1>1, <1>5, <1>6 DEF RoomAt
<1> QED
  BY <1>7

LEMMA RoomAheadStep ==
  ASSUME RoomInv, LimitsHold, [Next]_vars
  PROVE  RoomAhead'
<1> SUFFICES ASSUME NEW u \in Threads, u \in Looking'
             PROVE  \E i \in 0 .. NumAllocs - 1 : RoomAt(u, i)'
  BY DEF RoomAhead, Looking
<1>a. HandleInv /\ DanglingFits /\ pc \in [Threads -> Points] /\ target \in [Threads -> Queues]
  BY RoomTypes DEF RoomInv
<1>b. CASE CreateBarrierList(u) \/ \E q \in Queues : RecordCommandList(u, q)
  BY <1>a, <1>b, EnterRoom
<1>c. CASE u \in Looking /\ Create(u)
  <2>1. PICK i \in 0 .. NumAllocs - 1 : RoomAt(u, i)
    BY <1>c DEF RoomInv, RoomAhead
  <2>2. ~TakeBuffer(u)
    <3>1. ASSUME TakeBuffer(u) PROVE pc'[u] \in {"submit", "idle"}
      BY <1>a, <3>1 DEF TakeBuffer, Goto
    <3> QED
      BY <3>1 DEF Looking
  <2>3. RoomAt(u, i)'
    BY <1>a, <1>c, <2>1, <2>2, LoadRoom, ResetRoom, NextRoom DEF Create
  <2> QED
    BY <2>3
<1>d. ASSUME u \in Looking, ~Create(u),
             pc'[u] = pc[u], target'[u] = target[u], it'[u] = it[u],
             disc'[u] = disc[u], pend'[u] = pend[u],
             mActiveAllocator'[Bundle(u)] = mActiveAllocator[Bundle(u)]
      PROVE  \E i \in 0 .. NumAllocs - 1 : RoomAt(u, i)'
  <2>1. PICK i \in 0 .. NumAllocs - 1 : RoomAt(u, i)
    BY <1>d DEF RoomInv, RoomAhead
  <2>2. ~Reset(u)
    BY <1>d DEF Create
  <2>3. RoomAt(u, i)'
    BY <1>a, <1>d, <2>1, <2>2, RoomSame
  <2> QED
    BY <2>3
<1>e. ASSUME NEW t \in Threads, t # u, ~Create(u),
             \/ Create(t) \/ Submit(t) \/ ReleaseNode(t)
             \/ \E q \in Queues : RecordCommandList(t, q)
             \/ \E l \in Lists : Discard(t, l)
             \/ \E q \in Queues, cls \in SUBSET Lists, n \in 0 .. MaxBarrierLists : SubmitBegin(t, q, cls, n)
      PROVE  \E i \in 0 .. NumAllocs - 1 : RoomAt(u, i)'
  <2>1. /\ pc'[u] = pc[u] /\ target'[u] = target[u] /\ it'[u] = it[u]
        /\ disc'[u] = disc[u] /\ pend'[u] = pend[u]
        /\ \A q \in Queues : mActiveAllocator'[<<u, q>>] = mActiveAllocator[<<u, q>>]
    BY <1>a, <1>e, OthersKept
  <2>2. mActiveAllocator'[Bundle(u)] = mActiveAllocator[Bundle(u)] /\ u \in Looking
    BY <1>a, <2>1 DEF Bundle, Looking
  <2> QED
    BY <1>d, <1>e, <2>1, <2>2
<1>f. CASE (\E q \in Queues : GpuComplete(q)) \/ UNCHANGED vars \/ Reinitialize
  <2>1. pc' = pc
    BY <1>f DEF GpuComplete, vars, Reinitialize
  <2>2. u \in Looking /\ ~Reinitialize
    BY <2>1 DEF Looking, Reinitialize
  <2>3. UNCHANGED <<pc, target, it, disc, pend, mActiveAllocator>>
    BY <1>f, <2>2 DEF GpuComplete, vars, loaded
  <2> QED
    BY <1>c, <1>d, <2>2, <2>3
<1>g. ASSUME \/ Submit(u) /\ ~CreateBarrierList(u)
             \/ ReleaseNode(u) \/ \E l \in Lists : Discard(u, l)
             \/ \E q \in Queues, cls \in SUBSET Lists, n \in 0 .. MaxBarrierLists : SubmitBegin(u, q, cls, n)
      PROVE  FALSE
  <2>1. /\ pc[u] \notin {"find", "block"}
        /\ pc' = pc \/ \E to \in Points \ {"find", "block"} : pc' = [pc EXCEPT ![u] = to]
    <3>1. CASE BarriersDone(u) \/ TakeFence(u) \/ NextFence(u)
      BY <3>1 DEF BarriersDone, TakeFence, NextFence, Goto, Points
    <3>2. CASE QueueSubmit(u) \/ GatherAllocators(u)
      BY <3>2 DEF QueueSubmit, GatherAllocators, EndSubmit, Goto, Points
    <3>3. CASE \E a \in Allocs : ExchangeFence(u, a) \/ CountPending(u, a)
      BY <3>3 DEF ExchangeFence, CountPending, EndSubmit, Goto, Points
    <3>4. CASE ReleaseNode(u) \/ \E l \in Lists : Discard(u, l)
      BY <3>4 DEF ReleaseNode, Discard, Goto, Points
    <3>5. CASE \E q \in Queues, cls \in SUBSET Lists, n \in 0 .. MaxBarrierLists : SubmitBegin(u, q, cls, n)
      BY <3>5 DEF SubmitBegin, Goto, Points
    <3> QED
      BY <1>g, <3>1, <3>2, <3>3, <3>4, <3>5 DEF Submit
  <2> QED
    BY <1>a, <2>1 DEF Looking
<1>h. Create(u) => u \in Looking
  BY DEF Create, TakeBuffer, LoadCounter, Reset, NextAllocator, Looking
<1>1. CASE \E t \in Threads : Create(t) \/ Submit(t) \/ ReleaseNode(t)
  BY <1>1, <1>b, <1>c, <1>e, <1>g, <1>h
<1>2. CASE Application
  <2>1. CASE \E t \in Threads, q \in Queues : RecordCommandList(t, q)
    BY <2>1, <1>b, <1>c, <1>e, <1>h
  <2>2. CASE \E t \in Threads, l \in Lists : Discard(t, l)
    BY <2>2, <1>c, <1>e, <1>g, <1>h
  <2>3. CASE \E t \in Threads, q \in Queues, cls \in SUBSET Lists, n \in 0 .. MaxBarrierLists :
               SubmitBegin(t, q, cls, n)
    BY <2>3, <1>c, <1>e, <1>g, <1>h
  <2> QED
    BY <1>2, <1>f, <2>1, <2>2, <2>3 DEF Application
<1> QED
  BY <1>1, <1>2, <1>f DEF Next

LEMMA RoomInvStep == LimitsHold => (RoomInv /\ [Next]_vars => RoomInv')
<1> SUFFICES ASSUME LimitsHold, RoomInv, [Next]_vars PROVE RoomInv'
  OBVIOUS
<1>1. HandleInv'
  BY HandleInvStep DEF RoomInv
<1>2. DanglingFits'
  BY <1>1, DanglingFitsStep DEF RoomInv
<1> QED
  BY <1>1, <1>2, RoomAheadStep DEF RoomInv

LEMMA RoomInvInit == Init => RoomInv
<1> SUFFICES ASSUME Init PROVE RoomInv
  OBVIOUS
<1>1. DanglingFits
  <2>1. ASSUME NEW b \in Bundles
        PROVE  Unsubmitted(b) + Coming(b) <= MaxDangling
    <3>1. Dangling(b) = {} /\ Releasing(b) = {} /\ Coming(b) = 0
      <4>1. Dangling(b) = {} /\ Releasing(b) = {}
        BY DEF Init, Dangling, Releasing
      <4>2. b[1] \notin Looking /\ sub_barriers = 0
        BY DEF Init, Looking
      <4> QED
        BY <4>1, <4>2 DEF Coming
    <3>2. MaxDangling \in Nat
      BY ApplicationAssumption
    <3> QED
      BY <3>1, <3>2, FS_EmptySet DEF Unsubmitted
  <2> QED
    BY <2>1 DEF DanglingFits
<1>2. RoomAhead
  BY DEF Init, RoomAhead, Looking
<1> QED
  BY <1>1, <1>2, HandleInvInit DEF RoomInv

-----------------------------------------------------------------------------
(* No assertion.                                                           *)

\* Three sets put side by side, whatever they have in common.
Beside(A, B, C) == ({0} \X A) \union ({1} \X B) \union ({2} \X C)

LEMMA BesideCounts ==
  ASSUME NEW A, NEW B, NEW C, IsFiniteSet(A), IsFiniteSet(B), IsFiniteSet(C)
  PROVE  /\ IsFiniteSet(Beside(A, B, C))
         /\ Cardinality(Beside(A, B, C)) = Cardinality(A) + Cardinality(B) + Cardinality(C)
<1>1. ASSUME NEW k \in 0 .. 2, NEW S, IsFiniteSet(S)
      PROVE  IsFiniteSet({k} \X S) /\ Cardinality({k} \X S) = Cardinality(S)
  <2>1. IsFiniteSet({k}) /\ Cardinality({k}) = 1 /\ Cardinality(S) \in Nat
    BY <1>1, FS_Singleton, FS_CardinalityType
  <2>2. /\ IsFiniteSet({k} \X S)
        /\ Cardinality({k} \X S) = Cardinality({k}) * Cardinality(S)
    BY <1>1, <2>1, FS_Product
  <2> QED
    BY <2>1, <2>2
<1> DEFINE X == {0} \X A
           Y == {1} \X B
           Z == {2} \X C
<1>2. /\ IsFiniteSet(X) /\ Cardinality(X) = Cardinality(A)
      /\ IsFiniteSet(Y) /\ Cardinality(Y) = Cardinality(B)
      /\ IsFiniteSet(Z) /\ Cardinality(Z) = Cardinality(C)
  BY <1>1
<1>3. X \cap Y = {} /\ (X \union Y) \cap Z = {}
  OBVIOUS
<1>4. Beside(A, B, C) = (X \union Y) \union Z
  BY DEF Beside
<1> HIDE DEF X, Y, Z
<1>5. IsFiniteSet(X \union Y) /\ Cardinality(X \union Y) = Cardinality(X) + Cardinality(Y)
  BY <1>2, <1>3, DisjointUnion
<1> QED
  BY <1>2, <1>3, <1>4, <1>5, DisjointUnion

\* As many things as there are numbers can be numbered.
LEMMA Numbered ==
  ASSUME NEW S, IsFiniteSet(S), NEW n \in Nat, Cardinality(S) <= n
  PROVE  Injection(S, 0 .. n - 1) # {}
<1>1. PICK m \in Nat : m = Cardinality(S)
  BY FS_CardinalityType
<1>2. IsFiniteSet(0 .. m - 1) /\ Cardinality(0 .. m - 1) = m
  <2>1. /\ IsFiniteSet(0 .. m - 1)
        /\ Cardinality(0 .. m - 1) = IF 0 > m - 1 THEN 0 ELSE (m - 1) - 0 + 1
    <3>1. 0 \in Int /\ m - 1 \in Int
      OBVIOUS
    <3> QED
      BY <3>1, FS_Interval
  <2> QED
    BY <2>1
<1>3. PICK f \in Bijection(S, 0 .. m - 1) : TRUE
  BY <1>1, <1>2, FS_SameCardinalityBij DEF ExistsBijection
<1>4. 0 .. m - 1 \subseteq 0 .. n - 1
  BY <1>1
<1>5. f \in Injection(S, 0 .. n - 1)
  BY <1>3, <1>4 DEF Bijection, Injection, IsInjective
<1> QED
  BY <1>5

\* A node of the pool is taken for a handle, for a list that is being released or for a thread that
\* looks for a command buffer.  Each of them counts against the limit of one bundle, which is no
\* more than its allocators; so while a bundle has room for one list more, a node is left for it.
LEMMA NodeLeft ==
  ASSUME RoomInv, LimitsHold, NEW t \in Threads, t \notin Looking, NEW q \in Queues,
         Unsubmitted(<<t, q>>) < MaxDangling
  PROVE  pool_nodes # Cardinality(Lists)
<1> DEFINE S == Looking \union {t}
           home(u) == IF u = t THEN q ELSE target[u]
           handles(b) == {l \in Handles : <<l[1][1], l[1][2]>> = b}
           callers(b) == {u \in S : <<u, home(u)>> = b}
           Taken(b) == Beside(handles(b), Releasing(b), callers(b))
           All == Beside(Handles, dis_lists, S)
<1>0. /\ HandleInv /\ DanglingFits
      /\ ListsPerAlloc \in Nat \ {0} /\ NumAllocs \in Nat /\ MaxDangling \in Nat
      /\ target \in [Threads -> Queues] /\ sub_barriers \in Nat
      /\ S \subseteq Threads /\ \A u \in S : home(u) \in Queues
      /\ dis_lists \in SUBSET Lists
  BY SizesAssumption, ApplicationAssumption, RoomTypes
  DEF RoomInv, Looking, HandleInv, CountInv, SubmitInv, TypeOK, NodeType
<1>1. ASSUME NEW b \in Bundles
      PROVE  Injection(Taken(b), 0 .. NumAllocs - 1) # {}
  <2>1. /\ Unsubmitted(b) \in Nat /\ Cardinality(Releasing(b)) \in Nat /\ IsFiniteSet(Releasing(b))
        /\ Unsubmitted(b) = Cardinality(Dangling(b)) + Cardinality(Releasing(b))
        /\ Cardinality(Dangling(b)) \in Nat /\ Coming(b) \in Nat
        /\ Unsubmitted(b) + Coming(b) <= MaxDangling
    <3>1. Releasing(b) \in SUBSET Lists
      BY <1>0 DEF Releasing
    <3> QED
      BY <1>0, <3>1, ListsFinite, UnsubmittedIs, DanglingFinite, ComingType DEF DanglingFits
  <2>2. /\ IsFiniteSet(handles(b)) /\ Cardinality(handles(b)) \in Nat
        /\ Cardinality(handles(b)) <= Cardinality(Dangling(b))
    <3>1. handles(b) \subseteq Dangling(b)
      BY DEF Handles, Dangling
    <3> HIDE DEF handles
    <3> QED
      BY <3>1, DanglingFinite, FS_Subset, FS_CardinalityType
  <2>3. /\ IsFiniteSet(callers(b)) /\ Cardinality(callers(b)) \in Nat
        /\ Unsubmitted(b) + Cardinality(callers(b)) <= MaxDangling
    <3>1. CASE callers(b) = {}
      <4> HIDE DEF callers
      <4>1. IsFiniteSet(callers(b)) /\ Cardinality(callers(b)) = 0
        BY <3>1, FS_EmptySet
      <4> QED
        BY <1>0, <2>1, <4>1
    <3>2. CASE callers(b) # {}
      <4>1. PICK u \in callers(b) : TRUE
        BY <3>2
      <4>2. u \in S /\ b = <<u, home(u)>> /\ callers(b) = {u}
        BY <4>1
      <4> HIDE DEF callers
      <4>3. IsFiniteSet(callers(b)) /\ Cardinality(callers(b)) = 1
        <5>1. callers(b) = {u}
          BY <4>2
        <5> QED
          BY <5>1, FS_Singleton
      <4>4. CASE u = t
        BY <1>0, <2>1, <4>2, <4>3, <4>4
      <4>5. CASE u # t
        <5>1. Coming(b) > 0
          BY <1>0, <4>2, <4>5 DEF Coming
        <5> QED
          BY <1>0, <2>1, <4>3, <5>1
      <4> QED
        BY <4>4, <4>5
    <3> QED
      BY <3>1, <3>2
  <2> HIDE DEF handles, callers
  <2>4. /\ IsFiniteSet(Taken(b))
        /\ Cardinality(Taken(b))
             = Cardinality(handles(b)) + Cardinality(Releasing(b)) + Cardinality(callers(b))
    BY <2>1, <2>2, <2>3, BesideCounts
  <2>5. Cardinality(Taken(b)) <= NumAllocs
    BY <1>0, <2>1, <2>2, <2>3, <2>4 DEF LimitsHold
  <2> HIDE DEF Taken
  <2> QED
    BY <1>0, <2>4, <2>5, Numbered
<1>2. ASSUME NEW x \in All
      PROVE  \E b \in Bundles : x \in Taken(b)
  <2>1. CASE x \in ({0} \X Handles) \union ({1} \X dis_lists)
    <3>1. PICK l \in Lists : l = x[2]
      BY <1>0, <2>1 DEF Handles
    <3>2. <<l[1][1], l[1][2]>> \in Bundles
      BY DEF Lists, Allocs, Bundles
    <3>3. x \in Taken(<<l[1][1], l[1][2]>>)
      BY <2>1, <3>1 DEF Beside, Releasing
    <3> QED
      BY <3>2, <3>3
  <2>2. CASE x \in {2} \X S
    <3>1. PICK u \in S : x = <<2, u>>
      BY <2>2
    <3>2. <<u, home(u)>> \in Bundles
      BY <1>0 DEF Bundles
    <3>3. x \in Taken(<<u, home(u)>>)
      BY <3>1 DEF Beside
    <3> QED
      BY <3>2, <3>3
  <2> QED
    BY <2>1, <2>2 DEF Beside
<1> DEFINE numbering(b) == CHOOSE g \in Injection(Taken(b), 0 .. NumAllocs - 1) : TRUE
           at(x) == CHOOSE b \in Bundles : x \in Taken(b)
           slot == [x \in All |-> <<<<at(x)[1], at(x)[2], numbering(at(x))[x]>>, 0>>]
<1>3. \A x \in All : at(x) \in Bundles /\ x \in Taken(at(x))
  BY <1>2
<1>4. \A b \in Bundles : numbering(b) \in Injection(Taken(b), 0 .. NumAllocs - 1)
  BY <1>1
<1> HIDE DEF numbering, at, Taken, All
<1>5. slot \in Injection(All, Lists)
  <2>1. ASSUME NEW x \in All
        PROVE  slot[x] \in Lists
    <3>1. numbering(at(x))[x] \in 0 .. NumAllocs - 1
      BY <1>3, <1>4 DEF Injection
    <3>2. <<at(x)[1], at(x)[2], numbering(at(x))[x]>> \in Allocs
      BY <1>3, <3>1 DEF Bundles, Allocs
    <3> QED
      BY <1>0, <3>2, ListShape
  <2>2. ASSUME NEW x \in All, NEW y \in All, slot[x] = slot[y]
        PROVE  x = y
    <3>1. at(x)[1] = at(y)[1] /\ at(x)[2] = at(y)[2] /\ numbering(at(x))[x] = numbering(at(y))[y]
      BY <2>2
    <3>2. at(x) = at(y)
      BY <1>3, <3>1 DEF Bundles
    <3> QED
      BY <1>3, <1>4, <3>1, <3>2 DEF Injection, IsInjective
  <2> HIDE DEF slot
  <2>3. slot \in [All -> Lists]
    <3>1. slot = [x \in All |-> slot[x]]
      BY DEF slot
    <3> QED
      BY <2>1, <3>1
  <2> QED
    BY <2>2, <2>3 DEF Injection, IsInjective
<1> HIDE DEF slot
<1>6. Cardinality(All) <= Cardinality(Lists)
  BY <1>5, ListsFinite, FS_Injection
<1>7. IsFiniteSet(S) /\ Cardinality(S) = Cardinality(Looking) + 1
  BY HandlesFinite, FS_AddElement
<1>8. Cardinality(All) = Cardinality(Handles) + Cardinality(dis_lists) + (Cardinality(Looking) + 1)
  BY <1>0, <1>7, ListsFinite, HandlesFinite, BesideCounts DEF All
<1>9. pool_nodes = Cardinality(Handles) + Cardinality(dis_lists) + Cardinality(Looking)
  BY <1>0, LeakRephrased DEF HandleInv
<1>10. /\ Cardinality(Handles) \in Nat /\ Cardinality(dis_lists) \in Nat
       /\ Cardinality(Looking) \in Nat /\ Cardinality(Lists) \in Nat
  BY <1>0, HandlesFinite, ListsFinite
<1> QED
  BY <1>6, <1>8, <1>9, <1>10

\* The allocators of a submit all belong to one queue.
LEMMA MapFits ==
  ASSUME HandleInv, LimitsHold, NEW t \in Threads, submitter = t
  PROVE  ~(Cardinality({l[1] : l \in sub_lists}) > MaxUniqueAllocs)
<1>1. PICK q \in Queues : q = target[t]
  BY RoomTypes
<1> DEFINE S == {a \in Allocs : a[2] = q}
<1>2. {l[1] : l \in sub_lists} \in SUBSET S
  <2>1. \A l \in sub_lists : l[1] \in Allocs /\ l[1][2] = q
    BY <1>1, Typings, ListShape DEF HandleInv, CountInv, SubListsRight
  <2> QED
    BY <2>1
<1>3. IsFiniteSet(S) /\ S \subseteq Allocs
  BY AllocsFinite, FS_Subset
<1>4. Cardinality({l[1] : l \in sub_lists}) <= Cardinality(S) /\ Cardinality(S) <= MaxUniqueAllocs
  BY <1>2, <1>3, FS_Subset DEF LimitsHold
<1>5. Cardinality({l[1] : l \in sub_lists}) \in Nat /\ Cardinality(S) \in Nat /\ MaxUniqueAllocs \in Nat
  BY <1>2, <1>3, FS_Subset, FS_CardinalityType, SizesAssumption
<1> HIDE DEF S
<1> QED
  BY <1>4, <1>5

LEMMA NoneButTheRing ==
  ASSUME RoomInv, LimitsHold, [Next]_vars
  PROVE  assertion' = assertion \/ assertion' = "Fence ringbuffer is full"
<1>a. HandleInv /\ DanglingFits /\ target \in [Threads -> Queues] /\ sub_barriers \in Nat
  BY RoomTypes DEF RoomInv
<1>1. ASSUME NEW t \in Threads, Create(t)
      PROVE  assertion' = assertion
  <2>1. CASE NextAllocator(t)
    <3>1. t \in Looking
      BY <2>1 DEF NextAllocator, Looking
    <3>2. PICK i \in 0 .. NumAllocs - 1 : RoomAt(t, i)
      BY <3>1 DEF RoomInv, RoomAhead
    <3> QED
      BY <1>a, <2>1, <3>2, NextRoom
  <2>2. CASE TakeBuffer(t) \/ LoadCounter(t) \/ Reset(t)
    BY <2>2 DEF TakeBuffer, LoadCounter, Reset
  <2> QED
    BY <1>1, <2>1, <2>2 DEF Create
<1>2. ASSUME NEW t \in Threads, NEW q \in Queues, t \notin Looking,
             Unsubmitted(<<t, q>>) < MaxDangling, AcquireNode(t)
      PROVE  assertion' = assertion
  BY <1>2, NodeLeft DEF AcquireNode
<1>3. ASSUME NEW t \in Threads, Submit(t)
      PROVE  assertion' = assertion \/ assertion' = "Fence ringbuffer is full"
  <2>1. CASE CreateBarrierList(t)
    <3>1. submitter = t /\ pc[t] = "submit" /\ sub_barriers > 0 /\ AcquireNode(t)
      BY <2>1 DEF CreateBarrierList
    <3> PICK q \in Queues : q = target[t]
      BY <1>a
    <3>2. /\ Unsubmitted(<<t, q>>) + Coming(<<t, q>>) <= MaxDangling
          /\ Unsubmitted(<<t, q>>) \in Nat /\ Coming(<<t, q>>) \in Nat /\ MaxDangling \in Nat
      BY <1>a, UnsubmittedIs, ComingType, ApplicationAssumption DEF DanglingFits, Bundles
    <3>3. Coming(<<t, q>>) > 0
      BY <1>a, <3>1 DEF Coming
    <3>4. Unsubmitted(<<t, q>>) < MaxDangling
      BY <3>2, <3>3
    <3>5. t \notin Looking
      BY <3>1 DEF Looking
    <3> QED
      BY <1>2, <3>1, <3>4, <3>5
  <2>2. CASE GatherAllocators(t)
    BY <1>a, <2>2, MapFits DEF GatherAllocators
  <2>3. CASE NextFence(t)
    BY <2>3 DEF NextFence, Fail
  <2>4. CASE BarriersDone(t) \/ TakeFence(t) \/ QueueSubmit(t)
    BY <2>4 DEF BarriersDone, TakeFence, QueueSubmit
  <2>5. CASE \E a \in Allocs : ExchangeFence(t, a) \/ CountPending(t, a)
    BY <2>5 DEF ExchangeFence, CountPending
  <2> QED
    BY <1>3, <2>1, <2>2, <2>3, <2>4, <2>5 DEF Submit
<1>4. ASSUME NEW t \in Threads, NEW q \in Queues, RecordCommandList(t, q)
      PROVE  assertion' = assertion
  <2>1. pc[t] = "idle" /\ Unsubmitted(<<t, q>>) < MaxDangling /\ AcquireNode(t)
    BY <1>4 DEF RecordCommandList
  <2> QED
    BY <1>2, <2>1 DEF Looking
<1>5. CASE \/ \E t \in Threads, l \in Lists : Discard(t, l)
           \/ \E t \in Threads, q \in Queues, cls \in SUBSET Lists, n \in 0 .. MaxBarrierLists :
                SubmitBegin(t, q, cls, n)
           \/ (\E t \in Threads : ReleaseNode(t))
           \/ Reinitialize \/ (\E q \in Queues : GpuComplete(q)) \/ UNCHANGED vars
  BY <1>5 DEF Discard, ReleaseNode, SubmitBegin, Reinitialize, GpuComplete, vars
<1> QED
  BY <1>1, <1>3, <1>4, <1>5 DEF Next, Application

\* An application that leaves no more lists unsubmitted than it has allocators, and has no more
\* allocators to a queue than submit can tell apart, never meets an assertion of the pool, whatever
\* its threads record, discard and submit and however far the GPU is behind: recording finds an
\* allocator that can be reset and a handle, submitting finds a fence.  That holds also between the
\* two steps of a discard, when the list is counted and its handle still taken: a list counts as
\* unsubmitted until discard returns.
THEOREM NeverAssertsCorrect ==
  LimitsHold /\ SafetyFences > 0 /\ ~EmptySubmits => (Spec => []NeverAsserts)
<1> SUFFICES ASSUME LimitsHold, SafetyFences > 0, ~EmptySubmits PROVE Spec => []NeverAsserts
  OBVIOUS
<1>1. Init => RoomInv /\ NeverAsserts
  BY RoomInvInit DEF Init, NeverAsserts
<1>2. RoomInv /\ NeverAsserts /\ RingNeverFull' /\ [Next]_vars => (RoomInv /\ NeverAsserts)'
  BY RoomInvStep, NoneButTheRing DEF NeverAsserts, RingNeverFull
<1>3. Spec => []RingNeverFull
  BY RingNeverFullCorrect
<1> QED
  BY <1>1, <1>2, <1>3, PTL DEF Spec
=============================================================================
