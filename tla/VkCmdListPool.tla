--------------------------- MODULE VkCmdListPool ---------------------------
(***************************************************************************)
(* The Vulkan command list pool: the ring of submission fences, the        *)
(* command allocators of every recording thread, the pool of handles, and  *)
(* BackendVulkan's recordCommandList, discard and submit on top of them.   *)
(*                                                                         *)
(* A recording thread takes command buffers from its own allocators.  An   *)
(* allocator hands out ListsPerAlloc buffers and must then be reset as a   *)
(* whole, which is legal only once the GPU is done with all of them.  The  *)
(* allocator learns that from ONE fence, the one of its latest submission. *)
(* The fences are reference counted by the allocators that remember them,  *)
(* and recycled by the submitting thread.                                  *)
(*                                                                         *)
(* Every load and store that another thread can observe is a step of its   *)
(* own.  A failed CC_RUNTIME_ASSERT ends the process: it is recorded in    *)
(* "assertion" and nothing happens afterwards.                             *)
(*                                                                         *)
(* A definition whose name contains _Mut is a deliberately wrong variant   *)
(* of the one that follows it.  No behaviour uses it: substituting it must *)
(* break the property PROJECT.json names.                                  *)
(***************************************************************************)
EXTENDS Integers, Sequences, FiniteSets

CONSTANTS
  Threads,         (* recording threads, backend_config::num_threads many    *)
  Queues,          (* queue types left after getQueueTypeOrFallback          *)
  NumAllocs,       (* allocators per bundle (per thread and queue)           *)
  ListsPerAlloc,   (* command buffers per allocator                          *)
  SafetyFences,    (* fences beyond one per allocator, 5 in the code         *)
  MaxUniqueAllocs, (* capacity of the map in freeOnSubmit, 24 in the code    *)
  MaxBarrierLists, (* bound: barrier-only lists a submit may need            *)
  Recorders,       (* the application's: the threads that record             *)
  MaxDangling,     (* the application's: unsubmitted lists per bundle        *)
  MaxUnfinished,   (* the application's: submissions the GPU is behind       *)
  EmptySubmits,    (* may the application submit without any valid list?     *)
  NoThread

Allocs  == Threads \X Queues \X (0 .. NumAllocs - 1)
Lists   == Allocs \X (0 .. ListsPerAlloc - 1)
Bundles == Threads \X Queues

NumFences == Cardinality(Allocs) + SafetyFences
Fences    == 0 .. NumFences - 1
NoFence   == -1

ASSUME SizesAssumption ==
  /\ IsFiniteSet(Threads)
  /\ IsFiniteSet(Queues) /\ Queues # {}
  /\ NumAllocs \in Nat \ {0}
  /\ ListsPerAlloc \in Nat \ {0}
  /\ SafetyFences \in Nat
  /\ NumFences > 0
  /\ MaxUniqueAllocs \in Nat
ASSUME ApplicationAssumption ==
  /\ {MaxBarrierLists, MaxDangling, MaxUnfinished} \subseteq Nat
  /\ EmptySubmits \in BOOLEAN
  /\ Recorders \subseteq Threads
ASSUME NoThreadAssumption == NoThread \notin Threads

VARIABLES
  \* FenceRingbuffer
  ref_count, mNextFence,
  signalled,                 \* the VkFence's status, set by the GPU
  \* cmd_allocator_node
  num_in_flight, num_discarded, num_pending_execution, latest_fence,
  \* CommandAllocatorBundle and CommandListPool
  mActiveAllocator,
  pool_nodes,                \* nodes of mPool in use
  dis_lists,                 \* the list a discard, holding mMutex, has counted and not released
  \* Vulkan: the state of each command buffer, the GPU's queues
  buf, queue,
  \* the threads: where each is, the queue parameter of its call, how often its current loop
  \* has gone round, and the counters it has loaded
  pc, target, it, disc, pend,
  \* locals of the submit in progress: the application's lists and the barrier-only ones, how
  \* many of the latter are still to come, the fence, the allocators to notify, and the one
  \* that has the fence but not yet the count
  submitter, sub_lists, sub_barriers, sub_fence, sub_allocs, sub_noted,
  assertion

ring   == <<ref_count, mNextFence, signalled>>
node   == <<num_in_flight, num_discarded, num_pending_execution, latest_fence>>
device == <<buf, queue>>
loaded == <<disc, pend>>
submit == <<submitter, sub_lists, sub_barriers, sub_fence, sub_allocs, sub_noted>>
vars   == <<ring, node, mActiveAllocator, pool_nodes, dis_lists, device, pc, target, it, loaded,
            submit, assertion>>

NotLoaded == -1

Init ==
  /\ ref_count = [f \in Fences |-> 0]
  /\ signalled = [f \in Fences |-> TRUE]
  /\ mNextFence = 0
  /\ num_in_flight = [a \in Allocs |-> 0]
  /\ num_discarded = [a \in Allocs |-> 0]
  /\ num_pending_execution = [a \in Allocs |-> 0]
  /\ latest_fence = [a \in Allocs |-> NoFence]
  /\ mActiveAllocator = [b \in Bundles |-> 0]
  /\ pool_nodes = 0 /\ dis_lists = {}
  /\ buf = [l \in Lists |-> "free"]
  /\ queue = [q \in Queues |-> <<>>]
  /\ pc = [t \in Threads |-> "idle"]
  /\ target \in [Threads -> Queues]
  /\ it = [t \in Threads |-> 0]
  /\ disc = [t \in Threads |-> NotLoaded]
  /\ pend = [t \in Threads |-> NotLoaded]
  /\ submitter = NoThread
  /\ sub_lists = {} /\ sub_barriers = 0 /\ sub_fence = NoFence
  /\ sub_allocs = {} /\ sub_noted = {}
  /\ assertion = "none"

-----------------------------------------------------------------------------
(* Shared vocabulary.                                                      *)

WrappedIncrement_MutUnwrapped(i, size) == i + 1

WrappedIncrement(i, size) == IF i = size - 1 THEN 0 ELSE i + 1

Goto(t, to) == pc' = [pc EXCEPT ![t] = to]
Fail(what)  == assertion' = what

IsFull(a) == num_in_flight[a] = ListsPerAlloc

\* lists given out by the bundle which their allocator has not yet seen discarded or submitted
Dangling(b) == {l \in Lists : /\ <<l[1][1], l[1][2]>> = b
                              /\ buf[l] = "live" \/ l \in sub_lists}

\* lists of the bundle that are counted as discarded while their node is still taken
Releasing(b) == {l \in dis_lists : <<l[1][1], l[1][2]>> = b}

\* what the application has not given back: a list is the pool's again when discard returns.  Its
\* buffer may by then be another list, so the two are counted apart.
Unsubmitted(b) == Cardinality(Dangling(b)) + Cardinality(Releasing(b))

\* submissions the GPU has not finished, by queue and position
Unfinished == UNION {{q} \X DOMAIN queue[q] : q \in Queues}

Bundle(t) == <<t, target[t]>>
Active(t) == <<t, target[t], mActiveAllocator[Bundle(t)]>>

-----------------------------------------------------------------------------
(* Creating a command list: CommandListPool::create, run by                *)
(* recordCommandList and, for barrier-only lists, by submit.               *)

\* entry of CommandListPool::create: a node of the pool first
AcquireNode(t) ==
  \/ /\ pool_nodes = Cardinality(Lists)
     /\ Fail("command list pool full")
     /\ UNCHANGED <<pool_nodes, pc>>
  \/ /\ pool_nodes # Cardinality(Lists)
     /\ pool_nodes' = pool_nodes + 1
     /\ Goto(t, "find")
     /\ UNCHANGED assertion

RecordCommandList(t, q) ==
  /\ pc[t] = "idle" /\ t \in Recorders
  /\ Unsubmitted(<<t, q>>) < MaxDangling
  /\ target' = [target EXCEPT ![t] = q]
  /\ AcquireNode(t)
  /\ UNCHANGED <<ring, node, mActiveAllocator, dis_lists, device, it, loaded, submit>>

\* the active allocator has room: cmd_allocator_node::acquire, and create returns
TakeBuffer(t) ==
  LET a == Active(t)
      l == <<a, num_in_flight[a]>>
  IN  /\ pc[t] \in {"find", "block"}
      /\ ~IsFull(a)
      /\ num_in_flight' = [num_in_flight EXCEPT ![a] = @ + 1]
      /\ buf' = [buf EXCEPT ![l] = "live"]
      /\ it' = [it EXCEPT ![t] = 0]
      /\ IF submitter = t
         THEN Goto(t, "submit") /\ sub_lists' = sub_lists \union {l}
         ELSE Goto(t, "idle") /\ UNCHANGED sub_lists
      /\ UNCHANGED <<ring, num_discarded, num_pending_execution, latest_fence, mActiveAllocator,
                     pool_nodes, dis_lists, queue, target, loaded, submitter, sub_barriers,
                     sub_fence, sub_allocs, sub_noted, assertion>>

\* is_submit_counter_up_to_date loads two atomics, in an order the compiler chooses
LoadCounter(t) ==
  LET a == Active(t)
  IN  /\ pc[t] \in {"find", "block"}
      /\ IsFull(a)
      /\ \/ /\ disc[t] = NotLoaded
            /\ disc' = [disc EXCEPT ![t] = num_discarded[a]]
            /\ UNCHANGED pend
         \/ /\ pend[t] = NotLoaded
            /\ pend' = [pend EXCEPT ![t] = num_pending_execution[a]]
            /\ UNCHANGED disc
      /\ UNCHANGED <<ring, node, mActiveAllocator, pool_nodes, dis_lists, device, pc, target, it,
                     submit, assertion>>

Unload(t) == /\ disc' = [disc EXCEPT ![t] = NotLoaded]
             /\ pend' = [pend EXCEPT ![t] = NotLoaded]

Loaded(t) == disc[t] # NotLoaded /\ pend[t] # NotLoaded

CanReset_MutAnyBack(t) == disc[t] + pend[t] > 0

CanReset_MutSubmittedOnly(t) == num_in_flight[Active(t)] = pend[t]

CanReset(t) == num_in_flight[Active(t)] = disc[t] + pend[t]

FenceReady_MutIgnored(a) == TRUE

FenceReady_MutInverted(a) == ~signalled[latest_fence[a]]

FenceReady(a) == signalled[latest_fence[a]]

\* try_reset and try_reset_blocking, when they succeed; the blocking one waits for the fence
Reset(t) ==
  LET a == Active(t)
  IN  /\ pc[t] \in {"find", "block"}
      /\ IsFull(a) /\ Loaded(t) /\ CanReset(t)
      /\ IF num_pending_execution[a] > 0
         THEN /\ FenceReady(a)
              /\ ref_count' = [ref_count EXCEPT ![latest_fence[a]] = @ - 1]
              /\ latest_fence' = [latest_fence EXCEPT ![a] = NoFence]
         ELSE UNCHANGED <<ref_count, latest_fence>>
      \* do_reset
      /\ buf' = [l \in Lists |-> IF l[1] = a THEN "free" ELSE buf[l]]
      /\ num_in_flight' = [num_in_flight EXCEPT ![a] = 0]
      /\ num_discarded' = [num_discarded EXCEPT ![a] = 0]
      /\ num_pending_execution' = [num_pending_execution EXCEPT ![a] = 0]
      /\ Unload(t)
      /\ UNCHANGED <<mNextFence, signalled, mActiveAllocator, pool_nodes, dis_lists, queue, pc,
                     target, it, submit, assertion>>

\* updateActiveIndex: this allocator cannot be used now, try the next one; after a round of
\* try_reset comes a round of try_reset_blocking, after which nothing is left to try
NextAllocator(t) ==
  LET a    == Active(t)
      last == it[t] = NumAllocs - 1
  IN  /\ pc[t] \in {"find", "block"}
      /\ IsFull(a) /\ Loaded(t)
      /\ \/ ~CanReset(t)
         \/ pc[t] = "find" /\ num_pending_execution[a] > 0 /\ ~FenceReady(a)
      /\ mActiveAllocator' = [mActiveAllocator EXCEPT ![Bundle(t)] = WrappedIncrement(@, NumAllocs)]
      /\ it' = [it EXCEPT ![t] = IF last THEN 0 ELSE @ + 1]
      /\ Unload(t)
      /\ \/ ~last /\ UNCHANGED <<pc, assertion>>
         \/ last /\ pc[t] = "find" /\ Goto(t, "block") /\ UNCHANGED assertion
         \/ last /\ pc[t] = "block" /\ UNCHANGED pc
                 /\ Fail("all allocators overcommitted and unresettable")
      /\ UNCHANGED <<ring, node, pool_nodes, dis_lists, device, target, submit>>

-----------------------------------------------------------------------------
(* freeAndDiscard, on one list of the span it is given: any thread may     *)
(* discard any list that is not being submitted.  It holds mMutex, which   *)
(* keeps other discards and freeOnSubmit out, but not create.              *)

\* on_discard
Discard(t, l) ==
  /\ pc[t] = "idle"
  /\ dis_lists = {}
  /\ buf[l] = "live" /\ l \notin sub_lists
  /\ num_discarded' = [num_discarded EXCEPT ![l[1]] = @ + 1]
  /\ buf' = [buf EXCEPT ![l] = "discarded"]
  /\ dis_lists' = {l}
  /\ Goto(t, "release")
  /\ UNCHANGED <<ring, num_in_flight, num_pending_execution, latest_fence, mActiveAllocator,
                 pool_nodes, queue, target, it, loaded, submit, assertion>>

\* mPool.release
ReleaseNode(t) ==
  /\ pc[t] = "release"
  /\ pool_nodes' = pool_nodes - 1
  /\ dis_lists' = {}
  /\ Goto(t, "idle")
  /\ UNCHANGED <<ring, node, mActiveAllocator, device, target, it, loaded, submit, assertion>>

-----------------------------------------------------------------------------
(* BackendVulkan::submit, by one thread at a time.                         *)

\* the application calls submit: some lists recorded for q, by whichever threads, of which
\* n turn out to need a barrier-only list in front
SubmitBegin(t, q, cls, n) ==
  /\ submitter = NoThread /\ pc[t] = "idle"
  /\ \A l \in cls : buf[l] = "live" /\ l[1][2] = q
  /\ EmptySubmits \/ cls # {}
  /\ n <= Cardinality(cls)
  /\ Unsubmitted(<<t, q>>) + n <= MaxDangling
  /\ Cardinality(Unfinished) < MaxUnfinished
  /\ submitter' = t /\ sub_lists' = cls /\ sub_barriers' = n
  /\ target' = [target EXCEPT ![t] = q]
  /\ Goto(t, "submit")
  /\ UNCHANGED <<ring, node, mActiveAllocator, pool_nodes, dis_lists, device, it, loaded,
                 sub_fence, sub_allocs, sub_noted, assertion>>

\* one more of the lists needs barriers: a list of the submitting thread's own bundle
CreateBarrierList(t) ==
  /\ submitter = t /\ pc[t] = "submit"
  /\ sub_barriers > 0
  /\ sub_barriers' = sub_barriers - 1
  /\ AcquireNode(t)
  /\ UNCHANGED <<ring, node, mActiveAllocator, dis_lists, device, target, it, loaded, submitter,
                 sub_lists, sub_fence, sub_allocs, sub_noted>>

\* all lists are looked at: on to acquireFence
BarriersDone(t) ==
  /\ submitter = t /\ pc[t] = "submit"
  /\ sub_barriers = 0
  /\ Goto(t, "fence_ready")
  /\ UNCHANGED <<ring, node, mActiveAllocator, pool_nodes, dis_lists, device, target, it, loaded,
                 submit, assertion>>

Acquirable_MutUnchecked(t, f) == ref_count[f] = 0

\* what the first loop of acquireFence accepts, and what the second one does
Acquirable(t, f) ==
  /\ ref_count[f] = 0
  /\ pc[t] = "fence_ready" => signalled[f]

\* one iteration of acquireFence: take the fence at mNextFence ...
TakeFence(t) ==
  /\ submitter = t /\ pc[t] \in {"fence_ready", "fence_any"}
  /\ Acquirable(t, mNextFence)
  /\ signalled' = [signalled EXCEPT ![mNextFence] = FALSE]
  /\ ref_count' = [ref_count EXCEPT ![mNextFence] = 1]
  /\ mNextFence' = WrappedIncrement(mNextFence, NumFences)
  /\ sub_fence' = mNextFence
  /\ it' = [it EXCEPT ![t] = 0]
  /\ Goto(t, "queue_submit")
  /\ UNCHANGED <<node, mActiveAllocator, pool_nodes, dis_lists, device, target, loaded, submitter,
                 sub_lists, sub_barriers, sub_allocs, sub_noted, assertion>>

\* ... or go on; a first round wants a signalled fence, a second one takes any that is unreferenced
NextFence(t) ==
  LET last == it[t] = NumFences - 1
  IN  /\ submitter = t /\ pc[t] \in {"fence_ready", "fence_any"}
      /\ ~Acquirable(t, mNextFence)
      /\ mNextFence' = WrappedIncrement(mNextFence, NumFences)
      /\ it' = [it EXCEPT ![t] = IF last THEN 0 ELSE @ + 1]
      /\ \/ ~last /\ UNCHANGED <<pc, assertion>>
         \/ last /\ pc[t] = "fence_ready" /\ Goto(t, "fence_any") /\ UNCHANGED assertion
         \/ last /\ pc[t] = "fence_any" /\ UNCHANGED pc /\ Fail("Fence ringbuffer is full")
      /\ UNCHANGED <<ref_count, signalled, node, mActiveAllocator, pool_nodes, dis_lists, device,
                     target, loaded, submit>>

QueueSubmit(t) ==
  /\ submitter = t /\ pc[t] = "queue_submit"
  /\ queue' = [queue EXCEPT ![target[t]] = Append(@, [fence |-> sub_fence, lists |-> sub_lists])]
  /\ buf' = [l \in Lists |-> IF l \in sub_lists THEN "pending" ELSE buf[l]]
  /\ Goto(t, "gather")
  /\ UNCHANGED <<ring, node, mActiveAllocator, pool_nodes, dis_lists, target, it, loaded, submit,
                 assertion>>

\* the lists of the submit in progress that allocator a handed out
SubmittedBy(a) == {l \in sub_lists : l[1] = a}

AdditionalRefs_MutOffByOne(n) == IF n > 1 THEN n ELSE 0

\* the fence comes with one reference and each of n allocators will hold one
AdditionalRefs(n) == IF n > 1 THEN n - 1 ELSE 0

HandlesFreed_MutPerAllocator(allocs) == Cardinality(allocs)

HandlesFreed(allocs) == Cardinality(sub_lists)

EndSubmit(t) ==
  /\ submitter' = NoThread
  /\ sub_lists' = {} /\ sub_fence' = NoFence
  /\ sub_allocs' = {} /\ sub_noted' = {}
  /\ Goto(t, "idle")

\* freeOnSubmit up to the notifications: under mMutex free the handles and gather the allocators,
\* then make the fence's count of one into one per allocator.  Others see only that there is more
\* room in the pool, which they may as well see once all of the handles are free.
GatherAllocators(t) ==
  LET allocs == {l[1] : l \in sub_lists}
      n      == Cardinality(allocs)
  IN  /\ submitter = t /\ pc[t] = "gather"
      /\ dis_lists = {}
      /\ \/ /\ n > MaxUniqueAllocs
            /\ Fail("unique allocator map full")
            /\ UNCHANGED <<ref_count, pool_nodes, pc, submit>>
         \/ /\ n <= MaxUniqueAllocs
            /\ pool_nodes' = pool_nodes - HandlesFreed(allocs)
            /\ ref_count' = [ref_count EXCEPT ![sub_fence] = @ + AdditionalRefs(n)]
            /\ \/ n = 0 /\ EndSubmit(t)
               \/ /\ n > 0 /\ sub_allocs' = allocs /\ Goto(t, "notify")
                  /\ UNCHANGED <<submitter, sub_lists, sub_fence, sub_noted>>
            /\ UNCHANGED <<sub_barriers, assertion>>
      /\ UNCHANGED <<mNextFence, signalled, node, mActiveAllocator, dis_lists, device, target, it,
                     loaded>>

Released_MutKept(previous) == FALSE

\* does on_submit give up the reference to the fence it replaces?
Released(previous) == previous \notin {NoFence, sub_fence}

\* on_submit, first half: the allocator remembers the new fence and releases the previous one
ExchangeFence(t, a) ==
  /\ submitter = t /\ pc[t] = "notify"
  /\ a \in sub_allocs
  /\ latest_fence' = [latest_fence EXCEPT ![a] = sub_fence]
  /\ ref_count' = IF Released(latest_fence[a])
                  THEN [ref_count EXCEPT ![latest_fence[a]] = @ - 1]
                  ELSE ref_count
  /\ sub_allocs' = sub_allocs \ {a} /\ sub_noted' = {a}
  /\ Goto(t, "count")
  /\ UNCHANGED <<mNextFence, signalled, num_in_flight, num_discarded, num_pending_execution,
                 mActiveAllocator, pool_nodes, dis_lists, device, target, it, loaded, submitter,
                 sub_lists, sub_barriers, sub_fence, assertion>>

\* second half: count the submitted lists, which is what lets the owner reset the allocator
CountPending(t, a) ==
  /\ submitter = t /\ pc[t] = "count"
  /\ a \in sub_noted
  /\ num_pending_execution' = [num_pending_execution EXCEPT ![a] = @ + Cardinality(SubmittedBy(a))]
  /\ \/ sub_allocs = {} /\ EndSubmit(t)
     \/ /\ sub_allocs # {} /\ Goto(t, "notify")
        /\ sub_noted' = {} /\ sub_lists' = sub_lists \ SubmittedBy(a)
        /\ UNCHANGED <<submitter, sub_fence, sub_allocs>>
  /\ UNCHANGED <<ring, num_in_flight, num_discarded, latest_fence, mActiveAllocator, pool_nodes,
                 dis_lists, device, target, it, loaded, sub_barriers, assertion>>

-----------------------------------------------------------------------------
(* The GPU (external): a queue finishes its submissions in order, and the  *)
(* fence of one is signalled when it and all before it are finished.       *)
GpuComplete(q) ==
  /\ queue[q] # <<>>
  /\ buf' = [l \in Lists |-> IF l \in Head(queue[q]).lists /\ buf[l] = "pending"
                             THEN "executed" ELSE buf[l]]
  /\ signalled' = [signalled EXCEPT ![Head(queue[q]).fence] = TRUE]
  /\ queue' = [queue EXCEPT ![q] = Tail(@)]
  /\ UNCHANGED <<ref_count, mNextFence, node, mActiveAllocator, pool_nodes, dis_lists, pc, target,
                 it, loaded, submit, assertion>>

-----------------------------------------------------------------------------
(* BackendVulkan::destroy, then initialize: flushGPU waits for the device, *)
(* discardAndFreeAll consumes what leaked, every allocator does a last     *)
(* do_reset, and a new pool begins.                                        *)
Reinitialize ==
  /\ \A t \in Threads : pc[t] = "idle"
  /\ \A q \in Queues : queue[q] = <<>>
  /\ ref_count' = [f \in Fences |-> 0]
  /\ signalled' = [f \in Fences |-> TRUE]
  /\ mNextFence' = 0
  /\ num_in_flight' = [a \in Allocs |-> 0]
  /\ num_discarded' = [a \in Allocs |-> 0]
  /\ num_pending_execution' = [a \in Allocs |-> 0]
  /\ latest_fence' = [a \in Allocs |-> NoFence]
  /\ mActiveAllocator' = [b \in Bundles |-> 0]
  /\ pool_nodes' = 0
  /\ buf' = [l \in Lists |-> "free"]
  /\ UNCHANGED <<dis_lists, queue, pc, target, it, loaded, submit, assertion>>

-----------------------------------------------------------------------------
Create(t) == TakeBuffer(t) \/ LoadCounter(t) \/ Reset(t) \/ NextAllocator(t)

Submit(t) ==
  \/ CreateBarrierList(t) \/ BarriersDone(t)
  \/ TakeFence(t) \/ NextFence(t)
  \/ QueueSubmit(t) \/ GatherAllocators(t)
  \/ \E a \in Allocs : ExchangeFence(t, a) \/ CountPending(t, a)

\* what the application may do at any time
Application ==
  \/ \E t \in Threads, q \in Queues : RecordCommandList(t, q)
  \/ \E t \in Threads, l \in Lists : Discard(t, l)
  \/ \E t \in Threads, q \in Queues, cls \in SUBSET Lists, n \in 0 .. MaxBarrierLists :
        SubmitBegin(t, q, cls, n)
  \/ Reinitialize

Next ==
  /\ assertion = "none"
  /\ \/ Application
     \/ \E t \in Threads : Create(t) \/ Submit(t) \/ ReleaseNode(t)
     \/ \E q \in Queues : GpuComplete(q)

Spec == Init /\ [][Next]_vars

\* threads inside a call are scheduled, and the GPU makes progress; nobody has to call anything
Fairness ==
  /\ \A t \in Threads : WF_vars(assertion = "none" /\ (Create(t) \/ Submit(t) \/ ReleaseNode(t)))
  /\ \A q \in Queues : WF_vars(assertion = "none" /\ GpuComplete(q))

FairSpec == Spec /\ Fairness

-----------------------------------------------------------------------------
RingType ==
  /\ ref_count \in [Fences -> Int]
  /\ signalled \in [Fences -> BOOLEAN]
  /\ mNextFence \in Fences

NodeType ==
  /\ num_in_flight \in [Allocs -> 0 .. ListsPerAlloc]
  /\ num_discarded \in [Allocs -> Nat]
  /\ num_pending_execution \in [Allocs -> Nat]
  /\ latest_fence \in [Allocs -> Fences \union {NoFence}]
  /\ mActiveAllocator \in [Bundles -> 0 .. NumAllocs - 1]
  /\ pool_nodes \in Int
  /\ dis_lists \subseteq Lists

DeviceType ==
  /\ buf \in [Lists -> {"free", "live", "discarded", "pending", "executed"}]
  /\ queue \in [Queues -> Seq([fence : Fences, lists : SUBSET Lists])]

Points == {"idle", "find", "block", "release", "submit", "fence_ready", "fence_any",
           "queue_submit", "gather", "notify", "count"}

SubmitPoints == Points \ {"idle", "find", "block", "release"}

Assertions == {"command list pool full", "Fence ringbuffer is full",
               "all allocators overcommitted and unresettable", "unique allocator map full"}

ThreadType ==
  /\ pc \in [Threads -> Points]
  /\ target \in [Threads -> Queues]
  /\ it \in [Threads -> Nat]
  /\ disc \in [Threads -> Int]
  /\ pend \in [Threads -> Int]
  /\ assertion \in Assertions \union {"none"}

SubmitType ==
  /\ submitter \in Threads \union {NoThread}
  /\ sub_lists \subseteq Lists
  /\ sub_barriers \in Nat
  /\ sub_fence \in Fences \union {NoFence}
  /\ sub_allocs \subseteq Allocs
  /\ sub_noted \subseteq Allocs

\* Every variable has the type of the C++ member or local it stands for.
TypeOK == RingType /\ NodeType /\ DeviceType /\ ThreadType /\ SubmitType

-----------------------------------------------------------------------------
(* What each piece of bookkeeping means in terms of the others.            *)

ListsOf(a)      == {l \in Lists : l[1] = a}
Remembering(f)  == {a \in Allocs : latest_fence[a] = f}
Submitting(pcs) == submitter # NoThread /\ pc[submitter] \in pcs

\* the references to f that submit holds and has yet to hand to an allocator
Owed(f) ==
  IF sub_fence # f THEN 0
  ELSE IF Submitting({"queue_submit", "gather"}) THEN 1
  ELSE Cardinality(sub_allocs)

\* A fence's count is the number of allocators that remember it plus the references the submit
\* in progress still owes: none is released twice (cmd_list_pool.hh:57) and none leaks.
RefCountsExact ==
  \A f \in Fences : ref_count[f] = Cardinality(Remembering(f)) + Owed(f)

\* What makes it inductive: submit is exclusive, holds a fence from acquireFence to its end,
\* a fence nobody remembers yet, and, unless the application submits nothing, has a list to
\* hand that fence to.
SubmitExclusive == \A t \in Threads : pc[t] \in SubmitPoints => submitter = t

FenceHeld == sub_fence # NoFence <=> Submitting({"queue_submit", "gather", "notify", "count"})

FenceFresh ==
  sub_fence # NoFence =>
    \A a \in IF Submitting({"queue_submit", "gather"}) THEN Allocs ELSE sub_allocs :
       latest_fence[a] # sub_fence

ListsSubmitted ==
  submitter # NoThread /\ ~Submitting({"notify", "count"}) => sub_lists # {} \/ EmptySubmits

SubmitInv == TypeOK /\ SubmitExclusive /\ FenceHeld
RefInv    == SubmitInv /\ FenceFresh /\ ListsSubmitted /\ RefCountsExact

\* The three counters of an allocator agree with what became of its command buffers, although
\* they are written by the owner, by discarding threads and by the submitting one.
CountersExact ==
  \A a \in Allocs :
    /\ num_in_flight[a] = Cardinality({l \in ListsOf(a) : buf[l] # "free"})
    /\ num_discarded[a] = Cardinality({l \in ListsOf(a) : buf[l] = "discarded"})
    /\ num_pending_execution[a]
         = Cardinality({l \in ListsOf(a) : buf[l] \in {"pending", "executed"} /\ l \notin sub_lists})

\* Every node of the handle pool is a list that is alive, or one being created, or one that a
\* discard has counted or submit has queued and not yet freed: no path of discard or submit leaks a
\* handle, and what recordCommandList finds left in the pool, without a lock, is this and no more.
NoHandleLeak ==
  pool_nodes =
      Cardinality({l \in Lists : \/ buf[l] = "live"
                                \/ (Submitting({"gather"}) /\ l \in sub_lists)})
    + Cardinality(dis_lists)
    + Cardinality({t \in Threads : pc[t] \in {"find", "block"}})

\* What makes it inductive: one discard at a time, of one list.
DiscardExclusive ==
  /\ \A t, u \in Threads : pc[t] = "release" /\ pc[u] = "release" => t = u
  /\ dis_lists = {} <=> \A t \in Threads : pc[t] # "release"
  /\ \A l, m \in dis_lists : l = m

\* do_reset recycles a command buffer, and destroys the framebuffers it uses, only when the GPU
\* is done with it, submit is done with it, and the application gave it up: "guaranteeing that
\* all of them are no longer in flight" (cmd_list_pool.hh:150).
ResetOnlyWhenDone ==
  [][\A l \in Lists : buf'[l] = "free" =>
       /\ buf[l] # "pending"
       /\ l \notin sub_lists
       /\ buf[l] = "live" => \A t \in Threads : pc[t] = "idle"]_vars

\* The pool is a command list pool like D3D12's: the memory of an allocator is recycled at once,
\* and only when its lists are disposed of and the GPU has finished the submissions with them, of
\* which the allocator remembers but the latest (cmd_list_pool.hh:103).
Lifecycle ==
  INSTANCE CommandListLifecycle
    WITH Capacity   <- ListsPerAlloc,
         handed_out <- num_in_flight,
         open       <- [a \in Allocs |-> Cardinality({l \in ListsOf(a) : buf[l] = "live"})],
         executing  <- [a \in Allocs |-> Cardinality({s \in Unfinished :
                          ListsOf(a) \cap queue[s[1]][s[2]].lists # {}})]

Implements == Lifecycle!Spec

\* acquireFence resets a fence only if it is signalled: "resetting non-ready fences is not
\* allowed" (cmd_list_pool.cc:230).
OnlyReadyFencesReset ==
  [][\A f \in Fences : ref_count[f] = 0 /\ ref_count'[f] > 0 => signalled[f]]_vars

\* No CC_RUNTIME_ASSERT of the pool fires while the application keeps to MaxDangling and
\* MaxUnfinished: recording finds an allocator, submitting finds a fence.
NeverAsserts == assertion = "none"

\* The ring of fences is never exhausted, however far the GPU is behind.
RingNeverFull == assertion # "Fence ringbuffer is full"

\* What makes it inductive: while the second round of acquireFence lasts, a fence nobody
\* remembers lies between the index and the end of the round.
StepsTo(f) == IF f >= mNextFence THEN f - mNextFence ELSE f + NumFences - mNextFence

FenceAhead ==
  \A t \in Threads :
    pc[t] = "fence_any" =>
      \E f \in Fences : ref_count[f] = 0 /\ StepsTo(f) < NumFences - it[t]

RingInv == RefInv /\ FenceAhead /\ RingNeverFull

\* A call to recordCommandList gets its command buffer, if need be by waiting for the GPU.
RecordReturns ==
  \A t \in Threads : pc[t] \in {"find", "block"} ~> pc[t] \notin {"find", "block"}

=============================================================================
