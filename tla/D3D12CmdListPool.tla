--------------------------- MODULE D3D12CmdListPool ---------------------------
(***************************************************************************)
(* The D3D12 command list pool with the thread association in front of it: *)
(* BackendD3D12's recordCommandList, discard and submit, the allocators of *)
(* each thread component, and the queue they end up in.                    *)
(*                                                                         *)
(* Every allocator has a fence of its own.  Each of its lists that is      *)
(* submitted counts its submit counter up and then signals the fence with  *)
(* the count; the owner of the allocator compares the two.                 *)
(*                                                                         *)
(* The three queue types share nothing but the thread that submits, which  *)
(* sees to one at a time: this is one of them.  A thread waits only for    *)
(* the fence of an allocator it owns; that this is waiting for the value   *)
(* is what D3D12FenceWait shows for one waiting thread.                    *)
(*                                                                         *)
(* Every load and store that another thread can observe is a step of its   *)
(* own.  A failed assertion ends the process: it is recorded in            *)
(* "assertion" and nothing happens afterwards.                             *)
(*                                                                         *)
(* A definition whose name contains _Mut is a deliberately wrong variant   *)
(* of the one that follows it.  No behaviour uses it: substituting it must *)
(* break the property PROJECT.json names.                                  *)
(***************************************************************************)
EXTENDS ThreadAssociation, Sequences, FiniteSets

CONSTANTS
  NumThreads,    (* backend_config::num_threads                             *)
  NumAllocs,     (* allocators per bundle                                   *)
  ListsPerAlloc, (* command lists per allocator                             *)
  Nodes,         (* of the handle pool: one per command list                *)
  MaxLists,      (* lists a submit may be given, 32 in the code             *)
  MaxBarriers,   (* bound: barrier-only lists a submit may need             *)
  MaxDangling,   (* the application's: unsubmitted lists per bundle         *)
  MaxQueued,     (* bound: a submit begins with fewer operations queued     *)
  MaxSubmits,    (* bound: and with fewer submissions of any allocator      *)
  NoThread, NoNode, NoAlloc

Indices == 0 .. NumThreads - 1
Allocs  == Indices \X (0 .. NumAllocs - 1)

ASSUME SizesAssumption ==
  /\ NumThreads \in Nat
  /\ NumAllocs \in Nat \ {0}
  /\ ListsPerAlloc \in Nat \ {0}
  /\ IsFiniteSet(Nodes)
  /\ MaxLists \in Nat
ASSUME BoundsAssumption == {MaxBarriers, MaxDangling, MaxQueued, MaxSubmits} \subseteq Nat
ASSUME SentinelsAssumption ==
  NoThread \notin Threads /\ NoNode \notin Nodes /\ NoAlloc \notin Allocs

VARIABLES
  \* cmd_allocator_node, and the value of its fence
  submit_counter, submit_counter_at_last_reset, num_in_flight, num_discarded, full_and_waiting,
  fence,
  mActiveIndex,                      \* CommandAllocatorBundle
  life, responsible_allocator,       \* the nodes of CommandListPool: what is left of each list
  queue,                             \* ID3D12CommandQueue: what it has yet to do
  \* the threads: where each is, the node it creates or frees, how many allocators it has looked
  \* at, and the submits it has loaded
  pc, node, it, submits,
  \* locals of the submit in progress: the application's lists and the barrier-only ones, and
  \* how many of the latter are still to come
  submitter, sub_lists, sub_barriers, sub_needed,
  assertion

counters == <<submit_counter, submit_counter_at_last_reset, num_in_flight, num_discarded,
              full_and_waiting>>
pool     == <<life, responsible_allocator>>
submit   == <<submitter, sub_lists, sub_barriers, sub_needed>>
vars     == <<assoc, counters, fence, mActiveIndex, pool, queue, pc, node, it, submits, submit,
              assertion>>

Init ==
  /\ AssocInit
  /\ submit_counter = [a \in Allocs |-> 0]
  /\ submit_counter_at_last_reset = [a \in Allocs |-> 0]
  /\ num_in_flight = [a \in Allocs |-> 0]
  /\ num_discarded = [a \in Allocs |-> 0]
  /\ full_and_waiting = [a \in Allocs |-> FALSE]
  /\ fence = [a \in Allocs |-> 0]
  /\ mActiveIndex = [i \in Indices |-> 0]
  /\ life = [n \in Nodes |-> "free"]
  /\ responsible_allocator = [n \in Nodes |-> NoAlloc]
  /\ queue = <<>>
  /\ pc = [t \in Threads |-> "idle"]
  /\ node = [t \in Threads |-> NoNode]
  /\ it = [t \in Threads |-> 0]
  /\ submits = [t \in Threads |-> 0]
  /\ submitter = NoThread
  /\ sub_lists = {} /\ sub_barriers = {} /\ sub_needed = 0
  /\ assertion = "none"

-----------------------------------------------------------------------------
(* Shared vocabulary.                                                      *)

Goto(t, to) == pc' = [pc EXCEPT ![t] = to]
Fail(what)  == assertion' = what

\* the allocator the bundle of t is at
Active(t) == <<index[t], mActiveIndex[index[t]]>>

\* lists of allocator a that it has not seen submitted or discarded
Open(a) == {n \in Nodes : life[n] \in {"recorded", "queued"} /\ responsible_allocator[n] = a}

\* lists of bundle i that the application has not seen the end of
Dangling(i) ==
  {n \in Nodes : /\ life[n] \in {"recorded", "queued", "spent"}
                 /\ responsible_allocator[n] \in {i} \X (0 .. NumAllocs - 1)}

-----------------------------------------------------------------------------
(* CommandListPool::create, run by recordCommandList and, for barrier-only *)
(* lists, by submit.                                                       *)

\* a node of the pool comes first
AcquireNode(t) ==
  \/ /\ \A n \in Nodes : life[n] # "free"
     /\ Fail("command list pool full")
     /\ UNCHANGED <<life, pc, node>>
  \/ /\ \E n \in Nodes :
          /\ life[n] = "free"
          /\ life' = [life EXCEPT ![n] = "acquired"]
          /\ node' = [node EXCEPT ![t] = n]
     /\ Goto(t, "find")
     /\ UNCHANGED assertion

RecordCommandList(t) ==
  /\ pc[t] = "idle"
  /\ GetCurrentIndex(t)
  /\ \/ /\ CurrentIndex(t) >= NumThreads
        /\ Fail("more threads than configured")
        /\ UNCHANGED <<life, pc, node>>
     \/ /\ CurrentIndex(t) < NumThreads
        /\ Cardinality(Dangling(CurrentIndex(t))) < MaxDangling
        /\ AcquireNode(t)
  /\ UNCHANGED <<counters, fence, mActiveIndex, responsible_allocator, queue, it, submits, submit>>

IsLast_MutOneMore(a) == num_in_flight[a] = ListsPerAlloc

\* the list that acquire hands out fills the allocator
IsLast(a) == num_in_flight[a] + 1 = ListsPerAlloc

\* the active allocator has room: cmd_allocator_node::acquire, and create returns
TakeList(t) ==
  LET a == Active(t)
      n == node[t]
  IN  /\ pc[t] = "find"
      /\ ~full_and_waiting[a]
      /\ num_in_flight' = [num_in_flight EXCEPT ![a] = @ + 1]
      /\ full_and_waiting' = [full_and_waiting EXCEPT ![a] = IsLast(a)]
      /\ responsible_allocator' = [responsible_allocator EXCEPT ![n] = a]
      /\ life' = [life EXCEPT ![n] = "recorded"]
      /\ node' = [node EXCEPT ![t] = NoNode]
      /\ it' = [it EXCEPT ![t] = 0]
      /\ IF submitter = t
         THEN Goto(t, "submit") /\ sub_barriers' = sub_barriers \union {n}
         ELSE Goto(t, "idle") /\ UNCHANGED sub_barriers
      /\ UNCHANGED <<assoc, submit_counter, submit_counter_at_last_reset, num_discarded, fence,
                     mActiveIndex, queue, submits, submitter, sub_lists, sub_needed, assertion>>

\* is_submit_counter_up_to_date, its first load
LoadSubmits(t) ==
  LET a == Active(t)
  IN  /\ pc[t] = "find"
      /\ full_and_waiting[a]
      /\ submits' = [submits EXCEPT ![t] = submit_counter[a] - submit_counter_at_last_reset[a]]
      /\ Goto(t, "loaded")
      /\ UNCHANGED <<assoc, counters, fence, mActiveIndex, pool, queue, node, it, submit, assertion>>

\* updateActiveIndex: this allocator cannot be used now; one round of try_reset is followed by one
\* of try_reset_blocking, after which nothing is left to try
NextAllocator(t) ==
  /\ mActiveIndex' = [mActiveIndex EXCEPT ![index[t]] = (@ + 1) % NumAllocs]
  /\ it' = [it EXCEPT ![t] = @ + 1]
  /\ \/ it[t] + 1 < 2 * NumAllocs /\ Goto(t, "find") /\ UNCHANGED assertion
     \/ it[t] + 1 = 2 * NumAllocs /\ UNCHANGED pc
        /\ Fail("all allocators overcommitted and unresettable")

UpToDate_MutIgnoresDiscards(t, remaining) == submits[t] <= remaining

UpToDate(t, remaining) == submits[t] = remaining

\* its second load, and what becomes of can_reset
LoadDiscarded(t) ==
  LET a         == Active(t)
      remaining == num_in_flight[a] - num_discarded[a]
  IN  /\ pc[t] = "loaded"
      /\ \/ /\ submits[t] \notin 0 .. remaining
            /\ Fail("paranoia-tier")
            /\ UNCHANGED <<mActiveIndex, pc, it>>
         \/ /\ submits[t] \in 0 .. remaining /\ UpToDate(t, remaining)
            /\ Goto(t, IF it[t] < NumAllocs THEN "look" ELSE "wait")
            /\ UNCHANGED <<mActiveIndex, it, assertion>>
         \/ /\ submits[t] \in 0 .. remaining /\ ~UpToDate(t, remaining)
            /\ NextAllocator(t)
      /\ UNCHANGED <<assoc, counters, fence, pool, queue, node, submits, submit>>

DoReset_MutKeepsDiscards(t) ==
  LET a == Active(t)
  IN  /\ full_and_waiting' = [full_and_waiting EXCEPT ![a] = FALSE]
      /\ num_in_flight' = [num_in_flight EXCEPT ![a] = 0]
      /\ submit_counter_at_last_reset' = [submit_counter_at_last_reset EXCEPT ![a] = submit_counter[a]]
      /\ Goto(t, "find")
      /\ UNCHANGED <<num_discarded, mActiveIndex, it, assertion>>

\* do_reset; the active allocator then has room
DoReset(t) ==
  LET a == Active(t)
  IN  /\ full_and_waiting' = [full_and_waiting EXCEPT ![a] = FALSE]
      /\ num_in_flight' = [num_in_flight EXCEPT ![a] = 0]
      /\ num_discarded' = [num_discarded EXCEPT ![a] = 0]
      /\ submit_counter_at_last_reset' = [submit_counter_at_last_reset EXCEPT ![a] = submit_counter[a]]
      /\ Goto(t, "find")
      /\ UNCHANGED <<mActiveIndex, it, assertion>>

FenceReached_MutStarted(a) == fence[a] > 0

FenceReached(a) == fence[a] = submit_counter[a]

\* try_reset looks at the fence
LookAtFence(t) ==
  LET a == Active(t)
  IN  /\ pc[t] = "look"
      /\ \/ /\ fence[a] > submit_counter[a]
            /\ Fail("counter overflow")
            /\ UNCHANGED <<submit_counter_at_last_reset, num_in_flight, num_discarded,
                           full_and_waiting, mActiveIndex, pc, it>>
         \/ FenceReached(a) /\ DoReset(t)
         \/ /\ fence[a] < submit_counter[a] /\ ~FenceReached(a)
            /\ NextAllocator(t)
            /\ UNCHANGED <<submit_counter_at_last_reset, num_in_flight, num_discarded,
                           full_and_waiting>>
      /\ UNCHANGED <<assoc, submit_counter, fence, pool, queue, node, submits, submit>>

\* try_reset_blocking waits for it
WaitForFence(t) ==
  /\ pc[t] = "wait"
  /\ fence[Active(t)] >= submit_counter[Active(t)]
  /\ DoReset(t)
  /\ UNCHANGED <<assoc, submit_counter, fence, pool, queue, node, submits, submit>>

-----------------------------------------------------------------------------
(* freeOnDiscard, on one list of the span it is given: any thread may      *)
(* discard any list that is not being submitted.                           *)

\* on_discard
Discard(t, n) ==
  /\ pc[t] = "idle"
  /\ life[n] = "recorded" /\ n \notin sub_lists \union sub_barriers
  /\ num_discarded' = [num_discarded EXCEPT ![responsible_allocator[n]] = @ + 1]
  /\ life' = [life EXCEPT ![n] = "spent"]
  /\ node' = [node EXCEPT ![t] = n]
  /\ Goto(t, "release")
  /\ UNCHANGED <<assoc, submit_counter, submit_counter_at_last_reset, num_in_flight,
                 full_and_waiting, fence, mActiveIndex, responsible_allocator, queue, it, submits,
                 submit, assertion>>

\* unsafe_release_node, after on_discard or on_submit
ReleaseNode(t) ==
  /\ pc[t] = "release"
  /\ life' = [life EXCEPT ![node[t]] = "free"]
  /\ responsible_allocator' = [responsible_allocator EXCEPT ![node[t]] = NoAlloc]
  /\ node' = [node EXCEPT ![t] = NoNode]
  /\ Goto(t, IF submitter = t THEN "notify" ELSE "idle")
  /\ UNCHANGED <<assoc, counters, fence, mActiveIndex, queue, it, submits, submit, assertion>>

-----------------------------------------------------------------------------
(* BackendD3D12::submit, by one thread at a time.                          *)

\* the application calls submit, of whose lists, perhaps none, n need a barrier-only list in front
SubmitBegin(t, cls, n) ==
  /\ submitter = NoThread /\ pc[t] = "idle"
  /\ n <= Cardinality(cls)
  /\ \A l \in cls : life[l] = "recorded"
  /\ \A a \in Allocs : submit_counter[a] < MaxSubmits
  /\ Len(queue) < MaxQueued
  /\ \/ /\ Cardinality(cls) > MaxLists
        /\ Fail("too many commandlists submitted at once")
        /\ UNCHANGED <<assoc, pc, submit>>
     \/ /\ Cardinality(cls) <= MaxLists
        /\ GetCurrentIndex(t)
        /\ CurrentIndex(t) >= NumThreads
        /\ Fail("more threads than configured")
        /\ UNCHANGED <<pc, submit>>
     \/ /\ Cardinality(cls) <= MaxLists
        /\ GetCurrentIndex(t)
        /\ CurrentIndex(t) < NumThreads
        /\ Cardinality(Dangling(CurrentIndex(t))) + n <= MaxDangling
        /\ submitter' = t /\ sub_lists' = cls /\ sub_needed' = n
        /\ Goto(t, "submit")
        /\ UNCHANGED <<sub_barriers, assertion>>
  /\ UNCHANGED <<counters, fence, mActiveIndex, pool, queue, node, it, submits>>

\* one more of the lists needs barriers: a list of the submitting thread's own bundle
CreateBarrierList(t) ==
  /\ pc[t] = "submit"
  /\ sub_needed > 0
  /\ sub_needed' = sub_needed - 1
  /\ AcquireNode(t)
  /\ UNCHANGED <<assoc, counters, fence, mActiveIndex, responsible_allocator, queue, it, submits,
                 submitter, sub_lists, sub_barriers>>

Submitted == sub_lists \union sub_barriers

ExecuteCommandLists(t) ==
  /\ pc[t] = "submit"
  /\ sub_needed = 0
  /\ queue' = Append(queue, [op     |-> "execute",
                             allocs |-> {responsible_allocator[n] : n \in Submitted},
                             value  |-> 0])
  /\ life' = [n \in Nodes |-> IF n \in Submitted THEN "queued" ELSE life[n]]
  /\ Goto(t, "notify")
  /\ UNCHANGED <<assoc, counters, fence, mActiveIndex, responsible_allocator, node, it, submits,
                 submit, assertion>>

\* freeOnSubmit takes the barrier-only lists first
NextFreed == IF sub_barriers # {} THEN sub_barriers ELSE sub_lists

\* on_submit, first half: one more submission
CountSubmit(t, n) ==
  /\ pc[t] = "notify"
  /\ n \in NextFreed
  /\ submit_counter' = [submit_counter EXCEPT ![responsible_allocator[n]] = @ + 1]
  /\ life' = [life EXCEPT ![n] = "spent"]
  /\ node' = [node EXCEPT ![t] = n]
  /\ sub_barriers' = sub_barriers \ {n} /\ sub_lists' = sub_lists \ {n}
  /\ Goto(t, "signal")
  /\ UNCHANGED <<assoc, submit_counter_at_last_reset, num_in_flight, num_discarded,
                 full_and_waiting, fence, mActiveIndex, responsible_allocator, queue, it, submits,
                 submitter, sub_needed, assertion>>

SignalValue_MutBefore(a) == submit_counter[a] - 1
SignalValue_MutAfter(a) == submit_counter[a] + 1
SignalValue_MutSinceReset(a) == submit_counter[a] - submit_counter_at_last_reset[a]

SignalValue(a) == submit_counter[a]

\* second half: the fence is to follow
SignalGPU(t) ==
  LET a == responsible_allocator[node[t]]
  IN  /\ pc[t] = "signal"
      /\ queue' = Append(queue, [op |-> "signal", allocs |-> {a}, value |-> SignalValue(a)])
      /\ Goto(t, "release")
      /\ UNCHANGED <<assoc, counters, fence, mActiveIndex, pool, node, it, submits, submit,
                     assertion>>

SubmitEnd(t) ==
  /\ pc[t] = "notify"
  /\ Submitted = {}
  /\ submitter' = NoThread
  /\ Goto(t, "idle")
  /\ UNCHANGED <<assoc, counters, fence, mActiveIndex, pool, queue, node, it, submits, sub_lists,
                 sub_barriers, sub_needed, assertion>>

-----------------------------------------------------------------------------
(* The GPU (external): the queue does one operation after the other.       *)

FinishLists ==
  /\ queue # <<>> /\ Head(queue).op = "execute"
  /\ queue' = Tail(queue)
  /\ UNCHANGED <<assoc, counters, fence, mActiveIndex, pool, pc, node, it, submits, submit,
                 assertion>>

SignalFence ==
  /\ queue # <<>> /\ Head(queue).op = "signal"
  /\ fence' = [a \in Allocs |-> IF a \in Head(queue).allocs THEN Head(queue).value ELSE fence[a]]
  /\ queue' = Tail(queue)
  /\ UNCHANGED <<assoc, counters, mActiveIndex, pool, pc, node, it, submits, submit, assertion>>

-----------------------------------------------------------------------------
(* BackendD3D12::destroy, then initialize of another backend: flushGPU     *)
(* waits for the queue, and every allocator must be empty, or not full.    *)

\* what try_reset_blocking says of an allocator whose fence has been flushed
IsDestructible(a) ==
  \/ ~full_and_waiting[a]
  \/ submit_counter[a] - submit_counter_at_last_reset[a] = num_in_flight[a] - num_discarded[a]

ReplaceBackend ==
  /\ \A t \in Threads : pc[t] = "idle"
  /\ queue = <<>>
  /\ \/ /\ \A a \in Allocs : IsDestructible(a)
        /\ ReplaceAssociation
        /\ submit_counter' = [a \in Allocs |-> 0]
        /\ submit_counter_at_last_reset' = [a \in Allocs |-> 0]
        /\ num_in_flight' = [a \in Allocs |-> 0]
        /\ num_discarded' = [a \in Allocs |-> 0]
        /\ full_and_waiting' = [a \in Allocs |-> FALSE]
        /\ fence' = [a \in Allocs |-> 0]
        /\ mActiveIndex' = [i \in Indices |-> 0]
        /\ life' = [n \in Nodes |-> "free"]
        /\ responsible_allocator' = [n \in Nodes |-> NoAlloc]
        /\ UNCHANGED assertion
     \/ /\ \E a \in Allocs : ~IsDestructible(a)
        /\ Fail("reset_success")
        /\ UNCHANGED <<assoc, counters, fence, mActiveIndex, pool>>
  /\ UNCHANGED <<queue, pc, node, it, submits, submit>>

\* an OS thread ends, between two calls
ThreadReplaced(t) ==
  /\ pc[t] = "idle"
  /\ ThreadEnds(t)
  /\ UNCHANGED <<counters, fence, mActiveIndex, pool, queue, pc, node, it, submits, submit, assertion>>

-----------------------------------------------------------------------------
Create(t) ==
  TakeList(t) \/ LoadSubmits(t) \/ LoadDiscarded(t) \/ LookAtFence(t) \/ WaitForFence(t)

Submit(t) ==
  \/ CreateBarrierList(t) \/ ExecuteCommandLists(t)
  \/ \E n \in Nodes : CountSubmit(t, n)
  \/ SignalGPU(t) \/ SubmitEnd(t)

\* what the application may do at any time
Application ==
  \/ \E t \in Threads : RecordCommandList(t) \/ ThreadReplaced(t)
  \/ \E t \in Threads, n \in Nodes : Discard(t, n)
  \/ \E t \in Threads, cls \in SUBSET Nodes, n \in 0 .. MaxBarriers : SubmitBegin(t, cls, n)
  \/ ReplaceBackend

GPU == FinishLists \/ SignalFence

Next ==
  /\ assertion = "none"
  /\ \/ Application
     \/ \E t \in Threads : Create(t) \/ Submit(t) \/ ReleaseNode(t)
     \/ GPU

Spec == Init /\ [][Next]_vars

\* threads inside a call are scheduled, and the GPU makes progress; nobody has to call anything
Fairness ==
  /\ \A t \in Threads : WF_vars(assertion = "none" /\ (Create(t) \/ Submit(t) \/ ReleaseNode(t)))
  /\ WF_vars(assertion = "none" /\ GPU)

FairSpec == Spec /\ Fairness

-----------------------------------------------------------------------------
Points == {"idle", "find", "loaded", "look", "wait", "submit", "notify", "signal", "release"}

Assertions == {"command list pool full", "more threads than configured", "paranoia-tier",
               "counter overflow", "all allocators overcommitted and unresettable",
               "reset_success", "too many commandlists submitted at once"}

Operation == [op : {"execute", "signal"}, allocs : SUBSET Allocs, value : Nat]

\* Every variable has the type of the C++ member or local it stands for.
TypeOK ==
  /\ AssocType
  /\ submit_counter \in [Allocs -> Nat]
  /\ submit_counter_at_last_reset \in [Allocs -> Nat]
  /\ num_in_flight \in [Allocs -> 0 .. ListsPerAlloc]
  /\ num_discarded \in [Allocs -> Nat]
  /\ full_and_waiting \in [Allocs -> BOOLEAN]
  /\ fence \in [Allocs -> Nat]
  /\ mActiveIndex \in [Indices -> 0 .. NumAllocs - 1]
  /\ life \in [Nodes -> {"free", "acquired", "recorded", "queued", "spent"}]
  /\ responsible_allocator \in [Nodes -> Allocs \union {NoAlloc}]
  /\ queue \in Seq(Operation)
  /\ pc \in [Threads -> Points]
  /\ node \in [Threads -> Nodes \union {NoNode}]
  /\ it \in [Threads -> Nat]
  /\ submits \in [Threads -> Int]
  /\ submitter \in Threads \union {NoThread}
  /\ sub_lists \subseteq Nodes /\ sub_barriers \subseteq Nodes
  /\ sub_needed \in Nat
  /\ assertion \in Assertions \union {"none"}

\* Threads inside a call on the same backend have different components, and so different
\* allocators: what is said of "the owner" is said of one thread (BackendD3D12.cc:546).
OwnersDiffer ==
  \A t, u \in Threads :
    t # u /\ pc[t] \in {"find", "loaded", "look", "wait"} /\ pc[u] \in {"find", "loaded", "look", "wait"}
      => Active(t) # Active(u)

\* Whatever an allocator handed out since its last reset is open, or was counted as discarded or
\* as submitted, once: this is what is_submit_counter_up_to_date takes for granted.
CountersExact ==
  \A a \in Allocs :
    num_in_flight[a] = Cardinality(Open(a)) + num_discarded[a]
                        + submit_counter[a] - submit_counter_at_last_reset[a]

\* the queue's operations on behalf of a
Uses(a) == {i \in DOMAIN queue : a \in queue[i].allocs}
ExecutionsOf(a) == {i \in Uses(a) : queue[i].op = "execute"}
SignalsOf(a)    == {i \in Uses(a) : queue[i].op = "signal"}

\* The fence of an allocator counts its finished submissions: its signals are queued in the order
\* in which they were counted although counting and signalling are two steps, so it never goes
\* back, and never past what was counted (cmd_list_pool.hh:64); and whoever waits for it to catch up
\* with the count waits for a signal that is queued, or that submit is about to queue.
SignalsAscend ==
  \A a \in Allocs :
    /\ \A i \in SignalsOf(a) :
         /\ queue[i].value \in fence[a] + 1 .. submit_counter[a]
         /\ \A j \in SignalsOf(a) : i < j => queue[i].value < queue[j].value
    /\ \/ submit_counter[a] \in {fence[a]} \union {queue[i].value : i \in SignalsOf(a)}
       \/ \E t \in Threads : pc[t] = "signal" /\ responsible_allocator[node[t]] = a

\* do_reset recycles the memory of an allocator only when no list of it is open (those go with
\* their backend only) and none is on its way through the GPU: the comment at cmd_list_pool.cc:105
\* says that loading the two atomics one after the other "can only ever prevent resets, never
\* cause them too early".
ResetOnlyWhenDone ==
  [][\A a \in Allocs : num_in_flight'[a] < num_in_flight[a] =>
       /\ Uses(a) = {}
       /\ id' = id => Open(a) = {}]_vars

\* The assertions that only a mistake in the pool could break: the counters are consistent however
\* they are loaded, the fence is behind them, and an application that keeps to MaxDangling always
\* finds an allocator and a node.  Destroying the backend fails over leaked lists only.
NeverAsserts ==
  /\ assertion \in {"none", "more threads than configured", "reset_success",
                    "too many commandlists submitted at once"}
  /\ assertion = "reset_success" => \E a \in Allocs : Open(a) # {}

Lifecycle ==
  INSTANCE CommandListLifecycle
    WITH Capacity   <- ListsPerAlloc,
         handed_out <- num_in_flight,
         open       <- [a \in Allocs |-> Cardinality({n \in Open(a) : life[n] = "recorded"})],
         executing  <- [a \in Allocs |-> Cardinality(ExecutionsOf(a))]

\* The pool is a command list pool: the memory of an allocator is recycled at once, and only when
\* its lists are disposed of and the GPU has finished with them (cmd_list_pool.cc:94).
Implements == Lifecycle!Spec

\* A call to recordCommandList gets its list, if need be by waiting for the GPU.
RecordReturns ==
  \A t \in Threads : pc[t] = "find" ~> (pc[t] \in {"idle", "submit"} \/ assertion # "none")
=============================================================================
