---------------------------- MODULE ShaderViewPool ----------------------------
(***************************************************************************)
(* The pool of shader views of the D3D12 backend: a view is a node of a    *)
(* pool and a block of descriptors in each of two heaps.  The blocks are   *)
(* allocated and freed under the mutex of the pool, the nodes outside it.  *)
(***************************************************************************)
EXTENDS PageAllocator, Sequences

CONSTANTS
  Views,            (* the nodes of mPool: max_num_shader_views many         *)
  SRVUAV, SAMPLER,
  SRVCounts, SamplerCounts   (* bound: how many descriptors a view has    *)

ASSUME ViewHeapsAssumption == {SRVUAV, SAMPLER} \subseteq Heaps /\ SRVUAV # SAMPLER
ASSUME ViewBoundsAssumption == SRVCounts \subseteq Nat /\ SamplerCounts \subseteq Nat

VARIABLES
  views,       \* the nodes: free, or what each heap has given, and how much it was asked for
  pc,          \* where each thread is
  new, todo,   \* the view it creates, and the heaps it has yet to ask
  freed        \* the views it frees

viewvars == <<alloc, mMutex, assertion, views, pc, new, todo, freed>>

ViewHeaps == {SRVUAV, SAMPLER}
Sizes     == {s \in [ViewHeaps -> SRVCounts \union SamplerCounts] :
                s[SRVUAV] \in SRVCounts /\ s[SAMPLER] \in SamplerCounts}

View(state, size) == [state |-> state, size |-> size, handle |-> [h \in ViewHeaps |-> NoPage]]
FreeNode == View("free", [h \in ViewHeaps |-> 0])

ViewInit ==
  /\ AllocInit /\ mMutex = NoThread /\ assertion = "none"
  /\ views = [v \in Views |-> FreeNode]
  /\ pc = [t \in Threads |-> "idle"]
  /\ new = [t \in Threads |-> FreeNode]
  /\ todo = [t \in Threads |-> <<>>]
  /\ freed = [t \in Threads |-> {}]

Goto(t, to) == pc' = [pc EXCEPT ![t] = to]
Fail(what)  == assertion' = what

IsFull == \A v \in Views : views[v].state # "free"

-----------------------------------------------------------------------------
(* createEmpty, which create calls before it writes the descriptors.       *)

\* the heaps that are asked for something: DescriptorPageAllocator::allocate of nothing returns -1
HeapsToAsk(size) ==
  (IF size[SRVUAV] > 0 THEN <<SRVUAV>> ELSE <<>>) \o (IF size[SAMPLER] > 0 THEN <<SAMPLER>> ELSE <<>>)

CreateEmpty(t, size) ==
  /\ pc[t] = "idle" /\ mMutex = NoThread
  /\ mMutex' = t
  /\ new' = [new EXCEPT ![t] = View("new", size)]
  /\ todo' = [todo EXCEPT ![t] = HeapsToAsk(size)]
  /\ Goto(t, "allocate")
  /\ UNCHANGED <<alloc, assertion, views, freed>>

AllocateBlock(t) ==
  /\ pc[t] = "allocate" /\ todo[t] # <<>>
  /\ Allocate(Head(todo[t]), new[t].size[Head(todo[t])])
  /\ Goto(t, "search")
  /\ UNCHANGED <<mMutex, assertion, views, new, todo, freed>>

SearchBlock ==
  /\ Search
  /\ UNCHANGED <<mMutex, assertion, views, pc, new, todo, freed>>

AllocateReturns(t) ==
  /\ pc[t] = "search" /\ heap = NoHeap
  /\ \/ /\ page = NoPage
        /\ Fail("DescriptorPageAllocator overcommitted")
        /\ UNCHANGED <<alloc, new, todo, pc>>
     \/ /\ page # NoPage /\ Taken
        /\ new' = [new EXCEPT ![t].handle[Head(todo[t])] = page]
        /\ todo' = [todo EXCEPT ![t] = Tail(@)]
        /\ Goto(t, "allocate")
        /\ UNCHANGED assertion
  /\ UNCHANGED <<mMutex, views, freed>>

Unlock(t) ==
  /\ pc[t] = "allocate" /\ todo[t] = <<>>
  /\ mMutex' = NoThread
  /\ Goto(t, "check")
  /\ UNCHANGED <<alloc, assertion, views, new, todo, freed>>

CheckRoom(t) ==
  /\ pc[t] = "check"
  /\ \/ IsFull /\ Fail("Reached limit for shader_views") /\ UNCHANGED pc
     \/ ~IsFull /\ Goto(t, "acquire") /\ UNCHANGED assertion
  /\ UNCHANGED <<alloc, mMutex, views, new, todo, freed>>

\* the room there was may be taken by now
AcquireNode(t) ==
  /\ pc[t] = "acquire"
  /\ \/ IsFull /\ Fail("atomic_linked_pool is full") /\ UNCHANGED <<views, new, pc>>
     \/ /\ \E v \in Views :
             /\ views[v].state = "free"
             /\ views' = [views EXCEPT ![v] = [new[t] EXCEPT !.state = "live"]]
        /\ new' = [new EXCEPT ![t] = FreeNode]
        /\ Goto(t, "idle")
        /\ UNCHANGED assertion
  /\ UNCHANGED <<alloc, mMutex, todo, freed>>

-----------------------------------------------------------------------------
(* free, of one view or of a span of them.                                 *)

\* the application frees views that are alive, once
BeginFree(t, vs, to) ==
  /\ pc[t] = "idle"
  /\ \A v \in vs : views[v].state = "live"
  /\ views' = [v \in Views |-> IF v \in vs THEN [views[v] EXCEPT !.state = "doomed"] ELSE views[v]]
  /\ freed' = [freed EXCEPT ![t] = vs]
  /\ Goto(t, to)
  /\ UNCHANGED <<alloc, assertion, new, todo>>

FreeView(t, v)  == BeginFree(t, {v}, "free") /\ UNCHANGED mMutex
FreeSpan(t, vs) == BeginFree(t, vs, "span") /\ mMutex = NoThread /\ mMutex' = t

FreeBlocks_MutFirstHeapOnly(v) ==
  /\ pages' = Freed(pages, SRVUAV, views[v].handle[SRVUAV])
  /\ UNCHANGED <<heap, num_pages, i, num_contiguous_free_pages, page>>

\* both blocks of the view go back
FreeBlocks(v) ==
  /\ pages' = Freed(Freed(pages, SRVUAV, views[v].handle[SRVUAV]),
                    SAMPLER, views[v].handle[SAMPLER])
  /\ UNCHANGED <<heap, num_pages, i, num_contiguous_free_pages, page>>

\* one view: its blocks under the mutex, its node after that
FreeViewBlocks(t) ==
  /\ pc[t] = "free" /\ mMutex = NoThread
  /\ \E v \in freed[t] :
       /\ FreeBlocks(v)
       /\ views' = [views EXCEPT ![v].state = "spent"]
  /\ Goto(t, "release")
  /\ UNCHANGED <<mMutex, assertion, new, todo, freed>>

ReleaseNode(t) ==
  /\ pc[t] = "release"
  /\ views' = [v \in Views |-> IF v \in freed[t] THEN FreeNode ELSE views[v]]
  /\ freed' = [freed EXCEPT ![t] = {}]
  /\ Goto(t, "idle")
  /\ UNCHANGED <<alloc, mMutex, assertion, new, todo>>

\* a span: everything under the mutex, view by view
FreeNext(t) ==
  /\ pc[t] = "span"
  /\ \E v \in freed[t] :
       /\ FreeBlocks(v)
       /\ views' = [views EXCEPT ![v] = FreeNode]
       /\ freed' = [freed EXCEPT ![t] = @ \ {v}]
  /\ UNCHANGED <<mMutex, assertion, pc, new, todo>>

SpanEnds(t) ==
  /\ pc[t] = "span" /\ freed[t] = {}
  /\ mMutex' = NoThread
  /\ Goto(t, "idle")
  /\ UNCHANGED <<alloc, assertion, views, new, todo, freed>>

-----------------------------------------------------------------------------
ViewCall(t) ==
  \/ AllocateBlock(t) \/ AllocateReturns(t) \/ Unlock(t) \/ CheckRoom(t) \/ AcquireNode(t)
  \/ FreeViewBlocks(t) \/ ReleaseNode(t) \/ FreeNext(t) \/ SpanEnds(t)

ViewNext ==
  /\ assertion = "none"
  /\ \/ \E t \in Threads, size \in Sizes : CreateEmpty(t, size)
     \/ \E t \in Threads, v \in Views : FreeView(t, v)
     \/ \E t \in Threads, vs \in SUBSET Views : FreeSpan(t, vs)
     \/ SearchBlock
     \/ \E t \in Threads : ViewCall(t)

ViewSpec == ViewInit /\ [][ViewNext]_viewvars

\* a call that has begun goes on
ViewFairness ==
  /\ WF_viewvars(assertion = "none" /\ SearchBlock)
  /\ \A t \in Threads : WF_viewvars(assertion = "none" /\ ViewCall(t))

-----------------------------------------------------------------------------
ViewType ==
  /\ mMutex \in Threads \union {NoThread}
  /\ views \in [Views -> [state  : {"free", "live", "doomed", "spent"},
                          size   : [ViewHeaps -> Nat],
                          handle : [ViewHeaps -> Nat \union {NoPage}]]]
  /\ pc \in [Threads -> {"idle", "allocate", "search", "check", "acquire", "free", "release", "span"}]
  /\ new \in [Threads -> [state  : {"free", "new"},
                          size   : [ViewHeaps -> Nat],
                          handle : [ViewHeaps -> Nat \union {NoPage}]]]
  /\ todo \in [Threads -> Seq(ViewHeaps)]
  /\ freed \in [Threads -> SUBSET Views]

\* what has a block of heap h: views, and calls about to create one
OwnersOf(h) ==
  {<<"view", v>> : v \in {v \in Views : views[v].state \in {"live", "doomed"} /\ views[v].handle[h] # NoPage}}
    \union
  {<<"call", t>> : t \in {t \in Threads : new[t].handle[h] # NoPage}}

Owner(o) == IF o[1] = "view" THEN views[o[2]] ELSE new[o[2]]

\* The block the search has found and not yet returned.
Found(h) == IF \E t \in Threads : pc[t] = "search" /\ heap = NoHeap /\ Head(todo[t]) = h
            THEN {page} \ {NoPage} ELSE {}

\* Every block of descriptors belongs to one view, or to the call that is about to create one, and
\* is as long as it was asked for: no order of creating and freeing leaks a block, or leaves two
\* views with one, although nodes are taken and released outside the mutex (shader_view_pool.cc:44-55, 170-176).
BlocksOwned ==
  \A h \in ViewHeaps :
    /\ \A o \in OwnersOf(h) :
         /\ Owner(o).handle[h] \in Blocks(h) \ Found(h)
         /\ pages[h][Owner(o).handle[h]] * PageSize >= Owner(o).size[h]
    /\ \A o, p \in OwnersOf(h) : Owner(o).handle[h] = Owner(p).handle[h] => o = p
    /\ Blocks(h) = {Owner(o).handle[h] : o \in OwnersOf(h)} \union Found(h)
=============================================================================
