------------------------------- MODULE QueryPool -------------------------------
(***************************************************************************)
(* The pool of query ranges, which is the same in both backends: a heap of *)
(* pages for each type of query, and handles that carry the type in their  *)
(* number.                                                                 *)
(***************************************************************************)
EXTENDS PageAllocator

CONSTANTS
  QueryTypes,     (* 0 .. 2: timestamp, occlusion, pipeline_stats            *)
  HeapOf,         (* the heap of each type                                   *)
  IndexStep,      (* mcIndexOffsetStep: a million                            *)
  WordSize,       (* of a handle: 2^32                                       *)
  QueryCounts     (* bound: how many queries a range has                     *)

ASSUME QueryTypesAssumption ==
  /\ QueryTypes = 0 .. 2
  /\ HeapOf \in [QueryTypes -> Heaps]
  /\ \A a, b \in QueryTypes : a # b => HeapOf[a] # HeapOf[b]
  \* what initialize asserts
  /\ IndexStep \in Nat /\ \A q \in QueryTypes : NumElements[HeapOf[q]] < IndexStep
  /\ WordSize \in Nat /\ WordSize > 6 * IndexStep
  /\ QueryCounts \subseteq Nat

VARIABLES
  ranges,      \* those the application has: the value of the handle, and what it asked for
  wanted       \* what the call of create in progress was asked for

rangevars == <<alloc, mMutex, assertion, ranges, wanted>>

NoRange == [type |-> 0, size |-> 0]

RangeInit ==
  /\ AllocInit /\ mMutex = NoThread /\ assertion = "none"
  /\ ranges = {} /\ wanted = NoRange

\* conversion to unsigned, and back
Unsigned(n) == n % WordSize
Signed(n)   == IF n < WordSize \div 2 THEN n ELSE n - WordSize

IndexToHandle_MutSigned(index, type) == index + IndexStep * type

IndexToHandle(index, type) == Unsigned(index + IndexStep * type)

HandleToQueryType_MutAbove(value) ==
  IF value > IndexStep * 2 THEN 2 ELSE IF value > IndexStep THEN 1 ELSE 0

HandleToQueryType(value) ==
  IF value >= IndexStep * 2 THEN 2 ELSE IF value >= IndexStep THEN 1 ELSE 0

HandleToIndex(value, type) == Signed(Unsigned(value - IndexStep * type))

-----------------------------------------------------------------------------
\* the handle goes to the application; those of no queries at all are alike
Created(index, w) ==
  ranges' = ranges \union {[value |-> IndexToHandle(index, w.type), type |-> w.type, size |-> w.size]}

CreateRange(t, type, size) ==
  /\ mMutex = NoThread
  /\ LET w == [type |-> type, size |-> size]
     IN  \/ size = 0 /\ Created(NoPage, w) /\ UNCHANGED <<alloc, mMutex, wanted>>
         \/ /\ size > 0 /\ Allocate(HeapOf[type], size)
            /\ wanted' = w /\ mMutex' = t
            /\ UNCHANGED ranges
  /\ UNCHANGED assertion

SearchRange ==
  /\ Search
  /\ UNCHANGED <<mMutex, assertion, ranges, wanted>>

CreateReturns(t) ==
  /\ mMutex = t /\ heap = NoHeap
  /\ \/ /\ page = NoPage
        /\ assertion' = "QueryPageAllocator overcommited"
        /\ UNCHANGED <<alloc, mMutex, ranges, wanted>>
     \/ /\ page # NoPage /\ Taken
        /\ Created(page, wanted)
        /\ wanted' = NoRange
        /\ mMutex' = NoThread
        /\ UNCHANGED assertion

FreeRange(r) ==
  LET type == HandleToQueryType(r.value)
      p    == HandleToIndex(r.value, type)
  IN  /\ mMutex = NoThread
      /\ ranges' = ranges \ {r}
      /\ \/ p < NumPages[HeapOf[type]] /\ Free(HeapOf[type], p) /\ UNCHANGED assertion
         \/ /\ p >= NumPages[HeapOf[type]]
            /\ assertion' = "_pages: index out of bounds"
            /\ UNCHANGED alloc
      /\ UNCHANGED <<mMutex, wanted>>

-----------------------------------------------------------------------------
RangeNext ==
  /\ assertion = "none"
  /\ \/ \E t \in Threads, type \in QueryTypes, size \in QueryCounts : CreateRange(t, type, size)
     \/ SearchRange
     \/ \E t \in Threads : CreateReturns(t)
     \/ \E r \in ranges : FreeRange(r)

RangeSpec == RangeInit /\ [][RangeNext]_rangevars

RangeFairness ==
  /\ WF_rangevars(assertion = "none" /\ SearchRange)
  /\ \A t \in Threads : WF_rangevars(assertion = "none" /\ CreateReturns(t))

-----------------------------------------------------------------------------
RangeType ==
  /\ mMutex \in Threads \union {NoThread}
  /\ ranges \subseteq [value : 0 .. WordSize - 1, type : QueryTypes, size : Nat]
  /\ wanted \in [type : QueryTypes, size : Nat]

\* the block of a range that is not empty
BlockOf(r) == <<HeapOf[HandleToQueryType(r.value)], HandleToIndex(r.value, HandleToQueryType(r.value))>>

FullRanges == {r \in ranges : r.size > 0}

\* A handle names the block its range was given, in the heap of its type, whatever the other
\* handles are: nothing is leaked, nothing belongs to two ranges, and a handle of no queries,
\* which names a page of another type, frees nobody else's block (query_pool.cc:7, 14).
RangesOwned ==
  /\ \A r \in FullRanges :
       /\ HandleToQueryType(r.value) = r.type
       /\ BlockOf(r)[2] \in Blocks(HeapOf[r.type])
       /\ pages[HeapOf[r.type]][BlockOf(r)[2]] * PageSize >= r.size
  /\ \A r, s \in FullRanges : BlockOf(r) = BlockOf(s) => r = s
  /\ \A q \in QueryTypes : \A p \in Blocks(HeapOf[q]) :
       \/ <<HeapOf[q], p>> \in {BlockOf(r) : r \in FullRanges}
       \/ mMutex # NoThread /\ heap = NoHeap /\ page = p /\ wanted.type = q

=============================================================================
