----------------------------- MODULE PageAllocator -----------------------------
(***************************************************************************)
(* The page allocators behind a pool (common/page_allocator.hh): one for   *)
(* each of its heaps, and the mutex of the pool that keeps their users     *)
(* apart.  Of a block only the first page says how long it is: the others  *)
(* look like free ones, and are told apart by how the search steps.        *)
(*                                                                         *)
(* One iteration of the search is one step.  The pool reads the first page *)
(* of a block it owns at any time, without the mutex.  A failed assertion  *)
(* ends the process, and nothing happens afterwards.                       *)
(*                                                                         *)
(* A definition whose name contains _Mut is a deliberately wrong variant   *)
(* of the one that follows it.  No behaviour uses it: substituting it must *)
(* break the property PROJECT.json names.                                  *)
(***************************************************************************)
EXTENDS Integers

CONSTANTS
  Heaps,
  NumElements,  (* of each heap: what it can hold                            *)
  PageSize,     (* elements per page                                         *)
  Threads,
  NoHeap, NoThread

ASSUME HeapsAssumption ==
  /\ NoHeap \notin Heaps
  /\ NumElements \in [Heaps -> Nat]
  /\ PageSize \in Nat \ {0}
ASSUME ThreadsAssumption == NoThread \notin Threads

VARIABLES
  pages,                         \* _pages of each heap's allocator
  heap,                          \* the one whose allocate is running, or NoHeap: its locals ...
  num_pages, i, num_contiguous_free_pages,
  page,                          \* ... and what it returned, until the caller has it
  \* the pool around them: who holds its mutex, and the assertion that failed in it
  mMutex, assertion

alloc == <<pages, heap, num_pages, i, num_contiguous_free_pages, page>>

IntDivCeil(n, d) == (n + d - 1) \div d

NumPages == [h \in Heaps |-> IntDivCeil(NumElements[h], PageSize)]
PagesOf(h) == 0 .. NumPages[h] - 1

NoPage == -1

AllocInit ==
  /\ pages = [h \in Heaps |-> [p \in PagesOf(h) |-> 0]]
  /\ heap = NoHeap /\ num_pages = 0 /\ i = 0 /\ num_contiguous_free_pages = 0
  /\ page = NoPage

-----------------------------------------------------------------------------
(* allocate                                                                *)

Allocate(h, size) ==
  /\ heap = NoHeap
  /\ heap' = h
  /\ num_pages' = IntDivCeil(size, PageSize)
  /\ UNCHANGED <<pages, i, num_contiguous_free_pages, page>>

Return(p) ==
  /\ page' = p
  /\ heap' = NoHeap /\ num_pages' = 0 /\ i' = 0 /\ num_contiguous_free_pages' = 0

NextIndex_MutByOne(val) == i + 1
NextIndex_MutTooFar(val) == i + val + 1

\* the loop's own increment included
NextIndex(val) == i + (val - 1) + 1

\* an allocated block begins here
SkipBlock ==
  /\ heap # NoHeap
  /\ i \in PagesOf(heap) /\ pages[heap][i] > 0
  /\ i' = NextIndex(pages[heap][i])
  /\ num_contiguous_free_pages' = 0
  /\ UNCHANGED <<pages, heap, num_pages, page>>

FreePage ==
  /\ heap # NoHeap
  /\ i \in PagesOf(heap) /\ pages[heap][i] <= 0
  /\ num_contiguous_free_pages + 1 # num_pages
  /\ num_contiguous_free_pages' = num_contiguous_free_pages + 1
  /\ i' = i + 1
  /\ UNCHANGED <<pages, heap, num_pages, page>>

\* the last of as many free pages as are needed
TakeBlock ==
  LET allocation_start == i - (num_pages - 1)
  IN  /\ heap # NoHeap
      /\ i \in PagesOf(heap) /\ pages[heap][i] <= 0
      /\ num_contiguous_free_pages + 1 = num_pages
      /\ pages' = [pages EXCEPT ![heap][allocation_start] = num_pages]
      /\ Return(allocation_start)

NoBlock ==
  /\ heap # NoHeap
  /\ i >= NumPages[heap]
  /\ Return(NoPage)
  /\ UNCHANGED pages

Taken ==
  /\ heap = NoHeap
  /\ page' = NoPage
  /\ UNCHANGED <<pages, heap, num_pages, i, num_contiguous_free_pages>>

Search == SkipBlock \/ FreePage \/ TakeBlock \/ NoBlock

\* free: the heaps' pages when block p of h is given back
Freed(pgs, h, p) == IF p >= 0 THEN [pgs EXCEPT ![h][p] = 0] ELSE pgs

Free(h, p) ==
  /\ heap = NoHeap
  /\ pages' = Freed(pages, h, p)
  /\ UNCHANGED <<heap, num_pages, i, num_contiguous_free_pages, page>>

-----------------------------------------------------------------------------
(* What a pool may do with its allocators while it holds its mutex: it     *)
(* asks one for something, waits for the answer, or gives back blocks, of  *)
(* one heap or of several.                                                 *)

Blocks(h) == {p \in PagesOf(h) : pages[h][p] > 0}

GiveBack ==
  /\ heap = NoHeap
  /\ pages' = [h \in Heaps |-> pages'[h]]
  /\ \A h \in Heaps : \E given \in SUBSET PagesOf(h) :
       pages'[h] = [p \in PagesOf(h) |-> IF p \in given THEN 0 ELSE pages[h][p]]
  /\ UNCHANGED <<heap, num_pages, i, num_contiguous_free_pages, page>>

AllocNext ==
  \/ \E h \in Heaps, size \in Nat \ {0} : Allocate(h, size)
  \/ Search
  \/ Taken
  \/ GiveBack

AllocSpec == AllocInit /\ [][AllocNext]_alloc

-----------------------------------------------------------------------------
AllocType ==
  /\ pages = [h \in Heaps |-> pages[h]]
  /\ \A h \in Heaps : pages[h] \in [PagesOf(h) -> Nat]
  /\ heap \in Heaps \union {NoHeap}
  /\ num_pages \in Nat /\ i \in Nat /\ num_contiguous_free_pages \in Nat
  /\ page \in Nat \union {NoPage}

\* The blocks of a heap lie within it and apart from each other: a page in a block, other than its
\* first, looks free (page_allocator.hh:73-75).  They keep within the elements the heap was created with,
\* too, if their number is a multiple of the page size (query_pool.hh:31, shader_view_pool.cc:18).
BlocksApart ==
  \A h \in Heaps : \A p \in Blocks(h) :
    /\ p + pages[h][p] <= NumPages[h]
    /\ NumElements[h] % PageSize = 0 => (p + pages[h][p]) * PageSize <= NumElements[h]
    /\ \A q \in Blocks(h) : p < q => p + pages[h][p] <= q

\* What is handed out is the lowest block that is long enough, and nothing only if there is none:
\* skipping whole blocks passes over no free page.
LowestFit ==
  INSTANCE FirstFit
    WITH Size   <- NumPages,
         blocks <- [h \in Heaps |-> {[first |-> p, count |-> pages[h][p]] : p \in Blocks(h)}],
         asked  <- heap, count <- num_pages, answer <- page

FindsLowest == LowestFit!Spec

=============================================================================
