------------------------- MODULE PageAllocator_proofs -------------------------
(* That a page allocator hands out blocks apart from each other, always    *)
(* the lowest that is long enough, for heaps and pages of any size.        *)
EXTENDS PageAllocator, TLAPS

-----------------------------------------------------------------------------
(* Pages and elements                                                      *)

LEMMA DivCeil ==
  ASSUME NEW n \in Nat, NEW d \in Nat \ {0}
  PROVE  /\ IntDivCeil(n, d) \in Nat
         /\ n > 0 => IntDivCeil(n, d) > 0
         /\ n % d = 0 => IntDivCeil(n, d) * d = n
<1> DEFINE q == (n + d - 1) \div d
           r == (n + d - 1) % d
<1>1. n + d - 1 \in Nat
  OBVIOUS
<1>2. q \in Int /\ r \in 0 .. d - 1 /\ n + d - 1 = d * q + r
  BY <1>1
<1>3. q >= 0
  BY <1>1
<1>4. n > 0 => q > 0
  <2> SUFFICES ASSUME n > 0, q = 0 PROVE FALSE
    BY <1>2, <1>3
  <2> QED
    BY <1>2
<1>5. n % d = 0 => q * d = n
  <2> SUFFICES ASSUME n % d = 0 PROVE q * d = n
    OBVIOUS
  <2>1. n \div d \in Int /\ n = d * (n \div d)
    OBVIOUS
  <2>2. PICK m \in Int : n = d * m
    BY <2>1
  <2>3. d * (q - m) = d - 1 - r
    BY <1>2, <2>2
  <2>4. q - m = 0
    <3>1. q - m >= 1 => d * (q - m) >= d
      BY <1>2
    <3>2. q - m <= -1 => d * (q - m) <= -d
      BY <1>2
    <3> QED
      BY <1>2, <2>3, <3>1, <3>2
  <2> QED
    BY <1>2, <2>2, <2>4
<1> QED
  BY <1>2, <1>3, <1>4, <1>5 DEF IntDivCeil

LEMMA PagesType ==
  /\ NumPages \in [Heaps -> Nat]
  /\ \A h \in Heaps : PagesOf(h) = 0 .. NumPages[h] - 1
  BY HeapsAssumption, DivCeil DEF NumPages, PagesOf

-----------------------------------------------------------------------------
(* Blocks                                                                  *)

Apart ==
  \A h \in Heaps : \A p \in Blocks(h) :
    /\ p + pages[h][p] <= NumPages[h]
    /\ \A q \in Blocks(h) : p < q => p + pages[h][p] <= q

\* The search never stops inside a block, and the pages it has counted are the free ones before it.
SearchRight ==
  IF heap = NoHeap
  THEN i = 0 /\ num_contiguous_free_pages = 0
  ELSE /\ num_contiguous_free_pages < num_pages
       /\ num_contiguous_free_pages <= i
       /\ \A p \in Blocks(heap) : p < i => p + pages[heap][p] <= i - num_contiguous_free_pages

AllocInv == AllocType /\ Apart /\ SearchRight

LEMMA BlockFacts ==
  ASSUME AllocType, NEW h \in Heaps
  PROVE  /\ NumPages[h] \in Nat
         /\ pages[h] \in [PagesOf(h) -> Nat]
         /\ \A p : p \in Blocks(h) <=> p \in 0 .. NumPages[h] - 1 /\ pages[h][p] > 0
         /\ \A p \in Blocks(h) : p \in Nat /\ pages[h][p] \in Nat \ {0}
  BY PagesType DEF AllocType, Blocks

LEMMA AllocTypeKept == AllocInv /\ [AllocNext]_alloc => AllocType'
<1> SUFFICES ASSUME AllocInv, [AllocNext]_alloc PROVE AllocType'
  OBVIOUS
<1> USE DEF AllocInv, SearchRight
<1>1. ASSUME NEW h \in Heaps, NEW size \in Nat \ {0}, Allocate(h, size) PROVE AllocType'
  BY <1>1, HeapsAssumption, DivCeil DEF Allocate, AllocType
<1>2. CASE SkipBlock
  <2>1. i \in PagesOf(heap) /\ heap \in Heaps /\ pages[heap] \in [PagesOf(heap) -> Nat]
    BY <1>2 DEF SkipBlock, AllocType
  <2>2. i' \in Nat
    BY <1>2, <2>1 DEF SkipBlock, NextIndex, AllocType
  <2> QED
    BY <1>2, <2>2 DEF SkipBlock, AllocType
<1>3. CASE FreePage
  BY <1>3 DEF FreePage, AllocType
<1>4. CASE TakeBlock
  <2> DEFINE start == i - (num_pages - 1)
  <2>1. /\ heap \in Heaps /\ num_pages \in Nat /\ i \in PagesOf(heap) /\ i \in Nat
        /\ start = i - num_contiguous_free_pages /\ start \in Nat
    BY <1>4 DEF TakeBlock, AllocType
  <2>2. pages' = [pages EXCEPT ![heap][start] = num_pages] /\ page' = start
    BY <1>4 DEF TakeBlock, Return
  <2>3. pages' = [h \in Heaps |-> pages'[h]] /\ \A h \in Heaps : pages'[h] \in [PagesOf(h) -> Nat]
    <3> HIDE DEF start
    <3> QED
      BY <2>1, <2>2 DEF AllocType
  <2> QED
    BY <1>4, <2>1, <2>2, <2>3 DEF TakeBlock, Return, AllocType
<1>5. CASE NoBlock
  BY <1>5 DEF NoBlock, Return, AllocType
<1>6. CASE Taken
  BY <1>6 DEF Taken, AllocType
<1>7. CASE GiveBack
  <2>1. /\ pages' = [h \in Heaps |-> pages'[h]]
        /\ \A h \in Heaps : \E given \in SUBSET PagesOf(h) :
             pages'[h] = [p \in PagesOf(h) |-> IF p \in given THEN 0 ELSE pages[h][p]]
        /\ UNCHANGED <<heap, num_pages, i, num_contiguous_free_pages, page>>
    BY <1>7 DEF GiveBack
  <2>2. ASSUME NEW h \in Heaps PROVE pages'[h] \in [PagesOf(h) -> Nat]
    <3>1. PICK given \in SUBSET PagesOf(h) :
            pages'[h] = [p \in PagesOf(h) |-> IF p \in given THEN 0 ELSE pages[h][p]]
      BY <2>1
    <3> QED
      BY <3>1 DEF AllocType
  <2> QED
    BY <2>1, <2>2 DEF AllocType
<1>8. CASE UNCHANGED alloc
  BY <1>8 DEF alloc, AllocType
<1> QED
  BY <1>1, <1>2, <1>3, <1>4, <1>5, <1>6, <1>7, <1>8 DEF AllocNext, Search

LEMMA BlockTaken ==
  ASSUME AllocInv, TakeBlock
  PROVE  LET start == i - (num_pages - 1)
         IN  /\ heap \in Heaps /\ start \in 0 .. NumPages[heap] - 1 /\ num_pages > 0
             /\ start + num_pages = i + 1 /\ i < NumPages[heap]
             /\ pages'[heap][start] = num_pages
             /\ \A p : p # start => pages'[heap][p] = pages[heap][p]
             /\ \A h \in Heaps : h # heap => pages'[h] = pages[h]
             /\ \A p \in Blocks(heap) : p + pages[heap][p] <= start \/ i + 1 <= p
<1> DEFINE start == i - (num_pages - 1)
<1>1. /\ heap \in Heaps /\ num_pages \in Nat /\ i \in 0 .. NumPages[heap] - 1 /\ NumPages[heap] \in Nat
      /\ start = i - num_contiguous_free_pages /\ start \in Nat /\ num_pages > 0
      /\ num_contiguous_free_pages \in Nat
  BY PagesType DEF TakeBlock, AllocInv, AllocType, SearchRight
<1>2. pages' = [pages EXCEPT ![heap][start] = num_pages]
  BY DEF TakeBlock
<1>3. pages[heap] \in [PagesOf(heap) -> Nat] /\ start \in PagesOf(heap)
  BY <1>1, PagesType DEF AllocInv, AllocType
<1>4. pages = [h \in Heaps |-> pages[h]]
  BY DEF AllocInv, AllocType
<1>5. ASSUME NEW p \in Blocks(heap) PROVE p + pages[heap][p] <= start \/ i + 1 <= p
  <2>1. p \in 0 .. NumPages[heap] - 1 /\ pages[heap][p] > 0
    BY <1>1, BlockFacts DEF AllocInv
  <2>2. p # i
    <3>1. pages[heap][p] \in Nat /\ pages[heap][i] <= 0
      BY <1>1, <1>3, <2>1, PagesType DEF TakeBlock
    <3> QED
      BY <2>1, <3>1
  <2> QED
    BY <1>1, <2>1, <2>2 DEF AllocInv, SearchRight, TakeBlock
<1> HIDE DEF start
<1>6. /\ pages'[heap][start] = num_pages
      /\ \A p : p # start => pages'[heap][p] = pages[heap][p]
      /\ \A h \in Heaps : h # heap => pages'[h] = pages[h]
  BY <1>1, <1>2, <1>3, <1>4
<1> QED
  BY <1>1, <1>5, <1>6 DEF start

LEMMA BlocksGivenBack ==
  ASSUME AllocType, GiveBack, NEW h \in Heaps
  PROVE  Blocks(h)' \subseteq Blocks(h) /\ \A p \in Blocks(h)' : pages'[h][p] = pages[h][p]
<1>1. PICK given \in SUBSET PagesOf(h) :
        pages'[h] = [p \in PagesOf(h) |-> IF p \in given THEN 0 ELSE pages[h][p]]
  BY DEF GiveBack
<1>2. ASSUME NEW p \in Blocks(h)' PROVE p \in Blocks(h) /\ pages'[h][p] = pages[h][p]
  <2>1. p \in PagesOf(h) /\ pages'[h][p] > 0
    BY <1>2 DEF Blocks
  <2> QED
    BY <1>1, <2>1 DEF Blocks
<1> QED
  BY <1>2

LEMMA ApartKept == AllocInv /\ [AllocNext]_alloc => Apart'
<1> SUFFICES ASSUME AllocInv, [AllocNext]_alloc PROVE Apart'
  OBVIOUS
<1>1. ASSUME UNCHANGED pages PROVE Apart'
  BY <1>1 DEF AllocInv, Apart, Blocks
<1>2. CASE TakeBlock
  <2> DEFINE start == i - (num_pages - 1)
  <2>1. /\ heap \in Heaps /\ start \in 0 .. NumPages[heap] - 1 /\ num_pages > 0
        /\ start + num_pages = i + 1 /\ i < NumPages[heap]
        /\ pages'[heap][start] = num_pages
        /\ \A p : p # start => pages'[heap][p] = pages[heap][p]
        /\ \A h \in Heaps : h # heap => pages'[h] = pages[h]
        /\ \A p \in Blocks(heap) : p + pages[heap][p] <= start \/ i + 1 <= p
    BY <1>2, BlockTaken
  <2>2. NumPages[heap] \in Nat /\ i \in Nat /\ num_pages \in Nat /\ start \in Nat
    BY <2>1, PagesType DEF AllocInv, AllocType
  <2> HIDE DEF start
  <2>3. PICK h \in Heaps : h = heap
    BY <2>1
  <2>4. ASSUME NEW p \in Blocks(h)'
        PROVE  p = start \/ (p \in Blocks(h) /\ pages'[h][p] = pages[h][p])
    BY <2>1, <2>3, <2>4 DEF Blocks
  <2>5. \A p \in Blocks(h) : p \in Nat /\ pages[h][p] \in Nat /\ p + pages[h][p] <= NumPages[h]
    BY BlockFacts DEF AllocInv, Apart
  <2>6. ASSUME NEW p \in Blocks(h)' PROVE p + pages'[h][p] <= NumPages[h]
    BY <2>1, <2>2, <2>3, <2>4, <2>5
  <2>7. ASSUME NEW p \in Blocks(h)', NEW q \in Blocks(h)', p < q
        PROVE  p + pages'[h][p] <= q
    <3>1. CASE p = start
      <4>1. q \in Blocks(h)
        BY <2>2, <2>4, <2>7, <3>1
      <4>2. ~(q + pages[h][q] <= start)
        BY <2>2, <2>5, <2>7, <3>1, <4>1
      <4> QED
        BY <2>1, <2>3, <3>1, <4>1, <4>2
    <3>2. CASE p # start /\ q = start
      <4>1. p \in Blocks(h) /\ pages'[h][p] = pages[h][p]
        BY <2>4, <3>2
      <4>2. ~(i + 1 <= p)
        BY <2>1, <2>2, <2>5, <2>7, <3>2, <4>1
      <4> QED
        BY <2>1, <2>3, <3>2, <4>1, <4>2
    <3>3. CASE p # start /\ q # start
      <4>1. p \in Blocks(h) /\ q \in Blocks(h) /\ pages'[h][p] = pages[h][p]
        BY <2>4, <3>3
      <4> QED
        BY <2>7, <4>1 DEF AllocInv, Apart
    <3> QED
      BY <3>1, <3>2, <3>3
  <2>8. ASSUME NEW g \in Heaps, g # h
        PROVE  Blocks(g)' = Blocks(g) /\ pages'[g] = pages[g]
    BY <2>1, <2>3, <2>8 DEF Blocks
  <2>9. ASSUME NEW g \in Heaps, NEW p \in Blocks(g)'
        PROVE  /\ p + pages'[g][p] <= NumPages[g]
               /\ \A q \in Blocks(g)' : p < q => p + pages'[g][p] <= q
    <3>1. CASE g = h
      BY <2>6, <2>7, <2>9, <3>1
    <3>2. CASE g # h
      BY <2>8, <2>9, <3>2 DEF AllocInv, Apart
    <3> QED
      BY <3>1, <3>2
  <2> QED
    BY <2>9 DEF Apart
<1>3. CASE GiveBack
  BY <1>3, BlocksGivenBack DEF AllocInv, Apart
<1>4. ASSUME NEW h \in Heaps, NEW size \in Nat \ {0}, Allocate(h, size) PROVE Apart'
  BY <1>1, <1>4 DEF Allocate
<1>5. CASE SkipBlock \/ FreePage \/ NoBlock \/ Taken \/ UNCHANGED alloc
  BY <1>1, <1>5 DEF SkipBlock, FreePage, NoBlock, Taken, alloc
<1> QED
  BY <1>2, <1>3, <1>4, <1>5 DEF AllocNext, Search

LEMMA SkipsBlock ==
  ASSUME AllocInv, SkipBlock
  PROVE  /\ heap \in Heaps /\ i \in Blocks(heap) /\ i \in Nat /\ pages[heap][i] \in Nat \ {0}
         /\ i' = i + pages[heap][i] /\ num_contiguous_free_pages' = 0
         /\ UNCHANGED <<pages, heap, num_pages>>
<1>1. heap \in Heaps /\ i \in PagesOf(heap) /\ pages[heap][i] > 0
  BY DEF SkipBlock, AllocInv, AllocType
<1>2. i \in Nat /\ pages[heap][i] \in Nat
  BY <1>1 DEF AllocInv, AllocType
<1> QED
  BY <1>1, <1>2 DEF SkipBlock, NextIndex, Blocks

LEMMA SearchRightKept == AllocInv /\ [AllocNext]_alloc => SearchRight'
<1> SUFFICES ASSUME AllocInv, [AllocNext]_alloc PROVE SearchRight'
  OBVIOUS
<1>1. ASSUME NEW h \in Heaps, NEW size \in Nat \ {0}, Allocate(h, size) PROVE SearchRight'
  <2>1. /\ heap = NoHeap /\ heap' = h /\ h # NoHeap /\ num_pages' = IntDivCeil(size, PageSize)
        /\ i' = i /\ num_contiguous_free_pages' = num_contiguous_free_pages
    BY <1>1, HeapsAssumption DEF Allocate
  <2>2. i' = 0 /\ num_contiguous_free_pages' = 0 /\ num_pages' > 0
    BY <2>1, HeapsAssumption, DivCeil DEF AllocInv, SearchRight
  <2>3. \A p \in Blocks(h)' : ~(p < 0)
    BY PagesType DEF Blocks
  <2> QED
    BY <2>1, <2>2, <2>3 DEF SearchRight
<1>2. CASE SkipBlock
  <2>1. /\ heap \in Heaps /\ i \in Blocks(heap) /\ i \in Nat /\ pages[heap][i] \in Nat \ {0}
        /\ i' = i + pages[heap][i] /\ num_contiguous_free_pages' = 0
        /\ UNCHANGED <<pages, heap, num_pages>> /\ heap # NoHeap
    BY <1>2, SkipsBlock, HeapsAssumption
  <2>2. /\ num_contiguous_free_pages \in Nat /\ num_pages \in Nat
        /\ num_contiguous_free_pages < num_pages
    BY <2>1 DEF AllocInv, AllocType, SearchRight
  <2>3. ASSUME NEW p \in Blocks(heap), p < i' PROVE p + pages[heap][p] <= i'
    <3>1. p \in Nat /\ pages[heap][p] \in Nat
      BY <2>1, BlockFacts DEF AllocInv
    <3>2. CASE p < i
      BY <2>1, <2>2, <3>1, <3>2 DEF AllocInv, SearchRight
    <3>3. CASE p = i
      BY <2>1, <3>3
    <3>4. CASE p > i
      <4>1. i + pages[heap][i] <= p
        BY <2>1, <3>1, <3>4 DEF AllocInv, Apart
      <4> QED
        BY <2>1, <2>3, <3>1, <4>1
    <3> QED
      BY <2>1, <3>1, <3>2, <3>3, <3>4
  <2>4. Blocks(heap)' = Blocks(heap) /\ pages' = pages /\ heap' = heap
    BY <2>1 DEF Blocks
  <2>5. heap' # NoHeap /\ num_contiguous_free_pages' < num_pages' /\ num_contiguous_free_pages' <= i'
    BY <2>1, <2>2
  <2>6. i' - num_contiguous_free_pages' = i'
    BY <2>1
  <2> QED
    BY <2>3, <2>4, <2>5, <2>6 DEF SearchRight
<1>3. CASE FreePage
  <2>1. /\ heap \in Heaps /\ heap # NoHeap /\ i \in PagesOf(heap) /\ ~(pages[heap][i] > 0)
        /\ num_contiguous_free_pages' = num_contiguous_free_pages + 1 /\ i' = i + 1
        /\ UNCHANGED <<pages, heap, num_pages>> /\ num_contiguous_free_pages + 1 # num_pages
        /\ i \in Nat /\ num_contiguous_free_pages \in Nat /\ num_pages \in Nat
        /\ num_contiguous_free_pages < num_pages /\ num_contiguous_free_pages <= i
    <3>1. /\ heap \in Heaps /\ heap # NoHeap /\ i \in PagesOf(heap) /\ pages[heap][i] <= 0
          /\ pages[heap][i] \in Nat
      BY <1>3 DEF FreePage, AllocInv, AllocType
    <3> QED
      BY <1>3, <3>1 DEF FreePage, AllocInv, AllocType, SearchRight
  <2>2. ASSUME NEW p \in Blocks(heap), p < i' PROVE p + pages[heap][p] <= i' - num_contiguous_free_pages'
    <3>1. p \in Nat /\ pages[heap][p] \in Nat /\ p # i
      BY <2>1, BlockFacts DEF AllocInv
    <3>2. p < i
      BY <2>1, <2>2, <3>1
    <3> QED
      BY <2>1, <3>1, <3>2 DEF AllocInv, SearchRight
  <2>3. heap' # NoHeap /\ num_contiguous_free_pages' < num_pages' /\ num_contiguous_free_pages' <= i'
    BY <2>1
  <2>4. Blocks(heap)' = Blocks(heap) /\ pages' = pages /\ heap' = heap
    BY <2>1 DEF Blocks
  <2> QED
    BY <2>2, <2>3, <2>4 DEF SearchRight
<1>4. CASE TakeBlock \/ NoBlock
  BY <1>4 DEF TakeBlock, NoBlock, Return, SearchRight
<1>5. CASE Taken \/ GiveBack
  BY <1>5 DEF Taken, GiveBack, AllocInv, SearchRight
<1>6. CASE UNCHANGED alloc
  BY <1>6 DEF alloc, AllocInv, SearchRight, Blocks
<1> QED
  BY <1>1, <1>2, <1>3, <1>4, <1>5, <1>6 DEF AllocNext, Search

LEMMA AllocInitInv == AllocInit => AllocInv
<1> SUFFICES ASSUME AllocInit PROVE AllocInv
  OBVIOUS
<1>1. AllocType
  <2>1. pages = [h \in Heaps |-> pages[h]]
    BY DEF AllocInit
  <2>2. \A h \in Heaps : pages[h] \in [PagesOf(h) -> Nat]
    BY DEF AllocInit
  <2> QED
    BY <2>1, <2>2 DEF AllocInit, AllocType
<1>2. ASSUME NEW h \in Heaps, NEW p \in Blocks(h) PROVE FALSE
  <2>1. p \in PagesOf(h) /\ pages[h][p] > 0
    BY <1>2 DEF Blocks
  <2>2. pages[h][p] = 0
    BY <2>1 DEF AllocInit
  <2> QED
    BY <2>1, <2>2
<1> QED
  BY <1>1, <1>2 DEF AllocInit, AllocInv, Apart, SearchRight

LEMMA AllocInvInductive == AllocInv /\ [AllocNext]_alloc => AllocInv'
  BY AllocTypeKept, ApartKept, SearchRightKept DEF AllocInv

LEMMA AllocInvCorrect == AllocSpec => []AllocInv
  BY AllocInitInv, AllocInvInductive, PTL DEF AllocSpec

LEMMA InvApart == AllocInv => BlocksApart
<1> SUFFICES ASSUME AllocInv, NEW h \in Heaps, NEW p \in Blocks(h), NumElements[h] % PageSize = 0
             PROVE  (p + pages[h][p]) * PageSize <= NumElements[h]
  BY DEF AllocInv, Apart, BlocksApart
<1>1. /\ NumPages[h] * PageSize = NumElements[h] /\ NumPages[h] \in Nat
      /\ PageSize \in Nat /\ NumElements[h] \in Nat
  <2>1. PageSize \in Nat \ {0} /\ NumElements[h] \in Nat /\ NumPages[h] = IntDivCeil(NumElements[h], PageSize)
    BY HeapsAssumption DEF NumPages
  <2> QED
    BY <2>1, DivCeil
<1>2. p + pages[h][p] <= NumPages[h] /\ p + pages[h][p] \in Nat
  BY BlockFacts DEF AllocInv, Apart
<1>3. \A a, b, c \in Nat : a <= b => a * c <= b * c
  OBVIOUS
<1> QED
  BY <1>1, <1>2, <1>3

\* Whatever is asked for and given back, no two blocks of a heap have a page in common, and none
\* reaches past the heap (page_allocator.hh:10-55).
THEOREM BlocksAlwaysApart == AllocSpec => []BlocksApart
  BY AllocInvCorrect, InvApart, PTL

-----------------------------------------------------------------------------
(* The lowest fit                                                          *)

\* Where the search has been there is no room.
NoRoomBehind ==
  heap # NoHeap =>
    \A s \in Nat : s < i - num_contiguous_free_pages => ~LowestFit!Room(heap, s, num_pages)

LEMMA RoomMeans ==
  ASSUME NEW h \in Heaps, NEW s, NEW n
  PROVE  LowestFit!Room(h, s, n) <=>
           /\ s + n <= NumPages[h]
           /\ \A p \in Blocks(h) : s + n <= p \/ p + pages[h][p] <= s
<1> DEFINE bs == {[first |-> p, count |-> pages[h][p]] : p \in Blocks(h)}
<1>1. LowestFit!Room(h, s, n) <=>
        /\ s + n <= NumPages[h]
        /\ \A b \in bs : s + n <= b.first \/ b.first + b.count <= s
  BY DEF LowestFit!Room
<1>2. \A b \in bs : \E p \in Blocks(h) : b.first = p /\ b.count = pages[h][p]
  OBVIOUS
<1>3. ASSUME NEW p \in Blocks(h) PROVE \E b \in bs : b.first = p /\ b.count = pages[h][p]
  <2>1. [first |-> p, count |-> pages[h][p]] \in bs
    OBVIOUS
  <2> HIDE DEF bs
  <2> QED
    BY <2>1
<1> HIDE DEF bs
<1>4. (\A b \in bs : s + n <= b.first \/ b.first + b.count <= s)
        <=> (\A p \in Blocks(h) : s + n <= p \/ p + pages[h][p] <= s)
  BY <1>2, <1>3
<1> QED
  BY <1>1, <1>4

LEMMA NoRoomBehindKept == AllocInv /\ NoRoomBehind /\ [AllocNext]_alloc => NoRoomBehind'
<1> SUFFICES ASSUME AllocInv, NoRoomBehind, [AllocNext]_alloc, heap' # NoHeap,
                    NEW s \in Nat, s < i' - num_contiguous_free_pages'
             PROVE  ~LowestFit!Room(heap, s, num_pages)'
  BY DEF NoRoomBehind
<1>1. ASSUME NEW h \in Heaps, NEW size \in Nat \ {0}, Allocate(h, size) PROVE FALSE
  BY <1>1 DEF Allocate, AllocInv, SearchRight
<1>2. ASSUME UNCHANGED <<pages, heap, num_pages>>
      PROVE  LowestFit!Room(heap, s, num_pages)' <=> LowestFit!Room(heap, s, num_pages)
  BY <1>2 DEF LowestFit!Room, Blocks
<1>3. CASE SkipBlock
  <2>1. /\ heap \in Heaps /\ i \in Blocks(heap) /\ i \in Nat /\ pages[heap][i] \in Nat \ {0}
        /\ i' = i + pages[heap][i] /\ num_contiguous_free_pages' = 0
        /\ UNCHANGED <<pages, heap, num_pages>> /\ heap # NoHeap
    BY <1>3, SkipsBlock, HeapsAssumption
  <2>2. /\ num_contiguous_free_pages \in Nat /\ num_pages \in Nat
        /\ num_contiguous_free_pages < num_pages
    BY <2>1 DEF AllocInv, AllocType, SearchRight
  <2>3. CASE s < i - num_contiguous_free_pages
    BY <1>2, <2>1, <2>3 DEF NoRoomBehind
  <2>4. CASE ~(s < i - num_contiguous_free_pages)
    <3>1. ~(s + num_pages <= i) /\ ~(i + pages[heap][i] <= s)
      BY <2>1, <2>2, <2>4
    <3> QED
      BY <1>2, <2>1, <3>1, RoomMeans
  <2> QED
    BY <2>3, <2>4
<1>4. CASE FreePage
  <2>1. /\ i \in Nat /\ num_contiguous_free_pages \in Nat /\ UNCHANGED <<pages, heap, num_pages>>
        /\ i' = i + 1 /\ num_contiguous_free_pages' = num_contiguous_free_pages + 1
    BY <1>4 DEF FreePage, AllocInv, AllocType
  <2> QED
    BY <1>2, <2>1 DEF NoRoomBehind
<1>5. CASE TakeBlock \/ NoBlock \/ Taken \/ GiveBack
  BY <1>5 DEF TakeBlock, NoBlock, Return, Taken, GiveBack
<1>6. CASE UNCHANGED alloc
  BY <1>2, <1>6 DEF alloc, NoRoomBehind
<1> QED
  BY <1>1, <1>3, <1>4, <1>5, <1>6 DEF AllocNext, Search

\* A step of the allocator is a step of the lowest fit, or none.
BlocksOf(h) == {[first |-> p, count |-> pages[h][p]] : p \in Blocks(h)}

LEMMA BlocksMapped ==
  ASSUME UNCHANGED pages
  PROVE  [h \in Heaps |-> BlocksOf(h)]' = [h \in Heaps |-> BlocksOf(h)]
  BY DEF BlocksOf, Blocks

LEMMA StepFits == AllocInv /\ NoRoomBehind /\ [AllocNext]_alloc => [LowestFit!Next]_(LowestFit!firstfit)
<1> SUFFICES ASSUME AllocInv, NoRoomBehind, [AllocNext]_alloc
             PROVE  LowestFit!Next \/ UNCHANGED LowestFit!firstfit
  OBVIOUS
<1> DEFINE bs == [h \in Heaps |-> BlocksOf(h)]
<1>1. ASSUME NEW h \in Heaps, NEW size \in Nat \ {0}, Allocate(h, size) PROVE LowestFit!Ask(h)
  <2>1. /\ UNCHANGED <<pages, page>> /\ heap = NoHeap /\ heap' = h
        /\ num_pages' = IntDivCeil(size, PageSize)
    BY <1>1 DEF Allocate
  <2>2. num_pages' \in Nat \ {0}
    BY <2>1, HeapsAssumption, DivCeil
  <2>3. bs' = bs
    BY <2>1, BlocksMapped
  <2> QED
    BY <2>1, <2>2, <2>3 DEF LowestFit!Ask, BlocksOf
<1>2. ASSUME UNCHANGED <<pages, heap, num_pages, page>> PROVE UNCHANGED LowestFit!firstfit
  BY <1>2, BlocksMapped DEF LowestFit!firstfit, BlocksOf
<1>3. CASE SkipBlock \/ FreePage
  BY <1>2, <1>3 DEF SkipBlock, FreePage
<1>4. CASE UNCHANGED alloc
  BY <1>2, <1>4 DEF alloc
<1>5. CASE Taken
  <2>1. UNCHANGED <<pages, heap, num_pages>> /\ heap = NoHeap /\ page' = NoPage
    BY <1>5 DEF Taken
  <2>2. bs' = bs
    BY <2>1, BlocksMapped
  <2>3. LowestFit!Take
    BY <2>1, <2>2 DEF LowestFit!Take, LowestFit!Refusal, NoPage, BlocksOf
  <2> QED
    BY <2>3 DEF LowestFit!Next
<1>6. CASE NoBlock
  <2>1. /\ heap # NoHeap /\ i >= NumPages[heap] /\ page' = NoPage /\ heap' = NoHeap /\ num_pages' = 0
        /\ pages' = pages
    BY <1>6 DEF NoBlock, Return
  <2>2. bs' = bs
    BY <2>1, BlocksMapped
  <2>3. ASSUME NEW s \in 0 .. NumPages[heap] - 1 PROVE ~LowestFit!Room(heap, s, num_pages)
    <3>1. /\ heap \in Heaps /\ NumPages[heap] \in Nat /\ i \in Nat /\ num_contiguous_free_pages \in Nat
          /\ num_pages \in Nat /\ num_contiguous_free_pages < num_pages
      BY <2>1, PagesType DEF AllocInv, AllocType, SearchRight
    <3>2. CASE s < i - num_contiguous_free_pages
      BY <2>1, <2>3, <3>1, <3>2 DEF NoRoomBehind
    <3>3. CASE ~(s < i - num_contiguous_free_pages)
      <4>1. ~(s + num_pages <= NumPages[heap])
        BY <2>1, <2>3, <3>1, <3>3
      <4> QED
        BY <3>1, <4>1, RoomMeans
    <3> QED
      BY <3>2, <3>3
  <2>4. LowestFit!Refuse
    BY <2>1, <2>2, <2>3 DEF LowestFit!Refuse, LowestFit!Refusal, NoPage, BlocksOf
  <2> QED
    BY <2>4 DEF LowestFit!Next
<1>7. CASE TakeBlock
  <2> DEFINE start == i - (num_pages - 1)
  <2>1. /\ heap \in Heaps /\ start \in 0 .. NumPages[heap] - 1 /\ num_pages > 0
        /\ start + num_pages = i + 1 /\ i < NumPages[heap]
        /\ pages'[heap][start] = num_pages
        /\ \A p : p # start => pages'[heap][p] = pages[heap][p]
        /\ \A h \in Heaps : h # heap => pages'[h] = pages[h]
        /\ \A p \in Blocks(heap) : p + pages[heap][p] <= start \/ i + 1 <= p
    BY <1>7, BlockTaken
  <2>2. /\ NumPages[heap] \in Nat /\ i \in Nat /\ num_pages \in Nat /\ start \in Nat
        /\ num_contiguous_free_pages \in Nat /\ start = i - num_contiguous_free_pages
        /\ heap # NoHeap
    BY <1>7, <2>1, PagesType, HeapsAssumption DEF AllocInv, AllocType, TakeBlock
  <2>3. page' = start /\ heap' = NoHeap /\ num_pages' = 0
    BY <1>7 DEF TakeBlock, Return
  <2> HIDE DEF start
  <2>4. PICK h \in Heaps : h = heap
    BY <2>1
  <2>5. \A p \in Blocks(h) : p \in Nat /\ pages[h][p] \in Nat \ {0}
    BY BlockFacts DEF AllocInv
  <2>6. start \notin Blocks(h) /\ start \in PagesOf(h)
    BY <2>1, <2>2, <2>4, <2>5, PagesType
  <2>7. Blocks(h)' = Blocks(h) \union {start}
    <3>1. \A p \in PagesOf(h) : pages'[h][p] > 0 <=> pages[h][p] > 0 \/ p = start
      BY <2>1, <2>4
    <3> QED
      BY <2>6, <3>1 DEF Blocks
  <2>8. BlocksOf(h)' = BlocksOf(h) \union {[first |-> start, count |-> num_pages]}
    <3>1. \A p \in Blocks(h) : pages'[h][p] = pages[h][p]
      BY <2>1, <2>4, <2>6
    <3>2. pages'[h][start] = num_pages
      BY <2>1, <2>4
    <3>3. BlocksOf(h)' = {[first |-> p, count |-> pages'[h][p]] : p \in Blocks(h) \union {start}}
      BY <2>7 DEF BlocksOf
    <3>4. BlocksOf(h)' \subseteq BlocksOf(h) \union {[first |-> start, count |-> num_pages]}
      BY <3>1, <3>2, <3>3 DEF BlocksOf
    <3>5. BlocksOf(h) \subseteq BlocksOf(h)'
      BY <3>1, <3>3 DEF BlocksOf
    <3>6. [first |-> start, count |-> num_pages] \in BlocksOf(h)'
      BY <3>2, <3>3
    <3> QED
      BY <3>4, <3>5, <3>6
  <2>9. \A g \in Heaps : g # h => BlocksOf(g)' = BlocksOf(g)
    BY <2>1, <2>4 DEF BlocksOf, Blocks
  <2>10. bs' = [bs EXCEPT ![h] = @ \union {[first |-> start, count |-> num_pages]}]
    BY <2>8, <2>9
  <2>11. LowestFit!Room(h, start, num_pages)
    <3>1. start + num_pages <= NumPages[h]
      BY <2>1, <2>2, <2>4
    <3>2. \A p \in Blocks(h) : start + num_pages <= p \/ p + pages[h][p] <= start
      BY <2>1, <2>4
    <3> QED
      BY <3>1, <3>2, RoomMeans
  <2>12. \A s \in 0 .. start - 1 : ~LowestFit!Room(h, s, num_pages)
    BY <2>2, <2>4 DEF NoRoomBehind
  <2>13. LowestFit!Grant
    BY <2>1, <2>2, <2>3, <2>4, <2>10, <2>11, <2>12 DEF LowestFit!Grant, BlocksOf
  <2> QED
    BY <2>13 DEF LowestFit!Next
<1>8. CASE GiveBack
  <2>1. heap = NoHeap /\ UNCHANGED <<heap, num_pages, page>>
    BY <1>8 DEF GiveBack
  <2>2. ASSUME NEW h \in Heaps PROVE BlocksOf(h)' \subseteq BlocksOf(h)
    <3>1. Blocks(h)' \subseteq Blocks(h) /\ \A p \in Blocks(h)' : pages'[h][p] = pages[h][p]
      BY <1>8, BlocksGivenBack DEF AllocInv
    <3> QED
      BY <3>1 DEF BlocksOf
  <2>3. bs' = [h \in Heaps |-> bs'[h]] /\ \A h \in Heaps : bs'[h] \subseteq bs[h]
    BY <2>2
  <2>4. LowestFit!GiveBack
    BY <2>1, <2>3 DEF LowestFit!GiveBack, BlocksOf
  <2> QED
    BY <2>4 DEF LowestFit!Next
<1> QED
  BY <1>1, <1>3, <1>4, <1>5, <1>6, <1>7, <1>8 DEF AllocNext, Search, LowestFit!Next

LEMMA InitFits == AllocInit => LowestFit!Init /\ NoRoomBehind
<1> SUFFICES ASSUME AllocInit PROVE LowestFit!Init /\ NoRoomBehind
  OBVIOUS
<1>1. \A h \in Heaps : Blocks(h) = {}
  <2> SUFFICES ASSUME NEW h \in Heaps, NEW p \in Blocks(h) PROVE FALSE
    OBVIOUS
  <2>1. p \in PagesOf(h) /\ pages[h][p] > 0
    BY DEF Blocks
  <2>2. pages[h][p] = 0
    BY <2>1 DEF AllocInit
  <2> QED
    BY <2>1, <2>2
<1> QED
  BY <1>1 DEF AllocInit, LowestFit!Init, LowestFit!Refusal, NoPage, NoRoomBehind

\* An allocator hands out the lowest block that is long enough, and nothing only if there is none:
\* no page is passed over, however blocks lie (page_allocator.hh:16-47).
THEOREM AlwaysLowest == AllocSpec => FindsLowest
  BY AllocInvCorrect, InitFits, NoRoomBehindKept, StepFits, PTL DEF AllocSpec, FindsLowest, LowestFit!Spec

-----------------------------------------------------------------------------
(* The end of the search                                                   *)

\* The search never steps past the last page: a block it skips ends within the heap.
WithinHeap == heap # NoHeap => i <= NumPages[heap]

\* How far the search is from its end.
SearchLeft == IF heap = NoHeap THEN 0 ELSE NumPages[heap] + 1 - i

Advances == [][heap # NoHeap => SearchLeft' < SearchLeft]_alloc

LEMMA SearchStep ==
  ASSUME AllocInv, WithinHeap, heap # NoHeap, AllocNext
  PROVE  WithinHeap' /\ SearchLeft' < SearchLeft
<1>1. heap \in Heaps /\ NumPages[heap] \in Nat /\ i \in Nat /\ i <= NumPages[heap]
  BY PagesType DEF AllocInv, AllocType, WithinHeap
<1>2. CASE SkipBlock
  <2>1. /\ i \in Blocks(heap) /\ pages[heap][i] \in Nat \ {0}
        /\ i' = i + pages[heap][i] /\ heap' = heap
    BY <1>2, SkipsBlock
  <2>2. i + pages[heap][i] <= NumPages[heap]
    BY <1>1, <2>1 DEF AllocInv, Apart
  <2> QED
    BY <1>1, <2>1, <2>2 DEF WithinHeap, SearchLeft
<1>3. CASE FreePage
  <2>1. i < NumPages[heap] /\ i' = i + 1 /\ heap' = heap
    BY <1>1, <1>3, PagesType DEF FreePage
  <2> QED
    BY <1>1, <2>1 DEF WithinHeap, SearchLeft
<1>4. CASE TakeBlock \/ NoBlock
  <2>1. heap' = NoHeap
    BY <1>4 DEF TakeBlock, NoBlock, Return
  <2> QED
    BY <1>1, <2>1 DEF WithinHeap, SearchLeft
<1> QED
  BY <1>2, <1>3, <1>4 DEF AllocNext, Search, Allocate, Taken, GiveBack

LEMMA WithinHeapKept == AllocInv /\ WithinHeap /\ [AllocNext]_alloc => WithinHeap'
<1> SUFFICES ASSUME AllocInv, WithinHeap, [AllocNext]_alloc PROVE WithinHeap'
  OBVIOUS
<1>1. ASSUME NEW h \in Heaps, NEW size \in Nat \ {0}, Allocate(h, size) PROVE WithinHeap'
  <2>1. heap' = h /\ i' = 0 /\ NumPages[h] \in Nat
    BY <1>1, PagesType DEF Allocate, AllocInv, SearchRight
  <2> QED
    BY <2>1 DEF WithinHeap
<1>2. CASE Taken \/ GiveBack
  BY <1>2 DEF Taken, GiveBack, WithinHeap
<1>3. CASE UNCHANGED alloc
  BY <1>3 DEF alloc, WithinHeap
<1>4. CASE Search
  <2>1. heap # NoHeap /\ AllocNext
    BY <1>4 DEF Search, SkipBlock, FreePage, TakeBlock, NoBlock, AllocNext
  <2> QED
    BY <2>1, SearchStep
<1> QED
  BY <1>1, <1>2, <1>3, <1>4 DEF AllocNext

LEMMA SearchAdvances ==
  AllocInv /\ WithinHeap /\ [AllocNext]_alloc => [heap # NoHeap => SearchLeft' < SearchLeft]_alloc
  BY SearchStep DEF alloc

LEMMA SearchLeftCounts == AllocInv /\ WithinHeap => SearchLeft \in Nat
<1> SUFFICES ASSUME AllocInv, WithinHeap, heap # NoHeap PROVE NumPages[heap] + 1 - i \in Nat
  BY DEF SearchLeft
<1>1. NumPages[heap] \in Nat /\ i \in Nat /\ i <= NumPages[heap]
  BY PagesType DEF AllocInv, AllocType, WithinHeap
<1> QED
  BY <1>1

\* Each step of a search brings it nearer to the end of the heap, whichever blocks it has to step over
\* and however long they are (page_allocator.hh:23-47): it takes no more steps than the heap has pages,
\* and one.
THEOREM SearchesEnd == AllocSpec => [](SearchLeft \in Nat) /\ Advances
<1>1. AllocInit => WithinHeap
  BY DEF AllocInit, WithinHeap
<1> QED
  BY <1>1, AllocInvCorrect, WithinHeapKept, SearchAdvances, SearchLeftCounts, PTL
  DEF AllocSpec, Advances
=============================================================================
