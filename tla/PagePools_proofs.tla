--------------------------- MODULE PagePools_proofs ---------------------------
(* That the pools keep their users out of each other's calls of the page   *)
(* allocators: whatever threads do, the allocators are used as their       *)
(* specification assumes, and keep what it promises; and that every block  *)
(* of theirs has one owner, a view or a range, in or between calls.        *)
EXTENDS PagePools, PageAllocator_proofs, SequenceTheorems

-----------------------------------------------------------------------------
(* What freeing does to the pages                                          *)

Shape(pgs) ==
  /\ pgs = [h \in Heaps |-> pgs[h]]
  /\ \A h \in Heaps : pgs[h] = [p \in PagesOf(h) |-> pgs[h][p]]

LEMMA FreedPages ==
  ASSUME NEW pgs, Shape(pgs), NEW h, NEW p
  PROVE  /\ Shape(Freed(pgs, h, p))
         /\ \A g \in Heaps : \A q \in PagesOf(g) :
              Freed(pgs, h, p)[g][q] = IF g = h /\ q = p /\ p >= 0 THEN 0 ELSE pgs[g][q]
<1>1. CASE p >= 0
  BY <1>1 DEF Freed, Shape
<1>2. CASE ~(p >= 0)
  BY <1>2 DEF Freed, Shape
<1> QED
  BY <1>1, <1>2

LEMMA PagesGivenBack ==
  ASSUME heap = NoHeap, UNCHANGED <<heap, num_pages, i, num_contiguous_free_pages, page>>, Shape(pages),
         Shape(pages)', \A h \in Heaps : \A p \in PagesOf(h) : pages'[h][p] \in {0, pages[h][p]}
  PROVE  GiveBack
<1>1. ASSUME NEW h \in Heaps
      PROVE  \E given \in SUBSET PagesOf(h) :
               pages'[h] = [p \in PagesOf(h) |-> IF p \in given THEN 0 ELSE pages[h][p]]
  <2> DEFINE gone == {p \in PagesOf(h) : pages'[h][p] = 0}
  <2> WITNESS gone \in SUBSET PagesOf(h)
  <2>1. \A p \in PagesOf(h) : pages'[h][p] = IF p \in gone THEN 0 ELSE pages[h][p]
    OBVIOUS
  <2>2. pages'[h] = [p \in PagesOf(h) |-> pages'[h][p]]
    BY DEF Shape
  <2> QED
    BY <2>1, <2>2
<1> QED
  BY <1>1 DEF GiveBack, Shape

LEMMA FreeGivesBack ==
  ASSUME AllocType, NEW h, NEW p, Free(h, p)
  PROVE  GiveBack
<1>1. Shape(pages)
  BY DEF AllocType, Shape
<1>2. pages' = Freed(pages, h, p)
  BY DEF Free
<1>3. /\ Shape(pages)'
      /\ \A g \in Heaps : \A q \in PagesOf(g) : pages'[g][q] \in {0, pages[g][q]}
  <2>1. Shape(Freed(pages, h, p)) <=> Shape(pages)'
    BY <1>2 DEF Shape
  <2> QED
    BY <1>1, <1>2, <2>1, FreedPages
<1> QED
  BY <1>1, <1>3, PagesGivenBack DEF Free

-----------------------------------------------------------------------------
(* Query ranges                                                            *)

LEMMA RangeStep == AllocType /\ [RangeNext]_rangevars => [AllocNext]_alloc
<1> SUFFICES ASSUME AllocType, [RangeNext]_rangevars PROVE AllocNext \/ UNCHANGED alloc
  OBVIOUS
<1>1. ASSUME NEW t \in Threads, NEW type \in QueryTypes, NEW size \in QueryCounts, CreateRange(t, type, size)
      PROVE  AllocNext \/ UNCHANGED alloc
  <2>1. size \in Nat /\ HeapOf[type] \in Heaps
    BY QueryTypesAssumption
  <2>2. UNCHANGED alloc \/ (size > 0 /\ Allocate(HeapOf[type], size))
    BY <1>1 DEF CreateRange
  <2> QED
    BY <2>1, <2>2 DEF AllocNext
<1>2. CASE SearchRange
  BY <1>2 DEF SearchRange, AllocNext
<1>3. ASSUME NEW t \in Threads, CreateReturns(t) PROVE AllocNext \/ UNCHANGED alloc
  BY <1>3 DEF CreateReturns, AllocNext
<1>4. ASSUME NEW r \in ranges, FreeRange(r) PROVE AllocNext \/ UNCHANGED alloc
  <2>1. UNCHANGED alloc \/ \E h, p : Free(h, p)
    BY <1>4 DEF FreeRange
  <2> QED
    BY <2>1, FreeGivesBack DEF AllocNext
<1>5. CASE UNCHANGED rangevars
  BY <1>5 DEF rangevars
<1> QED
  BY <1>1, <1>2, <1>3, <1>4, <1>5 DEF RangeNext

LEMMA RangesAllocate == RangeSpec => []AllocInv /\ AllocSpec
<1>1. RangeInit => AllocInit
  BY DEF RangeInit
<1>2. AllocInv => AllocType
  BY DEF AllocInv
<1> QED
  BY <1>1, <1>2, RangeStep, AllocInitInv, AllocInvInductive, PTL DEF RangeSpec, AllocSpec

\* The blocks of query ranges are apart and the lowest there is room for, even though handles of no
\* queries are freed as if they were a page of another type (query_pool.cc:7-39).
THEOREM RangesPlaced == RangeSpec => []BlocksApart /\ FindsLowest
  BY RangesAllocate, BlocksAlwaysApart, AlwaysLowest, PTL

-----------------------------------------------------------------------------
(* Who owns the blocks of query ranges                                     *)

LEMMA Modulo ==
  ASSUME NEW x \in Int, NEW m \in Nat \ {0}
  PROVE  /\ x \in 0 .. m - 1 => x % m = x
         /\ x \in -m .. -1 => x % m = x + m
<1>1. ASSUME NEW q \in Int, NEW r \in 0 .. m - 1, x = m * q + r, NEW k \in Int, NEW s \in 0 .. m - 1, x = m * k + s
      PROVE  r = s
  <2>1. m * (q - k) = s - r
    BY <1>1
  <2>2. q - k >= 1 => m * (q - k) >= m
    OBVIOUS
  <2>3. q - k <= -1 => m * (q - k) <= -m
    OBVIOUS
  <2>4. q = k
    BY <2>1, <2>2, <2>3
  <2> QED
    BY <1>1, <2>4
<1>2. x = m * (x \div m) + (x % m) /\ x \div m \in Int /\ x % m \in 0 .. m - 1
  <2>1. x = m * (x \div m) + (x % m)
    OBVIOUS
  <2>2. x \div m \in Int
    OBVIOUS
  <2>3. x % m \in 0 .. m - 1
    OBVIOUS
  <2> QED
    BY <2>1, <2>2, <2>3
<1>3. x \in 0 .. m - 1 => x = m * 0 + x
  OBVIOUS
<1>4. x \in -m .. -1 => x = m * (-1) + (x + m) /\ x + m \in 0 .. m - 1
  OBVIOUS
<1>5. x \in 0 .. m - 1 => x % m = x
  <2> HAVE x \in 0 .. m - 1
  <2> QED
    BY <1>1, <1>2, <1>3
<1>6. x \in -m .. -1 => x % m = x + m
  <2> HAVE x \in -m .. -1
  <2>1. -1 \in Int
    OBVIOUS
  <2> QED
    BY <1>1, <1>2, <1>4, <2>1
<1> QED
  BY <1>5, <1>6

LEMMA PagesWithinElements == \A h \in Heaps : NumPages[h] <= NumElements[h]
<1> SUFFICES ASSUME NEW h \in Heaps PROVE NumPages[h] <= NumElements[h]
  OBVIOUS
<1>1. ASSUME NEW n \in Nat, NEW d \in Nat \ {0} PROVE IntDivCeil(n, d) <= n
  <2> DEFINE q == (n + d - 1) \div d
             r == (n + d - 1) % d
  <2>1. n + d - 1 \in Nat
    OBVIOUS
  <2>2. q \in Int /\ r \in 0 .. d - 1 /\ n + d - 1 = d * q + r
    BY <2>1
  <2> HIDE DEF q, r
  <2>3. q > n => d * q >= d * (n + 1)
    BY <2>2
  <2>4. d * n >= n
    OBVIOUS
  <2>5. d * (n + 1) = d * n + d
    OBVIOUS
  <2>6. d * n \in Nat /\ d * q \in Int
    BY <2>2
  <2>7. q <= n
    BY <2>2, <2>3, <2>4, <2>5, <2>6
  <2> QED
    BY <2>7 DEF IntDivCeil, q
<1> QED
  BY <1>1, HeapsAssumption DEF NumPages

LEMMA IndicesFit ==
  /\ IndexStep \in Nat /\ WordSize \in Nat /\ WordSize > 6 * IndexStep /\ IndexStep > 0
  /\ \A q \in QueryTypes : /\ q \in {0, 1, 2} /\ HeapOf[q] \in Heaps
                           /\ NumPages[HeapOf[q]] \in Nat /\ NumPages[HeapOf[q]] < IndexStep
                           /\ IndexStep * q = IF q = 0 THEN 0 ELSE IF q = 1 THEN IndexStep ELSE 2 * IndexStep
<1>1. /\ IndexStep \in Nat /\ WordSize \in Nat /\ WordSize > 6 * IndexStep
      /\ \A q \in QueryTypes : /\ q \in {0, 1, 2} /\ HeapOf[q] \in Heaps
                               /\ NumElements[HeapOf[q]] < IndexStep
      /\ 0 \in QueryTypes
  BY QueryTypesAssumption
<1>2. \A q \in QueryTypes : IndexStep * q = IF q = 0 THEN 0 ELSE IF q = 1 THEN IndexStep ELSE 2 * IndexStep
  BY <1>1
<1>3. \A q \in QueryTypes : /\ NumPages[HeapOf[q]] \in Nat /\ NumElements[HeapOf[q]] \in Nat
                            /\ NumPages[HeapOf[q]] <= NumElements[HeapOf[q]]
  BY <1>1, PagesWithinElements, PagesType, HeapsAssumption
<1>4. \A q \in QueryTypes : NumPages[HeapOf[q]] < IndexStep
  BY <1>1, <1>3
<1>5. IndexStep > 0
  BY <1>1, <1>3
<1> QED
  BY <1>1, <1>2, <1>3, <1>4, <1>5

\* What a handle says of its range is what went into it.
LEMMA HandlesRight ==
  ASSUME NEW q \in QueryTypes, NEW p \in 0 .. IndexStep - 1
  PROVE  /\ IndexToHandle(p, q) = p + IndexStep * q
         /\ IndexToHandle(p, q) \in 0 .. WordSize - 1
         /\ HandleToQueryType(IndexToHandle(p, q)) = q
         /\ HandleToIndex(IndexToHandle(p, q), q) = p
<1> DEFINE v == p + IndexStep * q
<1>1. /\ v \in 0 .. WordSize - 1 /\ p \in 0 .. WordSize - 1 /\ WordSize \in Nat \ {0} /\ v \in Int /\ p \in Int
      /\ v - IndexStep * q = p
  BY IndicesFit
<1>2. IndexToHandle(p, q) = v
  BY <1>1, Modulo DEF IndexToHandle, Unsigned
<1>3. HandleToQueryType(v) = q
  BY IndicesFit DEF HandleToQueryType
<1>4. Unsigned(v - IndexStep * q) = p
  BY <1>1, Modulo DEF Unsigned
<1>5. p < WordSize \div 2
  BY IndicesFit
<1>6. HandleToIndex(v, q) = p
  BY <1>4, <1>5 DEF HandleToIndex, Signed
<1> QED
  BY <1>1, <1>2, <1>3, <1>6

\* A handle of no queries names nothing that free would touch.
LEMMA EmptyHandles ==
  ASSUME NEW q \in QueryTypes
  PROVE  LET v    == IndexToHandle(NoPage, q)
             type == HandleToQueryType(v)
             p    == HandleToIndex(v, type)
         IN  v \in 0 .. WordSize - 1 /\ type \in QueryTypes /\ p \in Int /\ (p < 0 \/ p >= NumPages[HeapOf[type]])
<1>1. QueryTypes = 0 .. 2 /\ WordSize \in Nat \ {0} /\ NoPage = -1
  BY IndicesFit, QueryTypesAssumption DEF NoPage
<1>2. CASE q = 0
  <2>1. NoPage + IndexStep * q = -1 /\ -1 \in -WordSize .. -1 /\ -1 \in Int
    BY <1>1, <1>2, IndicesFit
  <2>2. IndexToHandle(NoPage, q) = WordSize - 1
    BY <1>1, <2>1, Modulo DEF IndexToHandle, Unsigned
  <2>3. HandleToQueryType(WordSize - 1) = 2
    BY IndicesFit DEF HandleToQueryType
  <2>4. HandleToIndex(WordSize - 1, 2) = -1 - IndexStep * 2
    <3>1. WordSize - 1 - IndexStep * 2 \in 0 .. WordSize - 1 /\ WordSize - 1 - IndexStep * 2 \in Int
      BY IndicesFit
    <3>2. Unsigned(WordSize - 1 - IndexStep * 2) = WordSize - 1 - IndexStep * 2
      BY <1>1, <3>1, Modulo DEF Unsigned
    <3>3. ~(WordSize - 1 - IndexStep * 2 < WordSize \div 2)
      BY IndicesFit
    <3> QED
      BY <3>2, <3>3, IndicesFit DEF HandleToIndex, Signed
  <2> QED
    BY <1>1, <2>2, <2>3, <2>4, IndicesFit
<1>3. CASE q # 0
  <2> DEFINE v == IndexStep * q - 1
  <2>1. NoPage + IndexStep * q = v /\ v \in 0 .. WordSize - 1 /\ v \in Int
    BY <1>1, <1>3, IndicesFit
  <2>2. IndexToHandle(NoPage, q) = v
    BY <1>1, <2>1, Modulo DEF IndexToHandle, Unsigned
  <2>3. HandleToQueryType(v) = q - 1 /\ q - 1 \in QueryTypes
    BY <1>1, <1>3, IndicesFit DEF HandleToQueryType
  <2>4. v - IndexStep * (q - 1) = IndexStep - 1
    BY <1>1, <1>3, IndicesFit
  <2>5. HandleToIndex(v, q - 1) = IndexStep - 1
    <3>1. IndexStep - 1 \in 0 .. WordSize - 1 /\ IndexStep - 1 \in Int /\ IndexStep - 1 < WordSize \div 2
      BY IndicesFit
    <3>2. Unsigned(IndexStep - 1) = IndexStep - 1
      BY <1>1, <3>1, Modulo DEF Unsigned
    <3> QED
      BY <2>4, <3>1, <3>2 DEF HandleToIndex, Signed
  <2>6. NumPages[HeapOf[q - 1]] < IndexStep /\ NumPages[HeapOf[q - 1]] \in Nat /\ IndexStep \in Nat
    BY <2>3, IndicesFit
  <2> HIDE DEF v
  <2> QED
    BY <2>1, <2>2, <2>3, <2>5, <2>6
<1> QED
  BY <1>2, <1>3

\* The block that allocate has found waits for the call that has asked for it.
AskedRight ==
  /\ mMutex \in Threads \union {NoThread}
  /\ wanted \in [type : QueryTypes, size : Nat]
  /\ mMutex = NoThread => heap = NoHeap /\ page = NoPage
  /\ mMutex # NoThread => wanted.size > 0
  /\ heap # NoHeap => /\ heap = HeapOf[wanted.type] /\ page = NoPage
                      /\ num_pages = IntDivCeil(wanted.size, PageSize)
  /\ page # NoPage => /\ page \in Blocks(HeapOf[wanted.type])
                      /\ pages[HeapOf[wanted.type]][page] * PageSize >= wanted.size

HandlesMade ==
  /\ ranges \subseteq [value : 0 .. WordSize - 1, type : QueryTypes, size : Nat]
  /\ \A r \in ranges : r.size = 0 => r.value = IndexToHandle(NoPage, r.type)

RangesHaveBlocks ==
  /\ \A r \in FullRanges : \E p \in Blocks(HeapOf[r.type]) :
       /\ r.value = IndexToHandle(p, r.type)
       /\ pages[HeapOf[r.type]][p] * PageSize >= r.size
       /\ ~(page = p /\ wanted.type = r.type)
  /\ \A r, s \in FullRanges : r.value = s.value => r = s

BlocksHaveRanges ==
  \A q \in QueryTypes : \A p \in Blocks(HeapOf[q]) :
    \/ \E r \in FullRanges : r.type = q /\ r.value = IndexToHandle(p, q)
    \/ page = p /\ wanted.type = q

RangeInv == AllocInv /\ AskedRight /\ HandlesMade /\ RangesHaveBlocks /\ BlocksHaveRanges

LEMMA BlockIndices ==
  ASSUME AllocInv, NEW q \in QueryTypes, NEW p \in Blocks(HeapOf[q])
  PROVE  /\ p \in 0 .. IndexStep - 1 /\ p # NoPage /\ p \in PagesOf(HeapOf[q]) /\ pages[HeapOf[q]][p] \in Nat \ {0}
         /\ IndexToHandle(p, q) \in 0 .. WordSize - 1
         /\ HandleToQueryType(IndexToHandle(p, q)) = q
         /\ HandleToIndex(IndexToHandle(p, q), q) = p
<1>1. p \in 0 .. NumPages[HeapOf[q]] - 1 /\ pages[HeapOf[q]][p] \in Nat \ {0} /\ p \in PagesOf(HeapOf[q])
  BY IndicesFit, BlockFacts, PagesType DEF AllocInv
<1>2. p \in 0 .. IndexStep - 1 /\ p # NoPage
  BY <1>1, IndicesFit DEF NoPage
<1> QED
  BY <1>1, <1>2, HandlesRight

\* Two handles are equal only if they name the same block.
LEMMA HandlesDiffer ==
  ASSUME AllocInv, NEW q \in QueryTypes, NEW p \in Blocks(HeapOf[q]),
         NEW a \in QueryTypes, NEW b \in Blocks(HeapOf[a]), IndexToHandle(p, q) = IndexToHandle(b, a)
  PROVE  q = a /\ p = b
  BY BlockIndices

\* Rounding up to pages gives at least what was asked for.
LEMMA PagesSuffice ==
  ASSUME NEW n \in Nat
  PROVE  IntDivCeil(n, PageSize) * PageSize >= n
<1>1. ASSUME NEW d \in Nat \ {0} PROVE IntDivCeil(n, d) * d >= n
  <2> DEFINE q == (n + d - 1) \div d
             r == (n + d - 1) % d
  <2>1. n + d - 1 \in Nat
    OBVIOUS
  <2>2. q \in Int /\ r \in 0 .. d - 1 /\ n + d - 1 = d * q + r
    BY <2>1
  <2> HIDE DEF q, r
  <2>3. d * q = q * d /\ d * q \in Int
    BY <2>2
  <2>4. q * d >= n
    BY <2>2, <2>3
  <2> QED
    BY <2>4 DEF IntDivCeil, q
<1> QED
  BY <1>1, HeapsAssumption

LEMMA RangesFrame ==
  ASSUME HandlesMade, RangesHaveBlocks, BlocksHaveRanges, AllocInv,
         UNCHANGED <<pages, page, ranges>>, page = NoPage \/ UNCHANGED wanted
  PROVE  HandlesMade' /\ RangesHaveBlocks' /\ BlocksHaveRanges'
<1>1. /\ FullRanges' = FullRanges
      /\ \A h : Blocks(h)' = Blocks(h)
  BY DEF FullRanges, Blocks
<1>2. HandlesMade'
  BY DEF HandlesMade
<1>3. \A q \in QueryTypes : \A p \in Blocks(HeapOf[q]) : p # NoPage
  BY BlockIndices
<1>4. \A r \in FullRanges : r.type \in QueryTypes
  BY DEF FullRanges, HandlesMade
<1>5. RangesHaveBlocks'
  BY <1>1, <1>3, <1>4 DEF RangesHaveBlocks
<1>6. BlocksHaveRanges'
  BY <1>1, <1>3 DEF BlocksHaveRanges
<1> QED
  BY <1>2, <1>5, <1>6

LEMMA CreateRangeKept ==
  ASSUME RangeInv, NEW t \in Threads, NEW type \in QueryTypes, NEW size \in QueryCounts, CreateRange(t, type, size)
  PROVE  AskedRight' /\ HandlesMade' /\ RangesHaveBlocks' /\ BlocksHaveRanges'
<1> DEFINE w == [type |-> type, size |-> size]
<1>1. size \in Nat /\ w \in [type : QueryTypes, size : Nat] /\ w.size = size /\ w.type = type
  BY QueryTypesAssumption
<1>2. mMutex = NoThread /\ heap = NoHeap /\ page = NoPage
  BY DEF CreateRange, RangeInv, AskedRight
<1>3. CASE size > 0
  <2>1. /\ Allocate(HeapOf[type], size) /\ wanted' = w /\ mMutex' = t /\ UNCHANGED ranges
    BY <1>1, <1>3 DEF CreateRange
  <2>2. /\ UNCHANGED <<pages, page, ranges>> /\ heap' = HeapOf[type] /\ num_pages' = IntDivCeil(size, PageSize)
    BY <2>1 DEF Allocate
  <2>3. AskedRight'
    BY <1>1, <1>2, <1>3, <2>1, <2>2, ThreadsAssumption DEF AskedRight
  <2> QED
    BY <1>2, <2>2, <2>3, RangesFrame DEF RangeInv
<1>4. CASE size = 0
  <2> DEFINE r == [value |-> IndexToHandle(NoPage, w.type), type |-> w.type, size |-> w.size]
  <2>1. /\ ranges' = ranges \union {r} /\ UNCHANGED <<alloc, mMutex, wanted>>
    BY <1>1, <1>4 DEF CreateRange, Created
  <2>2. r \in [value : 0 .. WordSize - 1, type : QueryTypes, size : Nat] /\ r.size = 0
        /\ r.value = IndexToHandle(NoPage, r.type)
    BY <1>1, <1>4, EmptyHandles
  <2> HIDE DEF r
  <2>3. FullRanges' = FullRanges /\ \A h : Blocks(h)' = Blocks(h)
    BY <2>1, <2>2 DEF FullRanges, Blocks, alloc
  <2>4. AskedRight'
    BY <2>1 DEF RangeInv, AskedRight, Blocks, alloc
  <2>5. HandlesMade'
    BY <2>1, <2>2 DEF RangeInv, HandlesMade
  <2>6. RangesHaveBlocks' /\ BlocksHaveRanges'
    BY <2>1, <2>3 DEF RangeInv, RangesHaveBlocks, BlocksHaveRanges, alloc
  <2> QED
    BY <2>4, <2>5, <2>6
<1> QED
  BY <1>1, <1>3, <1>4

LEMMA SearchRangeKept ==
  ASSUME RangeInv, SearchRange
  PROVE  AskedRight' /\ HandlesMade' /\ RangesHaveBlocks' /\ BlocksHaveRanges'
<1>1. /\ UNCHANGED <<mMutex, ranges, wanted>> /\ heap # NoHeap /\ heap = HeapOf[wanted.type] /\ page = NoPage
      /\ wanted.type \in QueryTypes /\ wanted.size \in Nat
      /\ num_pages = IntDivCeil(wanted.size, PageSize)
  BY DEF SearchRange, Search, SkipBlock, FreePage, TakeBlock, NoBlock, RangeInv, AskedRight
<1>2. CASE SkipBlock \/ FreePage
  <2>1. UNCHANGED <<pages, page, heap, num_pages>>
    BY <1>2 DEF SkipBlock, FreePage
  <2>2. AskedRight'
    BY <1>1, <2>1 DEF RangeInv, AskedRight
  <2> QED
    BY <1>1, <2>1, <2>2, RangesFrame DEF RangeInv
<1>3. CASE NoBlock
  <2>1. UNCHANGED <<pages, page>> /\ heap' = NoHeap
    BY <1>1, <1>3 DEF NoBlock, Return
  <2>2. AskedRight'
    BY <1>1, <2>1 DEF RangeInv, AskedRight
  <2> QED
    BY <1>1, <2>1, <2>2, RangesFrame DEF RangeInv
<1>4. CASE TakeBlock
  <2> DEFINE start == i - (num_pages - 1)
  <2>1. /\ heap \in Heaps /\ start \in 0 .. NumPages[heap] - 1 /\ num_pages > 0
        /\ start + num_pages = i + 1
        /\ pages'[heap][start] = num_pages
        /\ \A p : p # start => pages'[heap][p] = pages[heap][p]
        /\ \A h \in Heaps : h # heap => pages'[h] = pages[h]
        /\ \A p \in Blocks(heap) : p + pages[heap][p] <= start \/ i + 1 <= p
    BY <1>4, BlockTaken DEF RangeInv
  <2> PICK h \in Heaps : h = heap
    BY <2>1
  <2>2. page' = start /\ heap' = NoHeap
    BY <1>4 DEF TakeBlock, Return
  <2>3. num_pages \in Nat /\ i \in Nat
    BY DEF RangeInv, AllocInv, AllocType
  <2> HIDE DEF start
  <2>4. start \notin Blocks(h)
    <3> SUFFICES ASSUME start \in Blocks(h) PROVE FALSE
      OBVIOUS
    <3>1. start \in Nat /\ pages[h][start] \in Nat \ {0}
      BY <2>1, BlockFacts DEF RangeInv, AllocInv
    <3> QED
      BY <2>1, <2>3, <3>1
  <2>5. /\ Blocks(h)' = Blocks(h) \union {start}
        /\ \A g \in Heaps : g # h => Blocks(g)' = Blocks(g)
        /\ \A g \in Heaps : \A p \in Blocks(g) : pages'[g][p] = pages[g][p]
    <3>1. Blocks(h)' = Blocks(h) \union {start}
      <4>1. start \in PagesOf(h)
        BY <2>1, PagesType
      <4>2. \A p \in PagesOf(h) : pages'[h][p] > 0 <=> (pages[h][p] > 0 \/ p = start)
        BY <2>1
      <4> QED
        BY <4>1, <4>2 DEF Blocks
    <3>2. \A g \in Heaps : g # h => Blocks(g)' = Blocks(g)
      BY <2>1 DEF Blocks
    <3>3. \A g \in Heaps : \A p \in Blocks(g) : pages'[g][p] = pages[g][p]
      BY <2>1, <2>4
    <3> QED
      BY <3>1, <3>2, <3>3
  <2>6. start # NoPage
    BY <2>1 DEF NoPage
  <2>7. AskedRight'
    BY <1>1, <2>1, <2>2, <2>5, PagesSuffice DEF RangeInv, AskedRight
  <2>8. HandlesMade'
    BY <1>1 DEF RangeInv, HandlesMade
  <2>9. FullRanges' = FullRanges
    BY <1>1 DEF FullRanges
  <2>10. \A q \in QueryTypes : HeapOf[q] \in Heaps /\ (HeapOf[q] = h <=> q = wanted.type)
    BY <1>1, QueryTypesAssumption
  <2>11. \A r \in FullRanges : r.type \in QueryTypes
    BY DEF FullRanges, HandlesMade, RangeInv
  <2>12. RangesHaveBlocks'
    <3>1. \A r, s \in FullRanges' : r.value = s.value => r = s
      BY <2>9 DEF RangeInv, RangesHaveBlocks
    <3>2. ASSUME NEW r \in FullRanges
          PROVE  \E p \in Blocks(HeapOf[r.type])' :
                   /\ r.value = IndexToHandle(p, r.type)
                   /\ pages'[HeapOf[r.type]][p] * PageSize >= r.size
                   /\ ~(page' = p /\ wanted'.type = r.type)
      <4>1. PICK p \in Blocks(HeapOf[r.type]) : /\ r.value = IndexToHandle(p, r.type)
                                                /\ pages[HeapOf[r.type]][p] * PageSize >= r.size
        BY DEF RangeInv, RangesHaveBlocks
      <4>2. p \in Blocks(HeapOf[r.type])' /\ pages'[HeapOf[r.type]][p] = pages[HeapOf[r.type]][p]
        BY <2>5, <2>10, <2>11
      <4>3. ~(page' = p /\ wanted'.type = r.type)
        BY <1>1, <2>2, <2>4, <2>10, <2>11
      <4> QED
        BY <4>1, <4>2, <4>3
    <3> QED
      BY <1>1, <2>9, <3>1, <3>2 DEF RangesHaveBlocks
  <2>13. BlocksHaveRanges'
    <3> SUFFICES ASSUME NEW q \in QueryTypes, NEW p \in Blocks(HeapOf[q])'
                 PROVE  \/ \E r \in FullRanges : r.type = q /\ r.value = IndexToHandle(p, q)
                        \/ page' = p /\ wanted.type = q
      BY <1>1, <2>9 DEF BlocksHaveRanges
    <3>1. CASE p \in Blocks(HeapOf[q])
      <4>1. p # NoPage
        BY <3>1, BlockIndices DEF RangeInv
      <4> QED
        BY <1>1, <3>1, <4>1 DEF RangeInv, BlocksHaveRanges
    <3>2. CASE p \notin Blocks(HeapOf[q])
      BY <2>2, <2>5, <2>10, <3>2
    <3> QED
      BY <3>1, <3>2
  <2> QED
    BY <2>7, <2>8, <2>12, <2>13
<1> QED
  BY <1>2, <1>3, <1>4 DEF SearchRange, Search

LEMMA CreateReturnsKept ==
  ASSUME RangeInv, NEW t \in Threads, CreateReturns(t)
  PROVE  AskedRight' /\ HandlesMade' /\ RangesHaveBlocks' /\ BlocksHaveRanges'
<1>1. CASE page = NoPage
  <2>1. UNCHANGED <<alloc, mMutex, ranges, wanted>>
    BY <1>1 DEF CreateReturns
  <2>2. AskedRight'
    BY <2>1 DEF RangeInv, AskedRight, Blocks, alloc
  <2> QED
    BY <2>1, <2>2, RangesFrame DEF RangeInv, alloc
<1>2. CASE page # NoPage
  <2> PICK q \in QueryTypes : q = wanted.type
    BY DEF RangeInv, AskedRight
  <2> PICK p \in Blocks(HeapOf[q]) : p = page
    BY <1>2 DEF RangeInv, AskedRight
  <2> DEFINE r == [value |-> IndexToHandle(p, q), type |-> q, size |-> wanted.size]
  <2>1. /\ ranges' = ranges \union {r} /\ wanted' = NoRange /\ mMutex' = NoThread
        /\ page' = NoPage /\ UNCHANGED <<pages, heap>> /\ heap = NoHeap /\ mMutex = t
    BY <1>2 DEF CreateReturns, Created, Taken
  <2>2. /\ IndexToHandle(p, q) \in 0 .. WordSize - 1 /\ p # NoPage
        /\ wanted.size \in Nat /\ wanted.size > 0 /\ pages[HeapOf[q]][p] * PageSize >= wanted.size
    BY <1>2, <2>1, BlockIndices, ThreadsAssumption DEF RangeInv, AskedRight
  <2>3. /\ r \in [value : 0 .. WordSize - 1, type : QueryTypes, size : Nat] /\ r.size > 0
        /\ r.value = IndexToHandle(p, q) /\ r.type = q /\ r.size = wanted.size
    BY <2>2
  <2> HIDE DEF r
  <2>4. FullRanges' = FullRanges \union {r} /\ \A g : Blocks(g)' = Blocks(g)
    BY <2>1, <2>3 DEF FullRanges, Blocks
  <2>5. AskedRight'
    <3>1. 0 \in QueryTypes
      BY QueryTypesAssumption
    <3> QED
      BY <2>1, <3>1, HeapsAssumption DEF AskedRight, NoRange
  <2>6. HandlesMade'
    BY <2>1, <2>3 DEF RangeInv, HandlesMade
  <2>7. ASSUME NEW s \in FullRanges
        PROVE  \E b \in Blocks(HeapOf[s.type]) :
                 /\ s.type \in QueryTypes
                 /\ s.value = IndexToHandle(b, s.type)
                 /\ pages[HeapOf[s.type]][b] * PageSize >= s.size
                 /\ b # NoPage /\ s.value # r.value
    <3>1. s.type \in QueryTypes
      BY DEF RangeInv, HandlesMade, FullRanges
    <3>2. PICK b \in Blocks(HeapOf[s.type]) : /\ s.value = IndexToHandle(b, s.type)
                                              /\ pages[HeapOf[s.type]][b] * PageSize >= s.size
                                              /\ ~(page = b /\ wanted.type = s.type)
      BY DEF RangeInv, RangesHaveBlocks
    <3>3. b # NoPage
      BY <3>1, BlockIndices DEF RangeInv
    <3>4. s.value # r.value
      BY <2>3, <3>1, <3>2, HandlesDiffer DEF RangeInv
    <3> QED
      BY <3>1, <3>2, <3>3, <3>4
  <2>8. RangesHaveBlocks'
    <3>1. ASSUME NEW s \in FullRanges'
          PROVE  \E b \in Blocks(HeapOf[s.type])' :
                   /\ s.value = IndexToHandle(b, s.type)
                   /\ pages'[HeapOf[s.type]][b] * PageSize >= s.size
                   /\ ~(page' = b /\ wanted'.type = s.type)
      <4>1. CASE s = r
        BY <2>1, <2>2, <2>3, <2>4, <4>1
      <4>2. CASE s # r
        BY <2>1, <2>4, <2>7, <4>2
      <4> QED
        BY <4>1, <4>2
    <3>2. \A s, u \in FullRanges' : s.value = u.value => s = u
      BY <2>4, <2>7 DEF RangeInv, RangesHaveBlocks
    <3> QED
      BY <3>1, <3>2 DEF RangesHaveBlocks
  <2>9. BlocksHaveRanges'
    BY <2>3, <2>4 DEF RangeInv, BlocksHaveRanges
  <2> QED
    BY <2>5, <2>6, <2>8, <2>9
<1> QED
  BY <1>1, <1>2

LEMMA FreeRangeKept ==
  ASSUME RangeInv, NEW r \in ranges, FreeRange(r)
  PROVE  AskedRight' /\ HandlesMade' /\ RangesHaveBlocks' /\ BlocksHaveRanges'
<1>1. /\ mMutex = NoThread /\ heap = NoHeap /\ page = NoPage
      /\ ranges' = ranges \ {r} /\ UNCHANGED <<mMutex, wanted, heap, page>>
  BY DEF FreeRange, Free, alloc, RangeInv, AskedRight
<1>2. AskedRight'
  BY <1>1 DEF RangeInv, AskedRight
<1>3. HandlesMade'
  BY <1>1 DEF RangeInv, HandlesMade
<1>4. r.type \in QueryTypes /\ r.size \in Nat
  BY DEF RangeInv, HandlesMade
<1>5. CASE r.size = 0
  <2>1. r.value = IndexToHandle(NoPage, r.type)
    BY <1>5 DEF RangeInv, HandlesMade
  <2>2. UNCHANGED pages
    <3> DEFINE type == HandleToQueryType(r.value)
               p    == HandleToIndex(r.value, type)
    <3>1. type \in QueryTypes /\ p \in Int /\ (p < 0 \/ p >= NumPages[HeapOf[type]])
      BY <1>4, <2>1, EmptyHandles
    <3>2. NumPages[HeapOf[type]] \in Nat
      BY <3>1, IndicesFit
    <3>3. /\ p < NumPages[HeapOf[type]] => pages' = Freed(pages, HeapOf[type], p)
          /\ p >= NumPages[HeapOf[type]] => UNCHANGED pages
      <4>1. \/ p < NumPages[HeapOf[type]] /\ Free(HeapOf[type], p)
            \/ p >= NumPages[HeapOf[type]] /\ UNCHANGED alloc
        BY DEF FreeRange
      <4> HIDE DEF type, p
      <4> QED
        BY <3>1, <3>2, <4>1 DEF Free, alloc
    <3> HIDE DEF type, p
    <3>4. p < 0 => Freed(pages, HeapOf[type], p) = pages
      BY <3>1 DEF Freed
    <3> QED
      BY <3>1, <3>2, <3>3, <3>4
  <2>3. FullRanges' = FullRanges /\ \A g : Blocks(g)' = Blocks(g)
    BY <1>1, <1>5, <2>2 DEF FullRanges, Blocks
  <2>4. RangesHaveBlocks' /\ BlocksHaveRanges'
    BY <1>1, <2>2, <2>3 DEF RangeInv, RangesHaveBlocks, BlocksHaveRanges
  <2> QED
    BY <1>2, <1>3, <2>4
<1>6. CASE r.size > 0
  <2> PICK q \in QueryTypes : q = r.type
    BY <1>4
  <2>1. r \in FullRanges
    BY <1>6 DEF FullRanges
  <2>2. PICK p \in Blocks(HeapOf[q]) : r.value = IndexToHandle(p, q)
    BY <2>1 DEF RangeInv, RangesHaveBlocks
  <2>3. /\ HandleToQueryType(r.value) = q /\ HandleToIndex(r.value, q) = p /\ HeapOf[q] \in Heaps
        /\ p \in PagesOf(HeapOf[q]) /\ p \in 0 .. NumPages[HeapOf[q]] - 1
    BY <2>2, BlockIndices, IndicesFit, PagesType DEF RangeInv
  <2>4. pages' = [pages EXCEPT ![HeapOf[q]][p] = 0]
    <3>1. NumPages[HeapOf[q]] \in Nat /\ p < NumPages[HeapOf[q]] /\ p \in Nat
      BY <2>3, IndicesFit
    <3>2. Free(HeapOf[q], p) \/ p >= NumPages[HeapOf[q]]
      BY <2>3 DEF FreeRange
    <3>3. Free(HeapOf[q], p)
      BY <3>1, <3>2
    <3> QED
      BY <3>1, <3>3 DEF Free, Freed
  <2>5. /\ \A g \in Heaps : \A b \in PagesOf(g) :
             pages'[g][b] = IF g = HeapOf[q] /\ b = p THEN 0 ELSE pages[g][b]
    BY <2>3, <2>4, BlockFacts DEF RangeInv, AllocInv, AllocType
  <2>6. /\ \A g \in Heaps : Blocks(g)' = {b \in Blocks(g) : ~(g = HeapOf[q] /\ b = p)}
        /\ \A g \in Heaps : \A b \in Blocks(g)' : pages'[g][b] = pages[g][b]
    BY <2>5 DEF Blocks
  <2>7. FullRanges' = FullRanges \ {r}
    BY <1>1 DEF FullRanges
  <2>8. \A a \in QueryTypes : HeapOf[a] \in Heaps /\ (HeapOf[a] = HeapOf[q] <=> a = q)
    BY QueryTypesAssumption
  <2>9. ASSUME NEW s \in FullRanges'
        PROVE  \E b \in Blocks(HeapOf[s.type])' :
                 /\ s.value = IndexToHandle(b, s.type)
                 /\ pages'[HeapOf[s.type]][b] * PageSize >= s.size
                 /\ ~(page' = b /\ wanted'.type = s.type)
    <3>1. s \in FullRanges /\ s # r /\ s.type \in QueryTypes
      BY <2>7 DEF RangeInv, HandlesMade, FullRanges
    <3>2. PICK b \in Blocks(HeapOf[s.type]) : /\ s.value = IndexToHandle(b, s.type)
                                              /\ pages[HeapOf[s.type]][b] * PageSize >= s.size
                                              /\ ~(page = b /\ wanted.type = s.type)
      BY <3>1 DEF RangeInv, RangesHaveBlocks
    <3>3. s.value # r.value
      BY <2>1, <3>1 DEF RangeInv, RangesHaveBlocks
    <3>4. ~(HeapOf[s.type] = HeapOf[q] /\ b = p)
      BY <2>2, <2>8, <3>1, <3>2, <3>3
    <3>5. b \in Blocks(HeapOf[s.type])' /\ pages'[HeapOf[s.type]][b] = pages[HeapOf[s.type]][b]
      BY <2>6, <2>8, <3>1, <3>4
    <3> QED
      BY <1>1, <3>2, <3>5
  <2>10. RangesHaveBlocks'
    BY <2>7, <2>9 DEF RangeInv, RangesHaveBlocks
  <2>11. BlocksHaveRanges'
    <3> SUFFICES ASSUME NEW a \in QueryTypes, NEW b \in Blocks(HeapOf[a])'
                 PROVE  \E s \in FullRanges' : s.type = a /\ s.value = IndexToHandle(b, a)
      BY DEF BlocksHaveRanges
    <3>1. b \in Blocks(HeapOf[a]) /\ ~(a = q /\ b = p)
      BY <2>6, <2>8
    <3>2. b # NoPage
      BY <3>1, BlockIndices DEF RangeInv
    <3>3. PICK s \in FullRanges : s.type = a /\ s.value = IndexToHandle(b, a)
      BY <1>1, <3>1, <3>2 DEF RangeInv, BlocksHaveRanges
    <3>4. s # r
      BY <2>2, <3>1, <3>3, HandlesDiffer DEF RangeInv
    <3> QED
      BY <2>7, <3>3, <3>4
  <2> QED
    BY <1>2, <1>3, <2>10, <2>11
<1> QED
  BY <1>4, <1>5, <1>6

LEMMA RangeInvKept == RangeInv /\ [RangeNext]_rangevars => RangeInv'
<1> SUFFICES ASSUME RangeInv, [RangeNext]_rangevars PROVE RangeInv'
  OBVIOUS
<1>1. AllocInv'
  BY RangeStep, AllocInvInductive DEF RangeInv, AllocInv
<1>2. CASE UNCHANGED rangevars
  <2>1. AskedRight'
    BY <1>2 DEF rangevars, alloc, RangeInv, AskedRight, Blocks
  <2> QED
    BY <1>1, <1>2, <2>1, RangesFrame DEF rangevars, alloc, RangeInv
<1>3. CASE RangeNext
  BY <1>1, <1>3, CreateRangeKept, SearchRangeKept, CreateReturnsKept, FreeRangeKept DEF RangeNext, RangeInv
<1> QED
  BY <1>2, <1>3

LEMMA RangeInitInv == RangeInit => RangeInv
<1> SUFFICES ASSUME RangeInit PROVE RangeInv
  OBVIOUS
<1>1. AllocInv
  BY AllocInitInv DEF RangeInit
<1>2. ranges = {} /\ mMutex = NoThread /\ heap = NoHeap /\ page = NoPage
  BY DEF RangeInit, AllocInit
<1>3. AskedRight
  <2>1. 0 \in QueryTypes
    BY QueryTypesAssumption
  <2> QED
    BY <1>2, <2>1, HeapsAssumption DEF RangeInit, NoRange, AskedRight
<1>4. HandlesMade /\ RangesHaveBlocks
  <2>1. FullRanges = {}
    BY <1>2 DEF FullRanges
  <2> QED
    BY <1>2, <2>1 DEF HandlesMade, RangesHaveBlocks
<1>5. BlocksHaveRanges
  <2>1. \A h \in Heaps : Blocks(h) = {}
    <3>1. \A h \in Heaps : \A p \in PagesOf(h) : pages[h][p] = 0
      BY DEF RangeInit, AllocInit
    <3>2. \A h \in Heaps : \A p \in PagesOf(h) : ~(pages[h][p] > 0)
      BY <3>1
    <3> QED
      BY <3>2 DEF Blocks
  <2> QED
    BY <2>1, QueryTypesAssumption DEF BlocksHaveRanges
<1> QED
  BY <1>1, <1>3, <1>4, <1>5 DEF RangeInv

LEMMA RangeInvCorrect == RangeSpec => []RangeInv
  BY RangeInitInv, RangeInvKept, PTL DEF RangeSpec

LEMMA InvOwned == RangeInv => RangesOwned
<1> SUFFICES ASSUME RangeInv PROVE RangesOwned
  OBVIOUS
<1>1. ASSUME NEW r \in FullRanges
      PROVE  \E p \in Blocks(HeapOf[r.type]) :
               /\ r.type \in QueryTypes
               /\ r.value = IndexToHandle(p, r.type)
               /\ HandleToQueryType(r.value) = r.type
               /\ BlockOf(r) = <<HeapOf[r.type], p>>
               /\ pages[HeapOf[r.type]][p] * PageSize >= r.size
  <2>1. r.type \in QueryTypes
    BY DEF RangeInv, HandlesMade, FullRanges
  <2>2. PICK p \in Blocks(HeapOf[r.type]) : /\ r.value = IndexToHandle(p, r.type)
                                            /\ pages[HeapOf[r.type]][p] * PageSize >= r.size
    BY DEF RangeInv, RangesHaveBlocks
  <2>3. HandleToQueryType(r.value) = r.type /\ HandleToIndex(r.value, r.type) = p
    BY <2>1, <2>2, BlockIndices DEF RangeInv
  <2> QED
    BY <2>1, <2>2, <2>3 DEF BlockOf
<1>2. ASSUME NEW r \in FullRanges
      PROVE  /\ HandleToQueryType(r.value) = r.type
             /\ BlockOf(r)[2] \in Blocks(HeapOf[r.type])
             /\ pages[HeapOf[r.type]][BlockOf(r)[2]] * PageSize >= r.size
  BY <1>1
<1>3. ASSUME NEW r \in FullRanges, NEW s \in FullRanges, BlockOf(r) = BlockOf(s)
      PROVE  r = s
  <2>1. PICK p \in Blocks(HeapOf[r.type]) : /\ r.type \in QueryTypes /\ r.value = IndexToHandle(p, r.type)
                                            /\ BlockOf(r) = <<HeapOf[r.type], p>>
    BY <1>1
  <2>2. PICK b \in Blocks(HeapOf[s.type]) : /\ s.type \in QueryTypes /\ s.value = IndexToHandle(b, s.type)
                                            /\ BlockOf(s) = <<HeapOf[s.type], b>>
    BY <1>1
  <2>3. r.type = s.type /\ p = b
    <3>1. <<HeapOf[r.type], p>> = <<HeapOf[s.type], b>>
      BY <1>3, <2>1, <2>2, Zenon
    <3> QED
      BY <2>1, <2>2, <3>1, QueryTypesAssumption
  <2> QED
    BY <2>1, <2>2, <2>3 DEF RangeInv, RangesHaveBlocks
<1>4. ASSUME NEW q \in QueryTypes, NEW p \in Blocks(HeapOf[q])
      PROVE  \/ <<HeapOf[q], p>> \in {BlockOf(r) : r \in FullRanges}
             \/ mMutex # NoThread /\ heap = NoHeap /\ page = p /\ wanted.type = q
  <2>1. CASE \E r \in FullRanges : r.type = q /\ r.value = IndexToHandle(p, q)
    <3>1. PICK r \in FullRanges : r.type = q /\ r.value = IndexToHandle(p, q)
      BY <2>1
    <3>2. BlockOf(r) = <<HeapOf[q], p>>
      BY <3>1, BlockIndices DEF RangeInv, BlockOf
    <3> QED
      BY <3>2
  <2>2. CASE page = p /\ wanted.type = q
    <3>1. page # NoPage
      BY <2>2, BlockIndices DEF RangeInv
    <3> QED
      BY <2>2, <3>1 DEF RangeInv, AskedRight
  <2> QED
    BY <2>1, <2>2 DEF RangeInv, BlocksHaveRanges
<1> QED
  BY <1>2, <1>3, <1>4 DEF RangesOwned

\* A handle names the block its range was given, whatever was created and freed in between: of every
\* type, size and number of ranges, none is leaked or shared, and freeing a handle of no queries
\* touches no other range (query_pool.cc:3-19, query_pool.hh:79-102).
THEOREM RangesAlwaysOwned == RangeSpec => []RangesOwned
  BY RangeInvCorrect, InvOwned, PTL

-----------------------------------------------------------------------------
(* Shader views                                                            *)

\* Only the thread that holds the mutex is in the allocators, and it has asked for something.
MutexInv ==
  /\ pc = [t \in Threads |-> pc[t]]
  /\ \A t \in Threads : pc[t] \in {"allocate", "search", "span"} => mMutex = t
  /\ heap # NoHeap => mMutex \in Threads /\ pc[mMutex] = "search"

NewViews == [state  : {"free", "new"},
             size   : [ViewHeaps -> Nat],
             handle : [ViewHeaps -> Nat \union {NoPage}]]

\* No heap is asked for nothing.
NewInv ==
  /\ new \in [Threads -> NewViews]
  /\ todo \in [Threads -> Seq(ViewHeaps)]
  /\ \A t \in Threads : pc[t] \in {"allocate", "search"} =>
       \A k \in DOMAIN todo[t] : new[t].size[todo[t][k]] > 0
  /\ \A t \in Threads : pc[t] = "search" => todo[t] # <<>>

LEMMA BlocksFreed ==
  ASSUME AllocType, heap = NoHeap, NEW v, FreeBlocks(v)
  PROVE  GiveBack
<1> DEFINE a    == views[v].handle[SRVUAV]
           b    == views[v].handle[SAMPLER]
           half == Freed(pages, SRVUAV, a)
<1>1. Shape(pages)
  BY DEF AllocType, Shape
<1>2. pages' = Freed(half, SAMPLER, b)
  BY DEF FreeBlocks
<1> HIDE DEF a, b
<1>3. Shape(half) /\ \A g \in Heaps : \A q \in PagesOf(g) : half[g][q] \in {0, pages[g][q]}
  BY <1>1, FreedPages
<1> HIDE DEF half
<1>4. /\ Shape(pages)'
      /\ \A g \in Heaps : \A q \in PagesOf(g) : pages'[g][q] \in {0, half[g][q]}
  <2>1. Shape(Freed(half, SAMPLER, b)) <=> Shape(pages)'
    BY <1>2 DEF Shape
  <2> QED
    BY <1>2, <1>3, <2>1, FreedPages
<1>5. \A g \in Heaps : \A q \in PagesOf(g) : pages'[g][q] \in {0, pages[g][q]}
  BY <1>3, <1>4
<1> QED
  BY <1>1, <1>4, <1>5, PagesGivenBack DEF FreeBlocks

LEMMA ViewStep == AllocType /\ MutexInv /\ NewInv /\ [ViewNext]_viewvars => [AllocNext]_alloc
<1> SUFFICES ASSUME AllocType, MutexInv, NewInv, [ViewNext]_viewvars PROVE AllocNext \/ UNCHANGED alloc
  OBVIOUS
<1>1. ASSUME NEW t \in Threads, AllocateBlock(t) PROVE AllocNext
  <2>1. /\ pc[t] = "allocate" /\ todo[t] # <<>> /\ todo[t] \in Seq(ViewHeaps)
        /\ Allocate(Head(todo[t]), new[t].size[Head(todo[t])])
    BY <1>1 DEF AllocateBlock, NewInv
  <2>2. Head(todo[t]) = todo[t][1] /\ 1 \in DOMAIN todo[t] /\ Head(todo[t]) \in ViewHeaps
    BY <2>1, EmptySeq, LenProperties, HeadTailProperties
  <2>3. new[t].size[Head(todo[t])] > 0 /\ new[t].size[Head(todo[t])] \in Nat
    BY <2>1, <2>2 DEF NewInv, NewViews
  <2>4. Head(todo[t]) \in Heaps
    BY <2>2, ViewHeapsAssumption DEF ViewHeaps
  <2> QED
    BY <2>1, <2>3, <2>4 DEF AllocNext
<1>2. CASE SearchBlock
  BY <1>2 DEF SearchBlock, AllocNext
<1>3. ASSUME NEW t \in Threads, AllocateReturns(t) PROVE AllocNext \/ UNCHANGED alloc
  BY <1>3 DEF AllocateReturns, AllocNext
<1>4. ASSUME NEW t \in Threads, FreeViewBlocks(t) PROVE AllocNext
  <2>1. heap = NoHeap /\ \E v : FreeBlocks(v)
    BY <1>4, ThreadsAssumption DEF FreeViewBlocks, MutexInv
  <2> QED
    BY <2>1, BlocksFreed DEF AllocNext
<1>5. ASSUME NEW t \in Threads, FreeNext(t) PROVE AllocNext
  <2>1. heap = NoHeap /\ \E v : FreeBlocks(v)
    BY <1>5 DEF FreeNext, MutexInv
  <2> QED
    BY <2>1, BlocksFreed DEF AllocNext
<1>6. ASSUME NEW t \in Threads, Unlock(t) \/ CheckRoom(t) \/ AcquireNode(t) \/ ReleaseNode(t) \/ SpanEnds(t)
      PROVE  UNCHANGED alloc
  BY <1>6 DEF Unlock, CheckRoom, AcquireNode, ReleaseNode, SpanEnds
<1>7. ASSUME NEW t \in Threads, NEW size \in Sizes, CreateEmpty(t, size) PROVE UNCHANGED alloc
  BY <1>7 DEF CreateEmpty
<1>8. ASSUME NEW t \in Threads, NEW v \in Views, FreeView(t, v) PROVE UNCHANGED alloc
  BY <1>8 DEF FreeView, BeginFree
<1>9. ASSUME NEW t \in Threads, NEW vs \in SUBSET Views, FreeSpan(t, vs) PROVE UNCHANGED alloc
  BY <1>9 DEF FreeSpan, BeginFree
<1>10. CASE UNCHANGED viewvars
  BY <1>10 DEF viewvars
<1> QED
  BY <1>1, <1>2, <1>3, <1>4, <1>5, <1>6, <1>7, <1>8, <1>9, <1>10 DEF ViewNext, ViewCall

LEMMA AskedFor ==
  ASSUME NEW size \in Sizes
  PROVE  /\ View("new", size) \in NewViews /\ View("new", size).size = size
         /\ HeapsToAsk(size) \in Seq(ViewHeaps)
         /\ \A k \in DOMAIN HeapsToAsk(size) : size[HeapsToAsk(size)[k]] > 0
<1> DEFINE asked == {h \in ViewHeaps : size[h] > 0}
<1>1. size \in [ViewHeaps -> Nat]
  BY ViewBoundsAssumption DEF Sizes
<1>2. View("new", size) \in NewViews /\ View("new", size).size = size
  BY <1>1 DEF View, NewViews
<1>3. HeapsToAsk(size) \in Seq(asked)
  <2>1. /\ size[SRVUAV] > 0 => SRVUAV \in asked
        /\ size[SAMPLER] > 0 => SAMPLER \in asked
    BY DEF ViewHeaps
  <2> HIDE DEF asked
  <2>2. \A h \in asked : <<h>> \in Seq(asked)
    OBVIOUS
  <2>3. (IF size[SRVUAV] > 0 THEN <<SRVUAV>> ELSE <<>>) \in Seq(asked)
    BY <2>1, <2>2, EmptySeq
  <2>4. (IF size[SAMPLER] > 0 THEN <<SAMPLER>> ELSE <<>>) \in Seq(asked)
    BY <2>1, <2>2, EmptySeq
  <2> QED
    BY <2>3, <2>4, ConcatProperties DEF HeapsToAsk
<1>4. \A k \in DOMAIN HeapsToAsk(size) : HeapsToAsk(size)[k] \in asked
  BY <1>3, LenProperties, ElementOfSeq
<1>5. HeapsToAsk(size) \in Seq(ViewHeaps)
  BY <1>3, SeqMonotonic
<1> QED
  BY <1>2, <1>4, <1>5

LEMMA MutexInvKept == MutexInv /\ [ViewNext]_viewvars => MutexInv'
<1> SUFFICES ASSUME MutexInv, [ViewNext]_viewvars PROVE MutexInv'
  OBVIOUS
<1> USE ThreadsAssumption
<1>1. ASSUME NEW t \in Threads, AllocateBlock(t) PROVE MutexInv'
  BY <1>1 DEF AllocateBlock, Allocate, Goto, MutexInv
<1>2. CASE SearchBlock
  BY <1>2 DEF SearchBlock, Search, SkipBlock, FreePage, TakeBlock, NoBlock, Return, MutexInv
<1>3. ASSUME NEW t \in Threads, AllocateReturns(t) PROVE MutexInv'
  <2>1. heap = NoHeap /\ heap' = NoHeap /\ mMutex' = mMutex /\ pc[t] = "search"
        /\ pc' \in {pc, [pc EXCEPT ![t] = "allocate"]}
    BY <1>3 DEF AllocateReturns, Taken, Goto, alloc
  <2> QED
    BY <2>1 DEF MutexInv
<1>4. ASSUME NEW t \in Threads, FreeViewBlocks(t) PROVE MutexInv'
  BY <1>4 DEF FreeViewBlocks, FreeBlocks, Goto, MutexInv
<1>5. ASSUME NEW t \in Threads, FreeNext(t) PROVE MutexInv'
  BY <1>5 DEF FreeNext, FreeBlocks, MutexInv
<1>6. ASSUME NEW t \in Threads, Unlock(t) \/ SpanEnds(t) PROVE MutexInv'
  <2>1. /\ pc[t] \in {"allocate", "span"} /\ mMutex' = NoThread /\ heap' = heap
        /\ \E to \in {"check", "idle"} : pc' = [pc EXCEPT ![t] = to]
    BY <1>6 DEF Unlock, SpanEnds, Goto, alloc
  <2> QED
    BY <2>1 DEF MutexInv
<1>7. ASSUME NEW t \in Threads, CheckRoom(t) \/ AcquireNode(t) \/ ReleaseNode(t) PROVE MutexInv'
  <2>1. /\ pc[t] \in {"check", "acquire", "release"} /\ mMutex' = mMutex /\ heap' = heap
        /\ pc' = pc \/ \E to \in {"acquire", "idle"} : pc' = [pc EXCEPT ![t] = to]
    BY <1>7 DEF CheckRoom, AcquireNode, ReleaseNode, Goto, alloc
  <2> QED
    BY <2>1 DEF MutexInv
<1>8. ASSUME NEW t \in Threads, NEW size \in Sizes, CreateEmpty(t, size) PROVE MutexInv'
  BY <1>8 DEF CreateEmpty, Goto, alloc, MutexInv
<1>9. ASSUME NEW t \in Threads, NEW v \in Views, FreeView(t, v) PROVE MutexInv'
  BY <1>9 DEF FreeView, BeginFree, Goto, alloc, MutexInv
<1>10. ASSUME NEW t \in Threads, NEW vs \in SUBSET Views, FreeSpan(t, vs) PROVE MutexInv'
  BY <1>10 DEF FreeSpan, BeginFree, Goto, alloc, MutexInv
<1>11. CASE UNCHANGED viewvars
  BY <1>11 DEF viewvars, alloc, MutexInv
<1> QED
  BY <1>1, <1>2, <1>3, <1>4, <1>5, <1>6, <1>7, <1>8, <1>9, <1>10, <1>11 DEF ViewNext, ViewCall

LEMMA NewInvKept == AllocType /\ MutexInv /\ NewInv /\ [ViewNext]_viewvars => NewInv'
<1> SUFFICES ASSUME AllocType, MutexInv, NewInv, [ViewNext]_viewvars PROVE NewInv'
  OBVIOUS
<1>1. ASSUME UNCHANGED <<new, todo>>,
             \A t \in Threads : pc'[t] \in {"allocate", "search"} => pc[t] = pc'[t]
      PROVE  NewInv'
  BY <1>1 DEF NewInv
<1>2. ASSUME NEW t \in Threads, NEW to, to \notin {"allocate", "search"},
             Goto(t, to), UNCHANGED <<new, todo>>
      PROVE  NewInv'
  BY <1>1, <1>2 DEF Goto, MutexInv
<1>3. ASSUME NEW t \in Threads, AllocateBlock(t) PROVE NewInv'
  BY <1>3 DEF AllocateBlock, Goto, NewInv, MutexInv
<1>4. ASSUME NEW t \in Threads, FreeViewBlocks(t) \/ Unlock(t) \/ ReleaseNode(t) \/ SpanEnds(t) PROVE NewInv'
  BY <1>2, <1>4 DEF FreeViewBlocks, Unlock, ReleaseNode, SpanEnds
<1>5. CASE SearchBlock \/ UNCHANGED viewvars
  BY <1>1, <1>5 DEF SearchBlock, viewvars
<1>6. ASSUME NEW t \in Threads, FreeNext(t) \/ CheckRoom(t) PROVE NewInv'
  BY <1>1, <1>2, <1>6 DEF FreeNext, CheckRoom
<1>7. ASSUME NEW t \in Threads, NEW v \in Views, FreeView(t, v) PROVE NewInv'
  BY <1>2, <1>7 DEF FreeView, BeginFree
<1>8. ASSUME NEW t \in Threads, NEW vs \in SUBSET Views, FreeSpan(t, vs) PROVE NewInv'
  BY <1>2, <1>8 DEF FreeSpan, BeginFree
<1>9. ASSUME NEW t \in Threads, NEW size \in Sizes, CreateEmpty(t, size) PROVE NewInv'
  <2>1. /\ new' = [new EXCEPT ![t] = View("new", size)] /\ todo' = [todo EXCEPT ![t] = HeapsToAsk(size)]
        /\ pc' = [pc EXCEPT ![t] = "allocate"]
    BY <1>9 DEF CreateEmpty, Goto
  <2> QED
    BY <2>1, AskedFor DEF NewInv, MutexInv
<1>10. ASSUME NEW t \in Threads, AcquireNode(t) PROVE NewInv'
  <2>1. FreeNode \in NewViews
    BY DEF FreeNode, View, NewViews
  <2>2. /\ todo' = todo /\ pc[t] = "acquire"
        /\ \/ UNCHANGED <<new, pc>>
           \/ new' = [new EXCEPT ![t] = FreeNode] /\ pc' = [pc EXCEPT ![t] = "idle"]
    BY <1>10 DEF AcquireNode, Goto
  <2> QED
    BY <2>1, <2>2 DEF NewInv, MutexInv
<1>11. ASSUME NEW t \in Threads, AllocateReturns(t) PROVE NewInv'
  <2>1. CASE UNCHANGED <<new, todo, pc>>
    BY <1>1, <2>1
  <2>2. CASE ~UNCHANGED <<new, todo, pc>>
    <3>1. /\ new' = [new EXCEPT ![t].handle[Head(todo[t])] = page] /\ todo' = [todo EXCEPT ![t] = Tail(@)]
          /\ pc' = [pc EXCEPT ![t] = "allocate"] /\ pc[t] = "search" /\ page # NoPage
      BY <1>11, <2>2 DEF AllocateReturns, Goto
    <3>2. page \in Nat /\ todo[t] # <<>> /\ todo[t] \in Seq(ViewHeaps) /\ new[t] \in NewViews
      BY <3>1 DEF AllocType, NewInv
    <3>3. /\ Head(todo[t]) \in ViewHeaps /\ Tail(todo[t]) \in Seq(ViewHeaps)
          /\ \A k \in DOMAIN Tail(todo[t]) : k + 1 \in DOMAIN todo[t] /\ Tail(todo[t])[k] = todo[t][k + 1]
      <4>1. /\ Head(todo[t]) \in ViewHeaps /\ Tail(todo[t]) \in Seq(ViewHeaps)
            /\ Len(Tail(todo[t])) = Len(todo[t]) - 1
            /\ \A k \in 1 .. Len(Tail(todo[t])) : Tail(todo[t])[k] = todo[t][k + 1]
        BY <3>2, HeadTailProperties
      <4>2. /\ Len(todo[t]) \in Nat /\ DOMAIN todo[t] = 1 .. Len(todo[t])
            /\ DOMAIN Tail(todo[t]) = 1 .. Len(Tail(todo[t]))
        BY <3>2, <4>1, LenProperties
      <4> QED
        BY <4>1, <4>2
    <3> DEFINE x == [new[t] EXCEPT !.handle[Head(todo[t])] = page]
    <3>4. x \in NewViews /\ x.size = new[t].size
      <4>1. ASSUME NEW r \in NewViews, NEW h \in ViewHeaps, NEW p \in Nat
            PROVE  LET y == [r EXCEPT !.handle[h] = p] IN y \in NewViews /\ y.size = r.size
        BY DEF NewViews
      <4> QED
        BY <3>2, <3>3, <4>1
    <3>5. new' = [new EXCEPT ![t] = x]
      BY <3>1
    <3> HIDE DEF x
    <3>6. \A k \in DOMAIN todo[t] : new[t].size[todo[t][k]] > 0
      BY <3>1 DEF NewInv
    <3>7. new'[t] = x /\ todo'[t] = Tail(todo[t])
      BY <3>1, <3>5 DEF NewInv
    <3>8. \A k \in DOMAIN todo'[t] : new'[t].size[todo'[t][k]] > 0
      BY <3>3, <3>4, <3>6, <3>7
    <3>9. new' \in [Threads -> NewViews] /\ todo' \in [Threads -> Seq(ViewHeaps)]
      BY <3>1, <3>3, <3>4, <3>5 DEF NewInv
    <3>10. ASSUME NEW u \in Threads, u # t
           PROVE  new'[u] = new[u] /\ todo'[u] = todo[u] /\ pc'[u] = pc[u]
      BY <3>1, <3>5, <3>10 DEF NewInv, MutexInv
    <3>11. pc'[t] = "allocate"
      BY <3>1 DEF MutexInv
    <3> QED
      BY <3>8, <3>9, <3>10, <3>11 DEF NewInv
  <2> QED
    BY <2>1, <2>2
<1> QED
  BY <1>3, <1>4, <1>5, <1>6, <1>7, <1>8, <1>9, <1>10, <1>11 DEF ViewNext, ViewCall

LEMMA ViewInitInv == ViewInit => MutexInv /\ NewInv
<1> SUFFICES ASSUME ViewInit PROVE MutexInv /\ NewInv
  OBVIOUS
<1>1. FreeNode \in NewViews
  BY DEF FreeNode, View, NewViews
<1>2. MutexInv
  BY DEF ViewInit, AllocInit, MutexInv
<1> QED
  BY <1>1, <1>2, EmptySeq DEF ViewInit, NewInv

LEMMA ViewsAllocate == ViewSpec => []AllocInv /\ AllocSpec
<1>1. ViewInit => AllocInit
  BY DEF ViewInit
<1>2. AllocInv => AllocType
  BY DEF AllocInv
<1> QED
  BY <1>1, <1>2, ViewStep, MutexInvKept, NewInvKept, ViewInitInv, AllocInitInv, AllocInvInductive, PTL
     DEF ViewSpec, AllocSpec

\* The blocks of shader views are apart and the lowest there is room for: no two threads are in an
\* allocator at once, and none frees while another searches (shader_view_pool.cc:22-60, 163-197).
THEOREM ViewsPlaced == ViewSpec => []BlocksApart /\ FindsLowest
  BY ViewsAllocate, BlocksAlwaysApart, AlwaysLowest, PTL

-----------------------------------------------------------------------------
(* Who owns the blocks of shader views                                     *)

\* The views a thread frees are its own, and out of the application's hands.
FreedRight ==
  /\ freed \in [Threads -> SUBSET Views]
  /\ \A t \in Threads :
       /\ pc[t] \notin {"free", "span", "release"} => freed[t] = {}
       /\ pc[t] \in {"free", "span"} => \A v \in freed[t] : views[v].state = "doomed"
       /\ pc[t] = "release" => \A v \in freed[t] : views[v].state = "spent"
       /\ pc[t] = "free" => \E v \in Views : freed[t] = {v}
  /\ \A t, u \in Threads : t # u => freed[t] \intersect freed[u] = {}

\* A call that is about to create a view has a block of no heap it has yet to ask, and a call that
\* has created it has none at all.
NewRight ==
  /\ \A t \in Threads :
       pc[t] \notin {"allocate", "search", "check", "acquire"} => \A h \in ViewHeaps : new[t].handle[h] = NoPage
  /\ \A t \in Threads : pc[t] \in {"allocate", "search"} =>
       /\ \A k \in DOMAIN todo[t] : new[t].handle[todo[t][k]] = NoPage
       /\ \A j, k \in DOMAIN todo[t] : j # k => todo[t][j] # todo[t][k]

\* The search is for what the thread with the mutex has asked, and so is what it has found.
Asked == Head(todo[mMutex])

FoundRight ==
  /\ heap # NoHeap => /\ heap = Asked /\ page = NoPage
                      /\ num_pages = IntDivCeil(new[mMutex].size[Asked], PageSize)
  /\ page # NoPage => /\ mMutex \in Threads /\ pc[mMutex] = "search" /\ heap = NoHeap
                      /\ page \in Blocks(Asked)
                      /\ pages[Asked][page] * PageSize >= new[mMutex].size[Asked]

ViewRecs == [state  : {"free", "live", "doomed", "spent"},
             size   : [ViewHeaps -> Nat],
             handle : [ViewHeaps -> Nat \union {NoPage}]]

ViewsTyped ==
  /\ mMutex \in Threads \union {NoThread}
  /\ views \in [Views -> ViewRecs]
  /\ pc \in [Threads -> {"idle", "allocate", "search", "check", "acquire", "free", "release", "span"}]

ViewOwns(v, h) == views[v].state \in {"live", "doomed"} /\ views[v].handle[h] # NoPage
CallOwns(t, h) == new[t].handle[h] # NoPage
Waits(h, p)    == page = p /\ Asked = h

OwnersRight ==
  \A h \in ViewHeaps :
    /\ \A v \in Views : ViewOwns(v, h) =>
         /\ views[v].handle[h] \in Blocks(h) /\ ~Waits(h, views[v].handle[h])
         /\ pages[h][views[v].handle[h]] * PageSize >= views[v].size[h]
    /\ \A t \in Threads : CallOwns(t, h) =>
         /\ new[t].handle[h] \in Blocks(h) /\ ~Waits(h, new[t].handle[h])
         /\ pages[h][new[t].handle[h]] * PageSize >= new[t].size[h]
    /\ \A v, w \in Views :
         ViewOwns(v, h) /\ ViewOwns(w, h) /\ views[v].handle[h] = views[w].handle[h] => v = w
    /\ \A t, u \in Threads :
         CallOwns(t, h) /\ CallOwns(u, h) /\ new[t].handle[h] = new[u].handle[h] => t = u
    /\ \A v \in Views, t \in Threads :
         ViewOwns(v, h) /\ CallOwns(t, h) => views[v].handle[h] # new[t].handle[h]
    /\ \A p \in Blocks(h) :
         \/ Waits(h, p)
         \/ \E v \in Views : ViewOwns(v, h) /\ views[v].handle[h] = p
         \/ \E t \in Threads : CallOwns(t, h) /\ new[t].handle[h] = p

ViewInv ==
  /\ AllocInv /\ MutexInv /\ NewInv
  /\ ViewsTyped /\ FreedRight /\ NewRight /\ FoundRight /\ OwnersRight

LEMMA ViewBlocks ==
  ASSUME AllocInv, NEW h \in ViewHeaps
  PROVE  /\ h \in Heaps /\ \A p \in Blocks(h) : p \in Nat /\ p # NoPage /\ p \in PagesOf(h)
         /\ PagesOf(h) \subseteq Nat
<1>1. h \in Heaps
  BY ViewHeapsAssumption DEF ViewHeaps
<1>2. \A p \in Blocks(h) : p \in Nat /\ p \in PagesOf(h)
  BY <1>1, BlockFacts DEF AllocInv, Blocks
<1>3. PagesOf(h) \subseteq Nat
  BY <1>1, PagesType
<1> QED
  BY <1>1, <1>2, <1>3 DEF NoPage

\* A step that changes neither the pages nor what has a block.
LEMMA OwnersFrame ==
  ASSUME AllocInv, OwnersRight, UNCHANGED <<pages, page>>, page # NoPage => UNCHANGED Asked,
         \A h \in ViewHeaps : \A v \in Views :
           /\ ViewOwns(v, h)' <=> ViewOwns(v, h)
           /\ ViewOwns(v, h) => views'[v].handle[h] = views[v].handle[h] /\ views'[v].size[h] = views[v].size[h],
         \A h \in ViewHeaps : \A t \in Threads :
           /\ CallOwns(t, h)' <=> CallOwns(t, h)
           /\ CallOwns(t, h) => new'[t].handle[h] = new[t].handle[h] /\ new'[t].size[h] = new[t].size[h]
  PROVE  OwnersRight'
<1> SUFFICES ASSUME NEW h \in ViewHeaps
             PROVE  /\ \A v \in Views : ViewOwns(v, h)' =>
                         /\ views'[v].handle[h] \in Blocks(h)' /\ ~Waits(h, views[v].handle[h])'
                         /\ pages'[h][views'[v].handle[h]] * PageSize >= views'[v].size[h]
                    /\ \A t \in Threads : CallOwns(t, h)' =>
                         /\ new'[t].handle[h] \in Blocks(h)' /\ ~Waits(h, new[t].handle[h])'
                         /\ pages'[h][new'[t].handle[h]] * PageSize >= new'[t].size[h]
                    /\ \A v, w \in Views :
                         ViewOwns(v, h)' /\ ViewOwns(w, h)' /\ views'[v].handle[h] = views'[w].handle[h] => v = w
                    /\ \A t, u \in Threads :
                         CallOwns(t, h)' /\ CallOwns(u, h)' /\ new'[t].handle[h] = new'[u].handle[h] => t = u
                    /\ \A v \in Views, t \in Threads :
                         ViewOwns(v, h)' /\ CallOwns(t, h)' => views'[v].handle[h] # new'[t].handle[h]
                    /\ \A p \in Blocks(h)' :
                         \/ Waits(h, p)'
                         \/ \E v \in Views : ViewOwns(v, h)' /\ views'[v].handle[h] = p
                         \/ \E t \in Threads : CallOwns(t, h)' /\ new'[t].handle[h] = p
  BY DEF OwnersRight
<1>1. Blocks(h)' = Blocks(h)
  BY DEF Blocks
<1>2. \A p \in Blocks(h) : p # NoPage
  BY ViewBlocks
<1>3. ASSUME NEW p \in Blocks(h) PROVE (page' = p /\ Asked' = h) <=> Waits(h, p)
  BY <1>2 DEF Waits
<1>4. ASSUME NEW v \in Views, ViewOwns(v, h)'
      PROVE  /\ views'[v].handle[h] \in Blocks(h)' /\ ~Waits(h, views[v].handle[h])'
             /\ pages'[h][views'[v].handle[h]] * PageSize >= views'[v].size[h]
  <2>1. /\ ViewOwns(v, h) /\ views'[v].handle[h] = views[v].handle[h] /\ views'[v].size[h] = views[v].size[h]
    BY <1>4
  <2>2. /\ views[v].handle[h] \in Blocks(h) /\ ~Waits(h, views[v].handle[h])
        /\ pages[h][views[v].handle[h]] * PageSize >= views[v].size[h]
    BY <2>1 DEF OwnersRight
  <2> QED
    BY <1>1, <1>3, <2>1, <2>2 DEF Waits
<1>5. ASSUME NEW t \in Threads, CallOwns(t, h)'
      PROVE  /\ new'[t].handle[h] \in Blocks(h)' /\ ~Waits(h, new[t].handle[h])'
             /\ pages'[h][new'[t].handle[h]] * PageSize >= new'[t].size[h]
  <2>1. /\ CallOwns(t, h) /\ new'[t].handle[h] = new[t].handle[h] /\ new'[t].size[h] = new[t].size[h]
    BY <1>5
  <2>2. /\ new[t].handle[h] \in Blocks(h) /\ ~Waits(h, new[t].handle[h])
        /\ pages[h][new[t].handle[h]] * PageSize >= new[t].size[h]
    BY <2>1 DEF OwnersRight
  <2> QED
    BY <1>1, <1>3, <2>1, <2>2 DEF Waits
<1>6. \A v, w \in Views :
        ViewOwns(v, h)' /\ ViewOwns(w, h)' /\ views'[v].handle[h] = views'[w].handle[h] => v = w
  BY DEF OwnersRight
<1>7. \A t, u \in Threads :
        CallOwns(t, h)' /\ CallOwns(u, h)' /\ new'[t].handle[h] = new'[u].handle[h] => t = u
  BY DEF OwnersRight
<1>8. \A v \in Views, t \in Threads :
        ViewOwns(v, h)' /\ CallOwns(t, h)' => views'[v].handle[h] # new'[t].handle[h]
  BY DEF OwnersRight
<1>9. ASSUME NEW p \in Blocks(h)'
      PROVE  \/ Waits(h, p)'
             \/ \E v \in Views : ViewOwns(v, h)' /\ views'[v].handle[h] = p
             \/ \E t \in Threads : CallOwns(t, h)' /\ new'[t].handle[h] = p
  BY <1>1, <1>3 DEF OwnersRight, Waits
<1> QED
  BY <1>4, <1>5, <1>6, <1>7, <1>8, <1>9

LEMMA SearchOwners ==
  ASSUME ViewInv, SearchBlock
  PROVE  OwnersRight' /\ FoundRight'
<1>1. /\ UNCHANGED <<mMutex, views, pc, new, todo>> /\ heap # NoHeap /\ heap = Asked /\ page = NoPage
      /\ num_pages = IntDivCeil(new[mMutex].size[Asked], PageSize)
      /\ mMutex \in Threads /\ pc[mMutex] = "search"
  BY DEF SearchBlock, Search, SkipBlock, FreePage, TakeBlock, NoBlock, ViewInv, FoundRight, MutexInv
<1>2. /\ \A h \in ViewHeaps : \A v \in Views : ViewOwns(v, h)' <=> ViewOwns(v, h)
      /\ \A h \in ViewHeaps : \A t \in Threads : CallOwns(t, h)' <=> CallOwns(t, h)
      /\ Asked' = Asked
  BY <1>1 DEF ViewOwns, CallOwns, Asked
<1>3. CASE SkipBlock \/ FreePage
  <2>1. UNCHANGED <<pages, page, heap, num_pages>>
    BY <1>3 DEF SkipBlock, FreePage
  <2>2. FoundRight'
    BY <1>1, <1>2, <2>1 DEF FoundRight
  <2> QED
    BY <1>1, <1>2, <2>1, <2>2, OwnersFrame DEF ViewInv
<1>4. CASE NoBlock
  <2>1. UNCHANGED <<pages, page>> /\ heap' = NoHeap
    BY <1>1, <1>4 DEF NoBlock, Return
  <2>2. FoundRight'
    BY <1>1, <2>1 DEF FoundRight
  <2> QED
    BY <1>1, <1>2, <2>1, <2>2, OwnersFrame DEF ViewInv
<1>5. CASE TakeBlock
  <2> DEFINE start == i - (num_pages - 1)
  <2>1. /\ heap \in Heaps /\ start \in 0 .. NumPages[heap] - 1 /\ num_pages > 0
        /\ start + num_pages = i + 1
        /\ pages'[heap][start] = num_pages
        /\ \A p : p # start => pages'[heap][p] = pages[heap][p]
        /\ \A h \in Heaps : h # heap => pages'[h] = pages[h]
        /\ \A p \in Blocks(heap) : p + pages[heap][p] <= start \/ i + 1 <= p
    BY <1>5, BlockTaken DEF ViewInv
  <2> PICK a \in Heaps : a = heap
    BY <2>1
  <2>2. page' = start /\ heap' = NoHeap
    BY <1>5 DEF TakeBlock, Return
  <2>3. num_pages \in Nat /\ i \in Nat
    BY DEF ViewInv, AllocInv, AllocType
  <2> HIDE DEF start
  <2>4. start \notin Blocks(a)
    <3> SUFFICES ASSUME start \in Blocks(a) PROVE FALSE
      OBVIOUS
    <3>1. start \in Nat /\ pages[a][start] \in Nat \ {0}
      BY <2>1, BlockFacts DEF ViewInv, AllocInv
    <3> QED
      BY <2>1, <2>3, <3>1
  <2>5. /\ Blocks(a)' = Blocks(a) \union {start}
        /\ \A g \in Heaps : g # a => Blocks(g)' = Blocks(g)
        /\ \A g \in Heaps : \A p \in Blocks(g) : pages'[g][p] = pages[g][p]
    <3>1. Blocks(a)' = Blocks(a) \union {start}
      <4>1. start \in PagesOf(a)
        BY <2>1, PagesType
      <4>2. \A p \in PagesOf(a) : pages'[a][p] > 0 <=> (pages[a][p] > 0 \/ p = start)
        BY <2>1
      <4> QED
        BY <4>1, <4>2 DEF Blocks
    <3>2. \A g \in Heaps : g # a => Blocks(g)' = Blocks(g)
      BY <2>1 DEF Blocks
    <3>3. \A g \in Heaps : \A p \in Blocks(g) : pages'[g][p] = pages[g][p]
      BY <2>1, <2>4
    <3> QED
      BY <3>1, <3>2, <3>3
  <2>6. start # NoPage
    BY <2>1 DEF NoPage
  <2>7. FoundRight'
    <3>1. new[mMutex].size[Asked] \in Nat
      <4>1. PICK t \in Threads : t = mMutex
        BY <1>1
      <4>2. todo[t] # <<>> /\ todo[t] \in Seq(ViewHeaps) /\ new[t] \in NewViews
        BY <1>1, <4>1 DEF ViewInv, NewInv
      <4>3. Head(todo[t]) \in ViewHeaps
        BY <4>2, HeadTailProperties
      <4> QED
        BY <4>1, <4>2, <4>3 DEF NewViews, Asked
    <3> QED
      BY <1>1, <1>2, <2>1, <2>2, <2>5, <3>1, PagesSuffice DEF FoundRight
  <2>8. OwnersRight'
    <3> SUFFICES ASSUME NEW h \in ViewHeaps
                 PROVE  /\ \A v \in Views : ViewOwns(v, h) =>
                             /\ views[v].handle[h] \in Blocks(h)' /\ ~(start = views[v].handle[h] /\ a = h)
                             /\ pages'[h][views[v].handle[h]] * PageSize >= views[v].size[h]
                        /\ \A t \in Threads : CallOwns(t, h) =>
                             /\ new[t].handle[h] \in Blocks(h)' /\ ~(start = new[t].handle[h] /\ a = h)
                             /\ pages'[h][new[t].handle[h]] * PageSize >= new[t].size[h]
                        /\ \A p \in Blocks(h)' :
                             \/ start = p /\ a = h
                             \/ \E v \in Views : ViewOwns(v, h) /\ views[v].handle[h] = p
                             \/ \E t \in Threads : CallOwns(t, h) /\ new[t].handle[h] = p
      <4>1. \A h \in ViewHeaps : \A p : Waits(h, p)' <=> (start = p /\ a = h)
        BY <1>1, <1>2, <2>2 DEF Waits
      <4> QED
        BY <1>1, <1>2, <4>1 DEF OwnersRight, ViewInv
    <3>1. /\ Blocks(h) \subseteq Blocks(h)' /\ \A p \in Blocks(h) : ~(start = p /\ a = h)
          /\ \A p \in Blocks(h)' : p \in Blocks(h) \/ (start = p /\ a = h)
          /\ \A p \in Blocks(h) : pages'[h][p] = pages[h][p]
      BY <2>4, <2>5, ViewBlocks DEF ViewInv
    <3>2. \A v \in Views : ViewOwns(v, h) =>
             /\ views[v].handle[h] \in Blocks(h)
             /\ pages[h][views[v].handle[h]] * PageSize >= views[v].size[h]
      BY DEF OwnersRight, ViewInv
    <3>3. \A t \in Threads : CallOwns(t, h) =>
             /\ new[t].handle[h] \in Blocks(h)
             /\ pages[h][new[t].handle[h]] * PageSize >= new[t].size[h]
      BY DEF OwnersRight, ViewInv
    <3>4. \A p \in Blocks(h) :
            \/ \E v \in Views : ViewOwns(v, h) /\ views[v].handle[h] = p
            \/ \E t \in Threads : CallOwns(t, h) /\ new[t].handle[h] = p
      <4>1. \A p \in Blocks(h) : ~Waits(h, p)
        BY <1>1, ViewBlocks DEF Waits, ViewInv
      <4> QED
        BY <4>1 DEF OwnersRight, ViewInv
    <3> QED
      BY <3>1, <3>2, <3>3, <3>4
  <2> QED
    BY <2>7, <2>8
<1> QED
  BY <1>3, <1>4, <1>5 DEF SearchBlock, Search

\* Giving back the blocks of a view takes them from its heaps, and no others.
LEMMA BlocksReturned ==
  ASSUME AllocInv, NEW v \in Views, views[v] \in ViewRecs, FreeBlocks(v), NEW h \in ViewHeaps
  PROVE  /\ Blocks(h)' = Blocks(h) \ {views[v].handle[h]}
         /\ \A p \in Blocks(h)' : pages'[h][p] = pages[h][p]
<1> DEFINE a    == views[v].handle[SRVUAV]
           b    == views[v].handle[SAMPLER]
           half == Freed(pages, SRVUAV, a)
<1>1. Shape(pages)
  BY DEF AllocInv, AllocType, Shape
<1>2. pages' = Freed(half, SAMPLER, b)
  BY DEF FreeBlocks
<1>3. a \in Nat \union {NoPage} /\ b \in Nat \union {NoPage} /\ SRVUAV # SAMPLER /\ h \in {SRVUAV, SAMPLER}
      /\ h \in Heaps /\ views[v].handle[h] = IF h = SRVUAV THEN a ELSE b
  BY ViewHeapsAssumption DEF ViewRecs, ViewHeaps
<1> HIDE DEF a, b
<1>4. /\ Shape(half)
      /\ \A g \in Heaps : \A q \in PagesOf(g) :
           half[g][q] = IF g = SRVUAV /\ q = a /\ a >= 0 THEN 0 ELSE pages[g][q]
  BY <1>1, FreedPages
<1> HIDE DEF half
<1>5. \A g \in Heaps : \A q \in PagesOf(g) :
           pages'[g][q] = IF g = SAMPLER /\ q = b /\ b >= 0 THEN 0 ELSE half[g][q]
  BY <1>2, <1>4, FreedPages
<1>6. \A q \in PagesOf(h) : q \in Nat
  BY ViewBlocks
<1>7. \A q \in PagesOf(h) : pages'[h][q] = IF q = views[v].handle[h] THEN 0 ELSE pages[h][q]
  BY <1>3, <1>4, <1>5, <1>6 DEF NoPage
<1> QED
  BY <1>7 DEF Blocks

\* The blocks of a view go back with it.
LEMMA FreeOwners ==
  ASSUME ViewInv, NEW v \in Views, FreeBlocks(v), views[v].state = "doomed", page = NoPage,
         UNCHANGED <<new>>, views'[v].state \in {"spent", "free"}, \A w \in Views : w # v => views'[w] = views[w]
  PROVE  OwnersRight'
<1>1. page' = NoPage
  BY DEF FreeBlocks
<1>2. \A h \in ViewHeaps :
        /\ Blocks(h)' = Blocks(h) \ {views[v].handle[h]}
        /\ \A p \in Blocks(h)' : pages'[h][p] = pages[h][p]
        /\ \A p \in Blocks(h) : p # NoPage
  BY BlocksReturned, ViewBlocks DEF ViewInv, ViewsTyped
<1>3. /\ \A h \in ViewHeaps : ~ViewOwns(v, h)'
      /\ \A h \in ViewHeaps : ViewOwns(v, h) <=> views[v].handle[h] # NoPage
      /\ \A h \in ViewHeaps : \A w \in Views : w # v => (ViewOwns(w, h)' <=> ViewOwns(w, h))
      /\ \A h \in ViewHeaps : \A t \in Threads : CallOwns(t, h)' <=> CallOwns(t, h)
  BY DEF ViewOwns, CallOwns
<1> SUFFICES ASSUME NEW h \in ViewHeaps
             PROVE  /\ \A w \in Views : ViewOwns(w, h)' =>
                         /\ views'[w].handle[h] \in Blocks(h)' /\ ~Waits(h, views[w].handle[h])'
                         /\ pages'[h][views'[w].handle[h]] * PageSize >= views'[w].size[h]
                    /\ \A t \in Threads : CallOwns(t, h) =>
                         /\ new[t].handle[h] \in Blocks(h)' /\ ~Waits(h, new[t].handle[h])'
                         /\ pages'[h][new[t].handle[h]] * PageSize >= new[t].size[h]
                    /\ \A w, x \in Views :
                         ViewOwns(w, h)' /\ ViewOwns(x, h)' /\ views'[w].handle[h] = views'[x].handle[h] => w = x
                    /\ \A t, u \in Threads :
                         CallOwns(t, h) /\ CallOwns(u, h) /\ new[t].handle[h] = new[u].handle[h] => t = u
                    /\ \A w \in Views, t \in Threads :
                         ViewOwns(w, h)' /\ CallOwns(t, h) => views'[w].handle[h] # new[t].handle[h]
                    /\ \A p \in Blocks(h)' :
                         \/ Waits(h, p)'
                         \/ \E w \in Views : ViewOwns(w, h)' /\ views'[w].handle[h] = p
                         \/ \E t \in Threads : CallOwns(t, h) /\ new[t].handle[h] = p
  BY <1>3 DEF OwnersRight
<1>4. ASSUME NEW w \in Views, ViewOwns(w, h)'
      PROVE  /\ w # v /\ ViewOwns(w, h) /\ views'[w] = views[w]
             /\ views'[w].handle[h] \in Blocks(h)' /\ ~Waits(h, views[w].handle[h])'
             /\ pages'[h][views'[w].handle[h]] * PageSize >= views'[w].size[h]
  <2>1. w # v /\ ViewOwns(w, h) /\ views'[w] = views[w]
    BY <1>3, <1>4
  <2>2. /\ views[w].handle[h] \in Blocks(h) /\ pages[h][views[w].handle[h]] * PageSize >= views[w].size[h]
        /\ ViewOwns(v, h) => views[v].handle[h] # views[w].handle[h]
    BY <2>1 DEF OwnersRight, ViewInv
  <2>3. views[w].handle[h] # views[v].handle[h] /\ views[w].handle[h] # NoPage
    BY <1>2, <1>3, <2>2
  <2> QED
    BY <1>1, <1>2, <2>1, <2>2, <2>3 DEF Waits
<1>5. ASSUME NEW t \in Threads, CallOwns(t, h)
      PROVE  /\ new[t].handle[h] \in Blocks(h)' /\ ~Waits(h, new[t].handle[h])'
             /\ pages'[h][new[t].handle[h]] * PageSize >= new[t].size[h]
  <2>1. /\ new[t].handle[h] \in Blocks(h) /\ pages[h][new[t].handle[h]] * PageSize >= new[t].size[h]
        /\ ViewOwns(v, h) => views[v].handle[h] # new[t].handle[h]
    BY <1>5 DEF OwnersRight, ViewInv
  <2>2. new[t].handle[h] # views[v].handle[h] /\ new[t].handle[h] # NoPage
    BY <1>2, <1>3, <2>1
  <2>3. new'[t] = new[t]
    OBVIOUS
  <2> QED
    BY <1>1, <1>2, <2>1, <2>2, <2>3 DEF Waits
<1>6. \A w, x \in Views :
        ViewOwns(w, h)' /\ ViewOwns(x, h)' /\ views'[w].handle[h] = views'[x].handle[h] => w = x
  BY <1>4 DEF OwnersRight, ViewInv
<1>7. \A t, u \in Threads :
        CallOwns(t, h) /\ CallOwns(u, h) /\ new[t].handle[h] = new[u].handle[h] => t = u
  BY DEF OwnersRight, ViewInv
<1>8. \A w \in Views, t \in Threads :
        ViewOwns(w, h)' /\ CallOwns(t, h) => views'[w].handle[h] # new[t].handle[h]
  BY <1>4 DEF OwnersRight, ViewInv
<1>9. ASSUME NEW p \in Blocks(h)'
      PROVE  \/ \E w \in Views : ViewOwns(w, h)' /\ views'[w].handle[h] = p
             \/ \E t \in Threads : CallOwns(t, h) /\ new[t].handle[h] = p
  <2>1. p \in Blocks(h) /\ p # views[v].handle[h] /\ ~Waits(h, p)
    BY <1>2, <1>9 DEF Waits
  <2>2. CASE \E w \in Views : ViewOwns(w, h) /\ views[w].handle[h] = p
    <3>1. PICK w \in Views : ViewOwns(w, h) /\ views[w].handle[h] = p
      BY <2>2
    <3>2. ViewOwns(w, h)' /\ views'[w].handle[h] = p
      BY <1>3, <2>1, <3>1
    <3> QED
      BY <3>2
  <2> QED
    BY <2>1, <2>2 DEF OwnersRight, ViewInv
<1> QED
  BY <1>4, <1>5, <1>6, <1>7, <1>8, <1>9

LEMMA AllocateReturnsEffect ==
  ASSUME ViewInv, NEW t \in Threads, AllocateReturns(t), page # NoPage
  PROVE  LET h == Head(todo[t])
         IN  /\ mMutex = t /\ pc[t] = "search" /\ Asked = h /\ h \in ViewHeaps /\ heap = NoHeap /\ todo[t] # <<>>
             /\ todo[t] \in Seq(ViewHeaps) /\ new[t].handle[h] = NoPage
             /\ page' = NoPage /\ todo' = [todo EXCEPT ![t] = Tail(@)] /\ pc' = [pc EXCEPT ![t] = "allocate"]
             /\ UNCHANGED <<pages, heap, mMutex, views, freed>>
             /\ \A u \in Threads : u # t => new'[u] = new[u]
             /\ \A g \in ViewHeaps : new'[t].handle[g] = IF g = h THEN page ELSE new[t].handle[g]
             /\ new'[t].size = new[t].size
<1> DEFINE h == Head(todo[t])
<1>1. /\ pc[t] = "search" /\ heap = NoHeap /\ page' = NoPage /\ todo' = [todo EXCEPT ![t] = Tail(@)]
      /\ pc' = [pc EXCEPT ![t] = "allocate"] /\ UNCHANGED <<pages, heap, mMutex, views, freed>>
      /\ new' = [new EXCEPT ![t].handle[h] = page]
  BY DEF AllocateReturns, Taken, Goto
<1>2. mMutex = t /\ todo[t] # <<>> /\ todo[t] \in Seq(ViewHeaps) /\ new[t] \in NewViews
      /\ new \in [Threads -> NewViews]
  BY <1>1 DEF ViewInv, MutexInv, NewInv
<1>3. h \in ViewHeaps /\ h = todo[t][1] /\ 1 \in DOMAIN todo[t]
  BY <1>2, HeadTailProperties, EmptySeq, LenProperties
<1>4. Asked = h
  BY <1>2 DEF Asked
<1>5. new[t].handle[h] = NoPage
  BY <1>1, <1>3 DEF ViewInv, NewRight
<1> HIDE DEF h
<1>6. \A u \in Threads : u # t => new'[u] = new[u]
  BY <1>1, <1>2
<1>7. new'[t] = [new[t] EXCEPT !.handle[h] = page]
  BY <1>1, <1>2
<1>8. /\ \A g \in ViewHeaps : new'[t].handle[g] = IF g = h THEN page ELSE new[t].handle[g]
      /\ new'[t].size = new[t].size
  BY <1>2, <1>7 DEF NewViews
<1> QED
  BY <1>1, <1>2, <1>3, <1>4, <1>5, <1>6, <1>8 DEF h

\* What was found belongs to the call that asked for it.
LEMMA ReturnOwners ==
  ASSUME ViewInv, NEW t \in Threads, AllocateReturns(t), page # NoPage
  PROVE  OwnersRight'
<1> DEFINE a == Head(todo[t])
<1>1. /\ mMutex = t /\ Asked = a /\ a \in ViewHeaps /\ new[t].handle[a] = NoPage
      /\ page' = NoPage /\ UNCHANGED <<pages, mMutex, views>>
      /\ \A u \in Threads : u # t => new'[u] = new[u]
      /\ \A g \in ViewHeaps : new'[t].handle[g] = IF g = a THEN page ELSE new[t].handle[g]
      /\ new'[t].size = new[t].size
  BY AllocateReturnsEffect
<1> HIDE DEF a
<1>2. page \in Blocks(a) /\ pages[a][page] * PageSize >= new[t].size[a]
  BY <1>1 DEF ViewInv, FoundRight
<1> SUFFICES ASSUME NEW h \in ViewHeaps
             PROVE  /\ \A v \in Views : ViewOwns(v, h) =>
                         /\ views[v].handle[h] \in Blocks(h) /\ ~Waits(h, views[v].handle[h])'
                         /\ pages[h][views[v].handle[h]] * PageSize >= views[v].size[h]
                    /\ \A u \in Threads : CallOwns(u, h)' =>
                         /\ new'[u].handle[h] \in Blocks(h) /\ ~Waits(h, new[u].handle[h])'
                         /\ pages[h][new'[u].handle[h]] * PageSize >= new'[u].size[h]
                    /\ \A v, w \in Views :
                         ViewOwns(v, h) /\ ViewOwns(w, h) /\ views[v].handle[h] = views[w].handle[h] => v = w
                    /\ \A s, u \in Threads :
                         CallOwns(s, h)' /\ CallOwns(u, h)' /\ new'[s].handle[h] = new'[u].handle[h] => s = u
                    /\ \A v \in Views, u \in Threads :
                         ViewOwns(v, h) /\ CallOwns(u, h)' => views[v].handle[h] # new'[u].handle[h]
                    /\ \A p \in Blocks(h) :
                         \/ Waits(h, p)'
                         \/ \E v \in Views : ViewOwns(v, h) /\ views[v].handle[h] = p
                         \/ \E u \in Threads : CallOwns(u, h)' /\ new'[u].handle[h] = p
  <2>1. /\ \A h : Blocks(h)' = Blocks(h)
        /\ \A h \in ViewHeaps : \A v \in Views : ViewOwns(v, h)' <=> ViewOwns(v, h)
    BY <1>1 DEF Blocks, ViewOwns
  <2> QED
    BY <1>1, <2>1 DEF OwnersRight
<1>3. \A p \in Blocks(h) : p # NoPage /\ ~Waits(h, p)'
  BY <1>1, ViewBlocks DEF ViewInv, Waits
<1>4. \A v \in Views : ViewOwns(v, h) =>
         /\ views[v].handle[h] \in Blocks(h) /\ ~(page = views[v].handle[h] /\ a = h)
         /\ pages[h][views[v].handle[h]] * PageSize >= views[v].size[h]
  BY <1>1 DEF OwnersRight, ViewInv, Waits
<1>5. \A u \in Threads : CallOwns(u, h) =>
         /\ new[u].handle[h] \in Blocks(h) /\ ~(page = new[u].handle[h] /\ a = h)
         /\ pages[h][new[u].handle[h]] * PageSize >= new[u].size[h]
  BY <1>1 DEF OwnersRight, ViewInv, Waits
<1>6. ASSUME NEW u \in Threads
      PROVE  IF u = t /\ h = a THEN CallOwns(u, h)' /\ new'[u].handle[h] = page /\ ~CallOwns(u, h)
                                    /\ new'[u].size[h] = new[u].size[h]
             ELSE /\ CallOwns(u, h)' <=> CallOwns(u, h)
                  /\ new'[u].handle[h] = new[u].handle[h] /\ new'[u].size[h] = new[u].size[h]
  BY <1>1 DEF CallOwns
<1>7. \A u \in Threads : CallOwns(u, h)' =>
         /\ new'[u].handle[h] \in Blocks(h) /\ ~Waits(h, new[u].handle[h])'
         /\ pages[h][new'[u].handle[h]] * PageSize >= new'[u].size[h]
  <2> SUFFICES ASSUME NEW u \in Threads, CallOwns(u, h)'
               PROVE  /\ new'[u].handle[h] \in Blocks(h)
                      /\ pages[h][new'[u].handle[h]] * PageSize >= new'[u].size[h]
    BY <1>3 DEF Waits
  <2>1. CASE u = t /\ h = a
    BY <1>2, <1>6, <2>1
  <2>2. CASE ~(u = t /\ h = a)
    BY <1>5, <1>6, <2>2
  <2> QED
    BY <2>1, <2>2
<1>8. \A s, u \in Threads :
         CallOwns(s, h)' /\ CallOwns(u, h)' /\ new'[s].handle[h] = new'[u].handle[h] => s = u
  BY <1>5, <1>6 DEF OwnersRight, ViewInv
<1>9. \A v \in Views, u \in Threads :
         ViewOwns(v, h) /\ CallOwns(u, h)' => views[v].handle[h] # new'[u].handle[h]
  BY <1>4, <1>6 DEF OwnersRight, ViewInv
<1>10. \A p \in Blocks(h) :
         \/ \E v \in Views : ViewOwns(v, h) /\ views[v].handle[h] = p
         \/ \E u \in Threads : CallOwns(u, h)' /\ new'[u].handle[h] = p
  <2> SUFFICES ASSUME NEW p \in Blocks(h)
               PROVE  \/ \E v \in Views : ViewOwns(v, h) /\ views[v].handle[h] = p
                      \/ \E u \in Threads : CallOwns(u, h)' /\ new'[u].handle[h] = p
    OBVIOUS
  <2>1. CASE Waits(h, p)
    BY <1>1, <1>6, <2>1 DEF Waits
  <2>2. CASE \E u \in Threads : CallOwns(u, h) /\ new[u].handle[h] = p
    BY <1>6, <2>2
  <2> QED
    BY <2>1, <2>2 DEF OwnersRight, ViewInv
<1>11. \A v, w \in Views :
          ViewOwns(v, h) /\ ViewOwns(w, h) /\ views[v].handle[h] = views[w].handle[h] => v = w
  BY DEF OwnersRight, ViewInv
<1>12. \A v \in Views : ViewOwns(v, h) => ~Waits(h, views[v].handle[h])'
  BY <1>1, <1>3, <1>4 DEF Waits
<1> QED
  BY <1>4, <1>7, <1>8, <1>9, <1>10, <1>11, <1>12

\* The blocks of the call become those of a node that had none.
LEMMA AcquireOwners ==
  ASSUME ViewInv, NEW t \in Threads, AcquireNode(t), ~IsFull
  PROVE  OwnersRight'
<1>1. PICK v \in Views : /\ views[v].state = "free"
                         /\ views' = [views EXCEPT ![v] = [new[t] EXCEPT !.state = "live"]]
  BY DEF AcquireNode
<1>2. /\ UNCHANGED <<alloc, mMutex, todo>> /\ new' = [new EXCEPT ![t] = FreeNode] /\ pc[t] = "acquire"
  BY DEF AcquireNode
<1>3. /\ new[t] \in NewViews /\ new \in [Threads -> NewViews] /\ views \in [Views -> ViewRecs]
  BY DEF ViewInv, ViewsTyped, NewInv
<1>4. /\ views'[v].state = "live" /\ views'[v].handle = new[t].handle /\ views'[v].size = new[t].size
      /\ \A w \in Views : w # v => views'[w] = views[w]
      /\ \A u \in Threads : u # t => new'[u] = new[u]
      /\ \A h \in ViewHeaps : new'[t].handle[h] = NoPage
  BY <1>1, <1>2, <1>3 DEF NewViews, FreeNode, View
<1>5. \A h \in ViewHeaps :
        /\ Blocks(h)' = Blocks(h) /\ \A p : Waits(h, p)' <=> Waits(h, p)
        /\ ~ViewOwns(v, h) /\ (ViewOwns(v, h)' <=> CallOwns(t, h)) /\ ~CallOwns(t, h)'
        /\ \A w \in Views : w # v => (ViewOwns(w, h)' <=> ViewOwns(w, h))
        /\ \A u \in Threads : u # t => (CallOwns(u, h)' <=> CallOwns(u, h))
  BY <1>1, <1>2, <1>4 DEF Blocks, Waits, Asked, alloc, ViewOwns, CallOwns
<1> SUFFICES ASSUME NEW h \in ViewHeaps
             PROVE  /\ \A w \in Views : ViewOwns(w, h)' =>
                         /\ views'[w].handle[h] \in Blocks(h) /\ ~Waits(h, views[w].handle[h])'
                         /\ pages[h][views'[w].handle[h]] * PageSize >= views'[w].size[h]
                    /\ \A u \in Threads : CallOwns(u, h)' =>
                         /\ new'[u].handle[h] \in Blocks(h) /\ ~Waits(h, new[u].handle[h])'
                         /\ pages[h][new'[u].handle[h]] * PageSize >= new'[u].size[h]
                    /\ \A w, x \in Views :
                         ViewOwns(w, h)' /\ ViewOwns(x, h)' /\ views'[w].handle[h] = views'[x].handle[h] => w = x
                    /\ \A s, u \in Threads :
                         CallOwns(s, h)' /\ CallOwns(u, h)' /\ new'[s].handle[h] = new'[u].handle[h] => s = u
                    /\ \A w \in Views, u \in Threads :
                         ViewOwns(w, h)' /\ CallOwns(u, h)' => views'[w].handle[h] # new'[u].handle[h]
                    /\ \A p \in Blocks(h) :
                         \/ Waits(h, p)
                         \/ \E w \in Views : ViewOwns(w, h)' /\ views'[w].handle[h] = p
                         \/ \E u \in Threads : CallOwns(u, h)' /\ new'[u].handle[h] = p
  BY <1>2, <1>5 DEF OwnersRight, alloc
<1> DEFINE Right(r) == /\ r.handle[h] \in Blocks(h) /\ ~Waits(h, r.handle[h])
                       /\ pages[h][r.handle[h]] * PageSize >= r.size[h]
<1>6. /\ \A w \in Views : ViewOwns(w, h) => Right(views[w])
      /\ \A u \in Threads : CallOwns(u, h) => Right(new[u])
  BY DEF OwnersRight, ViewInv
<1>7. \A r, s : r.handle[h] = s.handle[h] /\ r.size[h] = s.size[h] => (Right(r) <=> Right(s))
  OBVIOUS
<1>8. /\ \A w \in Views : ViewOwns(w, h)' => Right(views'[w])
      /\ \A u \in Threads : CallOwns(u, h)' => Right(new'[u])
  BY <1>4, <1>5, <1>6, <1>7
<1>9. \A p : (page' = p /\ Asked' = h) <=> Waits(h, p)
  BY <1>5 DEF Waits
<1>10. /\ \A w \in Views : ViewOwns(w, h)' =>
            /\ views'[w].handle[h] \in Blocks(h) /\ ~Waits(h, views[w].handle[h])'
            /\ pages[h][views'[w].handle[h]] * PageSize >= views'[w].size[h]
       /\ \A u \in Threads : CallOwns(u, h)' =>
            /\ new'[u].handle[h] \in Blocks(h) /\ ~Waits(h, new[u].handle[h])'
            /\ pages[h][new'[u].handle[h]] * PageSize >= new'[u].size[h]
  BY <1>8, <1>9 DEF Waits
<1> HIDE DEF Right
<1>11. \A w, x \in Views :
         ViewOwns(w, h)' /\ ViewOwns(x, h)' /\ views'[w].handle[h] = views'[x].handle[h] => w = x
  BY <1>4, <1>5 DEF OwnersRight, ViewInv
<1>12. \A s, u \in Threads :
         CallOwns(s, h)' /\ CallOwns(u, h)' /\ new'[s].handle[h] = new'[u].handle[h] => s = u
  BY <1>4, <1>5 DEF OwnersRight, ViewInv
<1>13. \A w \in Views, u \in Threads :
         ViewOwns(w, h)' /\ CallOwns(u, h)' => views'[w].handle[h] # new'[u].handle[h]
  BY <1>4, <1>5 DEF OwnersRight, ViewInv
<1>14. ASSUME NEW p \in Blocks(h), ~Waits(h, p)
       PROVE  \/ \E w \in Views : ViewOwns(w, h)' /\ views'[w].handle[h] = p
              \/ \E u \in Threads : CallOwns(u, h)' /\ new'[u].handle[h] = p
  <2>1. CASE \E w \in Views : ViewOwns(w, h) /\ views[w].handle[h] = p
    BY <1>4, <1>5, <2>1
  <2>2. CASE \E u \in Threads : CallOwns(u, h) /\ new[u].handle[h] = p
    <3>1. PICK u \in Threads : CallOwns(u, h) /\ new[u].handle[h] = p
      BY <2>2
    <3>2. CASE u = t
      BY <1>4, <1>5, <3>1, <3>2
    <3>3. CASE u # t
      BY <1>4, <1>5, <3>1, <3>3
    <3> QED
      BY <3>2, <3>3
  <2> QED
    BY <1>14, <2>1, <2>2 DEF OwnersRight, ViewInv
<1> QED
  BY <1>10, <1>11, <1>12, <1>13, <1>14

\* A call asks each heap once.
LEMMA AskedOnce ==
  ASSUME NEW size
  PROVE  \A j, k \in DOMAIN HeapsToAsk(size) : j # k => HeapsToAsk(size)[j] # HeapsToAsk(size)[k]
<1> DEFINE a == IF size[SRVUAV] > 0 THEN <<SRVUAV>> ELSE <<>>
           b == IF size[SAMPLER] > 0 THEN <<SAMPLER>> ELSE <<>>
<1>1. /\ a \in Seq({SRVUAV}) /\ b \in Seq({SAMPLER}) /\ Len(a) \in {0, 1} /\ Len(b) \in {0, 1}
  <2>1. \A h : <<>> \in Seq({h}) /\ <<h>> \in Seq({h}) /\ Len(<<>>) = 0 /\ Len(<<h>>) = 1
    BY EmptySeq
  <2>2. a \in {<<>>, <<SRVUAV>>} /\ b \in {<<>>, <<SAMPLER>>}
    OBVIOUS
  <2> HIDE DEF a, b
  <2> QED
    BY <2>1, <2>2
<1>2. HeapsToAsk(size) = a \o b
  BY DEF HeapsToAsk
<1> HIDE DEF a, b
<1>3. /\ \A k \in 1 .. Len(a) : a[k] = SRVUAV
      /\ \A k \in 1 .. Len(b) : b[k] = SAMPLER
  BY <1>1, ElementOfSeq
<1>4. /\ a \in Seq(ViewHeaps) /\ b \in Seq(ViewHeaps)
  BY <1>1, SeqMonotonic DEF ViewHeaps
<1>5. /\ a \o b \in Seq(ViewHeaps) /\ Len(a \o b) = Len(a) + Len(b)
      /\ \A k \in 1 .. Len(a) + Len(b) : (a \o b)[k] = IF k <= Len(a) THEN a[k] ELSE b[k - Len(a)]
  BY <1>4, ConcatProperties
<1>6. DOMAIN (a \o b) = 1 .. Len(a) + Len(b)
  BY <1>5, LenProperties
<1>7. ASSUME NEW j \in 1 .. Len(a) + Len(b), NEW k \in 1 .. Len(a) + Len(b), j # k
      PROVE  (a \o b)[j] # (a \o b)[k]
  BY <1>1, <1>3, <1>5, <1>7, ViewHeapsAssumption
<1> QED
  BY <1>2, <1>6, <1>7

LEMMA ViewsTypedKept == ViewInv /\ [ViewNext]_viewvars => ViewsTyped'
<1> SUFFICES ASSUME ViewInv, [ViewNext]_viewvars PROVE ViewsTyped'
  OBVIOUS
<1> USE DEF Goto
<1>0. /\ ViewsTyped /\ FreeNode \in ViewRecs
      /\ \A r \in ViewRecs, s \in {"free", "live", "doomed", "spent"} : [r EXCEPT !.state = s] \in ViewRecs
      /\ \A r \in NewViews : [r EXCEPT !.state = "live"] \in ViewRecs
      /\ new \in [Threads -> NewViews]
  BY DEF ViewInv, NewInv, ViewRecs, NewViews, FreeNode, View
<1>1. ASSUME NEW t \in Threads, AllocateBlock(t) \/ AllocateReturns(t) \/ Unlock(t) \/ CheckRoom(t) \/ SpanEnds(t)
      PROVE  ViewsTyped'
  BY <1>0, <1>1 DEF AllocateBlock, AllocateReturns, Unlock, CheckRoom, SpanEnds, ViewsTyped
<1>2. CASE SearchBlock \/ UNCHANGED viewvars
  BY <1>0, <1>2 DEF SearchBlock, viewvars, ViewsTyped
<1>3. ASSUME NEW t \in Threads, AcquireNode(t) PROVE ViewsTyped'
  <2>1. CASE UNCHANGED <<views, pc>>
    BY <1>0, <1>3, <2>1 DEF AcquireNode, ViewsTyped
  <2>2. CASE ~UNCHANGED <<views, pc>>
    <3>1. PICK v \in Views : views' = [views EXCEPT ![v] = [new[t] EXCEPT !.state = "live"]]
      BY <1>3, <2>2 DEF AcquireNode
    <3>2. pc' = [pc EXCEPT ![t] = "idle"] /\ UNCHANGED mMutex
      BY <1>3, <2>2 DEF AcquireNode
    <3>3. [new[t] EXCEPT !.state = "live"] \in ViewRecs
      BY <1>0
    <3> QED
      BY <1>0, <3>1, <3>2, <3>3 DEF ViewsTyped
  <2> QED
    BY <2>1, <2>2
<1>4. ASSUME NEW t \in Threads, FreeViewBlocks(t) PROVE ViewsTyped'
  <2>1. PICK v \in freed[t] : views' = [views EXCEPT ![v].state = "spent"]
    BY <1>4 DEF FreeViewBlocks
  <2>2. v \in Views
    BY <2>1 DEF ViewInv, FreedRight
  <2>3. views' = [views EXCEPT ![v] = [views[v] EXCEPT !.state = "spent"]]
    BY <2>1
  <2> QED
    BY <1>0, <1>4, <2>2, <2>3 DEF FreeViewBlocks, ViewsTyped
<1>5. ASSUME NEW t \in Threads, ReleaseNode(t) PROVE ViewsTyped'
  BY <1>0, <1>5 DEF ReleaseNode, ViewsTyped
<1>6. ASSUME NEW t \in Threads, FreeNext(t) PROVE ViewsTyped'
  BY <1>0, <1>6 DEF FreeNext, ViewsTyped
<1>7. ASSUME NEW t \in Threads, NEW vs, NEW to \in {"free", "span"}, BeginFree(t, vs, to),
             mMutex' \in Threads \union {NoThread}
      PROVE  ViewsTyped'
  BY <1>0, <1>7 DEF BeginFree, ViewsTyped
<1>8. ASSUME NEW t \in Threads, NEW v \in Views, FreeView(t, v) PROVE ViewsTyped'
  BY <1>0, <1>7, <1>8 DEF FreeView, ViewsTyped
<1>9. ASSUME NEW t \in Threads, NEW vs \in SUBSET Views, FreeSpan(t, vs) PROVE ViewsTyped'
  BY <1>7, <1>9 DEF FreeSpan
<1>10. ASSUME NEW t \in Threads, NEW size \in Sizes, CreateEmpty(t, size) PROVE ViewsTyped'
  BY <1>0, <1>10 DEF CreateEmpty, ViewsTyped
<1> QED
  BY <1>1, <1>2, <1>3, <1>4, <1>5, <1>6, <1>8, <1>9, <1>10 DEF ViewNext, ViewCall

LEMMA FreedRightKept == ViewInv /\ [ViewNext]_viewvars => FreedRight'
<1> SUFFICES ASSUME ViewInv, [ViewNext]_viewvars PROVE FreedRight'
  OBVIOUS
<1> USE DEF Goto
<1>0. /\ FreedRight /\ views \in [Views -> ViewRecs]
      /\ pc = [t \in Threads |-> pc[t]] /\ freed \in [Threads -> SUBSET Views]
  BY DEF ViewInv, ViewsTyped, FreedRight
<1>1. ASSUME UNCHANGED freed,
             \A u \in Threads : \/ pc'[u] = pc[u]
                                \/ {pc[u], pc'[u]} \intersect {"free", "span", "release"} = {},
             \A v \in Views : views[v].state \in {"doomed", "spent"} => views'[v].state = views[v].state
      PROVE  FreedRight'
  <2> SUFFICES ASSUME NEW u \in Threads
               PROVE  /\ pc'[u] \notin {"free", "span", "release"} => freed[u] = {}
                      /\ pc'[u] \in {"free", "span"} => \A v \in freed[u] : views'[v].state = "doomed"
                      /\ pc'[u] = "release" => \A v \in freed[u] : views'[v].state = "spent"
                      /\ pc'[u] = "free" => \E v \in Views : freed[u] = {v}
    BY <1>0, <1>1 DEF FreedRight
  <2>1. freed[u] \subseteq Views
    BY <1>0
  <2> QED
    BY <1>0, <1>1, <2>1 DEF FreedRight
<1>2. ASSUME NEW t \in Threads, AllocateBlock(t) \/ AllocateReturns(t) \/ Unlock(t) \/ CheckRoom(t)
      PROVE  FreedRight'
  <2>1. /\ UNCHANGED <<freed, views>> /\ pc[t] \in {"allocate", "search", "check"}
        /\ pc' = pc \/ \E to \in {"search", "allocate", "check", "acquire"} : pc' = [pc EXCEPT ![t] = to]
    BY <1>2 DEF AllocateBlock, AllocateReturns, Unlock, CheckRoom
  <2> QED
    BY <1>0, <1>1, <2>1
<1>3. CASE SearchBlock \/ UNCHANGED viewvars
  BY <1>1, <1>3 DEF SearchBlock, viewvars
<1>4. ASSUME NEW t \in Threads, AcquireNode(t) PROVE FreedRight'
  <2>1. /\ UNCHANGED freed /\ pc[t] = "acquire"
        /\ pc' = pc \/ pc' = [pc EXCEPT ![t] = "idle"]
        /\ \A v \in Views : views[v].state \in {"doomed", "spent"} => views'[v].state = views[v].state
    BY <1>0, <1>4 DEF AcquireNode
  <2> QED
    BY <1>0, <1>1, <2>1
<1>5. ASSUME NEW t \in Threads, NEW size \in Sizes, CreateEmpty(t, size) PROVE FreedRight'
  <2>1. /\ UNCHANGED <<freed, views>> /\ pc[t] = "idle" /\ pc' = [pc EXCEPT ![t] = "allocate"]
    BY <1>5 DEF CreateEmpty
  <2> QED
    BY <1>0, <1>1, <2>1
<1>6. ASSUME NEW t \in Threads, FreeViewBlocks(t) PROVE FreedRight'
  <2>1. PICK v \in freed[t] : views' = [views EXCEPT ![v].state = "spent"]
    BY <1>6 DEF FreeViewBlocks
  <2>2. /\ pc[t] = "free" /\ pc' = [pc EXCEPT ![t] = "release"] /\ UNCHANGED freed
        /\ freed[t] = {v} /\ v \in Views
    BY <1>0, <1>6, <2>1 DEF FreeViewBlocks, FreedRight
  <2>3. views'[v].state = "spent" /\ \A w \in Views : w # v => views'[w] = views[w]
    BY <1>0, <2>1, <2>2 DEF ViewRecs
  <2>4. ASSUME NEW u \in Threads, u # t
        PROVE  pc'[u] = pc[u] /\ \A w \in freed[u] : views'[w] = views[w]
    BY <1>0, <2>2, <2>3, <2>4 DEF FreedRight
  <2> QED
    BY <1>0, <2>2, <2>3, <2>4 DEF FreedRight
<1>7. ASSUME NEW t \in Threads, ReleaseNode(t) PROVE FreedRight'
  <2>1. /\ freed' = [freed EXCEPT ![t] = {}] /\ pc' = [pc EXCEPT ![t] = "idle"] /\ pc[t] = "release"
        /\ \A w \in Views : w \notin freed[t] => views'[w] = views[w]
    BY <1>7 DEF ReleaseNode
  <2>2. ASSUME NEW u \in Threads, u # t
        PROVE  pc'[u] = pc[u] /\ freed'[u] = freed[u] /\ \A w \in freed[u] : views'[w] = views[w]
    BY <1>0, <2>1, <2>2 DEF FreedRight
  <2> QED
    BY <1>0, <2>1, <2>2 DEF FreedRight
<1>8. ASSUME NEW t \in Threads, FreeNext(t) PROVE FreedRight'
  <2>1. PICK v \in freed[t] : /\ views' = [views EXCEPT ![v] = FreeNode]
                              /\ freed' = [freed EXCEPT ![t] = @ \ {v}]
    BY <1>8 DEF FreeNext
  <2>2. pc[t] = "span" /\ UNCHANGED pc
    BY <1>8 DEF FreeNext
  <2>3. /\ freed'[t] = freed[t] \ {v} /\ \A w \in Views : w # v => views'[w] = views[w]
        /\ \A w \in freed'[t] : views'[w] = views[w]
    BY <1>0, <2>1
  <2>4. ASSUME NEW u \in Threads, u # t
        PROVE  freed'[u] = freed[u] /\ \A w \in freed[u] : views'[w] = views[w]
    BY <1>0, <2>1, <2>3, <2>4 DEF FreedRight
  <2> QED
    BY <1>0, <2>1, <2>2, <2>3, <2>4 DEF FreedRight
<1>9. ASSUME NEW t \in Threads, SpanEnds(t) PROVE FreedRight'
  <2>1. /\ UNCHANGED <<freed, views>> /\ pc[t] = "span" /\ freed[t] = {} /\ pc' = [pc EXCEPT ![t] = "idle"]
    BY <1>9 DEF SpanEnds
  <2> QED
    BY <1>0, <2>1 DEF FreedRight
<1>10. ASSUME NEW t \in Threads, NEW vs \in SUBSET Views, NEW to, BeginFree(t, vs, to),
              \/ to = "span"
              \/ to = "free" /\ \E v \in Views : vs = {v}
       PROVE  FreedRight'
  <2>1. /\ pc[t] = "idle" /\ pc' = [pc EXCEPT ![t] = to] /\ freed' = [freed EXCEPT ![t] = vs]
        /\ \A v \in vs : views[v].state = "live"
        /\ \A v \in Views : views'[v] = IF v \in vs THEN [views[v] EXCEPT !.state = "doomed"] ELSE views[v]
    BY <1>10 DEF BeginFree
  <2>2. \A v \in vs : views'[v].state = "doomed"
    BY <1>0, <2>1 DEF ViewRecs
  <2>3. ASSUME NEW u \in Threads, u # t
        PROVE  /\ pc'[u] = pc[u] /\ freed'[u] = freed[u] /\ freed[u] \intersect vs = {}
               /\ \A w \in freed[u] : views'[w] = views[w]
    <3>1. pc'[u] = pc[u] /\ freed'[u] = freed[u]
      BY <1>0, <2>1, <2>3
    <3>2. \A w \in freed[u] : w \in Views /\ views[w].state \in {"doomed", "spent"}
      BY <1>0 DEF FreedRight
    <3> QED
      BY <2>1, <3>1, <3>2
  <2> QED
    BY <1>0, <1>10, <2>1, <2>2, <2>3 DEF FreedRight
<1>11. ASSUME NEW t \in Threads, NEW v \in Views, FreeView(t, v) PROVE FreedRight'
  BY <1>10, <1>11 DEF FreeView
<1>12. ASSUME NEW t \in Threads, NEW vs \in SUBSET Views, FreeSpan(t, vs) PROVE FreedRight'
  BY <1>10, <1>12 DEF FreeSpan
<1> QED
  BY <1>2, <1>3, <1>4, <1>5, <1>6, <1>7, <1>8, <1>9, <1>11, <1>12 DEF ViewNext, ViewCall

LEMMA NewRightKept == ViewInv /\ [ViewNext]_viewvars => NewRight'
<1> SUFFICES ASSUME ViewInv, [ViewNext]_viewvars PROVE NewRight'
  OBVIOUS
<1> USE DEF Goto
<1>0. /\ NewRight /\ new \in [Threads -> NewViews] /\ todo \in [Threads -> Seq(ViewHeaps)]
      /\ pc = [t \in Threads |-> pc[t]]
  BY DEF ViewInv, ViewsTyped, NewInv
<1>1. ASSUME UNCHANGED <<new, todo>>,
             \A u \in Threads : \/ pc'[u] = pc[u]
                                \/ {pc[u], pc'[u]} \subseteq {"allocate", "search"}
                                \/ pc'[u] \in {"check", "acquire"}
                                \/ {pc[u], pc'[u]} \subseteq {"idle", "free", "span", "release"}
      PROVE  NewRight'
  <2> SUFFICES ASSUME NEW u \in Threads
               PROVE  /\ pc'[u] \notin {"allocate", "search", "check", "acquire"} =>
                           \A h \in ViewHeaps : new[u].handle[h] = NoPage
                      /\ pc'[u] \in {"allocate", "search"} =>
                           /\ \A k \in DOMAIN todo[u] : new[u].handle[todo[u][k]] = NoPage
                           /\ \A j, k \in DOMAIN todo[u] : j # k => todo[u][j] # todo[u][k]
    BY <1>1 DEF NewRight
  <2> QED
    BY <1>0, <1>1 DEF NewRight
<1>2. ASSUME NEW t \in Threads,
             \/ AllocateBlock(t) \/ Unlock(t) \/ CheckRoom(t) \/ FreeViewBlocks(t)
             \/ ReleaseNode(t) \/ FreeNext(t) \/ SpanEnds(t)
      PROVE  NewRight'
  <2>1. /\ UNCHANGED <<new, todo>>
        /\ \/ pc' = pc
           \/ pc[t] = "allocate" /\ \E to \in {"search", "check"} : pc' = [pc EXCEPT ![t] = to]
           \/ pc[t] = "check" /\ pc' = [pc EXCEPT ![t] = "acquire"]
           \/ /\ pc[t] \in {"free", "release", "span"}
              /\ \E to \in {"release", "idle"} : pc' = [pc EXCEPT ![t] = to]
    BY <1>2 DEF AllocateBlock, Unlock, CheckRoom, FreeViewBlocks, ReleaseNode, FreeNext, SpanEnds
  <2> QED
    BY <1>0, <1>1, <2>1
<1>3. ASSUME NEW t \in Threads, NEW vs, NEW to \in {"free", "span"}, BeginFree(t, vs, to) PROVE NewRight'
  <2>1. UNCHANGED <<new, todo>> /\ pc[t] = "idle" /\ pc' = [pc EXCEPT ![t] = to]
    BY <1>3 DEF BeginFree
  <2> QED
    BY <1>0, <1>1, <2>1
<1>4. CASE SearchBlock \/ UNCHANGED viewvars
  BY <1>1, <1>4 DEF SearchBlock, viewvars
<1>5. ASSUME NEW t \in Threads, NEW v \in Views, FreeView(t, v) PROVE NewRight'
  BY <1>3, <1>5 DEF FreeView
<1>6. ASSUME NEW t \in Threads, NEW vs \in SUBSET Views, FreeSpan(t, vs) PROVE NewRight'
  BY <1>3, <1>6 DEF FreeSpan
<1>7. ASSUME NEW t \in Threads, NEW size \in Sizes, CreateEmpty(t, size) PROVE NewRight'
  <2>1. /\ new' = [new EXCEPT ![t] = View("new", size)] /\ todo' = [todo EXCEPT ![t] = HeapsToAsk(size)]
        /\ pc' = [pc EXCEPT ![t] = "allocate"]
    BY <1>7 DEF CreateEmpty
  <2>2. /\ HeapsToAsk(size) \in Seq(ViewHeaps)
        /\ \A h \in ViewHeaps : View("new", size).handle[h] = NoPage
        /\ \A j, k \in DOMAIN HeapsToAsk(size) : j # k => HeapsToAsk(size)[j] # HeapsToAsk(size)[k]
    BY AskedFor, AskedOnce DEF View
  <2>3. \A k \in DOMAIN HeapsToAsk(size) : HeapsToAsk(size)[k] \in ViewHeaps
    BY <2>2, LenProperties, ElementOfSeq
  <2>4. /\ new'[t] = View("new", size) /\ todo'[t] = HeapsToAsk(size) /\ pc'[t] = "allocate"
        /\ \A u \in Threads : u # t => new'[u] = new[u] /\ todo'[u] = todo[u] /\ pc'[u] = pc[u]
    BY <1>0, <2>1
  <2>5. \A k \in DOMAIN HeapsToAsk(size) : View("new", size).handle[HeapsToAsk(size)[k]] = NoPage
    BY <2>2, <2>3
  <2> QED
    <3> SUFFICES ASSUME NEW u \in Threads
                 PROVE  /\ pc'[u] \notin {"allocate", "search", "check", "acquire"} =>
                             \A h \in ViewHeaps : new'[u].handle[h] = NoPage
                        /\ pc'[u] \in {"allocate", "search"} =>
                             /\ \A k \in DOMAIN todo'[u] : new'[u].handle[todo'[u][k]] = NoPage
                             /\ \A j, k \in DOMAIN todo'[u] : j # k => todo'[u][j] # todo'[u][k]
      BY DEF NewRight
    <3>1. CASE u = t
      BY <2>2, <2>4, <2>5, <3>1
    <3>2. CASE u # t
      BY <1>0, <2>4, <3>2 DEF NewRight
    <3> QED
      BY <3>1, <3>2
<1>8. ASSUME NEW t \in Threads, AcquireNode(t) PROVE NewRight'
  <2>1. UNCHANGED todo /\ pc[t] = "acquire"
    BY <1>8 DEF AcquireNode
  <2>2. CASE UNCHANGED <<new, pc>>
    BY <1>1, <2>1, <2>2
  <2>3. CASE ~UNCHANGED <<new, pc>>
    <3>1. /\ new' = [new EXCEPT ![t] = FreeNode] /\ pc' = [pc EXCEPT ![t] = "idle"]
      BY <1>8, <2>3 DEF AcquireNode
    <3>2. \A h \in ViewHeaps : FreeNode.handle[h] = NoPage
      BY DEF FreeNode, View
    <3>3. /\ new'[t] = FreeNode /\ pc'[t] = "idle"
          /\ \A u \in Threads : u # t => new'[u] = new[u] /\ todo'[u] = todo[u] /\ pc'[u] = pc[u]
      BY <1>0, <2>1, <3>1
    <3> QED
      <4> SUFFICES ASSUME NEW u \in Threads
                   PROVE  /\ pc'[u] \notin {"allocate", "search", "check", "acquire"} =>
                               \A h \in ViewHeaps : new'[u].handle[h] = NoPage
                          /\ pc'[u] \in {"allocate", "search"} =>
                               /\ \A k \in DOMAIN todo'[u] : new'[u].handle[todo'[u][k]] = NoPage
                               /\ \A j, k \in DOMAIN todo'[u] : j # k => todo'[u][j] # todo'[u][k]
        BY DEF NewRight
      <4>1. CASE u = t
        BY <3>2, <3>3, <4>1
      <4>2. CASE u # t
        BY <1>0, <3>3, <4>2 DEF NewRight
      <4> QED
        BY <4>1, <4>2
  <2> QED
    BY <2>2, <2>3
<1>9. ASSUME NEW t \in Threads, AllocateReturns(t) PROVE NewRight'
  <2>1. CASE page = NoPage
    BY <1>1, <1>9, <2>1 DEF AllocateReturns
  <2>2. CASE page # NoPage
    <3> DEFINE h == Head(todo[t])
    <3>1. /\ pc[t] = "search" /\ h \in ViewHeaps /\ todo[t] # <<>> /\ todo[t] \in Seq(ViewHeaps)
          /\ todo' = [todo EXCEPT ![t] = Tail(@)] /\ pc' = [pc EXCEPT ![t] = "allocate"]
          /\ \A u \in Threads : u # t => new'[u] = new[u]
          /\ \A g \in ViewHeaps : new'[t].handle[g] = IF g = h THEN page ELSE new[t].handle[g]
      BY <1>9, <2>2, AllocateReturnsEffect
    <3> DEFINE rest == Tail(todo[t])
    <3>2. /\ h = todo[t][1] /\ 1 \in DOMAIN todo[t]
          /\ \A k \in DOMAIN rest : /\ k + 1 \in DOMAIN todo[t] /\ rest[k] = todo[t][k + 1]
                                    /\ k + 1 # 1 /\ k \in Int
      <4>1. /\ h = todo[t][1] /\ rest \in Seq(ViewHeaps)
            /\ Len(rest) = Len(todo[t]) - 1
            /\ \A k \in 1 .. Len(rest) : rest[k] = todo[t][k + 1]
        BY <3>1, HeadTailProperties
      <4>2. /\ Len(todo[t]) \in Nat /\ DOMAIN todo[t] = 1 .. Len(todo[t])
            /\ Len(rest) \in Nat /\ DOMAIN rest = 1 .. Len(rest)
        BY <3>1, <4>1, LenProperties
      <4> HIDE DEF rest, h
      <4> QED
        BY <4>1, <4>2
    <3>3. /\ todo'[t] = rest /\ pc'[t] = "allocate"
          /\ \A u \in Threads : u # t => todo'[u] = todo[u] /\ pc'[u] = pc[u]
      BY <1>0, <3>1
    <3> HIDE DEF rest, h
    <3>4. \A j, k \in DOMAIN rest : j # k => rest[j] # rest[k]
      <4> SUFFICES ASSUME NEW j \in DOMAIN rest, NEW k \in DOMAIN rest, j # k PROVE rest[j] # rest[k]
        OBVIOUS
      <4>1. j + 1 # k + 1
        BY <3>2
      <4> QED
        BY <1>0, <3>1, <3>2, <4>1 DEF NewRight
    <3>5. \A k \in DOMAIN rest : new'[t].handle[rest[k]] = NoPage
      <4> SUFFICES ASSUME NEW k \in DOMAIN rest PROVE new'[t].handle[rest[k]] = NoPage
        OBVIOUS
      <4>1. rest[k] # h /\ new[t].handle[rest[k]] = NoPage
        BY <1>0, <3>1, <3>2 DEF NewRight
      <4>2. rest[k] \in ViewHeaps
        BY <3>1, <3>2, LenProperties, ElementOfSeq
      <4> QED
        BY <3>1, <4>1, <4>2
    <3> QED
      BY <1>0, <3>1, <3>3, <3>4, <3>5 DEF NewRight
  <2> QED
    BY <2>1, <2>2
<1> QED
  BY <1>2, <1>4, <1>5, <1>6, <1>7, <1>8, <1>9 DEF ViewNext, ViewCall

\* What is searched for and what was found stay with the thread that has the mutex.
LEMMA OtherSteps ==
  ASSUME ViewInv, NEW t \in Threads, UNCHANGED alloc, pc[t] # "search",
         mMutex' = mMutex \/ mMutex \in {NoThread, t},
         \A u \in Threads : u # t => pc'[u] = pc[u] /\ new'[u] = new[u] /\ todo'[u] = todo[u]
  PROVE  FoundRight' /\ (page # NoPage => UNCHANGED Asked)
<1>1. CASE heap = NoHeap /\ page = NoPage
  BY <1>1 DEF FoundRight, alloc
<1>2. CASE ~(heap = NoHeap /\ page = NoPage)
  <2>1. mMutex \in Threads /\ pc[mMutex] = "search"
    BY <1>2 DEF ViewInv, MutexInv, FoundRight
  <2>2. UNCHANGED <<mMutex, Asked>> /\ pc'[mMutex] = pc[mMutex] /\ new'[mMutex] = new[mMutex]
    BY <2>1, ThreadsAssumption DEF Asked
  <2>3. \A h : Blocks(h)' = Blocks(h)
    BY DEF Blocks, alloc
  <2>4. FoundRight'
    <3>1. UNCHANGED <<pages, heap, num_pages, page>>
      BY DEF alloc
    <3> QED
      BY <2>1, <2>2, <2>3, <3>1 DEF ViewInv, FoundRight
  <2> QED
    BY <2>2, <2>4
<1> QED
  BY <1>1, <1>2

LEMMA OwnersKept == ViewInv /\ [ViewNext]_viewvars => FoundRight' /\ OwnersRight'
<1> SUFFICES ASSUME ViewInv, [ViewNext]_viewvars PROVE FoundRight' /\ OwnersRight'
  OBVIOUS
<1> USE DEF Goto
<1>0. /\ new \in [Threads -> NewViews] /\ todo \in [Threads -> Seq(ViewHeaps)]
      /\ pc = [t \in Threads |-> pc[t]] /\ views \in [Views -> ViewRecs] /\ AllocInv /\ OwnersRight
  BY DEF ViewInv, ViewsTyped, NewInv
<1>1. ASSUME UNCHANGED <<views, new>>
      PROVE  /\ \A h \in ViewHeaps : \A v \in Views : ViewOwns(v, h)' <=> ViewOwns(v, h)
             /\ \A h \in ViewHeaps : \A t \in Threads : CallOwns(t, h)' <=> CallOwns(t, h)
  BY <1>1 DEF ViewOwns, CallOwns
<1>2. ASSUME NEW t \in Threads, Unlock(t) \/ CheckRoom(t) \/ SpanEnds(t) PROVE FoundRight' /\ OwnersRight'
  <2>1. /\ UNCHANGED <<alloc, views, new, todo>> /\ pc[t] \in {"allocate", "check", "span"}
        /\ mMutex' = mMutex \/ (mMutex' = NoThread /\ pc[t] \in {"allocate", "span"})
        /\ pc' = pc \/ \E to : pc' = [pc EXCEPT ![t] = to]
    BY <1>2 DEF Unlock, CheckRoom, SpanEnds
  <2>2. \A u \in Threads : u # t => pc'[u] = pc[u]
    BY <1>0, <2>1
  <2>3. mMutex' = mMutex \/ mMutex = t
    BY <2>1 DEF ViewInv, MutexInv
  <2>4. FoundRight' /\ (page # NoPage => UNCHANGED Asked)
    BY <2>1, <2>2, <2>3, OtherSteps
  <2> QED
    BY <1>0, <1>1, <2>1, <2>4, OwnersFrame DEF alloc
<1>3. ASSUME NEW t \in Threads, AllocateBlock(t) PROVE FoundRight' /\ OwnersRight'
  <2>1. /\ UNCHANGED <<mMutex, views, new, todo, pages, page>> /\ pc[t] = "allocate" /\ heap' = Head(todo[t])
        /\ num_pages' = IntDivCeil(new[t].size[Head(todo[t])], PageSize)
    BY <1>3 DEF AllocateBlock, Allocate
  <2>2. mMutex = t /\ page = NoPage
    BY <2>1 DEF ViewInv, MutexInv, FoundRight
  <2>3. FoundRight'
    BY <2>1, <2>2 DEF FoundRight, Asked
  <2>4. OwnersRight'
    BY <1>0, <1>1, <2>1, <2>2, OwnersFrame
  <2> QED
    BY <2>3, <2>4
<1>4. ASSUME NEW t \in Threads, AllocateReturns(t) PROVE FoundRight' /\ OwnersRight'
  <2>1. CASE page = NoPage
    <3>1. UNCHANGED <<alloc, mMutex, views, new, todo, pc>>
      BY <1>4, <2>1 DEF AllocateReturns
    <3>2. UNCHANGED Asked /\ \A h : Blocks(h)' = Blocks(h)
      BY <3>1 DEF Asked, alloc, Blocks
    <3>3. FoundRight'
      BY <3>1, <3>2 DEF ViewInv, FoundRight, alloc
    <3> QED
      BY <1>0, <1>1, <3>1, <3>2, <3>3, OwnersFrame DEF alloc
  <2>2. CASE page # NoPage
    <3>1. page' = NoPage /\ heap' = NoHeap
      BY <1>4, <2>2, AllocateReturnsEffect
    <3> QED
      BY <1>4, <2>2, <3>1, ReturnOwners DEF FoundRight
  <2> QED
    BY <2>1, <2>2
<1>5. ASSUME NEW t \in Threads, NEW size \in Sizes, CreateEmpty(t, size) PROVE FoundRight' /\ OwnersRight'
  <2>1. /\ UNCHANGED <<alloc, views>> /\ pc[t] = "idle" /\ mMutex = NoThread
        /\ new' = [new EXCEPT ![t] = View("new", size)] /\ todo' = [todo EXCEPT ![t] = HeapsToAsk(size)]
        /\ pc' = [pc EXCEPT ![t] = "allocate"]
    BY <1>5 DEF CreateEmpty
  <2>2. \A u \in Threads : u # t => new'[u] = new[u] /\ todo'[u] = todo[u] /\ pc'[u] = pc[u]
    BY <1>0, <2>1
  <2>3. FoundRight' /\ (page # NoPage => UNCHANGED Asked)
    BY <2>1, <2>2, OtherSteps
  <2>4. \A h \in ViewHeaps : ~CallOwns(t, h) /\ ~CallOwns(t, h)'
    <3>1. new'[t] = View("new", size) /\ \A h \in ViewHeaps : View("new", size).handle[h] = NoPage
      BY <1>0, <2>1 DEF View
    <3> QED
      BY <2>1, <3>1 DEF ViewInv, NewRight, CallOwns
  <2>5. /\ \A h \in ViewHeaps : \A v \in Views : ViewOwns(v, h)' <=> ViewOwns(v, h)
        /\ \A h \in ViewHeaps : \A u \in Threads : CallOwns(u, h)' <=> CallOwns(u, h)
    BY <2>1, <2>2, <2>4 DEF ViewOwns, CallOwns
  <2>6. UNCHANGED <<pages, page>>
    BY <2>1 DEF alloc
  <2>7. \A h \in ViewHeaps : \A u \in Threads : CallOwns(u, h) => new'[u] = new[u]
    BY <2>2, <2>4
  <2> QED
    BY <1>0, <2>1, <2>3, <2>5, <2>6, <2>7, OwnersFrame
<1>6. ASSUME NEW t \in Threads, AcquireNode(t) PROVE FoundRight' /\ OwnersRight'
  <2>1. /\ UNCHANGED <<alloc, mMutex, todo>> /\ pc[t] = "acquire"
    BY <1>6 DEF AcquireNode
  <2>2. UNCHANGED <<new, pc, views>> \/ (/\ new' = [new EXCEPT ![t] = FreeNode]
                                         /\ pc' = [pc EXCEPT ![t] = "idle"])
    BY <1>6 DEF AcquireNode
  <2>3. \A u \in Threads : u # t => new'[u] = new[u] /\ todo'[u] = todo[u] /\ pc'[u] = pc[u]
    BY <1>0, <2>1, <2>2
  <2>4. FoundRight' /\ (page # NoPage => UNCHANGED Asked)
    BY <2>1, <2>3, OtherSteps
  <2>5. CASE IsFull
    <3>1. UNCHANGED <<views, new>>
      BY <1>6, <2>5 DEF AcquireNode, IsFull
    <3> QED
      BY <1>0, <1>1, <2>1, <2>4, <3>1, OwnersFrame DEF alloc
  <2> QED
    BY <1>6, <2>4, <2>5, AcquireOwners
<1>7. ASSUME NEW t \in Threads, NEW vs, NEW to, BeginFree(t, vs, to), mMutex' = mMutex \/ mMutex = NoThread
      PROVE  FoundRight' /\ OwnersRight'
  <2>1. /\ UNCHANGED <<alloc, new, todo>> /\ pc[t] = "idle" /\ pc' = [pc EXCEPT ![t] = to]
        /\ \A v \in vs : views[v].state = "live"
        /\ \A v \in Views : views'[v] = IF v \in vs THEN [views[v] EXCEPT !.state = "doomed"] ELSE views[v]
    BY <1>7 DEF BeginFree
  <2>2. \A u \in Threads : u # t => pc'[u] = pc[u]
    BY <1>0, <2>1
  <2>3. FoundRight' /\ (page # NoPage => UNCHANGED Asked)
    BY <1>7, <2>1, <2>2, OtherSteps
  <2>4. \A v \in Views : /\ views'[v].handle = views[v].handle /\ views'[v].size = views[v].size
                         /\ \/ views'[v].state = views[v].state
                            \/ views'[v].state = "doomed" /\ views[v].state = "live"
    BY <1>0, <2>1 DEF ViewRecs
  <2>5. /\ \A h \in ViewHeaps : \A v \in Views : ViewOwns(v, h)' <=> ViewOwns(v, h)
        /\ \A h \in ViewHeaps : \A u \in Threads : CallOwns(u, h)' <=> CallOwns(u, h)
    BY <2>1, <2>4 DEF ViewOwns, CallOwns
  <2> QED
    BY <1>0, <2>1, <2>3, <2>4, <2>5, OwnersFrame DEF alloc
<1>8. ASSUME NEW t \in Threads, NEW v \in Views, FreeView(t, v) PROVE FoundRight' /\ OwnersRight'
  BY <1>7, <1>8 DEF FreeView
<1>9. ASSUME NEW t \in Threads, NEW vs \in SUBSET Views, FreeSpan(t, vs) PROVE FoundRight' /\ OwnersRight'
  BY <1>7, <1>9 DEF FreeSpan
<1>10. ASSUME NEW t \in Threads, ReleaseNode(t) PROVE FoundRight' /\ OwnersRight'
  <2>1. /\ UNCHANGED <<alloc, mMutex, new, todo>> /\ pc[t] = "release" /\ pc' = [pc EXCEPT ![t] = "idle"]
        /\ \A v \in Views : views'[v] = IF v \in freed[t] THEN FreeNode ELSE views[v]
    BY <1>10 DEF ReleaseNode
  <2>2. \A u \in Threads : u # t => pc'[u] = pc[u]
    BY <1>0, <2>1
  <2>3. FoundRight' /\ (page # NoPage => UNCHANGED Asked)
    BY <2>1, <2>2, OtherSteps
  <2>4. \A v \in freed[t] : views[v].state = "spent" /\ v \in Views
    BY <2>1 DEF ViewInv, FreedRight
  <2>5. /\ \A h \in ViewHeaps : \A v \in Views :
             (ViewOwns(v, h)' <=> ViewOwns(v, h)) /\ (ViewOwns(v, h) => views'[v] = views[v])
        /\ \A h \in ViewHeaps : \A u \in Threads : CallOwns(u, h)' <=> CallOwns(u, h)
    BY <2>1, <2>4 DEF ViewOwns, CallOwns, FreeNode, View
  <2> QED
    BY <1>0, <2>1, <2>3, <2>5, OwnersFrame DEF alloc
<1>11. ASSUME NEW t \in Threads, FreeViewBlocks(t) PROVE FoundRight' /\ OwnersRight'
  <2>1. PICK v \in freed[t] : FreeBlocks(v) /\ views' = [views EXCEPT ![v].state = "spent"]
    BY <1>11 DEF FreeViewBlocks
  <2>2. /\ mMutex = NoThread /\ pc[t] = "free" /\ UNCHANGED new
    BY <1>11 DEF FreeViewBlocks
  <2>3. page = NoPage /\ heap = NoHeap /\ v \in Views /\ views[v].state = "doomed"
    BY <2>2, ThreadsAssumption DEF ViewInv, MutexInv, FoundRight, FreedRight
  <2>4. views'[v].state = "spent" /\ \A w \in Views : w # v => views'[w] = views[w]
    BY <1>0, <2>1, <2>3 DEF ViewRecs
  <2>5. FoundRight'
    BY <2>1, <2>3 DEF FreeBlocks, FoundRight
  <2> QED
    BY <2>1, <2>2, <2>3, <2>4, <2>5, FreeOwners
<1>12. ASSUME NEW t \in Threads, FreeNext(t) PROVE FoundRight' /\ OwnersRight'
  <2>1. PICK v \in freed[t] : FreeBlocks(v) /\ views' = [views EXCEPT ![v] = FreeNode]
    BY <1>12 DEF FreeNext
  <2>2. /\ pc[t] = "span" /\ UNCHANGED new
    BY <1>12 DEF FreeNext
  <2>3. page = NoPage /\ heap = NoHeap /\ v \in Views /\ views[v].state = "doomed"
    BY <2>2, ThreadsAssumption DEF ViewInv, MutexInv, FoundRight, FreedRight
  <2>4. views'[v].state = "free" /\ \A w \in Views : w # v => views'[w] = views[w]
    BY <1>0, <2>1, <2>3 DEF FreeNode, View
  <2>5. FoundRight'
    BY <2>1, <2>3 DEF FreeBlocks, FoundRight
  <2> QED
    BY <2>1, <2>2, <2>3, <2>4, <2>5, FreeOwners
<1>13. CASE UNCHANGED viewvars
  <2>1. UNCHANGED <<alloc, mMutex, views, new, todo, pc>>
    BY <1>13 DEF viewvars
  <2>2. UNCHANGED Asked /\ \A h : Blocks(h)' = Blocks(h)
    BY <2>1 DEF Asked, alloc, Blocks
  <2>3. FoundRight'
    BY <2>1, <2>2 DEF ViewInv, FoundRight, alloc
  <2> QED
    BY <1>0, <1>1, <2>1, <2>2, <2>3, OwnersFrame DEF alloc
<1> QED
  BY <1>2, <1>3, <1>4, <1>5, <1>6, <1>8, <1>9, <1>10, <1>11, <1>12, <1>13, SearchOwners DEF ViewNext, ViewCall

LEMMA ViewInvKept == ViewInv /\ [ViewNext]_viewvars => ViewInv'
<1> SUFFICES ASSUME ViewInv, [ViewNext]_viewvars PROVE ViewInv'
  OBVIOUS
<1>1. AllocInv'
  BY ViewStep, AllocInvInductive DEF ViewInv, AllocInv
<1>2. MutexInv' /\ NewInv'
  BY MutexInvKept, NewInvKept DEF ViewInv, AllocInv
<1> QED
  BY <1>1, <1>2, ViewsTypedKept, FreedRightKept, NewRightKept, OwnersKept DEF ViewInv

LEMMA ViewInitOwners == ViewInit => ViewInv
<1> SUFFICES ASSUME ViewInit PROVE ViewInv
  OBVIOUS
<1>1. AllocInv /\ MutexInv /\ NewInv
  BY AllocInitInv, ViewInitInv DEF ViewInit
<1>2. /\ heap = NoHeap /\ page = NoPage /\ mMutex = NoThread /\ pc = [t \in Threads |-> "idle"]
      /\ views = [v \in Views |-> FreeNode] /\ new = [t \in Threads |-> FreeNode]
      /\ freed = [t \in Threads |-> {}]
  BY DEF ViewInit, AllocInit
<1>3. FreeNode \in ViewRecs /\ FreeNode.state = "free" /\ \A h \in ViewHeaps : FreeNode.handle[h] = NoPage
  BY DEF FreeNode, View, ViewRecs
<1>4. ViewsTyped /\ FreedRight /\ NewRight /\ FoundRight
  BY <1>2, <1>3 DEF ViewsTyped, FreedRight, NewRight, FoundRight
<1>5. \A h \in ViewHeaps : Blocks(h) = {}
  <2>1. \A h \in ViewHeaps : h \in Heaps
    BY ViewHeapsAssumption DEF ViewHeaps
  <2>2. \A h \in Heaps : \A p \in PagesOf(h) : pages[h][p] = 0
    BY DEF ViewInit, AllocInit
  <2>3. \A h \in Heaps : \A p \in PagesOf(h) : ~(pages[h][p] > 0)
    BY <2>2
  <2> QED
    BY <2>1, <2>3 DEF Blocks
<1>6. \A h \in ViewHeaps : /\ \A v \in Views : ~ViewOwns(v, h)
                           /\ \A t \in Threads : ~CallOwns(t, h)
  BY <1>2, <1>3 DEF ViewOwns, CallOwns
<1>7. OwnersRight
  BY <1>5, <1>6 DEF OwnersRight
<1> QED
  BY <1>1, <1>4, <1>7 DEF ViewInv

LEMMA ViewInvCorrect == ViewSpec => []ViewInv
  BY ViewInitOwners, ViewInvKept, PTL DEF ViewSpec

LEMMA InvBlocksOwned == ViewInv => BlocksOwned
<1> SUFFICES ASSUME ViewInv, NEW h \in ViewHeaps
             PROVE  /\ \A o \in OwnersOf(h) :
                         /\ Owner(o).handle[h] \in Blocks(h) \ Found(h)
                         /\ pages[h][Owner(o).handle[h]] * PageSize >= Owner(o).size[h]
                    /\ \A o, p \in OwnersOf(h) : Owner(o).handle[h] = Owner(p).handle[h] => o = p
                    /\ Blocks(h) = {Owner(o).handle[h] : o \in OwnersOf(h)} \union Found(h)
  BY DEF BlocksOwned
<1>1. \A p \in Blocks(h) : p \in Found(h) <=> Waits(h, p)
  <2> SUFFICES ASSUME NEW p \in Blocks(h) PROVE p \in Found(h) <=> Waits(h, p)
    OBVIOUS
  <2>1. p # NoPage
    BY ViewBlocks DEF ViewInv
  <2>2. ASSUME Waits(h, p) PROVE p \in Found(h)
    <3>1. mMutex \in Threads /\ pc[mMutex] = "search" /\ heap = NoHeap /\ page = p /\ Head(todo[mMutex]) = h
      BY <2>1, <2>2 DEF ViewInv, FoundRight, Waits, Asked
    <3> QED
      BY <2>1, <3>1 DEF Found
  <2>3. ASSUME p \in Found(h) PROVE Waits(h, p)
    <3>1. page = p /\ \E t \in Threads : pc[t] = "search" /\ Head(todo[t]) = h
      BY <2>3 DEF Found
    <3>2. PICK t \in Threads : pc[t] = "search" /\ Head(todo[t]) = h
      BY <3>1
    <3>3. mMutex = t
      BY <3>2 DEF ViewInv, MutexInv
    <3> QED
      BY <3>1, <3>2, <3>3 DEF Waits, Asked
  <2> QED
    BY <2>2, <2>3
<1>2. Found(h) \subseteq Blocks(h)
  <2> SUFFICES ASSUME NEW p \in Found(h) PROVE p \in Blocks(h)
    OBVIOUS
  <2>1. page = p /\ page # NoPage /\ \E t \in Threads : pc[t] = "search" /\ Head(todo[t]) = h
    BY DEF Found
  <2>2. PICK t \in Threads : pc[t] = "search" /\ Head(todo[t]) = h
    BY <2>1
  <2>3. mMutex = t
    BY <2>2 DEF ViewInv, MutexInv
  <2> QED
    BY <2>1, <2>2, <2>3 DEF ViewInv, FoundRight, Asked
<1>3. ASSUME NEW o \in OwnersOf(h)
      PROVE  \/ \E v \in Views : o = <<"view", v>> /\ ViewOwns(v, h) /\ Owner(o) = views[v]
             \/ \E t \in Threads : o = <<"call", t>> /\ CallOwns(t, h) /\ Owner(o) = new[t]
  <2>1. \/ \E v \in Views : o = <<"view", v>> /\ ViewOwns(v, h)
        \/ \E t \in Threads : o = <<"call", t>> /\ CallOwns(t, h)
    BY DEF OwnersOf, ViewOwns, CallOwns
  <2> QED
    BY <2>1 DEF Owner
<1>4. /\ \A v \in Views : ViewOwns(v, h) => <<"view", v>> \in OwnersOf(h) /\ Owner(<<"view", v>>) = views[v]
      /\ \A t \in Threads : CallOwns(t, h) => <<"call", t>> \in OwnersOf(h) /\ Owner(<<"call", t>>) = new[t]
  BY DEF OwnersOf, ViewOwns, CallOwns, Owner
<1>5. ASSUME NEW o \in OwnersOf(h)
      PROVE  /\ Owner(o).handle[h] \in Blocks(h) \ Found(h)
             /\ pages[h][Owner(o).handle[h]] * PageSize >= Owner(o).size[h]
  BY <1>1, <1>3 DEF ViewInv, OwnersRight
<1>6. ASSUME NEW o \in OwnersOf(h), NEW p \in OwnersOf(h), Owner(o).handle[h] = Owner(p).handle[h]
      PROVE  o = p
  <2>1. CASE \E v, w \in Views : /\ o = <<"view", v>> /\ ViewOwns(v, h) /\ Owner(o) = views[v]
                                /\ p = <<"view", w>> /\ ViewOwns(w, h) /\ Owner(p) = views[w]
    BY <1>6, <2>1 DEF ViewInv, OwnersRight
  <2>2. CASE \E t, u \in Threads : /\ o = <<"call", t>> /\ CallOwns(t, h) /\ Owner(o) = new[t]
                                  /\ p = <<"call", u>> /\ CallOwns(u, h) /\ Owner(p) = new[u]
    BY <1>6, <2>2 DEF ViewInv, OwnersRight
  <2>3. ASSUME NEW v \in Views, NEW t \in Threads, ViewOwns(v, h), CallOwns(t, h)
        PROVE  views[v].handle[h] # new[t].handle[h]
    BY <2>3 DEF ViewInv, OwnersRight
  <2> DEFINE ByView(x) == \E v \in Views : x = <<"view", v>> /\ ViewOwns(v, h) /\ Owner(x) = views[v]
             ByCall(x) == \E t \in Threads : x = <<"call", t>> /\ CallOwns(t, h) /\ Owner(x) = new[t]
  <2>4. (ByView(o) \/ ByCall(o)) /\ (ByView(p) \/ ByCall(p))
    BY <1>3
  <2>5. ~(ByView(o) /\ ByCall(p)) /\ ~(ByCall(o) /\ ByView(p))
    BY <1>6, <2>3
  <2>6. CASE ByView(o) /\ ByView(p)
    BY <2>1, <2>6
  <2>7. CASE ByCall(o) /\ ByCall(p)
    BY <2>2, <2>7
  <2> HIDE DEF ByView, ByCall
  <2> QED
    BY <2>4, <2>5, <2>6, <2>7
<1>7. ASSUME NEW b \in Blocks(h), b \notin Found(h) PROVE \E o \in OwnersOf(h) : Owner(o).handle[h] = b
  <2>1. CASE \E v \in Views : ViewOwns(v, h) /\ views[v].handle[h] = b
    <3>1. PICK v \in Views : ViewOwns(v, h) /\ views[v].handle[h] = b
      BY <2>1
    <3>2. <<"view", v>> \in OwnersOf(h) /\ Owner(<<"view", v>>).handle[h] = b
      BY <1>4, <3>1
    <3> QED
      BY <3>2
  <2>2. CASE \E t \in Threads : CallOwns(t, h) /\ new[t].handle[h] = b
    <3>1. PICK t \in Threads : CallOwns(t, h) /\ new[t].handle[h] = b
      BY <2>2
    <3>2. <<"call", t>> \in OwnersOf(h) /\ Owner(<<"call", t>>).handle[h] = b
      BY <1>4, <3>1
    <3> QED
      BY <3>2
  <2> QED
    BY <1>1, <1>7, <2>1, <2>2 DEF ViewInv, OwnersRight
<1> QED
  BY <1>2, <1>5, <1>6, <1>7

\* Every block of descriptors is a view's, or that of a call about to create one, for any number of
\* threads, views and descriptors: the nodes that change hands outside the mutex never leave a block
\* behind, and no block is returned twice (shader_view_pool.cc:22-60, 163-197).
THEOREM BlocksAlwaysOwned == ViewSpec => []BlocksOwned
  BY ViewInvCorrect, InvBlocksOwned, PTL

LEMMA InvViewType == ViewInv => AllocType /\ ViewType
<1> SUFFICES ASSUME ViewInv PROVE AllocType /\ ViewType
  OBVIOUS
<1>1. AllocType
  BY DEF ViewInv, AllocInv
<1>2. ViewType
  BY DEF ViewInv, ViewsTyped, ViewRecs, FreedRight, NewInv, NewViews, ViewType
<1> QED
  BY <1>1, <1>2

LEMMA InvRangeType == RangeInv => AllocType /\ RangeType
  BY DEF RangeInv, AllocInv, AskedRight, HandlesMade, RangeType

\* What was not begun stays as it was.
NoViews == /\ views = [v \in Views |-> FreeNode] /\ pc = [t \in Threads |-> "idle"]
           /\ new = [t \in Threads |-> FreeNode] /\ todo = [t \in Threads |-> <<>>]
           /\ freed = [t \in Threads |-> {}]
NoRanges == ranges = {} /\ wanted = NoRange

LEMMA UnusedTyped ==
  /\ NoViews /\ mMutex \in Threads \union {NoThread} => ViewType
  /\ NoRanges /\ mMutex \in Threads \union {NoThread} => RangeType
<1>1. ASSUME NoViews, mMutex \in Threads \union {NoThread} PROVE ViewType
  <2>1. FreeNode = [state |-> "free", size |-> [h \in ViewHeaps |-> 0], handle |-> [h \in ViewHeaps |-> NoPage]]
    BY DEF FreeNode, View
  <2>2. <<>> \in Seq(ViewHeaps)
    OBVIOUS
  <2> QED
    BY <1>1, <2>1, <2>2 DEF NoViews, ViewType
<1>2. ASSUME NoRanges, mMutex \in Threads \union {NoThread} PROVE RangeType
  BY <1>2, QueryTypesAssumption DEF NoRanges, NoRange, RangeType
<1> QED
  BY <1>1, <1>2

\* A behaviour of both pools together is one of either: nothing but the code is shared.
LEMMA OnePool ==
  Spec => \/ pool = "views" /\ ViewSpec /\ []NoRanges
          \/ pool = "ranges" /\ RangeSpec /\ []NoViews
<1>1. Init => /\ pool = "views" \/ pool = "ranges"
              /\ ViewInit /\ RangeInit /\ NoViews /\ NoRanges
  BY DEF Init, ViewInit, RangeInit, NoViews, NoRanges
<1>2. pool = "views" /\ NoRanges /\ [Next]_poolvars => [ViewNext]_viewvars /\ (pool = "views" /\ NoRanges)'
  BY DEF Next, poolvars, NoRanges
<1>3. pool = "ranges" /\ NoViews /\ [Next]_poolvars => [RangeNext]_rangevars /\ (pool = "ranges" /\ NoViews)'
  BY DEF Next, poolvars, viewvars, rangevars, NoViews
<1> QED
  BY <1>1, <1>2, <1>3, PTL DEF Spec, ViewSpec, RangeSpec

\* The variables of both pools have their types, a handle of queries that of its word
\* (shader_view_pool.hh:155-164, query_pool.hh:89-102).
THEOREM TypeCorrect == Spec => []TypeOK
<1>1. ViewInv /\ NoRanges => TypeOK
  BY InvViewType, UnusedTyped DEF TypeOK, ViewType
<1>2. RangeInv /\ NoViews => TypeOK
  BY InvRangeType, UnusedTyped DEF TypeOK, RangeType
<1> QED
  BY OnePool, ViewInvCorrect, RangeInvCorrect, <1>1, <1>2, PTL
=============================================================================
