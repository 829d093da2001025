------------------------------- MODULE FirstFit -------------------------------
(***************************************************************************)
(* What a page allocator promises: a block of so many pages in a row, the  *)
(* lowest there is room for, and a refusal only when there is no room.     *)
(***************************************************************************)
EXTENDS Integers

CONSTANTS
  Heaps,     (* each with pages of its own ...            *)
  Size,      (* ... as many as Size says                  *)
  NoHeap

VARIABLES
  blocks,    \* of each heap, those handed out and not given back
  asked,     \* the heap a block is asked from, or NoHeap
  count,     \* and how many pages it must have
  answer     \* the first page of the block granted, until it is taken, or Refusal

firstfit == <<blocks, asked, count, answer>>

Refusal == -1

\* n pages from page s on are within heap h and clear of its blocks
Room(h, s, n) ==
  /\ s + n <= Size[h]
  /\ \A b \in blocks[h] : s + n <= b.first \/ b.first + b.count <= s

Init ==
  /\ blocks = [h \in Heaps |-> {}]
  /\ asked = NoHeap /\ count = 0 /\ answer = Refusal

Ask(h) ==
  /\ asked = NoHeap
  /\ asked' = h /\ count' \in Nat \ {0}
  /\ UNCHANGED <<blocks, answer>>

Grant ==
  /\ asked # NoHeap
  /\ answer' \in 0 .. Size[asked] - 1
  /\ Room(asked, answer', count)
  /\ \A s \in 0 .. answer' - 1 : ~Room(asked, s, count)
  /\ blocks' = [blocks EXCEPT ![asked] = @ \union {[first |-> answer', count |-> count]}]
  /\ asked' = NoHeap /\ count' = 0

Refuse ==
  /\ asked # NoHeap
  /\ answer' = Refusal
  /\ \A s \in 0 .. Size[asked] - 1 : ~Room(asked, s, count)
  /\ asked' = NoHeap /\ count' = 0
  /\ UNCHANGED blocks

Take ==
  /\ asked = NoHeap
  /\ answer' = Refusal
  /\ UNCHANGED <<blocks, asked, count>>

\* any of them, of any heap
GiveBack ==
  /\ asked = NoHeap
  /\ blocks' = [h \in Heaps |-> blocks'[h]]
  /\ \A h \in Heaps : blocks'[h] \subseteq blocks[h]
  /\ UNCHANGED <<asked, count, answer>>

Next ==
  \/ \E h \in Heaps : Ask(h)
  \/ Grant
  \/ Refuse
  \/ Take
  \/ GiveBack

Spec == Init /\ [][Next]_firstfit
=============================================================================
