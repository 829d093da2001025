------------------------- MODULE CommandListLifecycle -------------------------
(***************************************************************************)
(* What a command list pool does for its lists, whichever API is below.    *)
(*                                                                         *)
(* An allocator hands out lists until it has no more.  The application     *)
(* discards a list or gives it to the GPU, once.  The memory behind all    *)
(* the lists of an allocator is recycled at once, and only when none of    *)
(* them is open and the GPU has finished every submission that uses one.   *)
(***************************************************************************)
EXTENDS Integers

CONSTANTS Allocs, Capacity

VARIABLES
  handed_out,  \* lists the allocator has given out since its memory was recycled
  open,        \* of those, neither discarded nor submitted yet
  executing    \* submissions with such lists that the GPU has not finished

lifecycle == <<handed_out, open, executing>>

Init ==
  /\ handed_out = [a \in Allocs |-> 0]
  /\ open = [a \in Allocs |-> 0]
  /\ executing = [a \in Allocs |-> 0]

HandOut(a) ==
  /\ handed_out[a] < Capacity
  /\ handed_out' = [handed_out EXCEPT ![a] = @ + 1]
  /\ open' = [open EXCEPT ![a] = @ + 1]
  /\ UNCHANGED executing

Discard(a) ==
  /\ open[a] > 0
  /\ open' = [open EXCEPT ![a] = @ - 1]
  /\ UNCHANGED <<handed_out, executing>>

\* one submission with n[a] lists of every allocator a
Submit(n) ==
  /\ \A a \in Allocs : n[a] <= open[a]
  /\ open' = [a \in Allocs |-> open[a] - n[a]]
  /\ executing' = [a \in Allocs |-> executing[a] + IF n[a] > 0 THEN 1 ELSE 0]
  /\ UNCHANGED handed_out

\* the GPU finishes a submission with lists of the allocators S
Finish(S) ==
  /\ \A a \in S : executing[a] > 0
  /\ executing' = [a \in Allocs |-> IF a \in S THEN executing[a] - 1 ELSE executing[a]]
  /\ UNCHANGED <<handed_out, open>>

Recycle(a) ==
  /\ open[a] = 0 /\ executing[a] = 0
  /\ handed_out' = [handed_out EXCEPT ![a] = 0]
  /\ UNCHANGED <<open, executing>>

\* the pool is destroyed, with whatever the application still had open, and another one is made
Replace ==
  /\ \A a \in Allocs : executing[a] = 0
  /\ handed_out' = [a \in Allocs |-> 0]
  /\ open' = [a \in Allocs |-> 0]
  /\ UNCHANGED executing

Next ==
  \/ \E a \in Allocs : HandOut(a) \/ Discard(a) \/ Recycle(a)
  \/ \E n \in [Allocs -> 0 .. Capacity] : Submit(n)
  \/ \E S \in SUBSET Allocs : Finish(S)
  \/ Replace

Spec == Init /\ [][Next]_lifecycle
=============================================================================
