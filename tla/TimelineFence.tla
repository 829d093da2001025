---------------------------- MODULE TimelineFence ----------------------------
(***************************************************************************)
(* What the backends promise of a handle::fence (Backend.hh, "Fence        *)
(* interface"): a counter that the CPU and the queues advance, for which   *)
(* threads and queues wait.                                                *)
(*                                                                         *)
(* The Vulkan FencePool hands the fence to the driver as a timeline        *)
(* semaphore and so is this specification; the D3D12 one has to build the  *)
(* wait of a thread itself, see D3D12FenceWait.                            *)
(*                                                                         *)
(* The application follows the rules of both APIs: a signal is for a       *)
(* larger value than all before it, signals still on their way are all on  *)
(* one queue, and a queue waits for nothing that was not issued before.    *)
(***************************************************************************)
EXTENDS Integers, Sequences

CONSTANTS
  Threads,     (* threads that wait                                         *)
  Queues,
  MaxValue,    (* bound: the values of a fence                              *)
  MaxPending,  (* bound: operations on a queue                              *)
  NotWaiting

VARIABLES
  value,       \* of the fence
  pending,     \* of each queue: the fence operations the GPU has yet to come to
  wanted       \* what each thread in waitFenceCPU waits for

vars == <<value, pending, wanted>>

Values == 1 .. MaxValue
Operation == [op : {"signal", "wait"}, value : Values]

Init ==
  /\ value = 0
  /\ pending = [q \in Queues |-> <<>>]
  /\ wanted = [t \in Threads |-> NotWaiting]

SignalsOn(q) == {i \in 1 .. Len(pending[q]) : pending[q][i].op = "signal"}

\* a value the fence has reached, or will once the GPU comes to it
IsIssued(v) == v <= value \/ \E q \in Queues : \E i \in SignalsOn(q) : v <= pending[q][i].value

\* signalFenceCPU
SignalCPU(v) ==
  /\ v > value
  /\ \A q \in Queues : SignalsOn(q) = {}
  /\ value' = v
  /\ UNCHANGED <<pending, wanted>>

Enqueue(q, op, v) ==
  /\ Len(pending[q]) < MaxPending
  /\ pending' = [pending EXCEPT ![q] = Append(@, [op |-> op, value |-> v])]
  /\ UNCHANGED <<value, wanted>>

\* the fence_signals_after and fence_waits_before of submit
SignalGPU(q, v) ==
  /\ v > value
  /\ \A p \in Queues : \A i \in SignalsOn(p) : p = q /\ v > pending[p][i].value
  /\ Enqueue(q, "signal", v)

WaitGPU(q, v) ==
  /\ IsIssued(v)
  /\ Enqueue(q, "wait", v)

\* the GPU comes to the next operation of a queue
NextOp(q) == Head(pending[q])

ExecuteSignal(q) ==
  /\ pending[q] # <<>> /\ NextOp(q).op = "signal"
  /\ value' = NextOp(q).value
  /\ pending' = [pending EXCEPT ![q] = Tail(@)]
  /\ UNCHANGED wanted

ExecuteWait(q) ==
  /\ pending[q] # <<>> /\ NextOp(q).op = "wait"
  /\ value >= NextOp(q).value
  /\ pending' = [pending EXCEPT ![q] = Tail(@)]
  /\ UNCHANGED <<value, wanted>>

\* waitFenceCPU: "block on CPU until a fence reaches a given value" (Backend.hh:184)
WaitCPU(t, v) ==
  /\ wanted[t] = NotWaiting
  /\ wanted' = [wanted EXCEPT ![t] = v]
  /\ UNCHANGED <<value, pending>>

ReturnCPU(t) ==
  /\ wanted[t] # NotWaiting
  /\ value >= wanted[t]
  /\ wanted' = [wanted EXCEPT ![t] = NotWaiting]
  /\ UNCHANGED <<value, pending>>

\* free, and createFence: "starts out with value 0"
Recreate ==
  /\ \A q \in Queues : pending[q] = <<>>
  /\ \A t \in Threads : wanted[t] = NotWaiting
  /\ value' = 0
  /\ UNCHANGED <<pending, wanted>>

Next ==
  \/ \E v \in Values : SignalCPU(v)
  \/ \E q \in Queues, v \in Values : SignalGPU(q, v) \/ WaitGPU(q, v)
  \/ \E q \in Queues : ExecuteSignal(q) \/ ExecuteWait(q)
  \/ \E t \in Threads, v \in Values : WaitCPU(t, v)
  \/ \E t \in Threads : ReturnCPU(t)
  \/ Recreate

Spec == Init /\ [][Next]_vars

\* A thread whose value the fence has reached returns.
WaitsReturn ==
  \A t \in Threads, v \in Values :
    (wanted[t] = v /\ value >= v) ~> (wanted[t] = NotWaiting)
=============================================================================
