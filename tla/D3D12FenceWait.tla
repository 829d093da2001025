---------------------------- MODULE D3D12FenceWait ----------------------------
(***************************************************************************)
(* waitCPU of the D3D12 fences (d3d12/pools/fence_pool.cc, and the same    *)
(* code in d3d12/Fence.cc for the fence of a command allocator).           *)
(*                                                                         *)
(* A fence comes with one auto-reset event, which every thread that waits  *)
(* for the fence shares: waitCPU looks at the value, asks D3D12 to set the *)
(* event when the fence gets there, and waits for the event.  The device   *)
(* keeps the values it was asked for; an event that is set stays set until *)
(* one thread has waited for it, and setting it twice is setting it once.  *)
(*                                                                         *)
(* A definition whose name contains _Mut is a deliberately wrong variant   *)
(* of the one that follows it.  No behaviour uses it: substituting it must *)
(* break the property PROJECT.json names.                                  *)
(***************************************************************************)
EXTENDS Integers, Sequences

CONSTANTS Threads, Queues, MaxValue, MaxPending, NotWaiting

ASSUME BoundsAssumption == MaxValue \in Nat /\ MaxPending \in Nat /\ NotWaiting \notin Nat

VARIABLES
  value,       \* of the ID3D12Fence
  pending,     \* of each ID3D12CommandQueue: the Signals and Waits still to come
  event,       \* "signaled" or not
  registered,  \* the values for which SetEventOnCompletion is to set it
  pc,          \* where each thread is in waitCPU
  val          \* its argument

vars == <<value, pending, event, registered, pc, val>>

Values == 1 .. MaxValue
Operation == [op : {"signal", "wait"}, value : Values]

Init ==
  /\ value = 0
  /\ pending = [q \in Queues |-> <<>>]
  /\ event = "nonsignaled" /\ registered = {}
  /\ pc = [t \in Threads |-> "idle"]
  /\ val = [t \in Threads |-> 0]

-----------------------------------------------------------------------------
(* The fence and the queues.                                               *)

SignalsOn(q) == {i \in 1 .. Len(pending[q]) : pending[q][i].op = "signal"}

IsIssued(v) == v <= value \/ \E q \in Queues : \E i \in SignalsOn(q) : v <= pending[q][i].value

\* the fence advances: of the registrations those fire that ask for no more than the new value
Due(v) == {w \in registered : w <= v}

Advance(v) ==
  /\ value' = v
  /\ event' = IF Due(v) # {} THEN "signaled" ELSE event
  /\ registered' = registered \ Due(v)

SignalCPU(v) ==
  /\ v > value
  /\ \A q \in Queues : SignalsOn(q) = {}
  /\ Advance(v)
  /\ UNCHANGED <<pending, pc, val>>

Enqueue(q, op, v) ==
  /\ Len(pending[q]) < MaxPending
  /\ pending' = [pending EXCEPT ![q] = Append(@, [op |-> op, value |-> v])]
  /\ UNCHANGED <<value, event, registered, pc, val>>

SignalGPU(q, v) ==
  /\ v > value
  /\ \A p \in Queues : \A i \in SignalsOn(p) : p = q /\ v > pending[p][i].value
  /\ Enqueue(q, "signal", v)

WaitGPU(q, v) ==
  /\ IsIssued(v)
  /\ Enqueue(q, "wait", v)

NextOp(q) == Head(pending[q])

ExecuteSignal(q) ==
  /\ pending[q] # <<>> /\ NextOp(q).op = "signal"
  /\ Advance(NextOp(q).value)
  /\ pending' = [pending EXCEPT ![q] = Tail(@)]
  /\ UNCHANGED <<pc, val>>

ExecuteWait(q) ==
  /\ pending[q] # <<>> /\ NextOp(q).op = "wait"
  /\ value >= NextOp(q).value
  /\ pending' = [pending EXCEPT ![q] = Tail(@)]
  /\ UNCHANGED <<value, event, registered, pc, val>>

-----------------------------------------------------------------------------
(* waitCPU.                                                                *)

Goto(t, from, to) == pc[t] = from /\ pc' = [pc EXCEPT ![t] = to]

Call(t, v) ==
  /\ Goto(t, "idle", "look")
  /\ val' = [val EXCEPT ![t] = v]
  /\ UNCHANGED <<value, pending, event, registered>>

\* GetCompletedValue
HasToWait_MutSwapped(t) == value > val[t]

HasToWait(t) == value <= val[t]

Look(t) ==
  /\ Goto(t, "look", IF HasToWait(t) THEN "register" ELSE "idle")
  /\ UNCHANGED <<value, pending, event, registered, val>>

\* SetEventOnCompletion: at once if the fence is there already
SetsNow_MutLate(t) == FALSE

SetsNow(t) == val[t] <= value

Register(t) ==
  /\ Goto(t, "register", "wait")
  /\ event' = IF SetsNow(t) THEN "signaled" ELSE event
  /\ registered' = IF SetsNow(t) THEN registered ELSE registered \union {val[t]}
  /\ UNCHANGED <<value, pending, val>>

\* WaitForSingleObject on an auto-reset event
AfterWait_MutManualReset == event

AfterWait == "nonsignaled"

Wake(t) ==
  /\ event = "signaled"
  /\ Goto(t, "wait", "idle")
  /\ event' = AfterWait
  /\ UNCHANGED <<value, pending, registered, val>>

-----------------------------------------------------------------------------
Recreate ==
  /\ \A q \in Queues : pending[q] = <<>>
  /\ \A t \in Threads : pc[t] = "idle"
  /\ value' = 0 /\ event' = "nonsignaled" /\ registered' = {}
  /\ UNCHANGED <<pending, pc, val>>

Next ==
  \/ \E v \in Values : SignalCPU(v)
  \/ \E q \in Queues, v \in Values : SignalGPU(q, v) \/ WaitGPU(q, v)
  \/ \E q \in Queues : ExecuteSignal(q) \/ ExecuteWait(q)
  \/ \E t \in Threads, v \in Values : Call(t, v)
  \/ \E t \in Threads : Look(t) \/ Register(t) \/ Wake(t)
  \/ Recreate

\* a thread inside waitCPU is scheduled, and of several waiting for an event that is set again
\* and again none is passed over for ever
Fairness == \A t \in Threads : WF_vars(Look(t) \/ Register(t)) /\ SF_vars(Wake(t))

Spec     == Init /\ [][Next]_vars
FairSpec == Spec /\ Fairness

-----------------------------------------------------------------------------
TypeOK ==
  /\ value \in 0 .. MaxValue
  /\ pending \in [Queues -> Seq(Operation)]
  /\ event \in {"signaled", "nonsignaled"}
  /\ registered \subseteq Values
  /\ pc \in [Threads -> {"idle", "look", "register", "wait"}]
  /\ val \in [Threads -> 0 .. MaxValue]
  /\ \A t \in Threads : pc[t] # "idle" => val[t] \in Values

\* The signals still to come advance the fence one after the other.
SignalsAscend ==
  \A q \in Queues : \A i \in SignalsOn(q) :
    /\ pending[q][i].value > value
    /\ \A j \in SignalsOn(q) : i < j => pending[q][i].value < pending[q][j].value
    /\ \A p \in Queues \ {q} : SignalsOn(p) = {}

\* One waiter, and the event is its own: it is set exactly when the fence is where the waiter
\* wants it, and nothing is left over when the waiter returns.
EventRight ==
  /\ (\A t \in Threads : pc[t] # "wait") => event = "nonsignaled" /\ registered = {}
  /\ \A t \in Threads : pc[t] = "wait" =>
       IF value >= val[t]
       THEN event = "signaled" /\ registered = {}
       ELSE event = "nonsignaled" /\ registered = {val[t]}

WaitInv == TypeOK /\ SignalsAscend /\ EventRight

\* waitCPU is the wait of the interface.
TF == INSTANCE TimelineFence
        WITH wanted <- [t \in Threads |-> IF pc[t] = "idle" THEN NotWaiting ELSE val[t]]

\* waitFenceCPU returns only when the fence has reached the value, and all else is as the fence
\* interface promises: "block on CPU until a fence reaches a given value" (Backend.hh:184).
Implements == TF!Spec

\* A thread whose value the fence has reached returns from waitCPU.
WaitsReturn == TF!WaitsReturn

\* The promise of waitFenceCPU alone.
ReturnsReached ==
  [][\A t \in Threads : pc[t] # "idle" /\ pc'[t] = "idle" => value >= val[t]]_vars
=============================================================================
