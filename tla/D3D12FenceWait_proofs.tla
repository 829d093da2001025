------------------------ MODULE D3D12FenceWait_proofs ------------------------
(* That waitCPU is right as long as a fence has one waiter at a time, as   *)
(* the fence of a command allocator has, for any values and queues.        *)
EXTENDS D3D12FenceWait, TLAPS

\* No two threads are between GetCompletedValue and the end of their wait: what the application has
\* to see to, as threads that only look at the value disturb nobody.
OneWaiter == \A t, u \in Threads : {pc[t], pc[u]} \subseteq {"register", "wait"} => t = u

-----------------------------------------------------------------------------
LEMMA InitInv == Init => WaitInv
  BY BoundsAssumption DEF Init, WaitInv, TypeOK, EventRight, SignalsAscend, SignalsOn

\* The fence advances, by a signal of the CPU or of a queue.
LEMMA AdvanceInv ==
  ASSUME OneWaiter, WaitInv, NEW v \in Values, v > value, Advance(v), UNCHANGED <<pc, val>>
  PROVE  /\ value' \in 0 .. MaxValue /\ event' \in {"signaled", "nonsignaled"} /\ registered' \subseteq Values
         /\ EventRight'
<1>a. /\ value \in Nat /\ value' = v /\ v \in Nat /\ MaxValue \in Nat
      /\ event' = (IF Due(v) # {} THEN "signaled" ELSE event)
      /\ registered' = registered \ Due(v)
      /\ \A t \in Threads : val[t] \in Nat
  <2>1. /\ value \in 0 .. MaxValue /\ val \in [Threads -> 0 .. MaxValue] /\ MaxValue \in Nat
        /\ v \in 1 .. MaxValue
    BY BoundsAssumption DEF WaitInv, TypeOK, Values
  <2>2. value \in Nat /\ v \in Nat /\ \A t \in Threads : val[t] \in Nat
    BY <2>1
  <2> QED
    BY <2>1, <2>2 DEF Advance
<1>1. value' \in 0 .. MaxValue /\ event' \in {"signaled", "nonsignaled"} /\ registered' \subseteq Values
  <2>1. event \in {"signaled", "nonsignaled"} /\ registered \subseteq Values
    BY DEF WaitInv, TypeOK
  <2>2. value' \in 0 .. MaxValue
    BY <1>a DEF Values
  <2> QED
    BY <1>a, <2>1, <2>2
<1>2. CASE \A t \in Threads : pc[t] # "wait"
  <2>1. event = "nonsignaled" /\ registered = {}
    BY <1>2 DEF WaitInv, EventRight
  <2>2. Due(v) = {}
    BY <2>1 DEF Due
  <2>3. event' = "nonsignaled" /\ registered' = {}
    BY <1>a, <2>1, <2>2
  <2>4. \A t \in Threads : pc'[t] # "wait"
    BY <1>2
  <2> QED
    BY <1>1, <2>3, <2>4 DEF EventRight
<1>3. ASSUME NEW t \in Threads, pc[t] = "wait"
      PROVE  EventRight'
  <2>1. CASE value >= val[t]
    <3>1. event = "signaled" /\ registered = {}
      BY <1>3, <2>1 DEF WaitInv, EventRight
    <3>2. event' = "signaled" /\ registered' = {} /\ value' >= val[t]
      BY <1>a, <2>1, <3>1 DEF Due
    <3> QED
      BY <1>3, <3>2 DEF EventRight, OneWaiter
  <2>2. CASE value < val[t] /\ v >= val[t]
    <3>1. registered = {val[t]}
      BY <1>a, <1>3, <2>2 DEF WaitInv, EventRight
    <3>2. Due(v) = {val[t]}
      BY <1>a, <2>2, <3>1 DEF Due
    <3>3. event' = "signaled" /\ registered' = {}
      BY <1>a, <3>1, <3>2
    <3> QED
      BY <1>a, <1>3, <2>2, <3>3 DEF EventRight, OneWaiter
  <2>3. CASE value < val[t] /\ v < val[t]
    <3>1. registered = {val[t]} /\ event = "nonsignaled"
      BY <1>a, <1>3, <2>3 DEF WaitInv, EventRight
    <3>2. Due(v) = {}
      BY <1>a, <2>3, <3>1 DEF Due
    <3>3. event' = "nonsignaled" /\ registered' = {val[t]}
      BY <1>a, <3>1, <3>2
    <3> QED
      BY <1>a, <1>3, <2>3, <3>3 DEF EventRight, OneWaiter
  <2> QED
    BY <1>a, <2>1, <2>2, <2>3
<1> QED
  BY <1>1, <1>2, <1>3

\* The operations of a queue.
LEMMA QueueTypes ==
  ASSUME TypeOK, NEW q \in Queues
  PROVE  /\ pending[q] # <<>> => NextOp(q) \in Operation
         /\ pending[q] # <<>> =>
              [pending EXCEPT ![q] = Tail(@)] \in [Queues -> Seq(Operation)]
         /\ \A op \in {"signal", "wait"}, v \in Values :
              Enqueue(q, op, v) => pending' \in [Queues -> Seq(Operation)]
<1> USE DEF TypeOK
<1>1. pending[q] \in Seq(Operation)
  OBVIOUS
<1>2. pending[q] # <<>> => Head(pending[q]) \in Operation /\ Tail(pending[q]) \in Seq(Operation)
  BY <1>1
<1>3. ASSUME NEW op \in {"signal", "wait"}, NEW v \in Values
      PROVE  Append(pending[q], [op |-> op, value |-> v]) \in Seq(Operation)
  <2>1. [op |-> op, value |-> v] \in Operation
    BY <1>3 DEF Operation
  <2> QED
    BY <1>1, <2>1
<1> QED
  BY <1>2, <1>3 DEF NextOp, Enqueue

LEMMA WaitInvInductive == OneWaiter /\ WaitInv /\ [Next]_vars => WaitInv'
<1> SUFFICES ASSUME OneWaiter, WaitInv, [Next]_vars
             PROVE  WaitInv'
  OBVIOUS
<1>a. TypeOK /\ SignalsAscend /\ EventRight
  BY DEF WaitInv
<1>b. /\ value \in Nat /\ pending \in [Queues -> Seq(Operation)] /\ MaxValue \in Nat
      /\ registered \subseteq Values
      /\ pc \in [Threads -> {"idle", "look", "register", "wait"}]
      /\ val \in [Threads -> 0 .. MaxValue]
  BY <1>a, BoundsAssumption DEF TypeOK
<1>1. ASSUME NEW v \in Values, SignalCPU(v)
      PROVE  WaitInv'
  <2>1. /\ value' \in 0 .. MaxValue /\ event' \in {"signaled", "nonsignaled"}
        /\ registered' \subseteq Values /\ EventRight'
    BY <1>1, AdvanceInv DEF SignalCPU
  <2>2. TypeOK'
    BY <1>1, <1>a, <2>1 DEF SignalCPU, TypeOK
  <2>3. SignalsAscend'
    BY <1>1 DEF SignalCPU, SignalsAscend, SignalsOn
  <2> QED
    BY <2>1, <2>2, <2>3 DEF WaitInv
<1>2. ASSUME NEW q \in Queues, NEW v \in Values, NEW op \in {"signal", "wait"}, Enqueue(q, op, v),
             op = "signal" => /\ v > value
                              /\ \A p \in Queues : \A i \in SignalsOn(p) :
                                   p = q /\ v > pending[p][i].value
      PROVE  WaitInv'
  <2>1. TypeOK'
    <3>1. pending' \in [Queues -> Seq(Operation)]
      BY <1>2, <1>a, QueueTypes
    <3> QED
      BY <1>2, <1>a, <3>1 DEF Enqueue, TypeOK
  <2>2. EventRight'
    BY <1>2, <1>a DEF Enqueue, EventRight
  <2>3. SignalsAscend'
    <3> DEFINE new == [op |-> op, value |-> v]
    <3>1. /\ pending' = [pending EXCEPT ![q] = Append(@, new)]
          /\ value' = value /\ v \in Nat
      BY <1>2, <1>b DEF Enqueue, Values
    <3>2. new \in Operation /\ new.op = op /\ new.value = v
      BY <1>2 DEF Operation
    <3> HIDE DEF new
    <3>3. /\ Len(pending'[q]) = Len(pending[q]) + 1 /\ Len(pending[q]) \in Nat
          /\ \A i \in 1 .. Len(pending[q]) : pending'[q][i] = pending[q][i]
          /\ pending'[q][Len(pending[q]) + 1] = new
          /\ \A p \in Queues \ {q} : pending'[p] = pending[p]
      <4>1. pending[q] \in Seq(Operation) /\ pending'[q] = Append(pending[q], new)
        BY <1>b, <3>1
      <4>2. \A p \in Queues \ {q} : pending'[p] = pending[p]
        BY <1>b, <3>1
      <4> HIDE DEF Operation
      <4> QED
        BY <3>2, <4>1, <4>2
    <3>4. \A i \in SignalsOn(q)' : i \in SignalsOn(q) \/ (i = Len(pending[q]) + 1 /\ op = "signal")
      BY <3>2, <3>3 DEF SignalsOn
    <3>5. \A p \in Queues \ {q} : SignalsOn(p)' = SignalsOn(p)
      BY <3>3 DEF SignalsOn
    <3>6. \A i \in SignalsOn(q) : i \in 1 .. Len(pending[q])
      BY DEF SignalsOn
    <3>7. ASSUME NEW i \in SignalsOn(q)'
          PROVE  /\ pending'[q][i].value > value'
                 /\ \A j \in SignalsOn(q)' : i < j => pending'[q][i].value < pending'[q][j].value
                 /\ \A p \in Queues \ {q} : SignalsOn(p)' = {}
      <4>1. CASE i \in SignalsOn(q)
        BY <1>2, <1>a, <3>1, <3>2, <3>3, <3>4, <3>5, <3>6, <4>1 DEF SignalsAscend
      <4>2. CASE i = Len(pending[q]) + 1 /\ op = "signal"
        BY <1>2, <1>a, <3>1, <3>2, <3>3, <3>4, <3>5, <3>6, <4>2 DEF SignalsAscend
      <4> QED
        BY <3>4, <4>1, <4>2
    <3>8. ASSUME NEW r \in Queues \ {q}, NEW i \in SignalsOn(r)'
          PROVE  /\ pending'[r][i].value > value'
                 /\ \A j \in SignalsOn(r)' : i < j => pending'[r][i].value < pending'[r][j].value
                 /\ \A p \in Queues \ {r} : SignalsOn(p)' = {}
      <4>1. i \in SignalsOn(r) /\ SignalsOn(q) = {} /\ op # "signal"
        BY <1>2, <1>a, <3>5, <3>8 DEF SignalsAscend
      <4>2. SignalsOn(q)' = {}
        BY <3>4, <4>1
      <4> QED
        BY <1>a, <3>1, <3>3, <3>5, <4>1, <4>2 DEF SignalsAscend
    <3> QED
      BY <3>7, <3>8 DEF SignalsAscend
  <2> QED
    BY <2>1, <2>2, <2>3 DEF WaitInv
<1>3. ASSUME NEW q \in Queues, ExecuteSignal(q) \/ ExecuteWait(q)
      PROVE  WaitInv'
  <2>1. /\ pending[q] # <<>> /\ pending' = [pending EXCEPT ![q] = Tail(@)]
        /\ UNCHANGED <<pc, val>>
    BY <1>3 DEF ExecuteSignal, ExecuteWait
  <2>2. /\ pending' \in [Queues -> Seq(Operation)]
        /\ NextOp(q) \in Operation
    BY <1>a, <2>1, QueueTypes
  <2>3. /\ Len(pending[q]) \in Nat /\ Len(pending[q]) >= 1
        /\ Len(pending'[q]) = Len(pending[q]) - 1
        /\ \A i \in 1 .. Len(pending[q]) - 1 : pending'[q][i] = pending[q][i + 1]
        /\ NextOp(q) = pending[q][1]
        /\ \A p \in Queues \ {q} : pending'[p] = pending[p]
    <3>1. pending[q] \in Seq(Operation) /\ pending'[q] = Tail(pending[q])
      BY <1>b, <2>1
    <3>2. \A p \in Queues \ {q} : pending'[p] = pending[p]
      BY <1>b, <2>1
    <3> HIDE DEF Operation
    <3> DEFINE ops == pending[q]
    <3>3. ops \in Seq(Operation) /\ ops # <<>>
      BY <2>1, <3>1
    <3> HIDE DEF ops
    <3>4. /\ Len(ops) \in Nat /\ Len(ops) >= 1 /\ Len(Tail(ops)) = Len(ops) - 1
          /\ \A i \in 1 .. Len(ops) - 1 : Tail(ops)[i] = ops[i + 1]
          /\ Head(ops) = ops[1]
      BY <3>3
    <3> QED
      BY <3>1, <3>2, <3>4 DEF NextOp, ops
  <2>4. \A i \in SignalsOn(q)' : i \in Nat /\ i + 1 \in SignalsOn(q) /\ pending'[q][i] = pending[q][i + 1]
    BY <2>3 DEF SignalsOn
  <2>5. \A p \in Queues \ {q} : SignalsOn(p)' = SignalsOn(p)
    BY <2>3 DEF SignalsOn
  <2>6. SignalsOn(q) = {} => SignalsOn(q)' = {}
    BY <2>4
  <2>7. NextOp(q).value \in Values /\ NextOp(q).value \in Nat
    BY <2>2 DEF Operation, Values
  <2>8. CASE ExecuteWait(q)
    <3>1. UNCHANGED <<value, event, registered>>
      BY <2>8 DEF ExecuteWait
    <3>2. TypeOK' /\ EventRight'
      BY <1>a, <2>1, <2>2, <3>1 DEF TypeOK, EventRight
    <3>3. ASSUME NEW i \in SignalsOn(q)'
          PROVE  /\ pending'[q][i].value > value'
                 /\ \A j \in SignalsOn(q)' : i < j => pending'[q][i].value < pending'[q][j].value
                 /\ \A p \in Queues \ {q} : SignalsOn(p)' = {}
      BY <1>a, <2>4, <2>5, <3>1 DEF SignalsAscend
    <3>4. ASSUME NEW r \in Queues \ {q}, NEW i \in SignalsOn(r)'
          PROVE  /\ pending'[r][i].value > value'
                 /\ \A j \in SignalsOn(r)' : i < j => pending'[r][i].value < pending'[r][j].value
                 /\ \A p \in Queues \ {r} : SignalsOn(p)' = {}
      BY <1>a, <2>3, <2>5, <2>6, <3>1 DEF SignalsAscend
    <3>5. SignalsAscend'
      BY <3>3, <3>4 DEF SignalsAscend
    <3> QED
      BY <3>2, <3>5 DEF WaitInv
  <2>9. CASE ExecuteSignal(q)
    <3>1. NextOp(q).op = "signal" /\ Advance(NextOp(q).value)
      BY <2>9 DEF ExecuteSignal
    <3>2. 1 \in SignalsOn(q)
      BY <2>3, <3>1 DEF SignalsOn
    <3>3. NextOp(q).value > value
      BY <1>a, <2>3, <3>2 DEF SignalsAscend
    <3>4. /\ value' \in 0 .. MaxValue /\ event' \in {"signaled", "nonsignaled"}
          /\ registered' \subseteq Values /\ EventRight'
      BY <2>1, <2>7, <3>1, <3>3, AdvanceInv
    <3>5. TypeOK'
      BY <1>a, <2>1, <2>2, <3>4 DEF TypeOK
    <3>6. value' = pending[q][1].value
      BY <2>3, <3>1 DEF Advance
    <3>7. ASSUME NEW i \in SignalsOn(q)'
          PROVE  /\ pending'[q][i].value > value'
                 /\ \A j \in SignalsOn(q)' : i < j => pending'[q][i].value < pending'[q][j].value
                 /\ \A p \in Queues \ {q} : SignalsOn(p)' = {}
      <4>1. i \in 1 .. Len(pending'[q])
        BY DEF SignalsOn
      <4>2. 1 < i + 1 /\ i + 1 \in SignalsOn(q)
        BY <2>4, <4>1
      <4>3. pending[q][i + 1].value > pending[q][1].value
        BY <1>a, <2>3, <2>7, <3>2, <4>2 DEF SignalsAscend
      <4> QED
        BY <1>a, <2>4, <2>5, <3>6, <4>2, <4>3 DEF SignalsAscend
    <3>8. \A r \in Queues \ {q} : SignalsOn(r)' = {}
      BY <1>a, <2>5, <3>2 DEF SignalsAscend
    <3>9. SignalsAscend'
      BY <3>7, <3>8 DEF SignalsAscend
    <3> QED
      BY <3>4, <3>5, <3>9 DEF WaitInv
  <2> QED
    BY <1>3, <2>8, <2>9
<1>4. ASSUME UNCHANGED <<value, pending>>
      PROVE  SignalsAscend'
  BY <1>a, <1>4 DEF SignalsAscend, SignalsOn
<1>5. ASSUME NEW t \in Threads, NEW v \in Values, Call(t, v)
      PROVE  WaitInv'
  <2>1. TypeOK'
    <3>1. v \in 0 .. MaxValue
      BY <1>b DEF Values
    <3>2. /\ pc' = [pc EXCEPT ![t] = "look"] /\ val' = [val EXCEPT ![t] = v]
          /\ UNCHANGED <<value, pending, event, registered>>
      BY <1>5 DEF Call, Goto
    <3> QED
      BY <1>a, <1>b, <3>1, <3>2 DEF TypeOK
  <2>2. EventRight'
    BY <1>5, <1>a, <1>b DEF Call, Goto, EventRight, OneWaiter
  <2> QED
    BY <1>4, <1>5, <2>1, <2>2 DEF Call, WaitInv
<1>6. ASSUME NEW t \in Threads, Look(t)
      PROVE  WaitInv'
  <2>1. TypeOK'
    BY <1>6, <1>a, <1>b DEF Look, Goto, TypeOK
  <2>2. EventRight'
    BY <1>6, <1>a, <1>b DEF Look, Goto, EventRight, OneWaiter
  <2> QED
    BY <1>4, <1>6, <2>1, <2>2 DEF Look, WaitInv
<1>7. ASSUME NEW t \in Threads, Register(t)
      PROVE  WaitInv'
  <2>a. /\ pc[t] = "register" /\ pc' = [pc EXCEPT ![t] = "wait"]
        /\ event' = (IF SetsNow(t) THEN "signaled" ELSE event)
        /\ registered' = (IF SetsNow(t) THEN registered ELSE registered \union {val[t]})
        /\ UNCHANGED <<value, pending, val>>
    BY <1>7 DEF Register, Goto
  <2>b. val[t] \in Values
    BY <1>a, <2>a DEF TypeOK
  <2>c. val[t] \in Nat
    BY <1>b
  <2>1. TypeOK'
    <3>1. event' \in {"signaled", "nonsignaled"} /\ registered' \subseteq Values
      BY <1>a, <1>b, <2>a, <2>b DEF TypeOK
    <3>2. \A u \in Threads : pc'[u] # "idle" => val[u] \in Values
      BY <1>a, <1>b, <2>a, <2>b DEF TypeOK
    <3> QED
      BY <1>a, <1>b, <2>a, <3>1, <3>2 DEF TypeOK
  <2>2. EventRight'
    <3>1. event = "nonsignaled" /\ registered = {}
      BY <1>a, <2>a DEF EventRight, OneWaiter
    <3>2. CASE SetsNow(t)
      BY <1>b, <2>a, <3>1, <3>2 DEF EventRight, OneWaiter, SetsNow
    <3>3. CASE ~SetsNow(t)
      <4>1. ~(value >= val[t]) /\ event' = "nonsignaled" /\ registered' = {val[t]}
        BY <1>b, <2>a, <2>c, <3>1, <3>3 DEF SetsNow
      <4> QED
        BY <1>b, <2>a, <4>1 DEF EventRight, OneWaiter
    <3> QED
      BY <3>2, <3>3
  <2> QED
    BY <1>4, <2>a, <2>1, <2>2 DEF WaitInv
<1>8. ASSUME NEW t \in Threads, Wake(t)
      PROVE  WaitInv'
  <2>1. TypeOK'
    BY <1>8, <1>a, <1>b DEF Wake, Goto, AfterWait, TypeOK
  <2>2. EventRight'
    BY <1>8, <1>a, <1>b DEF Wake, Goto, AfterWait, EventRight, OneWaiter
  <2> QED
    BY <1>4, <1>8, <2>1, <2>2 DEF Wake, WaitInv
<1>9. CASE Recreate
  <2>1. TypeOK'
    BY <1>9, <1>a, <1>b DEF Recreate, TypeOK
  <2>2. EventRight'
    BY <1>9 DEF Recreate, EventRight
  <2>3. SignalsAscend'
    BY <1>9 DEF Recreate, SignalsAscend, SignalsOn
  <2> QED
    BY <2>1, <2>2, <2>3 DEF WaitInv
<1>10. CASE UNCHANGED vars
  BY <1>a, <1>10 DEF vars, WaitInv, TypeOK, SignalsAscend, SignalsOn, EventRight
<1>11. ASSUME NEW q \in Queues, NEW v \in Values, SignalGPU(q, v) \/ WaitGPU(q, v)
       PROVE  WaitInv'
  BY <1>2, <1>11 DEF SignalGPU, WaitGPU
<1> QED
  BY <1>1, <1>3, <1>5, <1>6, <1>7, <1>8, <1>9, <1>10, <1>11 DEF Next

-----------------------------------------------------------------------------
(* Refinement.                                                             *)

LEMMA InitImplements == Init => TF!Init
  BY DEF Init, TF!Init

LEMMA StepImplements == WaitInv /\ [Next]_vars => [TF!Next]_(TF!vars)
<1> SUFFICES ASSUME WaitInv, [Next]_vars
             PROVE  TF!Next \/ UNCHANGED TF!vars
  OBVIOUS
<1> DEFINE wanted == [t \in Threads |-> IF pc[t] = "idle" THEN NotWaiting ELSE val[t]]
<1>a. /\ value \in Nat
      /\ pc \in [Threads -> {"idle", "look", "register", "wait"}]
      /\ val \in [Threads -> 0 .. MaxValue]
      /\ \A t \in Threads : val[t] # NotWaiting
      /\ EventRight
  <2>1. /\ value \in 0 .. MaxValue /\ val \in [Threads -> 0 .. MaxValue]
        /\ pc \in [Threads -> {"idle", "look", "register", "wait"}]
    BY DEF WaitInv, TypeOK
  <2> QED
    BY <2>1, BoundsAssumption DEF WaitInv
<1>1. ASSUME NEW v \in Values, SignalCPU(v)
      PROVE  TF!Next
  <2>1. TF!SignalCPU(v)
    BY <1>1 DEF SignalCPU, Advance, SignalsOn, TF!SignalCPU, TF!SignalsOn
  <2> QED
    BY <2>1 DEF TF!Next, TF!Values, Values
<1>2. ASSUME NEW q \in Queues, NEW v \in Values, SignalGPU(q, v) \/ WaitGPU(q, v)
      PROVE  TF!Next
  <2>1. ASSUME NEW op, Enqueue(q, op, v)
        PROVE  TF!Enqueue(q, op, v)
    BY <2>1 DEF Enqueue, TF!Enqueue
  <2>2. SignalGPU(q, v) => TF!SignalGPU(q, v)
    BY <2>1 DEF SignalGPU, SignalsOn, TF!SignalGPU, TF!SignalsOn
  <2>3. WaitGPU(q, v) => TF!WaitGPU(q, v)
    BY <2>1 DEF WaitGPU, IsIssued, SignalsOn, TF!WaitGPU, TF!IsIssued, TF!SignalsOn
  <2> QED
    BY <1>2, <2>2, <2>3 DEF TF!Next, TF!Values, Values
<1>3. ASSUME NEW q \in Queues, ExecuteSignal(q) \/ ExecuteWait(q)
      PROVE  TF!Next
  <2>1. ExecuteSignal(q) => TF!ExecuteSignal(q)
    BY DEF ExecuteSignal, Advance, NextOp, TF!ExecuteSignal, TF!NextOp
  <2>2. ExecuteWait(q) => TF!ExecuteWait(q)
    BY DEF ExecuteWait, NextOp, TF!ExecuteWait, TF!NextOp
  <2> QED
    BY <1>3, <2>1, <2>2 DEF TF!Next
<1>4. ASSUME NEW t \in Threads, NEW v \in Values, Call(t, v)
      PROVE  TF!Next
  <2>1. wanted[t] = NotWaiting /\ wanted' = [wanted EXCEPT ![t] = v]
    BY <1>4, <1>a DEF Call, Goto
  <2>2. TF!WaitCPU(t, v)
    BY <1>4, <2>1 DEF Call, TF!WaitCPU
  <2> QED
    BY <2>2 DEF TF!Next, TF!Values, Values
<1>5. ASSUME NEW t \in Threads, pc[t] # "idle", pc' = [pc EXCEPT ![t] = "idle"], value >= val[t],
             UNCHANGED <<value, pending, val>>
      PROVE  TF!Next
  <2>1. wanted[t] = val[t] /\ wanted[t] # NotWaiting /\ wanted' = [wanted EXCEPT ![t] = NotWaiting]
    BY <1>5, <1>a
  <2>2. TF!ReturnCPU(t)
    BY <1>5, <2>1 DEF TF!ReturnCPU
  <2> QED
    BY <2>2 DEF TF!Next
<1>6. ASSUME NEW t \in Threads, NEW to \in {"look", "register", "wait"}, pc[t] # "idle",
             pc' = [pc EXCEPT ![t] = to], UNCHANGED <<value, pending, val>>
      PROVE  UNCHANGED TF!vars
  <2>1. wanted' = wanted
    BY <1>6, <1>a
  <2> QED
    BY <1>6, <2>1 DEF TF!vars
<1>7. ASSUME NEW t \in Threads, Look(t)
      PROVE  TF!Next \/ UNCHANGED TF!vars
  <2>1. CASE HasToWait(t)
    BY <1>6, <1>7, <2>1 DEF Look, Goto
  <2>2. CASE ~HasToWait(t)
    <3>1. value >= val[t]
      BY <1>a, <2>2 DEF HasToWait
    <3> QED
      BY <1>5, <1>7, <2>2, <3>1 DEF Look, Goto
  <2> QED
    BY <2>1, <2>2
<1>8. ASSUME NEW t \in Threads, Register(t)
      PROVE  UNCHANGED TF!vars
  BY <1>6, <1>8 DEF Register, Goto
<1>9. ASSUME NEW t \in Threads, Wake(t)
      PROVE  TF!Next
  <2>1. value >= val[t]
    BY <1>9, <1>a DEF Wake, Goto, EventRight
  <2> QED
    BY <1>5, <1>9, <2>1 DEF Wake, Goto
<1>10. CASE Recreate
  <2>1. TF!Recreate
    BY <1>10 DEF Recreate, TF!Recreate
  <2> QED
    BY <2>1 DEF TF!Next
<1>11. CASE UNCHANGED vars
  BY <1>11 DEF vars, TF!vars
<1> QED
  BY <1>1, <1>2, <1>3, <1>4, <1>7, <1>8, <1>9, <1>10, <1>11 DEF Next

-----------------------------------------------------------------------------
\* As long as one thread waits at a time, the event of a fence tells exactly whether the fence has
\* reached the value that thread asked for, and is unset with no registration left over whenever
\* nobody waits (d3d12/pools/fence_pool.cc:80).
THEOREM WaitInvCorrect == Spec /\ []OneWaiter => []WaitInv
<1>1. OneWaiter /\ WaitInv /\ [Next]_vars => WaitInv'
  BY WaitInvInductive
<1> QED
  BY <1>1, InitInv, PTL DEF Spec

\* As long as one thread waits at a time, waitCPU is the wait the fence interface promises, and so are
\* all its steps: "block on CPU until a fence reaches a given value" (Backend.hh:184).
THEOREM WaitImplements == Spec /\ []OneWaiter => Implements
<1> QED
  BY WaitInvCorrect, InitImplements, StepImplements, PTL DEF Spec, Implements, TF!Spec
=============================================================================
