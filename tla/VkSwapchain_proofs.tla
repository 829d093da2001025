-------------------------- MODULE VkSwapchain_proofs --------------------------
(* That the fences and semaphores of a swapchain are free when they are    *)
(* used again, and the states of its backbuffers remembered, for any       *)
(* number of backbuffers.                                                  *)
EXTENDS VkSwapchain, FiniteSetTheorems, SequenceTheorems, TLAPS

-----------------------------------------------------------------------------
(* Types                                                                   *)

LEMMA Indices ==
  /\ 0 \in Backbuffers /\ N \in Nat
  /\ None \notin Backbuffers
  /\ \A b \in Backbuffers : b \in Int /\ (b + 1) % N \in Backbuffers
  BY BackbuffersAssumption DEF Backbuffers, None

\* What ShowNext does to the images presented: those before image k are gone, k is on the screen.
LEMMA ShownPresents ==
  ASSUME NEW ps \in Seq(Presented), NEW k \in DOMAIN ps
  PROVE  LET shown == <<[ps[k] EXCEPT !.done = TRUE]>> \o SubSeq(ps, k + 1, Len(ps))
         IN  /\ shown \in Seq(Presented)
             /\ Len(shown) = Len(ps) - k + 1
             /\ shown[1] = [ps[k] EXCEPT !.done = TRUE]
             /\ \A j \in 2 .. Len(shown) : shown[j] = ps[j + k - 1]
<1> DEFINE first == [ps[k] EXCEPT !.done = TRUE]
           rest  == SubSeq(ps, k + 1, Len(ps))
<1>1. k \in 1 .. Len(ps) /\ Len(ps) \in Nat /\ ps[k] \in Presented
  BY LenProperties, ElementOfSeq
<1>2. first \in Presented
  BY <1>1 DEF Presented
<1>3. /\ <<first>> \in Seq(Presented) /\ Len(<<first>>) = 1 /\ <<first>>[1] = first
  <2> HIDE DEF first
  <2> QED
    BY <1>2
<1>4. \A j \in k + 1 .. Len(ps) : ps[j] \in Presented
  BY <1>1, ElementOfSeq
<1>5. /\ rest \in Seq(Presented)
      /\ Len(rest) = IF k + 1 <= Len(ps) THEN Len(ps) - (k + 1) + 1 ELSE 0
      /\ \A j \in 1 .. Len(ps) - (k + 1) + 1 : rest[j] = ps[k + 1 + j - 1]
  <2>1. k + 1 \in Int /\ Len(ps) \in Int
    BY <1>1
  <2> QED
    BY <1>4, <2>1, SubSeqProperties
<1>6. Len(rest) = Len(ps) - k
  BY <1>1, <1>5
<1> HIDE DEF first, rest
<1>7. /\ <<first>> \o rest \in Seq(Presented)
      /\ Len(<<first>> \o rest) = Len(<<first>>) + Len(rest)
      /\ \A i \in 1 .. Len(<<first>>) + Len(rest) :
           (<<first>> \o rest)[i] = IF i <= Len(<<first>>) THEN <<first>>[i] ELSE rest[i - Len(<<first>>)]
  BY <1>3, <1>5, ConcatProperties
<1>8. Len(<<first>> \o rest) = Len(ps) - k + 1
  BY <1>1, <1>3, <1>6, <1>7
<1>9. (<<first>> \o rest)[1] = first
  BY <1>1, <1>3, <1>6, <1>7
<1>10. ASSUME NEW j \in 2 .. Len(<<first>> \o rest)
       PROVE  (<<first>> \o rest)[j] = ps[j + k - 1]
  <2>1. j \in Int /\ j >= 2 /\ j <= Len(ps) - k + 1
    BY <1>1, <1>8
  <2>2. (<<first>> \o rest)[j] = rest[j - 1]
    BY <1>1, <1>3, <1>6, <1>7, <2>1
  <2>3. j - 1 \in 1 .. Len(ps) - (k + 1) + 1
    BY <1>1, <2>1
  <2>4. rest[j - 1] = ps[k + 1 + (j - 1) - 1]
    BY <1>5, <2>3
  <2>5. k + 1 + (j - 1) - 1 = j + k - 1
    BY <1>1, <2>1
  <2> QED
    BY <2>2, <2>4, <2>5
<1> QED
  BY <1>7, <1>8, <1>9, <1>10 DEF first, rest

\* the node of the pool, the application's side and the histories
Registers ==
  /\ backbuf_size \in Sizes /\ known \in Sizes \union {None}
  /\ active_fence_index \in Backbuffers /\ active_image_index \in Backbuffers
  /\ master_state \in {"undefined", "present"}
  /\ app \in {"top", "resizing", "cleared", "acquired", "rendered", "waiting"}
  /\ fault \in {"none", "w > 0 && h > 0", "acquire with a signalled semaphore"}
  /\ seen \subseteq Backbuffers

Flags == has_resized \in BOOLEAN /\ suboptimal \in BOOLEAN

PerBackbuffer ==
  /\ state \in [Backbuffers -> {"undefined", "present"}]
  /\ layout \in [Backbuffers -> {"undefined", "present"}]
  /\ fence_command_buf_executed \in [Backbuffers -> {"signalled", "unsignalled"}]
  /\ sem_image_available \in [Backbuffers -> {"signalled", "unsignalled", "pending"}]
  /\ sem_render_finished \in [Backbuffers -> {"signalled", "unsignalled"}]

Queues == queue \in Seq(Backbuffers) /\ presents \in Seq(Presented)

LEMMA TypeParts == TypeOK <=> Registers /\ Flags /\ PerBackbuffer /\ Queues
  BY DEF TypeOK, Registers, Flags, PerBackbuffer, Queues

LEMMA RegistersKept == TypeOK /\ [Next]_vars => Registers'
<1> USE Indices
<1> SUFFICES ASSUME Registers, Flags, PerBackbuffer, Queues, [Next]_vars PROVE Registers'
  BY TypeParts
<1>1. CASE OnResize
  BY <1>1 DEF OnResize, node, sync, gpu, Registers, PerBackbuffer
<1>2. CASE Resized
  BY <1>2 DEF Resized, SetupSwapchain, SetupFlag, SetupIndices, sync, Registers, PerBackbuffer
<1>3. CASE Recreate
  BY <1>3 DEF Recreate, SetupSwapchain, SetupFlag, SetupIndices, FenceCreated, Registers, PerBackbuffer
<1>4. CASE ClearResizeFlag
  BY <1>4 DEF ClearResizeFlag, sync, gpu, Registers, PerBackbuffer
<1>5. ASSUME NEW im \in Backbuffers, NEW k \in DOMAIN presents \union {None}, AcquireBackbuffer(im, k)
     PROVE  Registers'
  BY <1>5 DEF AcquireBackbuffer, StoredUnder, Registers, PerBackbuffer
<1>6. CASE AcquireOutOfDate
  BY <1>6 DEF AcquireOutOfDate, InternalResize, node, sync, gpu, Registers, PerBackbuffer
<1>7. CASE AcquireSuboptimal
  BY <1>7 DEF AcquireSuboptimal, InternalResize, node, gpu, Registers, PerBackbuffer
<1>8. CASE AcquireSignalled
  BY <1>8 DEF AcquireSignalled, node, sync, gpu, Registers, PerBackbuffer
<1>9. CASE Render
  BY <1>9 DEF Render, node, sync, gpu, Registers, PerBackbuffer
<1>10. CASE Present
  BY <1>10 DEF Present, Submitted, NextFence, gpu, Registers, PerBackbuffer
<1>11. CASE PresentOutdated
  BY <1>11 DEF PresentOutdated, Submitted, InternalResize, node, Registers, PerBackbuffer
<1>12. CASE WaitForFence
  BY <1>12 DEF WaitForFence, node, sync, gpu, Registers, PerBackbuffer
<1>13. CASE ExecuteSubmit
  BY <1>13 DEF ExecuteSubmit, node, Registers, PerBackbuffer
<1>14. CASE ShowNext
  <2>1. UNCHANGED <<node, master_state, app, known, fault, seen>>
    BY <1>14 DEF ShowNext
  <2> QED
    BY <2>1 DEF node, Registers
<1>15. CASE UNCHANGED vars
  BY <1>15 DEF vars, node, sync, gpu, Registers, PerBackbuffer
<1> QED
  BY <1>1, <1>2, <1>3, <1>4, <1>5, <1>6, <1>7, <1>8, <1>9, <1>10, <1>11, <1>12, <1>13, <1>14, <1>15
     DEF Next, Call

LEMMA FlagsKept == TypeOK /\ [Next]_vars => Flags'
<1> USE Indices
<1> SUFFICES ASSUME Registers, Flags, PerBackbuffer, Queues, [Next]_vars PROVE Flags'
  BY TypeParts
<1>1. CASE OnResize
  BY <1>1 DEF OnResize, node, sync, gpu, Flags
<1>2. CASE Resized
  BY <1>2 DEF Resized, SetupSwapchain, SetupFlag, SetupIndices, sync, Flags
<1>3. CASE Recreate
  BY <1>3 DEF Recreate, SetupSwapchain, SetupFlag, SetupIndices, FenceCreated, Flags
<1>4. CASE ClearResizeFlag
  BY <1>4 DEF ClearResizeFlag, sync, gpu, Flags
<1>5. ASSUME NEW im \in Backbuffers, NEW k \in DOMAIN presents \union {None}, AcquireBackbuffer(im, k)
     PROVE  Flags'
  BY <1>5 DEF AcquireBackbuffer, StoredUnder, Flags
<1>6. CASE AcquireOutOfDate
  BY <1>6 DEF AcquireOutOfDate, InternalResize, node, sync, gpu, Flags
<1>7. CASE AcquireSuboptimal
  BY <1>7 DEF AcquireSuboptimal, InternalResize, node, gpu, Flags
<1>8. CASE AcquireSignalled
  BY <1>8 DEF AcquireSignalled, node, sync, gpu, Flags
<1>9. CASE Render
  BY <1>9 DEF Render, node, sync, gpu, Flags
<1>10. CASE Present
  BY <1>10 DEF Present, Submitted, NextFence, gpu, Flags
<1>11. CASE PresentOutdated
  BY <1>11 DEF PresentOutdated, Submitted, InternalResize, node, Flags
<1>12. CASE WaitForFence
  BY <1>12 DEF WaitForFence, node, sync, gpu, Flags
<1>13. CASE ExecuteSubmit
  BY <1>13 DEF ExecuteSubmit, node, Flags
<1>14. CASE ShowNext
  BY <1>14 DEF ShowNext, node, Flags
<1>15. CASE UNCHANGED vars
  BY <1>15 DEF vars, node, sync, gpu, Flags
<1> QED
  BY <1>1, <1>2, <1>3, <1>4, <1>5, <1>6, <1>7, <1>8, <1>9, <1>10, <1>11, <1>12, <1>13, <1>14, <1>15
     DEF Next, Call

LEMMA PerBackbufferKept == TypeOK /\ [Next]_vars => PerBackbuffer'
<1> USE Indices
<1> SUFFICES ASSUME Registers, Flags, PerBackbuffer, Queues, [Next]_vars PROVE PerBackbuffer'
  BY TypeParts
<1>1. CASE OnResize
  BY <1>1 DEF OnResize, node, sync, gpu, Registers, PerBackbuffer
<1>2. CASE Resized
  BY <1>2 DEF Resized, SetupSwapchain, SetupFlag, SetupIndices, sync, Registers, PerBackbuffer
<1>3. CASE Recreate
  BY <1>3 DEF Recreate, SetupSwapchain, SetupFlag, SetupIndices, FenceCreated, Registers, PerBackbuffer
<1>4. CASE ClearResizeFlag
  BY <1>4 DEF ClearResizeFlag, sync, gpu, Registers, PerBackbuffer
<1>5. ASSUME NEW im \in Backbuffers, NEW k \in DOMAIN presents \union {None}, AcquireBackbuffer(im, k)
     PROVE  PerBackbuffer'
  BY <1>5 DEF AcquireBackbuffer, StoredUnder, Registers, PerBackbuffer
<1>6. CASE AcquireOutOfDate
  BY <1>6 DEF AcquireOutOfDate, InternalResize, node, sync, gpu, Registers, PerBackbuffer
<1>7. CASE AcquireSuboptimal
  BY <1>7 DEF AcquireSuboptimal, InternalResize, node, gpu, Registers, PerBackbuffer
<1>8. CASE AcquireSignalled
  BY <1>8 DEF AcquireSignalled, node, sync, gpu, Registers, PerBackbuffer
<1>9. CASE Render
  BY <1>9 DEF Render, node, sync, gpu, Registers, PerBackbuffer
<1>10. CASE Present
  BY <1>10 DEF Present, Submitted, NextFence, gpu, Registers, PerBackbuffer
<1>11. CASE PresentOutdated
  BY <1>11 DEF PresentOutdated, Submitted, InternalResize, node, Registers, PerBackbuffer
<1>12. CASE WaitForFence
  BY <1>12 DEF WaitForFence, node, sync, gpu, Registers, PerBackbuffer
<1>13. CASE ExecuteSubmit
  BY <1>13 DEF ExecuteSubmit, node, Registers, PerBackbuffer
<1>14. CASE ShowNext
  <2>1. UNCHANGED <<state, layout, fence_command_buf_executed>>
    BY <1>14 DEF ShowNext, node
  <2>2. sem_image_available' \in [Backbuffers -> {"signalled", "unsignalled", "pending"}]
    <3>1. PICK k \in DOMAIN presents :
            sem_image_available' =
              [b \in Backbuffers |-> IF \E j \in 1 .. k - 1 : presents[j].wanted = b
                                     THEN "signalled" ELSE sem_image_available[b]]
      BY <1>14 DEF ShowNext
    <3> QED
      BY <3>1 DEF PerBackbuffer
  <2>3. sem_render_finished' \in [Backbuffers -> {"signalled", "unsignalled"}]
    <3>1. PICK k \in DOMAIN presents :
            sem_render_finished' = [sem_render_finished EXCEPT ![presents[k].index] = "unsignalled"]
      BY <1>14 DEF ShowNext
    <3> QED
      BY <3>1 DEF PerBackbuffer
  <2> QED
    BY <2>1, <2>2, <2>3 DEF PerBackbuffer
<1>15. CASE UNCHANGED vars
  BY <1>15 DEF vars, node, sync, gpu, Registers, PerBackbuffer
<1> QED
  BY <1>1, <1>2, <1>3, <1>4, <1>5, <1>6, <1>7, <1>8, <1>9, <1>10, <1>11, <1>12, <1>13, <1>14, <1>15
     DEF Next, Call

\* What AcquireBackbuffer does to them: the one that shows the image is asked for it, or none is.
Wanted(ps, k, f) == [j \in DOMAIN ps |-> IF j = k THEN [ps[j] EXCEPT !.wanted = f] ELSE ps[j]]

LEMMA WantedPresents ==
  ASSUME NEW ps \in Seq(Presented), NEW k, NEW f \in Backbuffers
  PROVE  /\ Wanted(ps, k, f) \in Seq(Presented)
         /\ Len(Wanted(ps, k, f)) = Len(ps) /\ DOMAIN Wanted(ps, k, f) = DOMAIN ps
         /\ \A j \in DOMAIN ps :
              LET x == Wanted(ps, k, f)[j]
              IN  /\ x.image = ps[j].image /\ x.index = ps[j].index /\ x.done = ps[j].done
                  /\ x.wanted = IF j = k THEN f ELSE ps[j].wanted
<1> DEFINE wanted == [j \in DOMAIN ps |-> IF j = k THEN [ps[j] EXCEPT !.wanted = f] ELSE ps[j]]
<1>1. Len(ps) \in Nat /\ DOMAIN ps = 1 .. Len(ps) /\ \A j \in DOMAIN ps : ps[j] \in Presented
  BY LenProperties, ElementOfSeq
<1>2. ASSUME NEW r \in Presented
      PROVE  LET x == [r EXCEPT !.wanted = f]
             IN  /\ x \in Presented /\ x.wanted = f
                 /\ x.image = r.image /\ x.index = r.index /\ x.done = r.done
  BY DEF Presented
<1>3. ASSUME NEW j \in DOMAIN ps
      PROVE  /\ wanted[j] \in Presented /\ wanted[j].image = ps[j].image
             /\ wanted[j].index = ps[j].index /\ wanted[j].done = ps[j].done
             /\ wanted[j].wanted = IF j = k THEN f ELSE ps[j].wanted
  <2>1. CASE j = k
    BY <1>1, <1>2, <2>1
  <2>2. CASE j # k
    BY <1>1, <2>2
  <2> QED
    BY <2>1, <2>2
<1>4. wanted \in [1 .. Len(ps) -> Presented]
  BY <1>1, <1>3
<1>5. wanted \in Seq(Presented) /\ Len(wanted) = Len(ps)
  <2> HIDE DEF wanted
  <2>1. wanted \in Seq(Presented)
    BY <1>1, <1>4, SeqDef
  <2>2. Len(wanted) \in Nat /\ DOMAIN wanted = 1 .. Len(wanted) /\ DOMAIN wanted = 1 .. Len(ps)
    BY <1>4, <2>1, LenProperties
  <2>3. Len(ps) \in Nat /\ 1 .. Len(wanted) = 1 .. Len(ps)
    BY <1>1, <2>2
  <2>4. \A m, n \in Nat : 1 .. m = 1 .. n => m = n
    <3> SUFFICES ASSUME NEW m \in Nat, NEW n \in Nat, 1 .. m = 1 .. n PROVE m = n
      OBVIOUS
    <3>1. m > 0 => m \in 1 .. n
      OBVIOUS
    <3>2. n > 0 => n \in 1 .. m
      OBVIOUS
    <3> QED
      BY <3>1, <3>2
  <2> QED
    BY <2>1, <2>2, <2>3, <2>4
<1>6. wanted = Wanted(ps, k, f)
  BY DEF Wanted
<1>7. DOMAIN wanted = DOMAIN ps
  OBVIOUS
<1> HIDE DEF wanted
<1> QED
  BY <1>3, <1>5, <1>6, <1>7

LEMMA SubmittedQueues ==
  ASSUME Registers, Queues, Submitted
  PROVE  LET e == [image |-> active_image_index, index |-> active_fence_index,
                   done |-> FALSE, wanted |-> None]
         IN  /\ Queues'
             /\ Len(queue') = Len(queue) + 1 /\ queue'[Len(queue) + 1] = active_fence_index
             /\ \A j \in 1 .. Len(queue) : queue'[j] = queue[j]
             /\ Len(presents') = Len(presents) + 1 /\ presents'[Len(presents) + 1] = e
             /\ \A j \in 1 .. Len(presents) : presents'[j] = presents[j]
<1> DEFINE e == [image |-> active_image_index, index |-> active_fence_index,
                 done |-> FALSE, wanted |-> None]
<1>1. e \in Presented
  BY DEF Registers, Presented
<1>2. queue' = Append(queue, active_fence_index) /\ presents' = Append(presents, e)
  BY DEF Submitted
<1> HIDE DEF e
<1>3. active_fence_index \in Backbuffers
  BY DEF Registers
<1>4. /\ queue' \in Seq(Backbuffers)
      /\ Len(queue') = Len(queue) + 1 /\ queue'[Len(queue) + 1] = active_fence_index
      /\ \A j \in 1 .. Len(queue) : queue'[j] = queue[j]
  BY <1>2, <1>3, AppendProperties DEF Queues
<1>5. /\ presents' \in Seq(Presented)
      /\ Len(presents') = Len(presents) + 1 /\ presents'[Len(presents) + 1] = e
      /\ \A j \in 1 .. Len(presents) : presents'[j] = presents[j]
  BY <1>1, <1>2, AppendProperties DEF Queues
<1> QED
  BY <1>4, <1>5 DEF Queues, e

LEMMA QueuesKept == TypeOK /\ [Next]_vars => Queues'
<1> SUFFICES ASSUME Registers, Queues, [Next]_vars PROVE Queues'
  BY TypeParts
<1>1. CASE UNCHANGED gpu
  BY <1>1 DEF gpu, Queues
<1>2. ASSUME SetupSwapchain, UNCHANGED queue PROVE Queues'
  BY <1>2, EmptySeq DEF SetupSwapchain, Queues
<1>3. CASE Resized \/ Recreate
  BY <1>2, <1>3 DEF Resized, Recreate
<1>4. ASSUME NEW im \in Backbuffers, NEW k \in DOMAIN presents \union {None}, AcquireBackbuffer(im, k)
      PROVE  Queues'
  <2>1. /\ queue' = queue /\ active_fence_index \in Backbuffers
        /\ presents' = Wanted(presents, k, active_fence_index)
    BY <1>4 DEF AcquireBackbuffer, Registers, Wanted
  <2>2. presents \in Seq(Presented) /\ queue \in Seq(Backbuffers)
    BY DEF Queues
  <2>3. presents' \in Seq(Presented)
    BY <2>1, <2>2, WantedPresents
  <2> QED
    BY <2>1, <2>2, <2>3 DEF Queues
<1>5. CASE Present \/ PresentOutdated
  BY <1>5, SubmittedQueues DEF Present, PresentOutdated
<1>6. CASE ExecuteSubmit
  <2>1. queue # <<>> /\ queue' = Tail(queue) /\ presents' = presents
    BY <1>6 DEF ExecuteSubmit
  <2> QED
    BY <2>1, HeadTailProperties DEF Queues
<1>7. CASE ShowNext
  <2>1. PICK k \in DOMAIN presents :
          /\ queue' = queue
          /\ presents' = <<[presents[k] EXCEPT !.done = TRUE]>> \o SubSeq(presents, k + 1, Len(presents))
    BY <1>7 DEF ShowNext
  <2> QED
    BY <2>1, ShownPresents DEF Queues
<1>8. CASE OnResize \/ ClearResizeFlag \/ AcquireOutOfDate \/ AcquireSuboptimal \/ AcquireSignalled
           \/ Render \/ WaitForFence \/ UNCHANGED vars
  BY <1>1, <1>8 DEF OnResize, ClearResizeFlag, AcquireOutOfDate, AcquireSuboptimal, AcquireSignalled,
                    Render, WaitForFence, vars
<1> QED
  BY <1>3, <1>4, <1>5, <1>6, <1>7, <1>8 DEF Next, Call

\* Indices stay within the backbuffers, and what is queued and presented is of one of them.
THEOREM TypeCorrect == Spec => []TypeOK
<1>1. Init => TypeOK
  <2> SUFFICES ASSUME Init PROVE Registers /\ Flags /\ PerBackbuffer /\ Queues
    BY TypeParts
  <2>1. Registers /\ PerBackbuffer
    BY Indices DEF Init, Registers, PerBackbuffer, FenceCreated
  <2>2. Flags
    BY DEF Init, Flags
  <2>3. Queues
    BY EmptySeq DEF Init, Queues
  <2> QED
    BY <2>1, <2>2, <2>3
<1>2. TypeOK /\ [Next]_vars => TypeOK'
  BY RegistersKept, FlagsKept, PerBackbufferKept, QueuesKept
     DEF TypeOK, Registers, Flags, PerBackbuffer, Queues
<1> QED
  BY <1>1, <1>2, PTL DEF Spec

-----------------------------------------------------------------------------
(* The size the application believes in                                    *)

SizeInv ==
  /\ ~has_resized => known = backbuf_size
  /\ app \in {"cleared", "acquired"} => ~has_resized

\* A backbuffer the application acquires has the size it was told of, as every resize sets the flag
\* it reads (swapchain_pool.cc:39, 298; swapchain_pool.hh:61-69).
THEOREM SizeAlwaysKnown == Spec => []SizeKnown
<1>1. Init => SizeInv
  BY DEF Init, SizeInv
<1>2. SizeInv /\ [Next]_vars => SizeInv'
  <2> SUFFICES ASSUME SizeInv, [Next]_vars PROVE SizeInv'
    OBVIOUS
  <2>1. ASSUME SetupSwapchain, app' = "top" PROVE SizeInv'
    BY <2>1 DEF SetupSwapchain, SetupFlag, SizeInv
  <2>2. CASE Resized \/ Recreate
    BY <2>1, <2>2 DEF Resized, Recreate
  <2>3. CASE ClearResizeFlag
    BY <2>3 DEF ClearResizeFlag, SizeInv
  <2>4. ASSUME UNCHANGED <<has_resized, known, backbuf_size>>,
               app' \in {"cleared", "acquired"} => app \in {"cleared", "acquired"}
        PROVE  SizeInv'
    BY <2>4 DEF SizeInv
  <2>5. CASE OnResize \/ AcquireOutOfDate \/ AcquireSuboptimal \/ AcquireSignalled
    BY <2>4, <2>5 DEF OnResize, AcquireOutOfDate, AcquireSuboptimal, AcquireSignalled, InternalResize, node
  <2>6. ASSUME NEW im \in Backbuffers, NEW k \in DOMAIN presents \union {None}, AcquireBackbuffer(im, k)
        PROVE  SizeInv'
    BY <2>4, <2>6 DEF AcquireBackbuffer
  <2>7. CASE Render \/ Present \/ PresentOutdated \/ WaitForFence
    BY <2>4, <2>7 DEF Render, Present, PresentOutdated, InternalResize, WaitForFence, node
  <2>8. CASE ExecuteSubmit \/ ShowNext \/ UNCHANGED vars
    BY <2>4, <2>8 DEF ExecuteSubmit, ShowNext, node, vars
  <2> QED
    BY <2>2, <2>3, <2>5, <2>6, <2>7, <2>8 DEF Next, Call
<1>3. SizeInv => SizeKnown
  BY DEF SizeInv, SizeKnown
<1> QED
  BY <1>1, <1>2, <1>3, PTL DEF Spec

-----------------------------------------------------------------------------
(* Fences and semaphores                                                   *)

\* the fences of the submits yet to be executed
Queued == {queue[k] : k \in DOMAIN queue}

Distinct == \A j, k \in DOMAIN queue : queue[j] = queue[k] => j = k

LEMMA QueuedAppended ==
  ASSUME Registers, Queues, Submitted, Distinct, active_fence_index \notin Queued
  PROVE  Queued' = Queued \union {active_fence_index} /\ Distinct'
<1>1. /\ Len(queue) \in Nat /\ DOMAIN queue = 1 .. Len(queue) /\ DOMAIN queue' = 1 .. Len(queue')
      /\ Len(queue') = Len(queue) + 1 /\ queue'[Len(queue) + 1] = active_fence_index
      /\ \A j \in 1 .. Len(queue) : queue'[j] = queue[j]
  BY SubmittedQueues, LenProperties DEF Queues
<1>2. \A j \in DOMAIN queue' : j \in DOMAIN queue \/ j = Len(queue) + 1
  BY <1>1
<1>3. DOMAIN queue \subseteq DOMAIN queue' /\ Len(queue) + 1 \in DOMAIN queue'
  BY <1>1
<1>4. Queued' = Queued \union {active_fence_index}
  BY <1>1, <1>2, <1>3 DEF Queued
<1>5. Distinct'
  BY <1>1, <1>2 DEF Distinct, Queued
<1> QED
  BY <1>4, <1>5

LEMMA QueuedExecuted ==
  ASSUME Queues, Distinct, ExecuteSubmit
  PROVE  /\ Head(queue) \in Queued /\ Queued' = Queued \ {Head(queue)}
         /\ Distinct'
<1>1. /\ queue # <<>> /\ queue' = Tail(queue) /\ queue \in Seq(Backbuffers)
      /\ Head(queue) = queue[1]
  BY DEF ExecuteSubmit, Queues
<1>2. /\ Len(queue) \in Nat \ {0} /\ DOMAIN queue = 1 .. Len(queue) /\ DOMAIN queue' = 1 .. Len(queue')
      /\ Len(queue') = Len(queue) - 1
      /\ \A j \in 1 .. Len(queue') : queue'[j] = queue[j + 1]
  BY <1>1, LenProperties, EmptySeq, HeadTailProperties
<1>3. 1 \in DOMAIN queue
  BY <1>2
<1>4. \A j \in DOMAIN queue' : j + 1 \in DOMAIN queue /\ j + 1 # 1 /\ queue'[j] = queue[j + 1]
  BY <1>2
<1>5. \A j \in DOMAIN queue : j # 1 => j - 1 \in DOMAIN queue' /\ queue'[j - 1] = queue[j]
  BY <1>2
<1>6. Queued' \subseteq Queued \ {queue[1]}
  BY <1>3, <1>4 DEF Queued, Distinct
<1>7. Queued \ {queue[1]} \subseteq Queued'
  BY <1>5 DEF Queued
<1>8. Distinct'
  <2> SUFFICES ASSUME NEW j \in DOMAIN queue', NEW k \in DOMAIN queue', queue'[j] = queue'[k]
               PROVE  j = k
    BY DEF Distinct
  <2>1. j + 1 = k + 1
    BY <1>4 DEF Distinct
  <2> QED
    BY <1>2, <2>1
<1> QED
  BY <1>1, <1>3, <1>6, <1>7, <1>8 DEF Queued

\* Who waits for an image on the screen waits with a semaphore of its own.
WantedInv ==
  /\ \A j \in DOMAIN presents : presents[j].wanted # None =>
       sem_image_available[presents[j].wanted] = "pending"
  /\ \A j, k \in DOMAIN presents :
       presents[j].wanted # None /\ presents[j].wanted = presents[k].wanted => j = k

FencesRight ==
  /\ Distinct
  /\ \A b \in Backbuffers : fence_command_buf_executed[b] = "signalled" <=> b \notin Queued

FenceFree ==
  app \in {"top", "cleared", "acquired", "rendered"} /\ fault = "none" =>
    fence_command_buf_executed[active_fence_index] = "signalled"

Orderly == ~suboptimal

\* the semaphore of an acquire is one the submit of its present will wait for
SemaphoresRight ==
  Orderly => \A b \in Backbuffers :
    sem_image_available[b] # "unsignalled" =>
      b \in Queued \/ (b = active_fence_index /\ app \in {"acquired", "rendered"})

SyncInv == WantedInv /\ FencesRight /\ FenceFree /\ SemaphoresRight /\ AcquiresRight

LEMMA WantedInvInductive == TypeOK /\ WantedInv /\ [Next]_vars => WantedInv'
<1> SUFFICES ASSUME Registers, PerBackbuffer, Queues, WantedInv, [Next]_vars PROVE WantedInv'
  BY TypeParts
<1> USE Indices
<1>1. ASSUME UNCHANGED <<presents, sem_image_available>> PROVE WantedInv'
  BY <1>1 DEF WantedInv
<1>2. ASSUME SetupSwapchain PROVE WantedInv'
  <2>1. DOMAIN presents' = {}
    BY <1>2 DEF SetupSwapchain
  <2> QED
    BY <2>1 DEF WantedInv
<1>3. ASSUME Submitted, UNCHANGED sem_image_available PROVE WantedInv'
  <2>1. /\ Len(presents) \in Nat /\ DOMAIN presents = 1 .. Len(presents)
        /\ DOMAIN presents' = 1 .. Len(presents')
        /\ Len(presents') = Len(presents) + 1 /\ presents'[Len(presents) + 1].wanted = None
        /\ \A j \in 1 .. Len(presents) : presents'[j] = presents[j]
    BY <1>3, SubmittedQueues, LenProperties DEF Queues
  <2>2. \A j \in DOMAIN presents' :
          \/ j \in DOMAIN presents /\ presents'[j] = presents[j]
          \/ presents'[j].wanted = None
    BY <2>1
  <2> QED
    BY <1>3, <2>2 DEF WantedInv
<1>4. ASSUME NEW im \in Backbuffers, NEW k \in DOMAIN presents \union {None}, AcquireBackbuffer(im, k)
      PROVE  WantedInv'
  <2>1. /\ presents' = Wanted(presents, k, active_fence_index)
        /\ sem_image_available[active_fence_index] = "unsignalled"
        /\ sem_image_available' =
             [sem_image_available EXCEPT ![active_fence_index] = IF k = None THEN "signalled" ELSE "pending"]
        /\ active_fence_index \in Backbuffers
    BY <1>4 DEF AcquireBackbuffer, Registers, Wanted
  <2>2. /\ DOMAIN presents' = DOMAIN presents
        /\ \A j \in DOMAIN presents :
             presents'[j].wanted = IF j = k THEN active_fence_index ELSE presents[j].wanted
    BY <2>1, WantedPresents DEF Queues
  <2>3. \A j \in DOMAIN presents : presents[j].wanted # active_fence_index
    BY <2>1 DEF WantedInv
  <2>4. /\ DOMAIN presents = 1 .. Len(presents)
        /\ \A j \in DOMAIN presents : presents[j].wanted \in Backbuffers \union {None}
    <3>1. /\ DOMAIN presents = 1 .. Len(presents)
          /\ \A j \in DOMAIN presents : presents[j] \in Presented
      BY LenProperties, ElementOfSeq DEF Queues
    <3> QED
      BY <3>1 DEF Presented
  <2>5. \A b \in Backbuffers : b # active_fence_index => sem_image_available'[b] = sem_image_available[b]
    BY <2>1 DEF PerBackbuffer
  <2>6. k # None => sem_image_available'[active_fence_index] = "pending"
    BY <2>1 DEF PerBackbuffer
  <2>7. None \notin DOMAIN presents
    BY <2>4 DEF None
  <2>8. \A j \in DOMAIN presents' : presents'[j].wanted # None =>
          sem_image_available'[presents'[j].wanted] = "pending"
    <3> SUFFICES ASSUME NEW j \in DOMAIN presents, presents'[j].wanted # None
                 PROVE  sem_image_available'[presents'[j].wanted] = "pending"
      BY <2>2
    <3>1. CASE j = k
      BY <2>2, <2>6, <2>7, <3>1
    <3>2. CASE j # k
      BY <2>2, <2>3, <2>4, <2>5, <3>2 DEF WantedInv
    <3> QED
      BY <3>1, <3>2
  <2>9. \A i, j \in DOMAIN presents' :
          presents'[i].wanted # None /\ presents'[i].wanted = presents'[j].wanted => i = j
    BY <2>2, <2>3 DEF WantedInv
  <2> QED
    BY <2>8, <2>9 DEF WantedInv
<1>5. CASE AcquireSuboptimal
  <2>1. /\ presents' = presents /\ sem_image_available[active_fence_index] = "unsignalled"
        /\ sem_image_available' = [sem_image_available EXCEPT ![active_fence_index] = "signalled"]
    BY <1>5 DEF AcquireSuboptimal, gpu
  <2>2. \A j \in DOMAIN presents : presents[j].wanted # None => presents[j].wanted # active_fence_index
    BY <2>1 DEF WantedInv
  <2>3. \A b : b # active_fence_index /\ sem_image_available[b] = "pending" =>
          sem_image_available'[b] = "pending"
    BY <2>1 DEF PerBackbuffer
  <2> QED
    BY <2>1, <2>2, <2>3 DEF WantedInv
<1>6. CASE ExecuteSubmit
  <2>1. /\ presents' = presents /\ sem_image_available[Head(queue)] = "signalled"
        /\ sem_image_available' = [sem_image_available EXCEPT ![Head(queue)] = "unsignalled"]
    BY <1>6 DEF ExecuteSubmit
  <2>2. \A j \in DOMAIN presents : presents[j].wanted # None => presents[j].wanted # Head(queue)
    BY <2>1 DEF WantedInv
  <2>3. \A b : b # Head(queue) /\ sem_image_available[b] = "pending" => sem_image_available'[b] = "pending"
    BY <2>1 DEF PerBackbuffer
  <2> QED
    BY <2>1, <2>2, <2>3 DEF WantedInv
<1>7. CASE ShowNext
  <2>1. PICK k \in DOMAIN presents :
          /\ sem_image_available' =
               [b \in Backbuffers |-> IF \E j \in 1 .. k - 1 : presents[j].wanted = b
                                      THEN "signalled" ELSE sem_image_available[b]]
          /\ presents' = <<[presents[k] EXCEPT !.done = TRUE]>> \o SubSeq(presents, k + 1, Len(presents))
    BY <1>7 DEF ShowNext
  <2>2. /\ Len(presents) \in Nat /\ DOMAIN presents = 1 .. Len(presents)
        /\ \A j \in DOMAIN presents : presents[j] \in Presented
    BY LenProperties, ElementOfSeq DEF Queues
  <2>3. /\ presents' \in Seq(Presented) /\ Len(presents') = Len(presents) - k + 1
        /\ presents'[1] = [presents[k] EXCEPT !.done = TRUE]
        /\ \A j \in 2 .. Len(presents') : presents'[j] = presents[j + k - 1]
    BY <2>1, ShownPresents DEF Queues
  <2>4. DOMAIN presents' = 1 .. Len(presents')
    BY <2>3, LenProperties
  <2>5. presents'[1].wanted = presents[k].wanted
    BY <2>2, <2>3 DEF Presented
  <2>6. \A j \in DOMAIN presents' : /\ j + k - 1 \in DOMAIN presents /\ j + k - 1 >= k
                                    /\ presents'[j].wanted = presents[j + k - 1].wanted
    <3> SUFFICES ASSUME NEW j \in DOMAIN presents'
                 PROVE  /\ j + k - 1 \in DOMAIN presents /\ j + k - 1 >= k
                        /\ presents'[j].wanted = presents[j + k - 1].wanted
      OBVIOUS
    <3>1. j + k - 1 \in DOMAIN presents /\ j + k - 1 >= k
      <4>1. k \in 1 .. Len(presents) /\ Len(presents) \in Nat /\ j \in 1 .. Len(presents) - k + 1
        BY <2>2, <2>3, <2>4
      <4> QED
        BY <2>2, <4>1
    <3>2. CASE j = 1
      BY <2>2, <2>5, <3>2
    <3>3. CASE j # 1
      <4>1. j \in 2 .. Len(presents')
        BY <2>2, <2>3, <2>4, <3>3
      <4> QED
        BY <2>3, <4>1
    <3> QED
      BY <3>1, <3>2, <3>3
  <2>7. \A j \in DOMAIN presents : presents[j].wanted \in Backbuffers \union {None}
    BY <2>2 DEF Presented
  <2>8. ASSUME NEW l \in DOMAIN presents, l >= k, presents[l].wanted # None
        PROVE  sem_image_available'[presents[l].wanted] = "pending"
    <3>1. \A j \in 1 .. k - 1 : j \in DOMAIN presents /\ j # l
      BY <2>2, <2>8
    <3>2. \A j \in 1 .. k - 1 : presents[j].wanted # presents[l].wanted
      BY <2>8, <3>1 DEF WantedInv
    <3>3. presents[l].wanted \in Backbuffers /\ sem_image_available[presents[l].wanted] = "pending"
      BY <2>7, <2>8 DEF WantedInv
    <3> QED
      BY <2>1, <3>2, <3>3
  <2>9. ASSUME NEW i \in DOMAIN presents', NEW j \in DOMAIN presents',
               presents'[i].wanted # None, presents'[i].wanted = presents'[j].wanted
        PROVE  i = j
    <3>1. i + k - 1 = j + k - 1
      BY <2>6, <2>9 DEF WantedInv
    <3> QED
      BY <2>2, <2>4, <3>1
  <2> QED
    BY <2>6, <2>8, <2>9 DEF WantedInv
<1>8. CASE Recreate \/ Resized
  BY <1>2, <1>8 DEF Recreate, Resized
<1>9. CASE Present \/ PresentOutdated
  BY <1>3, <1>9 DEF Present, PresentOutdated
<1>10. CASE OnResize \/ ClearResizeFlag \/ AcquireOutOfDate \/ AcquireSignalled \/ Render \/ WaitForFence
            \/ UNCHANGED vars
  BY <1>1, <1>10 DEF OnResize, ClearResizeFlag, AcquireOutOfDate, AcquireSignalled, Render, WaitForFence,
                     vars, gpu, sync
<1> QED
  BY <1>4, <1>5, <1>6, <1>7, <1>8, <1>9, <1>10 DEF Next, Call

LEMMA FencesRightKept == TypeOK /\ FencesRight /\ FenceFree /\ [Next]_vars => FencesRight'
<1> SUFFICES ASSUME Registers, PerBackbuffer, Queues, FencesRight, FenceFree, [Next]_vars PROVE FencesRight'
  BY TypeParts
<1> USE Indices
<1>1. ASSUME UNCHANGED <<queue, fence_command_buf_executed>> PROVE FencesRight'
  BY <1>1 DEF FencesRight, Distinct, Queued
<1>2. CASE Recreate
  <2>1. queue' = <<>> /\ fence_command_buf_executed' = [b \in Backbuffers |-> "signalled"]
    BY <1>2 DEF Recreate, Idle, FenceCreated
  <2>2. DOMAIN queue' = {}
    BY <2>1
  <2>3. Queued' = {} /\ Distinct'
    BY <2>2 DEF Queued, Distinct
  <2> QED
    BY <2>1, <2>3 DEF FencesRight
<1>3. CASE Next /\ (Present \/ PresentOutdated)
  <2>1. Submitted /\ app = "rendered" /\ fault = "none"
    BY <1>3 DEF Next, Present, PresentOutdated
  <2>2. active_fence_index \in Backbuffers /\ active_fence_index \notin Queued
    BY <2>1 DEF FenceFree, FencesRight, Registers
  <2>3. Queued' = Queued \union {active_fence_index} /\ Distinct'
    BY <2>1, <2>2, QueuedAppended DEF FencesRight
  <2>4. fence_command_buf_executed' =
          [fence_command_buf_executed EXCEPT ![active_fence_index] = "unsignalled"]
    BY <2>1 DEF Submitted
  <2> QED
    BY <2>2, <2>3, <2>4 DEF FencesRight, PerBackbuffer
<1>4. CASE ExecuteSubmit
  <2>1. Head(queue) \in Queued /\ Queued' = Queued \ {Head(queue)} /\ Distinct'
    BY <1>4, QueuedExecuted DEF FencesRight
  <2>2. fence_command_buf_executed' = [fence_command_buf_executed EXCEPT ![Head(queue)] = "signalled"]
    BY <1>4 DEF ExecuteSubmit
  <2> QED
    BY <2>1, <2>2 DEF FencesRight, PerBackbuffer
<1>5. ASSUME NEW im \in Backbuffers, NEW k \in DOMAIN presents \union {None}, AcquireBackbuffer(im, k)
      PROVE  FencesRight'
  BY <1>1, <1>5 DEF AcquireBackbuffer
<1>6. CASE OnResize \/ Resized \/ ClearResizeFlag \/ AcquireOutOfDate \/ AcquireSuboptimal \/ AcquireSignalled
           \/ Render \/ WaitForFence \/ ShowNext \/ UNCHANGED vars
  BY <1>1, <1>6 DEF OnResize, Resized, ClearResizeFlag, AcquireOutOfDate, AcquireSuboptimal, AcquireSignalled,
                    Render, WaitForFence, ShowNext, vars, gpu, sync
<1> QED
  BY <1>2, <1>3, <1>4, <1>5, <1>6 DEF Next, Call

LEMMA FenceFreeKept == TypeOK /\ FencesRight /\ FenceFree /\ [Next]_vars => FenceFree'
<1> SUFFICES ASSUME Registers, PerBackbuffer, FencesRight, FenceFree, [Next]_vars PROVE FenceFree'
  BY TypeParts
<1> USE Indices
<1>1. ASSUME UNCHANGED <<fence_command_buf_executed, active_fence_index>>, fault' = fault \/ fault' # "none",
             app' \in {"top", "cleared", "acquired", "rendered"} =>
               app \in {"top", "cleared", "acquired", "rendered"}
      PROVE  FenceFree'
  BY <1>1 DEF FenceFree
<1>2. CASE Recreate
  BY <1>2 DEF Recreate, SetupSwapchain, SetupIndices, FenceCreated, FenceFree
<1>3. CASE Resized
  <2>1. /\ DOMAIN queue = {} /\ fence_command_buf_executed' = fence_command_buf_executed
        /\ active_fence_index' = 0
    BY <1>3 DEF Resized, Idle, SetupSwapchain, SetupIndices, sync
  <2>2. fence_command_buf_executed[0] = "signalled"
    BY <2>1 DEF FencesRight, Queued
  <2> QED
    BY <2>1, <2>2 DEF FenceFree
<1>4. CASE Present
  BY <1>4 DEF Present, FenceFree
<1>5. CASE PresentOutdated
  BY <1>5 DEF PresentOutdated, InternalResize, FenceFree
<1>6. CASE WaitForFence
  BY <1>6 DEF WaitForFence, WaitCondition, FenceFree, node, sync
<1>7. CASE ExecuteSubmit
  <2>1. /\ UNCHANGED <<active_fence_index, app, fault>>
        /\ fence_command_buf_executed' = [fence_command_buf_executed EXCEPT ![Head(queue)] = "signalled"]
    BY <1>7 DEF ExecuteSubmit, node
  <2> QED
    BY <2>1 DEF FenceFree, PerBackbuffer, Registers
<1>8. ASSUME NEW im \in Backbuffers, NEW k \in DOMAIN presents \union {None}, AcquireBackbuffer(im, k)
      PROVE  FenceFree'
  BY <1>1, <1>8 DEF AcquireBackbuffer
<1>9. CASE OnResize \/ ClearResizeFlag \/ Render
  BY <1>1, <1>9 DEF OnResize, ClearResizeFlag, Render, node, sync
<1>10. CASE AcquireOutOfDate \/ AcquireSuboptimal \/ AcquireSignalled
  BY <1>1, <1>10 DEF AcquireOutOfDate, AcquireSuboptimal, AcquireSignalled, InternalResize, node, sync
<1>11. CASE ShowNext \/ UNCHANGED vars
  BY <1>1, <1>11 DEF ShowNext, vars, node, sync
<1> QED
  BY <1>2, <1>3, <1>4, <1>5, <1>6, <1>7, <1>8, <1>9, <1>10, <1>11 DEF Next, Call

LEMMA SemaphoresRightKept == TypeOK /\ SyncInv /\ [Next]_vars => SemaphoresRight'
<1> SUFFICES ASSUME Registers, PerBackbuffer, Queues, WantedInv, FencesRight, FenceFree, SemaphoresRight,
                    [Next]_vars, Orderly'
             PROVE  \A b \in Backbuffers : sem_image_available'[b] # "unsignalled" =>
                      b \in Queued' \/ (b = active_fence_index' /\ app' \in {"acquired", "rendered"})
  BY TypeParts DEF SyncInv, SemaphoresRight
<1> USE Indices
<1> DEFINE Goal == \A b \in Backbuffers : sem_image_available'[b] # "unsignalled" =>
                     b \in Queued' \/ (b = active_fence_index' /\ app' \in {"acquired", "rendered"})
<1>1. ASSUME UNCHANGED suboptimal
      PROVE  /\ Orderly
             /\ \A b \in Backbuffers : sem_image_available[b] # "unsignalled" =>
                  b \in Queued \/ (b = active_fence_index /\ app \in {"acquired", "rendered"})
  <2>1. Orderly
    BY <1>1, Zenon DEF Orderly
  <2> QED
    BY <2>1 DEF SemaphoresRight
<1>2. ASSUME UNCHANGED <<suboptimal, sem_image_available, queue, active_fence_index>>,
             app \in {"acquired", "rendered"} => app' \in {"acquired", "rendered"}
      PROVE  Goal
  BY <1>1, <1>2 DEF Queued
<1>3. CASE Recreate
  BY <1>3 DEF Recreate
<1>4. CASE Resized
  <2>1. /\ DOMAIN queue = {} /\ UNCHANGED <<sem_image_available, suboptimal>> /\ app = "resizing"
    BY <1>4 DEF Resized, Idle, sync
  <2> QED
    BY <1>1, <2>1 DEF Queued
<1>5. CASE Next /\ (Present \/ PresentOutdated)
  <2>1. /\ Submitted /\ app = "rendered" /\ fault = "none"
        /\ UNCHANGED <<suboptimal, sem_image_available>>
    BY <1>5 DEF Next, Present, PresentOutdated
  <2>2. active_fence_index \notin Queued
    BY <2>1 DEF FenceFree, FencesRight, Registers
  <2>3. Queued' = Queued \union {active_fence_index}
    BY <2>1, <2>2, QueuedAppended DEF FencesRight
  <2> QED
    BY <1>1, <2>1, <2>3
<1>6. CASE ExecuteSubmit
  <2>1. /\ UNCHANGED <<active_fence_index, app, suboptimal>>
        /\ sem_image_available' = [sem_image_available EXCEPT ![Head(queue)] = "unsignalled"]
    BY <1>6 DEF ExecuteSubmit, node
  <2>2. Head(queue) \in Queued /\ Queued' = Queued \ {Head(queue)}
    BY <1>6, QueuedExecuted DEF FencesRight
  <2> QED
    BY <1>1, <2>1, <2>2 DEF PerBackbuffer
<1>7. CASE ShowNext
  <2>1. UNCHANGED <<queue, active_fence_index, app, suboptimal>>
    BY <1>7 DEF ShowNext, node
  <2>2. PICK k \in DOMAIN presents :
          sem_image_available' =
            [b \in Backbuffers |-> IF \E j \in 1 .. k - 1 : presents[j].wanted = b
                                   THEN "signalled" ELSE sem_image_available[b]]
    BY <1>7 DEF ShowNext
  <2>3. \A j \in 1 .. k - 1 : j \in DOMAIN presents
    BY LenProperties DEF Queues
  <2>4. \A b \in Backbuffers :
          sem_image_available'[b] # "unsignalled" => sem_image_available[b] # "unsignalled"
    BY <2>2, <2>3 DEF WantedInv
  <2> QED
    BY <1>1, <2>1, <2>4 DEF Queued
<1>8. ASSUME NEW im \in Backbuffers, NEW k \in DOMAIN presents \union {None}, AcquireBackbuffer(im, k)
      PROVE  Goal
  <2>1. /\ UNCHANGED <<queue, suboptimal, active_fence_index>> /\ app = "cleared" /\ app' = "acquired"
        /\ \A b \in Backbuffers : b # active_fence_index => sem_image_available'[b] = sem_image_available[b]
    BY <1>8 DEF AcquireBackbuffer, PerBackbuffer
  <2> QED
    BY <1>1, <2>1 DEF Queued
<1>9. CASE AcquireSuboptimal
  BY <1>9, Zenon DEF AcquireSuboptimal, Orderly
<1>10. CASE OnResize \/ ClearResizeFlag \/ AcquireOutOfDate \/ AcquireSignalled \/ Render
  BY <1>2, <1>10 DEF OnResize, ClearResizeFlag, AcquireOutOfDate, InternalResize, AcquireSignalled, Render,
                     node, sync, gpu
<1>11. CASE WaitForFence \/ UNCHANGED vars
  BY <1>2, <1>11 DEF WaitForFence, vars, node, sync, gpu
<1> QED
  BY <1>3, <1>4, <1>5, <1>6, <1>7, <1>8, <1>9, <1>10, <1>11 DEF Next, Call

LEMMA AcquiresRightKept == TypeOK /\ SyncInv /\ [Next]_vars => AcquiresRight'
<1> SUFFICES ASSUME TypeOK, SyncInv, [Next]_vars, fault' = "acquire with a signalled semaphore"
             PROVE  ~Orderly'
  BY Zenon DEF AcquiresRight, Orderly
<1>1. AcquiresRight
  BY DEF SyncInv
<1>2. CASE fault = "acquire with a signalled semaphore"
  <2>1. UNCHANGED vars
    BY <1>2 DEF Next
  <2>2. suboptimal' = suboptimal
    BY <2>1 DEF vars
  <2> QED
    BY <1>1, <1>2, <2>2, Zenon DEF AcquiresRight, Orderly
<1>3. CASE fault # "acquire with a signalled semaphore"
  <2>1. fault = "none" /\ AcquireSignalled
    <3>1. fault' # fault
      BY <1>3
    <3>2. CASE InternalResize
      BY <3>1, <3>2 DEF InternalResize
    <3>3. ASSUME NEW im \in Backbuffers, NEW k \in DOMAIN presents \union {None}, AcquireBackbuffer(im, k)
          PROVE  FALSE
      BY <3>1, <3>3 DEF AcquireBackbuffer
    <3>4. fault = "none" /\ (Call \/ ExecuteSubmit \/ ShowNext)
      BY <3>1 DEF Next, vars
    <3> QED
      BY <3>1, <3>2, <3>3, <3>4
         DEF Call, OnResize, Resized, Recreate, ClearResizeFlag, AcquireOutOfDate, AcquireSuboptimal, Render,
             Present, PresentOutdated, WaitForFence, ExecuteSubmit, ShowNext
  <2>2. /\ app = "cleared" /\ suboptimal' = suboptimal
        /\ sem_image_available[active_fence_index] # "unsignalled"
    BY <2>1 DEF AcquireSignalled
  <2>3. active_fence_index \in Backbuffers /\ active_fence_index \notin Queued
    BY <2>1, <2>2, TypeParts DEF SyncInv, FenceFree, FencesRight, Registers
  <2>4. ~Orderly
    BY <2>2, <2>3 DEF SyncInv, SemaphoresRight
  <2> QED
    BY <2>2, <2>4, Zenon DEF Orderly
<1> QED
  BY <1>2, <1>3

LEMMA InitSyncInv == Init => SyncInv
<1> SUFFICES ASSUME Init PROVE SyncInv
  OBVIOUS
<1>1. DOMAIN queue = {} /\ DOMAIN presents = {}
  BY DEF Init
<1>2. Queued = {} /\ Distinct /\ WantedInv
  BY <1>1 DEF Queued, Distinct, WantedInv
<1> QED
  BY <1>2, Indices DEF Init, FenceCreated, SyncInv, FencesRight, FenceFree, SemaphoresRight, AcquiresRight

LEMMA SyncCorrect == Spec => []SyncInv
<1>1. TypeOK /\ SyncInv /\ [Next]_vars => SyncInv'
  BY WantedInvInductive, FencesRightKept, FenceFreeKept, SemaphoresRightKept, AcquiresRightKept DEF SyncInv
<1> QED
  BY <1>1, InitSyncInv, TypeCorrect, PTL DEF Spec

\* The fence present resets belongs to no submit still to be executed, whatever order images come in
\* and however often present fails (swapchain_pool.cc:133, 183).
THEOREM FenceAlwaysDone == Spec => []FenceDone
<1>1. TypeOK /\ SyncInv => FenceDone
  BY TypeParts DEF SyncInv, FencesRight, FenceFree, FenceDone, Queued, Registers
<1> QED
  BY <1>1, TypeCorrect, SyncCorrect, PTL

\* An acquire finds its semaphore signalled only after a suboptimal one (swapchain_pool.cc:193).
THEOREM AcquiresAlwaysRight == Spec => []AcquiresRight
<1>1. SyncInv => AcquiresRight
  BY DEF SyncInv
<1> QED
  BY <1>1, SyncCorrect, PTL

-----------------------------------------------------------------------------
(* The states remembered for the backbuffers                               *)

\* Of all images but the one in the node of the resource pool, which is the last one acquired, the
\* state remembered is right, but for image 0 before it is first acquired.
StateInv ==
  /\ \A b \in Backbuffers : b # active_image_index =>
       state[b] = layout[b] \/ (b = 0 /\ 0 \notin seen)
  /\ active_image_index \in seen => app = "acquired" \/ master_state = layout[active_image_index]
  /\ active_image_index \notin seen => active_image_index = 0

\* The image last acquired was presented last; and one presented twice is waited for the first time.
LastInv ==
  /\ active_image_index \in seen /\ app \in {"top", "cleared", "waiting", "resizing"} =>
       presents # <<>> /\ presents[Len(presents)].image = active_image_index
  /\ \A j, k \in DOMAIN presents :
       j < k /\ presents[j].image = presents[k].image => presents[j].wanted # None
  /\ app \in {"acquired", "rendered"} /\ fault = "none" =>
       \A j \in DOMAIN presents : presents[j].image = active_image_index => presents[j].wanted # None

LEMMA AcquiresAnother ==
  ASSUME Queues, LastInv, app = "cleared", active_image_index \in seen,
         NEW im, NEW k \in DOMAIN presents \union {None}, Acquirable(im, k)
  PROVE  im # active_image_index
<1>1. /\ Len(presents) \in Nat \ {0} /\ DOMAIN presents = 1 .. Len(presents)
      /\ presents[Len(presents)].image = active_image_index
  BY LenProperties, EmptySeq DEF Queues, LastInv
<1>2. Len(presents) \in DOMAIN presents
  BY <1>1
<1>3. CASE k = None
  BY <1>1, <1>2, <1>3 DEF Acquirable
<1>4. CASE k # None
  BY <1>1, <1>2, <1>4 DEF Acquirable, LastInv
<1> QED
  BY <1>3, <1>4

LEMMA StateInvInductive == TypeOK /\ LastInv /\ StateInv /\ [Next]_vars => StateInv'
<1> SUFFICES ASSUME Registers, PerBackbuffer, Queues, LastInv, StateInv, [Next]_vars PROVE StateInv'
  BY TypeParts
<1> USE Indices
<1>1. ASSUME UNCHANGED <<active_image_index, state, layout, seen, master_state>>,
             app = "acquired" => app' = "acquired"
      PROVE  StateInv'
  BY <1>1 DEF StateInv
<1>2. ASSUME SetupSwapchain PROVE StateInv'
  BY <1>2 DEF SetupSwapchain, SetupIndices, StateInv
<1>3. CASE Recreate \/ Resized
  BY <1>2, <1>3 DEF Recreate, Resized
<1>4. ASSUME NEW im \in Backbuffers, NEW k \in DOMAIN presents \union {None}, AcquireBackbuffer(im, k)
      PROVE  StateInv'
  <2>1. /\ app = "cleared" /\ app' = "acquired" /\ Acquirable(im, k)
        /\ active_image_index' = im /\ layout' = layout /\ seen' = seen \union {im}
        /\ state' = [state EXCEPT ![active_image_index] = master_state]
    BY <1>4 DEF AcquireBackbuffer, StoredUnder
  <2>2. active_image_index \in Backbuffers
    BY DEF Registers
  <2>3. ASSUME NEW b \in Backbuffers, b # im
        PROVE  state'[b] = layout'[b] \/ (b = 0 /\ 0 \notin seen')
    <3>1. CASE b = active_image_index
      BY <2>1, <2>2, <2>3, <3>1 DEF StateInv, PerBackbuffer
    <3>2. CASE b # active_image_index
      BY <2>1, <2>2, <2>3, <3>2 DEF StateInv, PerBackbuffer
    <3> QED
      BY <3>1, <3>2
  <2> QED
    BY <2>1, <2>3 DEF StateInv
<1>5. CASE Render
  BY <1>5 DEF Render, StateInv, Registers, PerBackbuffer, node
<1>6. CASE Present \/ PresentOutdated
  BY <1>1, <1>6 DEF Present, PresentOutdated, node
<1>7. CASE OnResize \/ ClearResizeFlag \/ AcquireOutOfDate \/ AcquireSuboptimal \/ AcquireSignalled
  BY <1>1, <1>7 DEF OnResize, ClearResizeFlag, AcquireOutOfDate, AcquireSuboptimal, AcquireSignalled, node
<1>8. CASE WaitForFence \/ ExecuteSubmit \/ ShowNext \/ UNCHANGED vars
  BY <1>1, <1>8 DEF WaitForFence, ExecuteSubmit, ShowNext, vars, node
<1> QED
  BY <1>3, <1>4, <1>5, <1>6, <1>7, <1>8 DEF Next, Call

LEMMA LastInvInductive == TypeOK /\ StateInv /\ LastInv /\ [Next]_vars => LastInv'
<1> SUFFICES ASSUME Registers, Queues, StateInv, LastInv, [Next]_vars PROVE LastInv'
  BY TypeParts
<1> USE Indices
<1>1. ASSUME UNCHANGED <<presents, active_image_index, seen>>, fault' = fault \/ fault' # "none",
             app' = app \/ {app, app'} \subseteq {"top", "cleared", "waiting", "resizing"}
                        \/ {app, app'} \subseteq {"acquired", "rendered"}
      PROVE  LastInv'
  BY <1>1 DEF LastInv
<1>2. ASSUME SetupSwapchain PROVE LastInv'
  <2>1. DOMAIN presents' = {} /\ seen' = {}
    BY <1>2 DEF SetupSwapchain
  <2> QED
    BY <2>1 DEF LastInv
<1>3. CASE Recreate \/ Resized
  BY <1>2, <1>3 DEF Recreate, Resized
<1>4. ASSUME NEW im \in Backbuffers, NEW k \in DOMAIN presents \union {None}, AcquireBackbuffer(im, k)
      PROVE  LastInv'
  <2>1. /\ app' = "acquired" /\ Acquirable(im, k) /\ active_image_index' = im
        /\ presents' = Wanted(presents, k, active_fence_index) /\ active_fence_index \in Backbuffers
    BY <1>4 DEF AcquireBackbuffer, Wanted, Registers
  <2>2. /\ DOMAIN presents' = DOMAIN presents /\ DOMAIN presents = 1 .. Len(presents)
        /\ \A j \in DOMAIN presents :
             /\ presents'[j].image = presents[j].image
             /\ presents'[j].wanted = IF j = k THEN active_fence_index ELSE presents[j].wanted
    BY <2>1, WantedPresents, LenProperties DEF Queues
  <2>3. active_fence_index # None /\ None \notin DOMAIN presents /\ Len(presents) \in Nat
    BY <2>1, <2>2, LenProperties DEF None, Backbuffers, Queues
  <2>4. \A i, j \in DOMAIN presents' :
          i < j /\ presents'[i].image = presents'[j].image => presents'[i].wanted # None
    BY <2>2, <2>3 DEF LastInv
  <2>5. ASSUME NEW j \in DOMAIN presents, presents[j].image = im
        PROVE  presents'[j].wanted # None
    <3>1. k \in DOMAIN presents /\ presents[k].image = im
      BY <2>1, <2>5 DEF Acquirable
    <3>2. CASE j = k
      BY <2>2, <2>3, <3>2
    <3>3. CASE j < k
      BY <2>2, <2>3, <2>5, <3>1, <3>3 DEF LastInv
    <3>4. CASE j > k
      <4>1. presents[k].wanted # None
        BY <2>5, <3>1, <3>4 DEF LastInv
      <4> QED
        BY <2>1, <2>3, <3>1, <4>1 DEF Acquirable
    <3> QED
      BY <2>2, <3>1, <3>2, <3>3, <3>4
  <2> QED
    BY <2>1, <2>2, <2>4, <2>5 DEF LastInv
<1>5. CASE Next /\ (Present \/ PresentOutdated)
  <2>1. /\ Submitted /\ fault = "none" /\ app = "rendered"
        /\ UNCHANGED <<active_image_index, seen>>
        /\ app' \in {"waiting", "resizing"} \/ fault' # "none"
    BY <1>5 DEF Next, Present, PresentOutdated, InternalResize, node
  <2>2. /\ Len(presents) \in Nat /\ DOMAIN presents = 1 .. Len(presents)
        /\ DOMAIN presents' = 1 .. Len(presents') /\ Len(presents') = Len(presents) + 1
        /\ presents'[Len(presents) + 1].image = active_image_index
        /\ \A j \in 1 .. Len(presents) : presents'[j] = presents[j]
    BY <2>1, SubmittedQueues, LenProperties DEF Queues
  <2>3. \A j \in DOMAIN presents' :
          \/ j \in DOMAIN presents /\ presents'[j] = presents[j]
          \/ j = Len(presents) + 1 /\ presents'[j].image = active_image_index
    BY <2>2
  <2>4. ASSUME NEW j \in DOMAIN presents', NEW l \in DOMAIN presents', j < l,
               presents'[j].image = presents'[l].image
        PROVE  presents'[j].wanted # None
    <3>1. j \in DOMAIN presents /\ presents'[j] = presents[j]
      BY <2>2, <2>3, <2>4
    <3>2. CASE l \in DOMAIN presents
      BY <2>2, <2>4, <3>1, <3>2 DEF LastInv
    <3>3. CASE l = Len(presents) + 1
      BY <2>1, <2>2, <2>4, <3>1, <3>3 DEF LastInv
    <3> QED
      BY <2>3, <3>2, <3>3
  <2>5. presents' # <<>> /\ presents'[Len(presents')].image = active_image_index
    BY <2>2
  <2>6. app' \in {"acquired", "rendered"} => fault' # "none"
    BY <2>1
  <2> QED
    BY <2>1, <2>4, <2>5, <2>6 DEF LastInv
<1>6. CASE ShowNext
  <2>1. PICK k \in DOMAIN presents :
          presents' = <<[presents[k] EXCEPT !.done = TRUE]>> \o SubSeq(presents, k + 1, Len(presents))
    BY <1>6 DEF ShowNext
  <2>2. UNCHANGED <<active_image_index, seen, app, fault>>
    BY <1>6 DEF ShowNext, node
  <2>3. /\ Len(presents) \in Nat /\ DOMAIN presents = 1 .. Len(presents)
        /\ \A j \in DOMAIN presents : presents[j] \in Presented
    BY LenProperties, ElementOfSeq DEF Queues
  <2>4. /\ presents' \in Seq(Presented) /\ Len(presents') = Len(presents) - k + 1
        /\ presents'[1] = [presents[k] EXCEPT !.done = TRUE]
        /\ \A j \in 2 .. Len(presents') : presents'[j] = presents[j + k - 1]
    BY <2>1, ShownPresents DEF Queues
  <2>5. DOMAIN presents' = 1 .. Len(presents')
    BY <2>4, LenProperties
  <2>6. presents'[1].wanted = presents[k].wanted /\ presents'[1].image = presents[k].image
    BY <2>3, <2>4 DEF Presented
  <2>7. \A j \in DOMAIN presents' : /\ j + k - 1 \in DOMAIN presents
                                    /\ presents'[j].wanted = presents[j + k - 1].wanted
                                    /\ presents'[j].image = presents[j + k - 1].image
    <3> SUFFICES ASSUME NEW j \in DOMAIN presents'
                 PROVE  /\ j + k - 1 \in DOMAIN presents
                        /\ presents'[j].wanted = presents[j + k - 1].wanted
                        /\ presents'[j].image = presents[j + k - 1].image
      OBVIOUS
    <3>1. j + k - 1 \in DOMAIN presents
      <4>1. k \in 1 .. Len(presents) /\ Len(presents) \in Nat /\ j \in 1 .. Len(presents) - k + 1
        BY <2>3, <2>4, <2>5
      <4> QED
        BY <2>3, <4>1
    <3>2. CASE j = 1
      BY <2>3, <2>6, <3>2
    <3>3. CASE j # 1
      <4>1. j \in 2 .. Len(presents')
        BY <2>3, <2>4, <2>5, <3>3
      <4> QED
        BY <2>4, <4>1
    <3> QED
      BY <3>1, <3>2, <3>3
  <2>8. ASSUME NEW i \in DOMAIN presents', NEW j \in DOMAIN presents', i < j,
               presents'[i].image = presents'[j].image
        PROVE  presents'[i].wanted # None
    <3>1. i + k - 1 < j + k - 1
      BY <2>3, <2>5, <2>8
    <3> QED
      BY <2>7, <2>8, <3>1 DEF LastInv
  <2>9. /\ Len(presents') \in DOMAIN presents' /\ Len(presents') + k - 1 = Len(presents) /\ presents' # <<>>
    <3>1. Len(presents') \in DOMAIN presents' /\ Len(presents') + k - 1 = Len(presents)
      BY <2>3, <2>4, <2>5
    <3> QED
      BY <3>1, <2>4, EmptySeq
  <2>10. presents'[Len(presents')].image = presents[Len(presents)].image
    BY <2>7, <2>9
  <2> QED
    BY <2>2, <2>7, <2>8, <2>9, <2>10 DEF LastInv
<1>7. CASE OnResize \/ ClearResizeFlag \/ AcquireOutOfDate \/ AcquireSuboptimal \/ AcquireSignalled
  BY <1>1, <1>7 DEF OnResize, ClearResizeFlag, AcquireOutOfDate, AcquireSuboptimal, AcquireSignalled,
                    InternalResize, node, gpu
<1>8. CASE Render \/ WaitForFence \/ ExecuteSubmit \/ UNCHANGED vars
  BY <1>1, <1>8 DEF Render, WaitForFence, ExecuteSubmit, vars, node, gpu
<1> QED
  BY <1>3, <1>4, <1>5, <1>6, <1>7, <1>8 DEF Next, Call

\* A backbuffer starts its frame from the state it was left in (BackendVulkan.cc:262-277), but for
\* image 0 when it is first acquired: with every order in which images come, and however many there are.
THEOREM BeforeStateAlwaysRight == Spec => BeforeStateRight
<1>1. Init => StateInv /\ LastInv
  BY DEF Init, StateInv, LastInv
<1>2. TypeOK /\ StateInv /\ LastInv /\ [Next]_vars
        => [app = "cleared" /\ app' = "acquired" /\ master_state' # layout[active_image_index']
              => active_image_index' = 0 /\ 0 \notin seen]_vars
  <2> SUFFICES ASSUME Registers, Queues, StateInv, LastInv, Next, app = "cleared", app' = "acquired"
               PROVE  \/ master_state' = layout[active_image_index']
                      \/ active_image_index' = 0 /\ 0 \notin seen
    BY TypeParts
  <2>1. \E im \in Backbuffers, k \in DOMAIN presents \union {None} : AcquireBackbuffer(im, k)
    BY DEF Next, Call, OnResize, Resized, Recreate, ClearResizeFlag, AcquireOutOfDate, AcquireSuboptimal,
           AcquireSignalled, InternalResize, Render, Present, PresentOutdated, WaitForFence, ExecuteSubmit,
           ShowNext
  <2>2. PICK im \in Backbuffers, k \in DOMAIN presents \union {None} : AcquireBackbuffer(im, k)
    BY <2>1
  <2>3. active_image_index' = im /\ master_state' = state[im] /\ Acquirable(im, k)
    BY <2>2 DEF AcquireBackbuffer
  <2>4. CASE im = active_image_index
    BY <2>3, <2>4, AcquiresAnother DEF StateInv
  <2>5. CASE im # active_image_index
    BY <2>3, <2>5 DEF StateInv
  <2> QED
    BY <2>4, <2>5
<1> QED
  BY <1>1, <1>2, StateInvInductive, LastInvInductive, TypeCorrect, PTL DEF Spec, BeforeStateRight

-----------------------------------------------------------------------------
(* The semaphores presents wait for                                        *)

\* the presents before this one are executed, the others wait in the queue
Executed == Len(presents) - Len(queue)

QueueLast ==
  /\ Executed >= 0
  /\ \A i \in DOMAIN queue : queue[i] = presents[Executed + i].index
  /\ \A j \in DOMAIN presents : presents[j].done => j <= Executed

\* the indices come in turn, and the next one is the active one's
InTurn ==
  \E t \in Int :
    /\ \A j \in DOMAIN presents : presents[j].index = (t + j) % N
    /\ app # "resizing" /\ fault = "none" => active_fence_index = (t + Len(presents) + 1) % N

\* a semaphore that is signalled is that of a present executed and not yet shown
SignalledUnshown ==
  \A b \in Backbuffers : sem_render_finished[b] = "signalled" =>
    \E j \in DOMAIN presents : j <= Executed /\ ~presents[j].done /\ presents[j].index = b

\* somebody who waits for image j, or a later one, does so with the semaphore of this index
WaitedFor(j, index) == \E l \in DOMAIN presents : l >= j /\ presents[l].wanted = index

\* An image is rendered again once it left the screen: until then the submit waits for it.
ImagesInOrder ==
  /\ \A j, k \in DOMAIN presents : j < k /\ presents[j].image = presents[k].image =>
       k > Executed /\ WaitedFor(j, presents[k].index)
  /\ app \in {"acquired", "rendered"} /\ fault = "none" =>
       \A j \in DOMAIN presents :
         presents[j].image = active_image_index => WaitedFor(j, active_fence_index)

ShowInv == QueueLast /\ InTurn /\ SignalledUnshown /\ ImagesInOrder

LEMMA Turns ==
  /\ \A x \in Int : x % N \in Backbuffers /\ ((x % N) + 1) % N = (x + 1) % N
  /\ \A x, y \in Int : x < y /\ x % N = y % N => y - x >= N
  /\ 0 % N = 0
<1> USE BackbuffersAssumption
<1>1. ASSUME NEW q \in Int, NEW r \in 0 .. N - 1, NEW k \in Int, NEW s \in 0 .. N - 1, N * q + r = N * k + s
      PROVE  r = s
  <2>1. N * (q - k) = s - r
    BY <1>1
  <2>2. q - k >= 1 => N * (q - k) >= N
    OBVIOUS
  <2>3. q - k <= -1 => N * (q - k) <= -N
    OBVIOUS
  <2>4. q = k
    BY <2>1, <2>2, <2>3
  <2> QED
    BY <1>1, <2>4
<1>2. ASSUME NEW x \in Int
      PROVE  x = N * (x \div N) + (x % N) /\ x \div N \in Int /\ x % N \in 0 .. N - 1
  <2>1. x = N * (x \div N) + (x % N)
    OBVIOUS
  <2>2. x \div N \in Int
    OBVIOUS
  <2>3. x % N \in 0 .. N - 1
    OBVIOUS
  <2> QED
    BY <2>1, <2>2, <2>3
<1>3. ASSUME NEW q \in Int, NEW r \in 0 .. N - 1 PROVE (N * q + r) % N = r
  <2>1. PICK x \in Int : x = N * q + r
    OBVIOUS
  <2>2. x = N * (x \div N) + (x % N) /\ x \div N \in Int /\ x % N \in 0 .. N - 1
    BY <1>2
  <2>3. x % N = r
    BY <1>1, <2>1, <2>2
  <2> QED
    BY <2>1, <2>3
<1>4. ASSUME NEW x \in Int PROVE ((x % N) + 1) % N = (x + 1) % N
  <2>1. PICK q \in Int, r \in 0 .. N - 1 : q = x \div N /\ r = x % N /\ x = N * q + r
    BY <1>2
  <2>2. CASE r = N - 1
    <3>1. (x + 1) % N = 0
      <4>1. x + 1 = N * (q + 1) + 0 /\ q + 1 \in Int /\ 0 \in 0 .. N - 1
        BY <2>1, <2>2
      <4> QED
        BY <1>3, <4>1
    <3>2. (r + 1) % N = 0
      <4>1. r + 1 = N * 1 + 0 /\ 0 \in 0 .. N - 1
        BY <2>2
      <4> QED
        BY <1>3, <4>1
    <3> QED
      BY <2>1, <3>1, <3>2
  <2>3. CASE r # N - 1
    <3>1. r + 1 \in 0 .. N - 1 /\ x + 1 = N * q + (r + 1) /\ r + 1 = N * 0 + (r + 1)
      BY <2>1, <2>3
    <3>2. (x + 1) % N = r + 1 /\ (r + 1) % N = r + 1
      BY <1>3, <3>1
    <3> QED
      BY <2>1, <3>2
  <2> QED
    BY <2>2, <2>3
<1>5. ASSUME NEW x \in Int, NEW y \in Int, x < y, x % N = y % N PROVE y - x >= N
  <2>0. PICK q \in Int, r \in 0 .. N - 1 : r = x % N /\ x = N * q + r
    BY <1>2
  <2>1. PICK k \in Int : y = N * k + r
    BY <1>2, <1>5, <2>0
  <2>2. y - x = N * (k - q) /\ k - q \in Int
    BY <2>0, <2>1
  <2>3. k - q >= 1
    <3>1. k - q <= 0 => N * (k - q) <= 0
      OBVIOUS
    <3> QED
      BY <1>5, <2>2, <3>1
  <2>4. N * (k - q) >= N
    BY <2>2, <2>3
  <2> QED
    BY <2>2, <2>4
<1>6. 0 % N = 0
  <2>1. 0 = N * 0 + 0 /\ 0 \in 0 .. N - 1
    OBVIOUS
  <2> QED
    BY <1>3, <2>1
<1> QED
  BY <1>2, <1>4, <1>5, <1>6 DEF Backbuffers

\* of more images than there are backbuffers, two are the same
LEMMA OneRepeated ==
  ASSUME NEW a \in Int, NEW b \in Int, b - a >= N, NEW f \in [a .. b -> Backbuffers]
  PROVE  \E i, j \in a .. b : i < j /\ f[i] = f[j]
<1>1. IsFiniteSet(a .. b) /\ Cardinality(a .. b) = b - a + 1
  <2>1. ~(a > b)
    BY BackbuffersAssumption
  <2> QED
    BY <2>1, FS_Interval
<1>2. IsFiniteSet(Backbuffers) /\ Cardinality(Backbuffers) = N
  <2>1. 0 \in Int /\ N - 1 \in Int /\ ~(0 > N - 1) /\ N - 1 - 0 + 1 = N
    BY BackbuffersAssumption
  <2> QED
    BY <2>1, FS_Interval DEF Backbuffers
<1>3. Cardinality(Backbuffers) < Cardinality(a .. b)
  BY <1>1, <1>2, BackbuffersAssumption
<1>4. PICK i \in a .. b, j \in a .. b : i # j /\ f[i] = f[j]
  BY <1>1, <1>2, <1>3, FS_PigeonHole
<1> QED
  BY <1>4

LEMMA Presentation ==
  ASSUME Queues
  PROVE  /\ Len(presents) \in Nat /\ DOMAIN presents = 1 .. Len(presents)
         /\ Len(queue) \in Nat /\ DOMAIN queue = 1 .. Len(queue)
         /\ Executed \in Int /\ Len(presents) = Executed + Len(queue)
         /\ \A j \in DOMAIN presents : presents[j] \in Presented
         /\ \A i \in DOMAIN queue : queue[i] \in Backbuffers
<1>1. Len(presents) \in Nat /\ DOMAIN presents = 1 .. Len(presents)
  BY LenProperties DEF Queues
<1>2. Len(queue) \in Nat /\ DOMAIN queue = 1 .. Len(queue)
  BY LenProperties DEF Queues
<1>3. Executed \in Int /\ Len(presents) = Executed + Len(queue)
  BY <1>1, <1>2 DEF Executed
<1>4. \A j \in DOMAIN presents : presents[j] \in Presented
  BY <1>1, ElementOfSeq DEF Queues
<1>5. \A i \in DOMAIN queue : queue[i] \in Backbuffers
  BY <1>2, ElementOfSeq DEF Queues
<1> QED
  BY <1>1, <1>2, <1>3, <1>4, <1>5

\* the head of the queue is the first present that is not executed
LEMMA HeadOfQueue ==
  ASSUME Queues, QueueLast, queue # <<>>
  PROVE  /\ Executed + 1 \in DOMAIN presents
         /\ Head(queue) = presents[Executed + 1].index /\ Head(queue) \in Backbuffers
<1>1. 1 \in DOMAIN queue /\ Head(queue) = queue[1]
  BY EmptySeq, Presentation DEF Queues
<1>2. Executed + 1 \in 1 .. Len(presents)
  BY <1>1, Presentation DEF QueueLast
<1> QED
  BY <1>1, <1>2, Presentation DEF QueueLast

\* A present whose image is on its way finds the semaphore of the one N presents before shown.
LEMMA HeadUnsignalled ==
  ASSUME Queues, WantedInv, ShowInv, queue # <<>>, sem_image_available[Head(queue)] = "signalled",
         sem_render_finished[Head(queue)] = "signalled"
  PROVE  FALSE
<1> USE Presentation
<1> DEFINE last == Executed + 1
<1>1. last \in DOMAIN presents /\ Head(queue) = presents[last].index /\ Head(queue) \in Backbuffers
  BY HeadOfQueue DEF ShowInv
<1>2. PICK first \in DOMAIN presents : first <= Executed /\ presents[first].index = Head(queue)
  BY <1>1 DEF ShowInv, SignalledUnshown
<1>3. first \in Int /\ last \in Int /\ first < last
  BY <1>1, <1>2
<1>4. last - first >= N
  <2>1. PICK t \in Int : \A j \in DOMAIN presents : presents[j].index = (t + j) % N
    BY DEF ShowInv, InTurn
  <2>2. (t + first) % N = (t + last) % N
    BY <1>1, <1>2, <2>1
  <2>3. t + first \in Int /\ t + last \in Int /\ t + first < t + last
    BY <1>3
  <2>4. (t + last) - (t + first) >= N
    BY <2>2, <2>3, Turns
  <2> QED
    BY <1>3, <2>4
<1>5. ASSUME NEW i \in first .. last, NEW j \in first .. last, i < j PROVE presents[i].image # presents[j].image
  <2>1. i \in DOMAIN presents /\ j \in DOMAIN presents
    BY <1>1, <1>2, <1>3
  <2>2. CASE j # last
    <3>1. ~(j > Executed)
      BY <1>3, <2>2
    <3> QED
      BY <1>5, <2>1, <3>1 DEF ShowInv, ImagesInOrder
  <2>3. CASE j = last
    <3>1. SUFFICES ASSUME WaitedFor(i, Head(queue)) PROVE FALSE
      BY <1>1, <1>5, <2>1, <2>3 DEF ShowInv, ImagesInOrder
    <3>2. PICK l \in DOMAIN presents : presents[l].wanted = Head(queue)
      BY <3>1 DEF WaitedFor
    <3> QED
      BY <1>1, <3>2, Indices DEF WantedInv
  <2> QED
    BY <2>2, <2>3
<1> DEFINE imageOf == [i \in first .. last |-> presents[i].image]
<1>6. imageOf \in [first .. last -> Backbuffers]
  <2>1. \A i \in first .. last : i \in DOMAIN presents
    BY <1>1, <1>2, <1>3
  <2>2. \A i \in first .. last : presents[i].image \in Backbuffers
    BY <2>1 DEF Presented
  <2> QED
    BY <2>2
<1> HIDE DEF last, imageOf
<1>7. \E i, j \in first .. last : i < j /\ imageOf[i] = imageOf[j]
  BY <1>3, <1>4, <1>6, OneRepeated
<1>8. PICK i \in first .. last, j \in first .. last : i < j /\ presents[i].image = presents[j].image
  BY <1>7 DEF imageOf
<1> QED
  BY <1>5, <1>8

LEMMA KeptStill ==
  ASSUME ShowInv, UNCHANGED <<queue, presents, sem_render_finished, active_fence_index, active_image_index>>,
         fault' = "none" => fault = "none", app' # "resizing" /\ fault' = "none" => app # "resizing",
         app' \in {"acquired", "rendered"} => app \in {"acquired", "rendered"}
  PROVE  ShowInv'
<1>1. Executed' = Executed
  BY DEF Executed
<1>2. QueueLast' /\ SignalledUnshown'
  BY <1>1 DEF ShowInv, QueueLast, SignalledUnshown
<1>3. InTurn'
  BY DEF ShowInv, InTurn
<1>4. ImagesInOrder'
  BY <1>1 DEF ShowInv, ImagesInOrder, WaitedFor
<1> QED
  BY <1>2, <1>3, <1>4 DEF ShowInv

\* An idle device has shown all it was asked to, and nobody waits for anything.
LEMMA KeptEmptied ==
  ASSUME TypeOK, ShowInv, Idle, SetupSwapchain, UNCHANGED queue, app' = "top",
         \/ UNCHANGED sem_render_finished
         \/ sem_render_finished' = [b \in Backbuffers |-> "unsignalled"]
  PROVE  ShowInv'
<1>1. queue = <<>> /\ queue' = <<>> /\ presents' = <<>> /\ active_fence_index' = 0
  BY DEF Idle, SetupSwapchain, SetupIndices
<1>2. DOMAIN queue' = {} /\ DOMAIN presents' = {} /\ Executed' = 0 /\ Len(presents') = 0
  BY <1>1 DEF Executed
<1>3. QueueLast'
  BY <1>2 DEF QueueLast
<1>4. InTurn'
  <2>1. 0 = (-1 + Len(presents') + 1) % N
    BY <1>2, Turns
  <2> QED
    BY <1>1, <1>2, <2>1 DEF InTurn
<1>5. SignalledUnshown'
  <2>1. \A b \in Backbuffers : sem_render_finished[b] # "signalled"
    BY DEF ShowInv, SignalledUnshown, Idle
  <2>2. \A b \in Backbuffers : sem_render_finished'[b] # "signalled"
    BY <2>1
  <2> QED
    BY <2>2 DEF SignalledUnshown
<1>6. ImagesInOrder'
  BY <1>2, Zenon DEF ImagesInOrder
<1> QED
  BY <1>3, <1>4, <1>5, <1>6 DEF ShowInv

LEMMA KeptSubmitted ==
  ASSUME TypeOK, ShowInv, Submitted, app = "rendered", fault = "none",
         UNCHANGED <<sem_render_finished, active_image_index>>, app' \notin {"acquired", "rendered"} \/ fault' # "none",
         \/ active_fence_index' = NextFence
         \/ app' = "resizing" \/ fault' # "none"
  PROVE  ShowInv'
<1> DEFINE n == Len(presents) + 1
<1>1. Queues
  BY TypeParts
<1>2. /\ Len(presents) \in Nat /\ DOMAIN presents = 1 .. Len(presents)
      /\ Len(queue) \in Nat /\ DOMAIN queue = 1 .. Len(queue)
      /\ Executed \in Int /\ Len(presents) = Executed + Len(queue)
  BY <1>1, Presentation
<1>3. /\ Queues'
      /\ Len(queue') = Len(queue) + 1 /\ queue'[Len(queue) + 1] = active_fence_index
      /\ \A j \in 1 .. Len(queue) : queue'[j] = queue[j]
      /\ Len(presents') = n
      /\ presents'[n] = [image |-> active_image_index, index |-> active_fence_index, done |-> FALSE, wanted |-> None]
      /\ \A j \in 1 .. Len(presents) : presents'[j] = presents[j]
  BY <1>1, TypeParts, SubmittedQueues
<1>4. DOMAIN presents' = 1 .. n /\ DOMAIN queue' = 1 .. Len(queue')
  BY <1>3, LenProperties DEF Queues
<1>5. Executed' = Executed /\ n = Executed + Len(queue) + 1
  BY <1>2, <1>3 DEF Executed
<1>6. /\ presents'[n].image = active_image_index /\ presents'[n].index = active_fence_index
      /\ ~presents'[n].done /\ presents'[n].wanted = None
  BY <1>3
<1>7. /\ n \in DOMAIN presents' /\ n \notin DOMAIN presents
      /\ \A j \in DOMAIN presents' : (j \in DOMAIN presents /\ presents'[j] = presents[j]) \/ j = n
      /\ \A j \in DOMAIN presents : j \in DOMAIN presents' /\ presents'[j] = presents[j]
  BY <1>2, <1>3, <1>4
<1> HIDE DEF n
<1>8. QueueLast'
  <2>1. ASSUME NEW i \in DOMAIN queue' PROVE queue'[i] = presents'[Executed + i].index
    <3>1. CASE i = Len(queue) + 1
      BY <1>3, <1>5, <1>6, <3>1, <1>2
    <3>2. CASE i # Len(queue) + 1
      <4>1. i \in DOMAIN queue /\ Executed + i \in DOMAIN presents
        BY <1>2, <1>3, <1>4, <3>2 DEF ShowInv, QueueLast
      <4> QED
        BY <1>2, <1>3, <1>7, <4>1 DEF ShowInv, QueueLast
    <3> QED
      BY <3>1, <3>2
  <2>2. ASSUME NEW j \in DOMAIN presents', presents'[j].done PROVE j <= Executed
    BY <1>6, <1>7, <2>2 DEF ShowInv, QueueLast
  <2> QED
    BY <1>5, <2>1, <2>2 DEF ShowInv, QueueLast
<1>9. InTurn'
  <2>1. PICK t \in Int :
          /\ \A j \in DOMAIN presents : presents[j].index = (t + j) % N
          /\ active_fence_index = (t + Len(presents) + 1) % N
    BY DEF ShowInv, InTurn
  <2>2. \A j \in DOMAIN presents' : presents'[j].index = (t + j) % N
    <3>1. t + n = t + Len(presents) + 1
      BY <1>2 DEF n
    <3> QED
      BY <1>6, <1>7, <2>1, <3>1
  <2>3. NextFence = (t + Len(presents') + 1) % N
    <3>1. t + Len(presents) + 1 \in Int /\ (t + Len(presents) + 1) + 1 = t + Len(presents') + 1
      BY <1>2, <1>3 DEF n
    <3>2. (((t + Len(presents) + 1) % N) + 1) % N = ((t + Len(presents) + 1) + 1) % N
      BY <3>1, Turns
    <3> QED
      BY <2>1, <3>1, <3>2 DEF NextFence
  <2>4. app' # "resizing" /\ fault' = "none" => active_fence_index' = (t + Len(presents') + 1) % N
    BY <2>3
  <2> QED
    BY <2>2, <2>4 DEF InTurn
<1>10. SignalledUnshown'
  BY <1>5, <1>7 DEF ShowInv, SignalledUnshown
<1>11. ImagesInOrder'
  <2>1. ASSUME NEW j \in DOMAIN presents, NEW b, WaitedFor(j, b) PROVE WaitedFor(j, b)'
    BY <1>7, <2>1 DEF WaitedFor
  <2>2. ASSUME NEW j \in DOMAIN presents', NEW k \in DOMAIN presents', j < k,
               presents'[j].image = presents'[k].image
        PROVE  k > Executed' /\ WaitedFor(j, presents[k].index)'
    <3>1. CASE k = n
      <4>1. j \in DOMAIN presents /\ presents[j].image = active_image_index
        <5>1. n \in Int /\ j \in Int /\ j # n
          BY <1>2, <1>4, <2>2, <3>1 DEF n
        <5> QED
          BY <1>6, <1>7, <2>2, <3>1, <5>1
      <4>2. WaitedFor(j, active_fence_index)
        BY <4>1 DEF ShowInv, ImagesInOrder
      <4>3. \E l \in DOMAIN presents' : l >= j /\ presents'[l].wanted = active_fence_index
        BY <1>7, <4>1, <4>2 DEF WaitedFor
      <4>4. n > Executed
        BY <1>2, <1>5
      <4> QED
        BY <1>5, <1>6, <3>1, <4>3, <4>4 DEF WaitedFor
    <3>2. CASE k # n
      <4>1. k \in DOMAIN presents /\ j \in DOMAIN presents /\ presents'[k] = presents[k] /\ presents'[j] = presents[j]
        BY <1>2, <1>4, <1>7, <2>2, <3>2 DEF n
      <4>2. k > Executed /\ WaitedFor(j, presents[k].index)
        BY <2>2, <4>1 DEF ShowInv, ImagesInOrder
      <4> QED
        BY <1>5, <1>7, <4>1, <4>2 DEF WaitedFor
    <3> QED
      BY <3>1, <3>2
  <2> QED
    BY <2>2 DEF ImagesInOrder
<1> QED
  BY <1>8, <1>9, <1>10, <1>11 DEF ShowInv

LEMMA KeptExecuted ==
  ASSUME TypeOK, WantedInv, ShowInv, ExecuteSubmit
  PROVE  ShowInv'
<1> DEFINE next == Executed + 1
<1>1. Queues /\ PerBackbuffer
  BY TypeParts
<1>2. /\ Len(presents) \in Nat /\ DOMAIN presents = 1 .. Len(presents)
      /\ Len(queue) \in Nat /\ DOMAIN queue = 1 .. Len(queue)
      /\ Executed \in Int /\ Len(presents) = Executed + Len(queue)
  BY <1>1, Presentation
<1>3. /\ queue # <<>> /\ queue' = Tail(queue) /\ presents' = presents
      /\ sem_image_available[Head(queue)] = "signalled"
      /\ sem_render_finished' = [sem_render_finished EXCEPT ![Head(queue)] = "signalled"]
      /\ UNCHANGED <<active_fence_index, active_image_index, app, fault>>
  BY DEF ExecuteSubmit, node
<1>4. next \in DOMAIN presents /\ Head(queue) = presents[next].index /\ Head(queue) \in Backbuffers
  BY <1>1, <1>3, HeadOfQueue DEF ShowInv
<1>5. /\ Len(queue') = Len(queue) - 1 /\ DOMAIN queue' = 1 .. Len(queue')
      /\ \A i \in 1 .. Len(queue') : queue'[i] = queue[i + 1]
  BY <1>1, <1>3, HeadTailProperties, LenProperties DEF Queues
<1>6. Executed' = next
  BY <1>2, <1>3, <1>5 DEF Executed
<1>7. QueueLast'
  <2>1. ASSUME NEW i \in DOMAIN queue' PROVE queue'[i] = presents[next + i].index
    <3>1. i \in 1 .. Len(queue) - 1
      BY <1>5
    <3>2. queue'[i] = queue[i + 1]
      BY <1>5
    <3>3. i + 1 \in DOMAIN queue
      BY <1>2, <3>1
    <3>4. Executed + (i + 1) = next + i
      BY <1>2, <3>1
    <3> HIDE DEF next
    <3> QED
      BY <3>2, <3>3, <3>4 DEF ShowInv, QueueLast
  <2>2. \A j \in DOMAIN presents : presents[j].done => j <= next
    BY <1>2 DEF ShowInv, QueueLast
  <2>3. next >= 0
    BY <1>2 DEF ShowInv, QueueLast
  <2> HIDE DEF next
  <2> QED
    BY <1>3, <1>6, <2>1, <2>2, <2>3 DEF QueueLast
<1>8. InTurn'
  BY <1>3 DEF ShowInv, InTurn
<1>9. SignalledUnshown'
  <2>1. ~presents[next].done
    BY <1>2, <1>4 DEF ShowInv, QueueLast
  <2>2. ASSUME NEW b \in Backbuffers, sem_render_finished'[b] = "signalled"
        PROVE  \E j \in DOMAIN presents : j <= next /\ ~presents[j].done /\ presents[j].index = b
    <3>1. CASE b = Head(queue)
      BY <1>2, <1>4, <2>1, <3>1
    <3>2. CASE b # Head(queue)
      <4>1. sem_render_finished[b] = "signalled"
        BY <1>1, <1>3, <2>2, <3>2 DEF PerBackbuffer
      <4>2. PICK j \in DOMAIN presents : j <= Executed /\ ~presents[j].done /\ presents[j].index = b
        BY <4>1 DEF ShowInv, SignalledUnshown
      <4> QED
        BY <1>2, <4>2
    <3> QED
      BY <3>1, <3>2
  <2> HIDE DEF next
  <2> QED
    BY <1>3, <1>6, <2>2 DEF SignalledUnshown
<1>10. ImagesInOrder'
  <2>1. \A j : ~WaitedFor(j, Head(queue))
    BY <1>3, <1>4, Indices DEF WantedInv, WaitedFor
  <2>2. ASSUME NEW j \in DOMAIN presents, NEW k \in DOMAIN presents, j < k, presents[j].image = presents[k].image
        PROVE  k > next /\ WaitedFor(j, presents[k].index)
    <3>1. k > Executed /\ WaitedFor(j, presents[k].index)
      BY <2>2 DEF ShowInv, ImagesInOrder
    <3>2. k # next
      BY <1>4, <2>1, <3>1
    <3> QED
      BY <1>2, <3>1, <3>2
  <2> HIDE DEF next
  <2> QED
    BY <1>3, <1>6, <2>2 DEF ShowInv, ImagesInOrder, WaitedFor
<1> QED
  BY <1>7, <1>8, <1>9, <1>10 DEF ShowInv

LEMMA KeptAcquired ==
  ASSUME TypeOK, LastInv, ShowInv, app = "cleared", fault = "none",
         NEW im \in Backbuffers, NEW k \in DOMAIN presents \union {None}, AcquireBackbuffer(im, k)
  PROVE  ShowInv'
<1>1. Queues /\ Registers
  BY TypeParts
<1>2. /\ Len(presents) \in Nat /\ DOMAIN presents = 1 .. Len(presents)
      /\ \A j \in DOMAIN presents : presents[j] \in Presented
  BY <1>1, Presentation
<1>3. /\ presents' = Wanted(presents, k, active_fence_index) /\ active_fence_index \in Backbuffers
      /\ active_image_index' = im /\ Acquirable(im, k)
      /\ UNCHANGED <<queue, sem_render_finished, active_fence_index, fault>> /\ app' = "acquired"
  BY <1>1 DEF AcquireBackbuffer, Wanted, Registers
<1>4. /\ Len(presents') = Len(presents) /\ DOMAIN presents' = DOMAIN presents
      /\ \A j \in DOMAIN presents :
           /\ presents'[j].image = presents[j].image /\ presents'[j].index = presents[j].index
           /\ presents'[j].done = presents[j].done
           /\ presents'[j].wanted = IF j = k THEN active_fence_index ELSE presents[j].wanted
  BY <1>1, <1>3, WantedPresents DEF Queues
<1>5. Executed' = Executed
  BY <1>3, <1>4 DEF Executed
<1>6. QueueLast'
  <2>1. \A i \in DOMAIN queue : Executed + i \in DOMAIN presents
    <3>1. /\ DOMAIN queue = 1 .. Len(queue) /\ Executed \in Int /\ Len(queue) \in Nat
          /\ Len(presents) = Executed + Len(queue)
      BY <1>1, Presentation
    <3> QED
      BY <1>2, <3>1 DEF ShowInv, QueueLast
  <2> QED
    BY <1>3, <1>4, <1>5, <2>1 DEF ShowInv, QueueLast
<1>7. InTurn'
  <2>1. PICK t \in Int :
          /\ \A j \in DOMAIN presents : presents[j].index = (t + j) % N
          /\ active_fence_index = (t + Len(presents) + 1) % N
    BY DEF ShowInv, InTurn
  <2>2. /\ \A j \in DOMAIN presents' : presents'[j].index = (t + j) % N
        /\ active_fence_index' = (t + Len(presents') + 1) % N
    BY <1>3, <1>4, <2>1
  <2> QED
    BY <2>2 DEF InTurn
<1>8. SignalledUnshown'
  BY <1>3, <1>4, <1>5 DEF ShowInv, SignalledUnshown
<1>9. ASSUME NEW j, NEW b \in Backbuffers, WaitedFor(j, b)
      PROVE  \E l \in DOMAIN presents' : l >= j /\ presents'[l].wanted = b
  <2>1. PICK l \in DOMAIN presents : l >= j /\ presents[l].wanted = b
    BY <1>9 DEF WaitedFor
  <2>2. l # k
    <3>1. l # None
      BY <1>2 DEF None
    <3>2. k # None => presents[k].wanted = None
      BY <1>3 DEF Acquirable
    <3> QED
      BY <2>1, <3>1, <3>2, Indices
  <2> QED
    BY <1>4, <2>1, <2>2
<1>10. ASSUME NEW j \in DOMAIN presents, presents[j].image = im
       PROVE  \E l \in DOMAIN presents' : l >= j /\ presents'[l].wanted = active_fence_index
  <2>1. k \in DOMAIN presents /\ presents[k].image = im /\ presents[k].wanted = None
    BY <1>3, <1>10 DEF Acquirable
  <2>2. ~(k < j)
    BY <1>10, <2>1 DEF LastInv
  <2>3. k >= j
    BY <1>2, <2>1, <2>2
  <2> QED
    BY <1>4, <2>1, <2>3
<1>11. ImagesInOrder'
  <2>1. ASSUME NEW i \in DOMAIN presents', NEW j \in DOMAIN presents', i < j,
               presents'[i].image = presents'[j].image
        PROVE  j > Executed' /\ \E l \in DOMAIN presents' : l >= i /\ presents'[l].wanted = presents'[j].index
    <3>1. i \in DOMAIN presents /\ j \in DOMAIN presents /\ presents[i].image = presents[j].image
      BY <1>4, <2>1
    <3>2. j > Executed /\ WaitedFor(i, presents[j].index)
      BY <2>1, <3>1 DEF ShowInv, ImagesInOrder
    <3>3. presents[j].index \in Backbuffers /\ presents'[j].index = presents[j].index
      BY <1>2, <1>4, <3>1 DEF Presented
    <3> QED
      BY <1>5, <1>9, <3>2, <3>3
  <2>2. ASSUME NEW j \in DOMAIN presents', presents'[j].image = active_image_index'
        PROVE  \E l \in DOMAIN presents' : l >= j /\ presents'[l].wanted = active_fence_index'
    BY <1>3, <1>4, <1>10, <2>2
  <2> QED
    BY <2>1, <2>2 DEF ImagesInOrder, WaitedFor
<1> QED
  BY <1>6, <1>7, <1>8, <1>11 DEF ShowInv

\* What comes to the screen is executed, and the first image that did not.  Image j of what is left
\* is image j + k - 1 of what there was.
LEMMA ShownNext ==
  ASSUME TypeOK, ShowInv, ShowNext
  PROVE  \E k \in DOMAIN presents :
           /\ k \in 1 .. Len(presents) /\ k <= Executed
           /\ ~presents[k].done /\ \A j \in 1 .. k - 1 : presents[j].done
           /\ sem_render_finished' = [sem_render_finished EXCEPT ![presents[k].index] = "unsignalled"]
           /\ sem_image_available' =
                [b \in Backbuffers |-> IF \E j \in 1 .. k - 1 : presents[j].wanted = b
                                       THEN "signalled" ELSE sem_image_available[b]]
           /\ Len(presents') = Len(presents) - k + 1
           /\ DOMAIN presents' = 1 .. Len(presents) - k + 1
           /\ Executed' = Executed - k + 1 /\ Executed' \in Int
           /\ \A j \in DOMAIN presents' :
                /\ j + k - 1 \in DOMAIN presents /\ j + k - 1 >= k
                /\ presents'[j].image = presents[j + k - 1].image
                /\ presents'[j].index = presents[j + k - 1].index
                /\ presents'[j].wanted = presents[j + k - 1].wanted
                /\ presents'[j].done <=> j = 1 \/ presents[j + k - 1].done
<1>1. Queues /\ PerBackbuffer
  BY TypeParts
<1>2. /\ Len(presents) \in Nat /\ DOMAIN presents = 1 .. Len(presents)
      /\ Len(queue) \in Nat /\ DOMAIN queue = 1 .. Len(queue)
      /\ Executed \in Int /\ Len(presents) = Executed + Len(queue)
      /\ \A j \in DOMAIN presents : presents[j] \in Presented
  BY <1>1, Presentation
<1>3. PICK k \in DOMAIN presents :
        /\ ~presents[k].done /\ \A j \in 1 .. k - 1 : presents[j].done
        /\ sem_render_finished[presents[k].index] = "signalled"
        /\ sem_render_finished' = [sem_render_finished EXCEPT ![presents[k].index] = "unsignalled"]
        /\ sem_image_available' =
             [b \in Backbuffers |-> IF \E j \in 1 .. k - 1 : presents[j].wanted = b
                                    THEN "signalled" ELSE sem_image_available[b]]
        /\ presents' = <<[presents[k] EXCEPT !.done = TRUE]>> \o SubSeq(presents, k + 1, Len(presents))
  BY DEF ShowNext
<1>4. queue' = queue
  BY DEF ShowNext
<1>5. k \in 1 .. Len(presents)
  BY <1>2
<1>6. /\ presents' \in Seq(Presented) /\ Len(presents') = Len(presents) - k + 1
      /\ presents'[1] = [presents[k] EXCEPT !.done = TRUE]
      /\ \A j \in 2 .. Len(presents') : presents'[j] = presents[j + k - 1]
  <2>1. presents' = <<[presents[k] EXCEPT !.done = TRUE]>> \o SubSeq(presents, k + 1, Len(presents))
    BY <1>3
  <2>2. presents \in Seq(Presented)
    BY <1>1 DEF Queues
  <2> QED
    BY <2>1, <2>2, ShownPresents
<1>7. DOMAIN presents' = 1 .. Len(presents) - k + 1
  BY <1>6, LenProperties
<1> DEFINE Was(j) == j + k - 1
<1>8. ASSUME NEW j \in DOMAIN presents'
      PROVE  /\ Was(j) \in DOMAIN presents /\ Was(j) >= k
             /\ presents'[j].image = presents[Was(j)].image /\ presents'[j].index = presents[Was(j)].index
             /\ presents'[j].wanted = presents[Was(j)].wanted
             /\ presents'[j].done <=> j = 1 \/ presents[Was(j)].done
  <2>1. j \in Int /\ j >= 1 /\ j <= Len(presents) - k + 1
    BY <1>2, <1>5, <1>7
  <2>2. Was(j) \in DOMAIN presents /\ Was(j) >= k
    BY <1>2, <1>5, <2>1
  <2>3. CASE j = 1
    <3>1. Was(j) = k
      BY <1>5, <2>3
    <3>2. presents[k] \in Presented
      BY <1>2
    <3> HIDE DEF Was
    <3> QED
      BY <1>6, <2>2, <2>3, <3>1, <3>2 DEF Presented
  <2>4. CASE j # 1
    <3>1. j \in 2 .. Len(presents')
      BY <1>6, <2>1, <2>4
    <3>2. presents'[j] = presents[Was(j)]
      BY <1>6, <3>1
    <3> HIDE DEF Was
    <3> QED
      BY <2>2, <2>4, <3>2
  <2> QED
    BY <2>3, <2>4
<1>9. k <= Executed
  <2>1. presents[k].index \in Backbuffers
    BY <1>2 DEF Presented
  <2>2. PICK j \in DOMAIN presents : j <= Executed /\ ~presents[j].done
    BY <1>3, <2>1 DEF ShowInv, SignalledUnshown
  <2>3. ~(j < k)
    BY <1>2, <1>3, <1>5, <2>2
  <2> QED
    BY <1>2, <1>5, <2>2, <2>3
<1>10. Executed' = Executed - k + 1 /\ Executed' \in Int
  <2>1. Executed' = Len(presents') - Len(queue)
    BY <1>4 DEF Executed
  <2>2. Executed' = (Len(presents) - k + 1) - Len(queue)
    BY <1>6, <2>1
  <2> QED
    BY <1>2, <1>5, <2>2
<1> QED
  BY <1>3, <1>5, <1>6, <1>7, <1>8, <1>9, <1>10

LEMMA KeptShown ==
  ASSUME TypeOK, ShowInv, ShowNext
  PROVE  ShowInv'
<1>1. Queues /\ PerBackbuffer
  BY TypeParts
<1>2. /\ Len(presents) \in Nat /\ DOMAIN presents = 1 .. Len(presents)
      /\ Len(queue) \in Nat /\ DOMAIN queue = 1 .. Len(queue)
      /\ Executed \in Int /\ Len(presents) = Executed + Len(queue)
      /\ \A j \in DOMAIN presents : presents[j] \in Presented
  BY <1>1, Presentation
<1>3. PICK k \in DOMAIN presents :
        /\ k \in 1 .. Len(presents) /\ k <= Executed
        /\ ~presents[k].done /\ \A j \in 1 .. k - 1 : presents[j].done
        /\ sem_render_finished' = [sem_render_finished EXCEPT ![presents[k].index] = "unsignalled"]
        /\ Len(presents') = Len(presents) - k + 1
        /\ DOMAIN presents' = 1 .. Len(presents) - k + 1
        /\ Executed' = Executed - k + 1 /\ Executed' \in Int
        /\ \A j \in DOMAIN presents' :
             /\ j + k - 1 \in DOMAIN presents /\ j + k - 1 >= k
             /\ presents'[j].image = presents[j + k - 1].image
             /\ presents'[j].index = presents[j + k - 1].index
             /\ presents'[j].wanted = presents[j + k - 1].wanted
             /\ presents'[j].done <=> j = 1 \/ presents[j + k - 1].done
  BY ShownNext
<1>4. UNCHANGED <<queue, app, fault, active_fence_index, active_image_index>>
  BY DEF ShowNext, node
<1>5. k \in 1 .. Len(presents)
  BY <1>3
<1>6. Len(presents') = Len(presents) - k + 1
  BY <1>3
<1>7. DOMAIN presents' = 1 .. Len(presents) - k + 1
  BY <1>3
\* where image j of what is left was before
<1> DEFINE Was(j) == j + k - 1
<1>8. ASSUME NEW j \in DOMAIN presents'
      PROVE  /\ Was(j) \in DOMAIN presents /\ Was(j) >= k
             /\ presents'[j].image = presents[Was(j)].image /\ presents'[j].index = presents[Was(j)].index
             /\ presents'[j].wanted = presents[Was(j)].wanted
             /\ presents'[j].done <=> j = 1 \/ presents[Was(j)].done
  BY <1>3
<1>9. ASSUME NEW l \in DOMAIN presents, l >= k
      PROVE  l - k + 1 \in DOMAIN presents' /\ Was(l - k + 1) = l
  <2>1. l \in Int /\ l <= Len(presents)
    BY <1>2
  <2>2. l - k + 1 \in 1 .. Len(presents) - k + 1
    BY <1>2, <1>5, <1>9, <2>1
  <2>3. Was(l - k + 1) = l
    BY <1>5, <2>1
  <2> QED
    BY <1>7, <2>2, <2>3
<1>10. k <= Executed
  BY <1>3
<1>11. Executed' = Executed - k + 1 /\ Executed' \in Int
  BY <1>3
<1>12. QueueLast'
  <2>1. Executed' >= 0
    BY <1>2, <1>5, <1>10, <1>11
  <2>2. ASSUME NEW i \in DOMAIN queue PROVE queue[i] = presents'[Executed' + i].index
    <3>1. i \in Int /\ i >= 1 /\ i <= Len(queue)
      BY <1>2
    <3>2. Executed + i \in DOMAIN presents /\ Executed + i >= k
      BY <1>2, <1>5, <1>10, <3>1 DEF ShowInv, QueueLast
    <3>3. Executed' + i = (Executed + i) - k + 1
      BY <1>2, <1>5, <1>11, <3>1
    <3>4. Executed' + i \in DOMAIN presents' /\ Was(Executed' + i) = Executed + i
      BY <1>9, <3>2, <3>3
    <3> HIDE DEF Was
    <3>5. presents'[Executed' + i].index = presents[Executed + i].index
      BY <1>8, <3>4
    <3> QED
      BY <3>5 DEF ShowInv, QueueLast
  <2>3. ASSUME NEW j \in DOMAIN presents', presents'[j].done PROVE j <= Executed'
    <3>1. j = 1 \/ (Was(j) \in DOMAIN presents /\ presents[Was(j)].done)
      BY <1>8, <2>3
    <3>2. j \in Int
      BY <1>7
    <3>3. CASE j = 1
      BY <1>2, <1>5, <1>10, <1>11, <3>3
    <3>4. CASE Was(j) \in DOMAIN presents /\ presents[Was(j)].done
      <4>1. Was(j) <= Executed
        BY <3>4 DEF ShowInv, QueueLast
      <4> QED
        BY <1>2, <1>5, <1>11, <3>2, <4>1
    <3> QED
      BY <3>1, <3>3, <3>4
  <2> QED
    BY <1>4, <2>1, <2>2, <2>3 DEF QueueLast
<1>13. InTurn'
  <2>1. PICK t \in Int :
          /\ \A j \in DOMAIN presents : presents[j].index = (t + j) % N
          /\ app # "resizing" /\ fault = "none" => active_fence_index = (t + Len(presents) + 1) % N
    BY DEF ShowInv, InTurn
  <2>2. PICK u \in Int : u = t + k - 1
    BY <1>5
  <2>3. ASSUME NEW j \in DOMAIN presents' PROVE presents'[j].index = (u + j) % N
    <3>1. u + j = t + Was(j)
      BY <1>5, <1>7, <2>2
    <3> HIDE DEF Was
    <3> QED
      BY <1>8, <2>1, <3>1
  <2>4. u + Len(presents') + 1 = t + Len(presents) + 1
    BY <1>2, <1>5, <1>6, <2>2
  <2> QED
    BY <1>4, <2>1, <2>3, <2>4 DEF InTurn
<1>14. SignalledUnshown'
  <2>1. ASSUME NEW b \in Backbuffers, sem_render_finished'[b] = "signalled"
        PROVE  \E j \in DOMAIN presents' : j <= Executed' /\ ~presents'[j].done /\ presents'[j].index = b
    <3>1. b # presents[k].index /\ sem_render_finished[b] = "signalled"
      BY <1>1, <1>3, <2>1 DEF PerBackbuffer
    <3>2. PICK l \in DOMAIN presents : l <= Executed /\ ~presents[l].done /\ presents[l].index = b
      BY <3>1 DEF ShowInv, SignalledUnshown
    <3>3. l \in Int /\ l > k
      <4>1. l # k /\ l \in Int /\ l >= 1
        BY <1>2, <3>1, <3>2
      <4>2. ~(l < k)
        BY <1>3, <1>5, <3>2, <4>1
      <4> QED
        BY <1>5, <4>1, <4>2
    <3>4. PICK j \in DOMAIN presents' : j = l - k + 1 /\ Was(j) = l
      BY <1>5, <1>9, <3>3
    <3>5. j <= Executed' /\ j # 1
      BY <1>2, <1>5, <1>11, <3>2, <3>3, <3>4
    <3> HIDE DEF Was
    <3> QED
      BY <1>8, <3>2, <3>4, <3>5
  <2> QED
    BY <2>1 DEF SignalledUnshown
<1>15. ASSUME NEW j \in DOMAIN presents', NEW b, WaitedFor(Was(j), b)
       PROVE  \E l \in DOMAIN presents' : l >= j /\ presents'[l].wanted = b
  <2>1. PICK m \in DOMAIN presents : m >= Was(j) /\ presents[m].wanted = b
    BY <1>15 DEF WaitedFor
  <2>2. Was(j) >= k /\ j \in Int /\ m \in Int
    BY <1>2, <1>7, <1>8
  <2>3. m >= k
    BY <1>5, <2>1, <2>2
  <2>4. PICK l \in DOMAIN presents' : l = m - k + 1 /\ Was(l) = m
    BY <1>9, <2>3
  <2>5. l >= j
    BY <1>5, <2>1, <2>2, <2>4
  <2> HIDE DEF Was
  <2> QED
    BY <1>8, <2>1, <2>4, <2>5
<1>16. ImagesInOrder'
  <2>1. ASSUME NEW i \in DOMAIN presents', NEW j \in DOMAIN presents', i < j,
               presents'[i].image = presents'[j].image
        PROVE  j > Executed' /\ \E l \in DOMAIN presents' : l >= i /\ presents'[l].wanted = presents'[j].index
    <3>1. i \in Int /\ j \in Int /\ Was(i) < Was(j)
      BY <1>5, <1>7, <2>1
    <3>2. /\ Was(i) \in DOMAIN presents /\ Was(j) \in DOMAIN presents
          /\ presents[Was(i)].image = presents[Was(j)].image /\ presents'[j].index = presents[Was(j)].index
      <4> HIDE DEF Was
      <4> QED
        BY <1>8, <2>1
    <3>3. Was(j) > Executed /\ WaitedFor(Was(i), presents[Was(j)].index)
      <4> HIDE DEF Was
      <4> QED
        BY <3>1, <3>2 DEF ShowInv, ImagesInOrder
    <3>4. j > Executed'
      BY <1>2, <1>5, <1>11, <3>1, <3>3
    <3> HIDE DEF Was
    <3> QED
      BY <1>15, <3>2, <3>3, <3>4
  <2>2. ASSUME app \in {"acquired", "rendered"}, fault = "none",
               NEW j \in DOMAIN presents', presents'[j].image = active_image_index
        PROVE  \E l \in DOMAIN presents' : l >= j /\ presents'[l].wanted = active_fence_index
    <3> HIDE DEF Was
    <3>1. Was(j) \in DOMAIN presents /\ presents[Was(j)].image = active_image_index
      BY <1>8, <2>2
    <3>2. WaitedFor(Was(j), active_fence_index)
      BY <2>2, <3>1 DEF ShowInv, ImagesInOrder
    <3> QED
      BY <1>15, <3>2
  <2> QED
    BY <1>4, <2>1, <2>2 DEF ImagesInOrder, WaitedFor
<1> QED
  BY <1>12, <1>13, <1>14, <1>16 DEF ShowInv

LEMMA ShowInvInductive == TypeOK /\ WantedInv /\ LastInv /\ ShowInv /\ [Next]_vars => ShowInv'
<1> SUFFICES ASSUME TypeOK, WantedInv, LastInv, ShowInv, [Next]_vars PROVE ShowInv'
  OBVIOUS
<1>1. CASE UNCHANGED vars
  BY <1>1, KeptStill DEF vars, node, sync, gpu
<1>2. CASE Recreate \/ Resized
  <2>1. /\ Idle /\ SetupSwapchain /\ UNCHANGED queue /\ app' = "top"
        /\ \/ UNCHANGED sem_render_finished
           \/ sem_render_finished' = [b \in Backbuffers |-> "unsignalled"]
    BY <1>2 DEF Recreate, Resized, sync
  <2> QED
    BY <2>1, KeptEmptied
<1>3. CASE fault = "none" /\ (Present \/ PresentOutdated)
  <2>1. /\ Submitted /\ app = "rendered" /\ fault = "none"
        /\ UNCHANGED <<sem_render_finished, active_image_index>>
    BY <1>3 DEF Present, PresentOutdated, node
  <2>2. CASE Present
    <3>1. app' = "waiting" /\ active_fence_index' = NextFence
      BY <2>2 DEF Present
    <3> QED
      BY <2>1, <3>1, KeptSubmitted
  <2>3. CASE PresentOutdated
    <3>1. app' = "resizing" \/ fault' # "none"
      BY <2>3 DEF PresentOutdated, InternalResize
    <3> QED
      BY <2>1, <3>1, KeptSubmitted
  <2> QED
    BY <1>3, <2>2, <2>3
<1>4. ASSUME fault = "none", NEW im \in Backbuffers, NEW k \in DOMAIN presents \union {None}, AcquireBackbuffer(im, k)
      PROVE  ShowInv'
  <2>1. app = "cleared"
    BY <1>4 DEF AcquireBackbuffer
  <2> QED
    BY <1>4, <2>1, KeptAcquired
<1>5. CASE ExecuteSubmit
  BY <1>5, KeptExecuted
<1>6. CASE ShowNext
  BY <1>6, KeptShown
<1>7. CASE fault = "none" /\ (OnResize \/ ClearResizeFlag \/ Render \/ WaitForFence)
  <2>1. UNCHANGED <<queue, presents, sem_render_finished, active_fence_index, active_image_index, fault>>
    BY <1>7 DEF OnResize, ClearResizeFlag, Render, WaitForFence, node, sync, gpu
  <2>2. /\ app' # "resizing" => app # "resizing"
        /\ app' \in {"acquired", "rendered"} => app \in {"acquired", "rendered"}
    BY <1>7 DEF OnResize, ClearResizeFlag, Render, WaitForFence
  <2> QED
    BY <2>1, <2>2, KeptStill
<1>8. CASE fault = "none" /\ (AcquireOutOfDate \/ AcquireSuboptimal \/ AcquireSignalled)
  <2>1. UNCHANGED <<queue, presents, sem_render_finished, active_fence_index, active_image_index>>
    BY <1>8 DEF AcquireOutOfDate, AcquireSuboptimal, AcquireSignalled, node, sync, gpu
  <2>2. app = "cleared" /\ (app' = "resizing" \/ app' = app)
    BY <1>8 DEF AcquireOutOfDate, AcquireSuboptimal, AcquireSignalled, InternalResize
  <2> QED
    BY <1>8, <2>1, <2>2, KeptStill
<1> QED
  BY <1>1, <1>2, <1>3, <1>4, <1>5, <1>6, <1>7, <1>8 DEF Next, Call

LEMMA InitShowInv == Init => ShowInv
<1> SUFFICES ASSUME Init PROVE ShowInv
  OBVIOUS
<1>1. /\ queue = <<>> /\ presents = <<>> /\ active_fence_index = 0
      /\ sem_render_finished = [b \in Backbuffers |-> "unsignalled"]
  BY DEF Init
<1>2. DOMAIN queue = {} /\ DOMAIN presents = {} /\ Executed = 0 /\ Len(presents) = 0
  BY <1>1 DEF Executed
<1>3. QueueLast /\ SignalledUnshown
  BY <1>1, <1>2 DEF QueueLast, SignalledUnshown
<1>4. InTurn
  <2>1. 0 = (-1 + Len(presents) + 1) % N
    BY <1>2, Turns
  <2> QED
    BY <1>1, <1>2, <2>1 DEF InTurn
<1>5. ImagesInOrder
  BY <1>2, Zenon DEF ImagesInOrder
<1> QED
  BY <1>3, <1>4, <1>5 DEF ShowInv

\* The submit of a present never signals a semaphore a present before it has yet to wait for, although
\* no fence guards it (swapchain_pool.cc:145, 163): with every order in which images come.
THEOREM RenderFinishedAlwaysFree == Spec => []RenderFinishedFree
<1>1. Init => StateInv /\ LastInv
  BY DEF Init, StateInv, LastInv
<1>2. TypeOK /\ SyncInv /\ StateInv /\ LastInv /\ ShowInv /\ [Next]_vars => (StateInv /\ LastInv /\ ShowInv)'
  BY StateInvInductive, LastInvInductive, ShowInvInductive DEF SyncInv
<1>3. TypeOK /\ SyncInv /\ ShowInv => RenderFinishedFree
  <2> SUFFICES ASSUME TypeOK, SyncInv, ShowInv, queue # <<>>, sem_image_available[Head(queue)] = "signalled"
               PROVE  sem_render_finished[Head(queue)] = "unsignalled"
    BY DEF RenderFinishedFree
  <2>1. Queues /\ PerBackbuffer /\ WantedInv
    BY TypeParts DEF SyncInv
  <2>2. Head(queue) \in Backbuffers
    BY <2>1, HeadOfQueue DEF ShowInv
  <2>3. sem_render_finished[Head(queue)] # "signalled"
    BY <2>1, HeadUnsignalled
  <2> QED
    BY <2>1, <2>2, <2>3 DEF PerBackbuffer
<1> QED
  BY <1>1, <1>2, <1>3, InitShowInv, TypeCorrect, SyncCorrect, PTL DEF Spec

-----------------------------------------------------------------------------
(* That nobody waits forever for what cannot come                          *)

\* what has to be so for the GPU, or for the engine, to take its next step
CanExecute == queue # <<>> /\ sem_image_available[Head(queue)] = "signalled"

CanShow ==
  \E k \in DOMAIN presents :
    /\ ~presents[k].done /\ \A j \in 1 .. k - 1 : presents[j].done
    /\ sem_render_finished[presents[k].index] = "signalled"

NeverStuck ==
  /\ Idle \/ CanExecute \/ CanShow
  /\ app = "waiting" /\ Idle => WaitCondition

\* only the first of the images presented is on the screen, if any
ShownFirst == \A j \in DOMAIN presents : presents[j].done => j = 1

\* Who waits for an image waits for a later one to be shown, and that one is presented already, and
\* is not its own.
WantedEarly ==
  /\ \A j \in DOMAIN presents : presents[j].wanted # None => j < Len(presents)
  /\ \A j, k \in DOMAIN presents :
       k > Executed /\ presents[j].wanted = presents[k].index => j + 1 < k

PendingWanted ==
  \A b \in Backbuffers : sem_image_available[b] = "pending" =>
    \E j \in DOMAIN presents : presents[j].wanted = b

\* what a submit waits for will be signalled: its backbuffer is acquired
AcquiredBefore ==
  /\ \A b \in Queued : sem_image_available[b] # "unsignalled"
  /\ app \in {"acquired", "rendered"} /\ fault = "none" =>
       sem_image_available[active_fence_index] # "unsignalled"

\* what is executed and not yet shown may be shown, each with a semaphore of its own
RenderedReady ==
  /\ \A j \in DOMAIN presents : j <= Executed /\ ~presents[j].done =>
       sem_render_finished[presents[j].index] = "signalled"
  /\ \A j, k \in DOMAIN presents :
       /\ j <= Executed /\ k <= Executed /\ ~presents[j].done /\ ~presents[k].done
       /\ presents[j].index = presents[k].index
       => j = k

ProgressInv == ShownFirst /\ WantedEarly /\ PendingWanted /\ AcquiredBefore /\ RenderedReady

LEMMA ProgressStill ==
  ASSUME ProgressInv,
         UNCHANGED <<queue, presents, sem_image_available, sem_render_finished, active_fence_index>>,
         fault' = "none" => fault = "none",
         app' \in {"acquired", "rendered"} /\ fault' = "none" => app \in {"acquired", "rendered"}
  PROVE  ProgressInv'
<1>1. Executed' = Executed /\ Queued' = Queued
  BY DEF Executed, Queued
<1>2. ShownFirst' /\ WantedEarly' /\ PendingWanted'
  BY <1>1 DEF ProgressInv, ShownFirst, WantedEarly, PendingWanted
<1>3. AcquiredBefore' /\ RenderedReady'
  BY <1>1 DEF ProgressInv, AcquiredBefore, RenderedReady
<1> QED
  BY <1>2, <1>3 DEF ProgressInv

\* On an idle device nobody waits for an image: the one on the screen is the last one presented.
LEMMA ProgressEmptied ==
  ASSUME TypeOK, ProgressInv, Idle, SetupSwapchain, UNCHANGED queue, app' = "top",
         \/ UNCHANGED sem_image_available
         \/ sem_image_available' = [b \in Backbuffers |-> "unsignalled"]
  PROVE  ProgressInv'
<1>1. queue = <<>> /\ queue' = <<>> /\ presents' = <<>>
  BY DEF Idle, SetupSwapchain
<1>2. DOMAIN queue' = {} /\ DOMAIN presents' = {} /\ Queued' = {}
  BY <1>1 DEF Queued
<1>3. \A b \in Backbuffers : sem_image_available[b] # "pending"
  <2> SUFFICES ASSUME NEW b \in Backbuffers, sem_image_available[b] = "pending" PROVE FALSE
    OBVIOUS
  <2>1. PICK j \in DOMAIN presents : presents[j].wanted = b
    BY DEF ProgressInv, PendingWanted
  <2>2. Len(presents) \in Nat /\ DOMAIN presents = 1 .. Len(presents)
    BY TypeParts, Presentation
  <2>3. j < Len(presents)
    BY <2>1, Indices DEF ProgressInv, WantedEarly
  <2>4. Len(presents) \in DOMAIN presents
    BY <2>2, <2>3
  <2>5. j = 1 /\ Len(presents) = 1
    BY <2>4 DEF Idle, ProgressInv, ShownFirst
  <2> QED
    BY <2>3, <2>5
<1>4. \A b \in Backbuffers : sem_image_available'[b] # "pending"
  BY <1>3
<1>5. ShownFirst' /\ WantedEarly' /\ RenderedReady'
  BY <1>2 DEF ShownFirst, WantedEarly, RenderedReady
<1>6. PendingWanted' /\ AcquiredBefore'
  BY <1>2, <1>4 DEF PendingWanted, AcquiredBefore
<1> QED
  BY <1>5, <1>6 DEF ProgressInv

LEMMA ProgressSubmitted ==
  ASSUME TypeOK, FencesRight, FenceFree, QueueLast, ProgressInv, Submitted, app = "rendered", fault = "none",
         UNCHANGED <<sem_image_available, sem_render_finished>>,
         app' \notin {"acquired", "rendered"} \/ fault' # "none"
  PROVE  ProgressInv'
<1> DEFINE n == Len(presents) + 1
<1>1. Queues /\ Registers
  BY TypeParts
<1>2. /\ Len(presents) \in Nat /\ DOMAIN presents = 1 .. Len(presents)
      /\ Executed \in Int /\ Len(presents) = Executed + Len(queue) /\ Len(queue) \in Nat
  BY <1>1, Presentation
<1>3. /\ Len(queue') = Len(queue) + 1 /\ Queues'
      /\ Len(presents') = n
      /\ presents'[n] = [image |-> active_image_index, index |-> active_fence_index, done |-> FALSE, wanted |-> None]
      /\ \A j \in 1 .. Len(presents) : presents'[j] = presents[j]
  BY <1>1, SubmittedQueues
<1>4. DOMAIN presents' = 1 .. n
  BY <1>3, LenProperties DEF Queues
<1>5. Executed' = Executed /\ n > Executed
  BY <1>2, <1>3 DEF Executed
<1>6. /\ presents'[n].index = active_fence_index
      /\ ~presents'[n].done /\ presents'[n].wanted = None
  BY <1>3
<1>7. /\ n \in DOMAIN presents' /\ n \notin DOMAIN presents
      /\ \A j \in DOMAIN presents' : (j \in DOMAIN presents /\ presents'[j] = presents[j]) \/ j = n
      /\ \A j \in DOMAIN presents : j \in DOMAIN presents' /\ presents'[j] = presents[j]
  BY <1>2, <1>3, <1>4
<1>8. active_fence_index \notin Queued /\ active_fence_index \in Backbuffers
  BY <1>1 DEF FenceFree, FencesRight, Registers
<1>9. Queued' = Queued \union {active_fence_index}
  BY <1>1, <1>8, QueuedAppended DEF FencesRight
<1>10. \A j \in DOMAIN presents : j \in Int /\ j + 1 < n + 1
  BY <1>2
<1>11. n \in Int /\ Len(presents) < n
  BY <1>2
<1> HIDE DEF n
<1>12. ShownFirst'
  BY <1>6, <1>7 DEF ProgressInv, ShownFirst
<1>13. WantedEarly'
  <2>1. ASSUME NEW j \in DOMAIN presents', presents'[j].wanted # None
        PROVE  j \in DOMAIN presents /\ presents'[j] = presents[j] /\ j < Len(presents)
    BY <1>6, <1>7, <2>1 DEF ProgressInv, WantedEarly
  <2>2. ASSUME NEW j \in DOMAIN presents', NEW k \in DOMAIN presents', k > Executed,
               presents'[j].wanted = presents'[k].index
        PROVE  j + 1 < k
    <3>1. CASE k = n
      <4>1. j \in DOMAIN presents /\ j < Len(presents)
        BY <1>6, <1>8, <2>1, <2>2, <3>1, Indices
      <4> QED
        BY <1>2, <1>10, <1>11, <3>1, <4>1 DEF n
    <3>2. CASE k # n
      <4>1. k \in DOMAIN presents /\ presents'[k] = presents[k] /\ presents[k] \in Presented
        BY <1>1, <1>7, <3>2, Presentation
      <4>2. presents[k].index # None
        BY <4>1, Indices DEF Presented
      <4>3. j \in DOMAIN presents /\ presents'[j] = presents[j]
        BY <2>1, <2>2, <4>1, <4>2
      <4> QED
        BY <2>2, <4>1, <4>3 DEF ProgressInv, WantedEarly
    <3> QED
      BY <3>1, <3>2
  <2>3. ASSUME NEW j \in DOMAIN presents', presents'[j].wanted # None PROVE j < n
    <3>1. j \in DOMAIN presents /\ j < Len(presents)
      BY <2>1, <2>3
    <3> QED
      BY <1>2, <1>11, <3>1
  <2> QED
    BY <1>3, <1>5, <2>2, <2>3 DEF WantedEarly
<1>14. PendingWanted'
  BY <1>7 DEF ProgressInv, PendingWanted
<1>15. AcquiredBefore'
  BY <1>9 DEF ProgressInv, AcquiredBefore
<1>16. RenderedReady'
  <2>1. \A j \in DOMAIN presents' : j <= Executed => j \in DOMAIN presents /\ presents'[j] = presents[j]
    BY <1>2, <1>5, <1>7, <1>11
  <2> QED
    BY <1>5, <2>1 DEF ProgressInv, RenderedReady
<1> QED
  BY <1>12, <1>13, <1>14, <1>15, <1>16 DEF ProgressInv

\* Nothing in the queue waits with the semaphore of the next acquire.
LEMMA ProgressAcquired ==
  ASSUME TypeOK, FencesRight, FenceFree, WantedInv, QueueLast, ProgressInv, fault = "none",
         NEW im \in Backbuffers, NEW k \in DOMAIN presents \union {None}, AcquireBackbuffer(im, k)
  PROVE  ProgressInv'
<1>1. Queues /\ Registers /\ PerBackbuffer
  BY TypeParts
<1>2. /\ Len(presents) \in Nat /\ DOMAIN presents = 1 .. Len(presents)
      /\ Len(queue) \in Nat /\ DOMAIN queue = 1 .. Len(queue)
      /\ Executed \in Int /\ Len(presents) = Executed + Len(queue)
      /\ \A j \in DOMAIN presents : presents[j] \in Presented
  BY <1>1, Presentation
<1>3. /\ presents' = Wanted(presents, k, active_fence_index) /\ active_fence_index \in Backbuffers
      /\ sem_image_available[active_fence_index] = "unsignalled" /\ Acquirable(im, k) /\ app = "cleared"
      /\ sem_image_available' =
           [sem_image_available EXCEPT ![active_fence_index] = IF k = None THEN "signalled" ELSE "pending"]
      /\ UNCHANGED <<queue, sem_render_finished, active_fence_index, fault>> /\ app' = "acquired"
  BY <1>1 DEF AcquireBackbuffer, Wanted, Registers
<1>4. /\ Len(presents') = Len(presents) /\ DOMAIN presents' = DOMAIN presents
      /\ \A j \in DOMAIN presents :
           /\ presents'[j].index = presents[j].index /\ presents'[j].done = presents[j].done
           /\ presents'[j].wanted = IF j = k THEN active_fence_index ELSE presents[j].wanted
  BY <1>1, <1>3, WantedPresents DEF Queues
<1>5. Executed' = Executed /\ Queued' = Queued
  BY <1>3, <1>4 DEF Executed, Queued
<1>6. active_fence_index \notin Queued
  BY <1>3 DEF FenceFree, FencesRight
<1>7. ASSUME NEW l \in DOMAIN presents, l > Executed PROVE presents[l].index # active_fence_index
  <2>1. l - Executed \in DOMAIN queue /\ Executed + (l - Executed) = l
    BY <1>2, <1>7
  <2>2. queue[l - Executed] = presents[l].index
    BY <2>1 DEF QueueLast
  <2> QED
    BY <1>6, <2>1, <2>2 DEF Queued
<1>8. k \in DOMAIN presents => k < Len(presents) /\ presents[k].wanted = None
  BY <1>2, <1>3 DEF Acquirable, None
<1>9. \A b \in Backbuffers : b # active_fence_index => sem_image_available'[b] = sem_image_available[b]
  BY <1>1, <1>3 DEF PerBackbuffer
<1>10. sem_image_available'[active_fence_index] = IF k = None THEN "signalled" ELSE "pending"
  BY <1>1, <1>3 DEF PerBackbuffer
<1>11. ShownFirst' /\ RenderedReady'
  BY <1>3, <1>4, <1>5 DEF ProgressInv, ShownFirst, RenderedReady
<1>12. WantedEarly'
  <2>1. \A j \in DOMAIN presents' : presents'[j].wanted # None => j < Len(presents')
    BY <1>4, <1>8 DEF ProgressInv, WantedEarly
  <2>2. ASSUME NEW j \in DOMAIN presents', NEW l \in DOMAIN presents', l > Executed,
               presents'[j].wanted = presents'[l].index
        PROVE  j + 1 < l
    <3>1. presents[j].wanted = presents[l].index
      BY <1>4, <1>7, <2>2
    <3> QED
      BY <1>4, <2>2, <3>1 DEF ProgressInv, WantedEarly
  <2> QED
    BY <1>5, <2>1, <2>2 DEF WantedEarly
<1>13. PendingWanted'
  <2> SUFFICES ASSUME NEW b \in Backbuffers, sem_image_available'[b] = "pending"
               PROVE  \E j \in DOMAIN presents' : presents'[j].wanted = b
    BY DEF PendingWanted
  <2>1. CASE b = active_fence_index
    <3>1. k \in DOMAIN presents
      BY <1>10, <2>1
    <3> QED
      BY <1>4, <2>1, <3>1
  <2>2. CASE b # active_fence_index
    <3>1. PICK j \in DOMAIN presents : presents[j].wanted = b
      BY <1>9, <2>2 DEF ProgressInv, PendingWanted
    <3>2. j # k
      BY <1>8, <3>1, Indices
    <3> QED
      BY <1>4, <3>1, <3>2
  <2> QED
    BY <2>1, <2>2
<1>14. AcquiredBefore'
  <2>1. \A b \in Queued : b \in Backbuffers /\ b # active_fence_index
    BY <1>1, <1>6, Presentation DEF Queued
  <2> QED
    BY <1>3, <1>5, <1>9, <1>10, <2>1 DEF ProgressInv, AcquiredBefore
<1> QED
  BY <1>11, <1>12, <1>13, <1>14 DEF ProgressInv

LEMMA ProgressSuboptimal ==
  ASSUME TypeOK, ProgressInv, AcquireSuboptimal
  PROVE  ProgressInv'
<1>1. /\ Queues /\ Registers /\ PerBackbuffer
  BY TypeParts
<1>2. /\ UNCHANGED <<queue, presents, sem_render_finished, active_fence_index>>
      /\ sem_image_available' = [sem_image_available EXCEPT ![active_fence_index] = "signalled"]
      /\ active_fence_index \in Backbuffers /\ app' \notin {"acquired", "rendered"}
  BY <1>1 DEF AcquireSuboptimal, InternalResize, node, gpu, Registers
<1>3. Executed' = Executed /\ Queued' = Queued
  BY <1>2 DEF Executed, Queued
<1>4. \A b \in Backbuffers : sem_image_available'[b] = "signalled" \/ sem_image_available'[b] = sem_image_available[b]
  BY <1>1, <1>2 DEF PerBackbuffer
<1>5. ShownFirst' /\ WantedEarly' /\ RenderedReady'
  BY <1>2, <1>3 DEF ProgressInv, ShownFirst, WantedEarly, RenderedReady
<1>6. PendingWanted'
  BY <1>2, <1>4 DEF ProgressInv, PendingWanted
<1>7. AcquiredBefore'
  <2>1. \A b \in Queued : b \in Backbuffers
    BY <1>1, Presentation DEF Queued
  <2> QED
    BY <1>2, <1>3, <1>4, <2>1 DEF ProgressInv, AcquiredBefore
<1> QED
  BY <1>5, <1>6, <1>7 DEF ProgressInv

LEMMA ProgressExecuted ==
  ASSUME TypeOK, FencesRight, FenceFree, WantedInv, ShowInv, ProgressInv, ExecuteSubmit, fault = "none"
  PROVE  ProgressInv'
<1> DEFINE next == Executed + 1
<1>1. Queues /\ PerBackbuffer
  BY TypeParts
<1>2. /\ Len(presents) \in Nat /\ DOMAIN presents = 1 .. Len(presents)
      /\ Len(queue) \in Nat /\ DOMAIN queue = 1 .. Len(queue)
      /\ Executed \in Int /\ Len(presents) = Executed + Len(queue)
      /\ \A j \in DOMAIN presents : presents[j] \in Presented
      /\ \A i \in DOMAIN queue : queue[i] \in Backbuffers
  BY <1>1, Presentation
<1>3. /\ queue # <<>> /\ queue' = Tail(queue) /\ presents' = presents
      /\ sem_image_available[Head(queue)] = "signalled"
      /\ sem_image_available' = [sem_image_available EXCEPT ![Head(queue)] = "unsignalled"]
      /\ sem_render_finished' = [sem_render_finished EXCEPT ![Head(queue)] = "signalled"]
      /\ UNCHANGED <<active_fence_index, app, fault>>
  BY DEF ExecuteSubmit, node
<1>4. next \in DOMAIN presents /\ Head(queue) = presents[next].index /\ Head(queue) \in Backbuffers
  BY <1>1, <1>3, HeadOfQueue DEF ShowInv
<1>5. Len(queue') = Len(queue) - 1
  BY <1>1, <1>3, HeadTailProperties DEF Queues
<1>6. Executed' = next
  BY <1>2, <1>3, <1>5 DEF Executed
<1>7. Head(queue) \in Queued /\ Queued' = Queued \ {Head(queue)}
  BY <1>1, QueuedExecuted DEF FencesRight
<1>8. \A j \in DOMAIN presents : j \in Int /\ (j <= next => j <= Executed \/ j = next)
  BY <1>2
<1>9. \A b \in Backbuffers : b # Head(queue) =>
        /\ sem_image_available'[b] = sem_image_available[b]
        /\ sem_render_finished'[b] = sem_render_finished[b]
  BY <1>1, <1>3 DEF PerBackbuffer
<1>10. /\ sem_image_available'[Head(queue)] = "unsignalled"
       /\ sem_render_finished'[Head(queue)] = "signalled"
  BY <1>1, <1>3, <1>4 DEF PerBackbuffer
<1>11. next \in Int /\ next > Executed
  BY <1>2
<1> HIDE DEF next
<1>12. ShownFirst'
  BY <1>3 DEF ProgressInv, ShownFirst
<1>13. WantedEarly'
  <2>1. \A j \in DOMAIN presents : j > next => j > Executed
    BY <1>2, <1>8, <1>11
  <2> QED
    BY <1>3, <1>6, <2>1 DEF ProgressInv, WantedEarly
<1>14. PendingWanted'
  BY <1>3, <1>9, <1>10 DEF ProgressInv, PendingWanted
<1>15. AcquiredBefore'
  <2>1. \A b \in Queued' : b \in Backbuffers /\ b \in Queued /\ b # Head(queue)
    BY <1>2, <1>7 DEF Queued
  <2>2. app \in {"acquired", "rendered"} => active_fence_index \in Backbuffers /\ active_fence_index # Head(queue)
    <3>1. active_fence_index \in Backbuffers
      BY TypeParts DEF Registers
    <3> QED
      BY <1>7, <3>1 DEF FencesRight, FenceFree
  <2> QED
    BY <1>3, <1>9, <2>1, <2>2 DEF ProgressInv, AcquiredBefore
<1>16. RenderedReady'
  <2>1. ASSUME NEW j \in DOMAIN presents, j <= Executed, ~presents[j].done
        PROVE  presents[j].index # Head(queue) /\ presents[j].index \in Backbuffers
    <3>1. sem_render_finished[presents[j].index] = "signalled"
      BY <2>1 DEF ProgressInv, RenderedReady
    <3>2. sem_render_finished[Head(queue)] # "signalled"
      BY <1>1, <1>3, HeadUnsignalled
    <3> QED
      BY <1>2, <3>1, <3>2 DEF Presented
  <2>2. ASSUME NEW j \in DOMAIN presents, j <= next, ~presents[j].done
        PROVE  sem_render_finished'[presents[j].index] = "signalled"
    <3>1. CASE j = next
      BY <1>4, <1>10, <3>1
    <3>2. CASE j <= Executed
      BY <1>9, <2>1, <2>2, <3>2 DEF ProgressInv, RenderedReady
    <3> QED
      BY <1>8, <2>2, <3>1, <3>2
  <2>3. ASSUME NEW j \in DOMAIN presents, NEW k \in DOMAIN presents, j <= next, k <= next,
               ~presents[j].done, ~presents[k].done, presents[j].index = presents[k].index
        PROVE  j = k
    <3>1. CASE j <= Executed /\ k <= Executed
      BY <2>3, <3>1 DEF ProgressInv, RenderedReady
    <3>2. CASE j = next /\ k <= Executed
      BY <1>4, <2>1, <2>3, <3>2
    <3>3. CASE k = next /\ j <= Executed
      BY <1>4, <2>1, <2>3, <3>3
    <3> QED
      BY <1>8, <2>3, <3>1, <3>2, <3>3
  <2> QED
    BY <1>3, <1>6, <2>2, <2>3 DEF RenderedReady
<1> QED
  BY <1>12, <1>13, <1>14, <1>15, <1>16 DEF ProgressInv

LEMMA ProgressShown ==
  ASSUME TypeOK, WantedInv, ShowInv, ProgressInv, ShowNext
  PROVE  ProgressInv'
<1>1. Queues /\ PerBackbuffer
  BY TypeParts
<1>2. /\ Len(presents) \in Nat /\ DOMAIN presents = 1 .. Len(presents)
      /\ Executed \in Int
      /\ \A j \in DOMAIN presents : presents[j] \in Presented
  BY <1>1, Presentation
<1>3. PICK k \in DOMAIN presents :
        /\ k \in 1 .. Len(presents) /\ k <= Executed
        /\ ~presents[k].done /\ \A j \in 1 .. k - 1 : presents[j].done
        /\ sem_render_finished' = [sem_render_finished EXCEPT ![presents[k].index] = "unsignalled"]
        /\ sem_image_available' =
             [b \in Backbuffers |-> IF \E j \in 1 .. k - 1 : presents[j].wanted = b
                                    THEN "signalled" ELSE sem_image_available[b]]
        /\ Len(presents') = Len(presents) - k + 1
        /\ DOMAIN presents' = 1 .. Len(presents) - k + 1
        /\ Executed' = Executed - k + 1 /\ Executed' \in Int
        /\ \A j \in DOMAIN presents' :
             /\ j + k - 1 \in DOMAIN presents /\ j + k - 1 >= k
             /\ presents'[j].index = presents[j + k - 1].index
             /\ presents'[j].wanted = presents[j + k - 1].wanted
             /\ presents'[j].done <=> j = 1 \/ presents[j + k - 1].done
  BY ShownNext
<1>4. UNCHANGED <<queue, app, fault, active_fence_index>> /\ Queued' = Queued
  BY DEF ShowNext, node, Queued
<1> DEFINE Was(j) == j + k - 1
<1>5. ASSUME NEW j \in DOMAIN presents'
      PROVE  /\ j \in Int /\ Was(j) \in DOMAIN presents /\ Was(j) >= k
             /\ presents'[j].index = presents[Was(j)].index
             /\ presents'[j].wanted = presents[Was(j)].wanted
             /\ presents'[j].done <=> j = 1 \/ presents[Was(j)].done
  BY <1>3
<1>6. ASSUME NEW l \in DOMAIN presents, l >= k
      PROVE  l - k + 1 \in DOMAIN presents' /\ Was(l - k + 1) = l
  <2>1. l \in Int /\ l <= Len(presents)
    BY <1>2
  <2>2. l - k + 1 \in 1 .. Len(presents) - k + 1
    BY <1>2, <1>3, <1>6, <2>1
  <2>3. Was(l - k + 1) = l
    BY <1>3, <2>1
  <2> QED
    BY <1>3, <2>2, <2>3
<1>7. \A b \in Backbuffers :
        /\ sem_image_available'[b] = "signalled" \/ sem_image_available'[b] = sem_image_available[b]
        /\ sem_image_available'[b] = "pending" =>
             sem_image_available[b] = "pending" /\ \A j \in 1 .. k - 1 : presents[j].wanted # b
  BY <1>3
<1>8. \A j \in DOMAIN presents' : j <= Executed' => Was(j) <= Executed
  BY <1>2, <1>3, <1>5
<1>9. \A j \in DOMAIN presents' : j > Executed' => Was(j) > Executed
  BY <1>2, <1>3, <1>5
<1>10. ShownFirst'
  <2> SUFFICES ASSUME NEW j \in DOMAIN presents', presents'[j].done, j # 1 PROVE FALSE
    BY DEF ShownFirst
  <2>1. Was(j) = 1
    <3>1. Was(j) \in DOMAIN presents /\ presents[Was(j)].done
      BY <1>5
    <3> HIDE DEF Was
    <3> QED
      BY <3>1 DEF ProgressInv, ShownFirst
  <2> QED
    BY <1>3, <1>5, <2>1
<1>11. WantedEarly'
  <2>1. ASSUME NEW j \in DOMAIN presents', presents'[j].wanted # None PROVE j < Len(presents')
    <3>1. Was(j) < Len(presents)
      <4>1. Was(j) \in DOMAIN presents /\ presents[Was(j)].wanted # None
        BY <1>5, <2>1
      <4> HIDE DEF Was
      <4> QED
        BY <4>1 DEF ProgressInv, WantedEarly
    <3> QED
      BY <1>2, <1>3, <1>5, <3>1
  <2>2. ASSUME NEW j \in DOMAIN presents', NEW l \in DOMAIN presents', l > Executed',
               presents'[j].wanted = presents'[l].index
        PROVE  j + 1 < l
    <3>1. Was(j) + 1 < Was(l)
      <4>1. /\ Was(j) \in DOMAIN presents /\ Was(l) \in DOMAIN presents
            /\ presents[Was(j)].wanted = presents[Was(l)].index
        BY <1>5, <2>2
      <4>2. Was(l) > Executed
        BY <1>9, <2>2
      <4> HIDE DEF Was
      <4> QED
        BY <4>1, <4>2 DEF ProgressInv, WantedEarly
    <3> QED
      BY <1>3, <1>5, <3>1
  <2> QED
    BY <2>1, <2>2 DEF WantedEarly
<1>12. PendingWanted'
  <2> SUFFICES ASSUME NEW b \in Backbuffers, sem_image_available'[b] = "pending"
               PROVE  \E j \in DOMAIN presents' : presents'[j].wanted = b
    BY DEF PendingWanted
  <2>1. PICK l \in DOMAIN presents : presents[l].wanted = b
    BY <1>7 DEF ProgressInv, PendingWanted
  <2>2. l >= k
    <3>1. l \notin 1 .. k - 1
      BY <1>7, <2>1
    <3> QED
      BY <1>2, <1>3, <3>1
  <2>3. PICK j \in DOMAIN presents' : Was(j) = l
    BY <1>6, <2>2
  <2> HIDE DEF Was
  <2> QED
    BY <1>5, <2>1, <2>3
<1>13. AcquiredBefore'
  <2>1. \A b \in Queued : b \in Backbuffers
    BY <1>1, Presentation DEF Queued
  <2>2. active_fence_index \in Backbuffers
    BY TypeParts DEF Registers
  <2> QED
    BY <1>4, <1>7, <2>1, <2>2 DEF ProgressInv, AcquiredBefore
<1>14. RenderedReady'
  <2>1. ASSUME NEW j \in DOMAIN presents', j <= Executed', ~presents'[j].done
        PROVE  Was(j) \in DOMAIN presents /\ Was(j) <= Executed /\ Was(j) # k /\ ~presents[Was(j)].done
    BY <1>3, <1>5, <1>8, <2>1
  <2>2. ASSUME NEW j \in DOMAIN presents', j <= Executed', ~presents'[j].done
        PROVE  sem_render_finished'[presents'[j].index] = "signalled"
    <3>1. Was(j) \in DOMAIN presents /\ Was(j) <= Executed /\ Was(j) # k /\ ~presents[Was(j)].done
      BY <2>1, <2>2
    <3>2. presents'[j].index = presents[Was(j)].index
      BY <1>5
    <3> HIDE DEF Was
    <3>3. /\ sem_render_finished[presents[Was(j)].index] = "signalled"
          /\ presents[Was(j)].index # presents[k].index
      BY <1>3, <3>1 DEF ProgressInv, RenderedReady
    <3>4. presents[Was(j)].index \in Backbuffers
      BY <1>2, <3>1 DEF Presented
    <3> QED
      BY <1>1, <1>3, <3>2, <3>3, <3>4 DEF PerBackbuffer
  <2>3. ASSUME NEW j \in DOMAIN presents', NEW l \in DOMAIN presents', j <= Executed', l <= Executed',
               ~presents'[j].done, ~presents'[l].done, presents'[j].index = presents'[l].index
        PROVE  j = l
    <3>1. /\ Was(j) \in DOMAIN presents /\ Was(j) <= Executed /\ ~presents[Was(j)].done
          /\ Was(l) \in DOMAIN presents /\ Was(l) <= Executed /\ ~presents[Was(l)].done
      BY <2>1, <2>3
    <3>2. presents[Was(j)].index = presents[Was(l)].index
      BY <1>5, <2>3
    <3>3. Was(j) = Was(l)
      <4> HIDE DEF Was
      <4> QED
        BY <3>1, <3>2 DEF ProgressInv, RenderedReady
    <3> QED
      BY <1>3, <1>5, <3>3
  <2> QED
    BY <2>2, <2>3 DEF RenderedReady
<1> QED
  BY <1>10, <1>11, <1>12, <1>13, <1>14 DEF ProgressInv

LEMMA ProgressInvStep == TypeOK /\ SyncInv /\ ShowInv /\ ProgressInv /\ [Next]_vars => ProgressInv'
<1> SUFFICES ASSUME TypeOK, WantedInv, FencesRight, FenceFree, ShowInv, ProgressInv, [Next]_vars
             PROVE  ProgressInv'
  BY DEF SyncInv
<1>0. QueueLast
  BY DEF ShowInv
<1>1. CASE UNCHANGED vars
  BY <1>1, ProgressStill DEF vars, node, sync, gpu
<1>2. CASE Recreate \/ Resized
  <2>1. /\ Idle /\ SetupSwapchain /\ UNCHANGED queue /\ app' = "top"
        /\ \/ UNCHANGED sem_image_available
           \/ sem_image_available' = [b \in Backbuffers |-> "unsignalled"]
    BY <1>2 DEF Recreate, Resized, sync
  <2> QED
    BY <2>1, ProgressEmptied
<1>3. CASE fault = "none" /\ (Present \/ PresentOutdated)
  <2>1. /\ Submitted /\ app = "rendered" /\ fault = "none"
        /\ UNCHANGED <<sem_image_available, sem_render_finished>>
        /\ app' \notin {"acquired", "rendered"} \/ fault' # "none"
    BY <1>3 DEF Present, PresentOutdated, InternalResize
  <2> QED
    BY <1>0, <2>1, ProgressSubmitted
<1>4. ASSUME fault = "none", NEW im \in Backbuffers, NEW k \in DOMAIN presents \union {None}, AcquireBackbuffer(im, k)
      PROVE  ProgressInv'
  BY <1>0, <1>4, ProgressAcquired
<1>5. CASE AcquireSuboptimal
  BY <1>5, ProgressSuboptimal
<1>6. CASE fault = "none" /\ ExecuteSubmit
  BY <1>6, ProgressExecuted
<1>7. CASE ShowNext
  BY <1>7, ProgressShown
<1>8. CASE fault = "none" /\ (OnResize \/ ClearResizeFlag \/ AcquireOutOfDate \/ AcquireSignalled \/ Render \/ WaitForFence)
  <2>1. UNCHANGED <<queue, presents, sem_image_available, sem_render_finished, active_fence_index>>
    BY <1>8 DEF OnResize, ClearResizeFlag, AcquireOutOfDate, AcquireSignalled, Render, WaitForFence, node, sync, gpu
  <2>2. app' \in {"acquired", "rendered"} => app \in {"acquired", "rendered"}
    BY <1>8 DEF OnResize, ClearResizeFlag, AcquireOutOfDate, AcquireSignalled, Render, WaitForFence, InternalResize
  <2> QED
    BY <1>8, <2>1, <2>2, ProgressStill
<1> QED
  BY <1>1, <1>2, <1>3, <1>4, <1>5, <1>6, <1>7, <1>8 DEF Next, Call

LEMMA ProgressInvInit == Init => ProgressInv
<1> SUFFICES ASSUME Init PROVE ProgressInv
  OBVIOUS
<1>1. /\ queue = <<>> /\ presents = <<>> /\ app = "top"
      /\ sem_image_available = [b \in Backbuffers |-> "unsignalled"]
  BY DEF Init
<1>2. DOMAIN queue = {} /\ DOMAIN presents = {} /\ Queued = {}
  BY <1>1 DEF Queued
<1>3. ShownFirst /\ WantedEarly /\ RenderedReady
  BY <1>2 DEF ShownFirst, WantedEarly, RenderedReady
<1>4. PendingWanted /\ AcquiredBefore
  BY <1>1, <1>2 DEF PendingWanted, AcquiredBefore
<1> QED
  BY <1>3, <1>4 DEF ProgressInv

\* the first of the presents that are executed and not shown
LEMMA FirstUnshown ==
  ASSUME Queues, NEW m \in DOMAIN presents, ~presents[m].done, ShownFirst
  PROVE  \E k \in DOMAIN presents : k <= m /\ ~presents[k].done /\ \A j \in 1 .. k - 1 : presents[j].done
<1>1. Len(presents) \in Nat /\ DOMAIN presents = 1 .. Len(presents)
  BY Presentation
<1>2. 1 \in DOMAIN presents /\ m \in Int /\ 1 <= m
  BY <1>1
<1>3. CASE ~presents[1].done
  BY <1>2, <1>3
<1>4. CASE presents[1].done
  <2>1. 2 \in DOMAIN presents /\ 2 <= m
    BY <1>1, <1>2, <1>4
  <2>2. ~presents[2].done
    BY <2>1 DEF ShownFirst
  <2>3. \A j \in 1 .. 2 - 1 : presents[j].done
    BY <1>4
  <2> QED
    BY <2>1, <2>2, <2>3
<1> QED
  BY <1>3, <1>4

LEMMA ProgressPossible ==
  ASSUME TypeOK, FencesRight, ShowInv, ProgressInv
  PROVE  NeverStuck
<1>1. Queues /\ Registers /\ PerBackbuffer
  BY TypeParts
<1>2. /\ Len(presents) \in Nat /\ DOMAIN presents = 1 .. Len(presents)
      /\ Len(queue) \in Nat /\ DOMAIN queue = 1 .. Len(queue)
      /\ Executed \in Int /\ Len(presents) = Executed + Len(queue)
  BY <1>1, Presentation
<1>3. ASSUME NEW m \in DOMAIN presents, m <= Executed, ~presents[m].done PROVE CanShow
  <2>1. PICK k \in DOMAIN presents : k <= m /\ ~presents[k].done /\ \A j \in 1 .. k - 1 : presents[j].done
    BY <1>1, <1>3, FirstUnshown DEF ProgressInv
  <2>2. k <= Executed
    BY <1>2, <1>3, <2>1
  <2>3. sem_render_finished[presents[k].index] = "signalled"
    BY <2>1, <2>2 DEF ProgressInv, RenderedReady
  <2> QED
    BY <2>1, <2>3 DEF CanShow
\* otherwise at most one image was executed, and it is shown: nobody can wait for it but a present
\* behind the next one
<1>4. ASSUME \A m \in DOMAIN presents : m <= Executed => presents[m].done, queue # <<>> PROVE CanExecute
  <2>1. Executed + 1 \in DOMAIN presents /\ Head(queue) = presents[Executed + 1].index /\ Head(queue) \in Backbuffers
    BY <1>1, <1>4, HeadOfQueue DEF ShowInv
  <2>2. Executed <= 1
    <3>1. SUFFICES ASSUME Executed > 1 PROVE FALSE
      BY <1>2
    <3>2. 2 \in DOMAIN presents /\ 2 <= Executed
      BY <1>2, <3>1
    <3> QED
      BY <1>4, <3>2 DEF ProgressInv, ShownFirst
  <2>3. sem_image_available[Head(queue)] # "unsignalled"
    <3>1. Head(queue) \in Queued
      <4>1. Head(queue) = queue[1] /\ 1 \in DOMAIN queue
        BY <1>1, <1>2, <1>4, EmptySeq DEF Queues
      <4> QED
        BY <4>1 DEF Queued
    <3> QED
      BY <3>1 DEF ProgressInv, AcquiredBefore
  <2>4. sem_image_available[Head(queue)] # "pending"
    <3> SUFFICES ASSUME sem_image_available[Head(queue)] = "pending" PROVE FALSE
      OBVIOUS
    <3>1. PICK j \in DOMAIN presents : presents[j].wanted = Head(queue)
      BY <2>1 DEF ProgressInv, PendingWanted
    <3>2. Executed + 1 > Executed
      BY <1>2
    <3>3. j + 1 < Executed + 1
      BY <2>1, <3>1, <3>2 DEF ProgressInv, WantedEarly
    <3> QED
      BY <1>2, <2>2, <3>3
  <2>5. sem_image_available[Head(queue)] \in {"signalled", "unsignalled", "pending"}
    BY <1>1, <2>1 DEF PerBackbuffer
  <2> QED
    BY <1>4, <2>3, <2>4, <2>5 DEF CanExecute
<1>5. ASSUME \A m \in DOMAIN presents : m <= Executed => presents[m].done, queue = <<>> PROVE Idle
  <2>1. Len(queue) = 0
    BY <1>5
  <2> QED
    BY <1>2, <1>5, <2>1 DEF Idle
<1>6. ASSUME Idle PROVE WaitCondition
  <2>1. Queued = {}
    BY <1>6 DEF Idle, Queued
  <2> QED
    BY <1>1, <2>1 DEF FencesRight, Registers, WaitCondition
<1> QED
  BY <1>3, <1>4, <1>5, <1>6 DEF NeverStuck

LEMMA ProgressCorrect == Spec => [](ShowInv /\ ProgressInv)
<1>1. Init => StateInv /\ LastInv
  BY DEF Init, StateInv, LastInv
<1>2. TypeOK /\ SyncInv /\ StateInv /\ LastInv /\ ShowInv /\ ProgressInv /\ [Next]_vars
        => (StateInv /\ LastInv /\ ShowInv /\ ProgressInv)'
  BY StateInvInductive, LastInvInductive, ShowInvInductive, ProgressInvStep DEF SyncInv
<1> QED
  BY <1>1, <1>2, InitShowInv, ProgressInvInit, TypeCorrect, SyncCorrect, PTL DEF Spec

\* While a present waits for its fence (swapchain_pool.cc:183) or a resize for the device to be
\* idle (swapchain_pool.cc:393), the GPU can execute the next submit, or the engine show the next
\* image, or what the call waits for is so: no two of them wait for each other, whatever image the
\* engine hands out, and although the next submit may wait for an image still on the screen.
THEOREM NobodyEverStuck == Spec => []NeverStuck
<1>1. TypeOK /\ SyncInv /\ ShowInv /\ ProgressInv => NeverStuck
  BY ProgressPossible DEF SyncInv
<1> QED
  BY <1>1, TypeCorrect, SyncCorrect, ProgressCorrect, PTL

\* the steps the GPU and the engine have yet to take: submits to execute, images to show
Remaining ==
  Len(queue) + Len(presents) - (IF presents # <<>> /\ presents[1].done THEN 1 ELSE 0)

Nearer == [][app = "waiting" \/ app = "resizing" => app' = "top" \/ Remaining' < Remaining]_vars

\* While a call waits, every step of the GPU or the engine leaves them one less to take, and the only
\* other step is the return of the call (swapchain_pool.cc:183, 393): with NobodyEverStuck this leaves
\* of CallsReturn no more than that the GPU, the engine and the call take the steps they can.
THEOREM WaitsComeToAnEnd == Spec => [](Remaining \in Nat) /\ Nearer
<1>1. ASSUME TypeOK PROVE Remaining \in Nat
  <2>1. Len(presents) \in Nat /\ Len(queue) \in Nat
    BY <1>1, TypeParts, Presentation
  <2>2. presents # <<>> => Len(presents) > 0
    BY <1>1, <2>1, TypeParts, EmptySeq DEF Queues
  <2> QED
    BY <2>1, <2>2 DEF Remaining
<1>2. ASSUME TypeOK, ShowInv, ProgressInv, Next, app \in {"waiting", "resizing"}, app' # "top"
      PROVE  Remaining' < Remaining
  <2>1. Queues /\ Len(presents) \in Nat /\ Len(queue) \in Nat /\ DOMAIN presents = 1 .. Len(presents)
    BY <1>2, TypeParts, Presentation
  <2>2. ExecuteSubmit \/ ShowNext
    <3>1. ~Call
      BY <1>2 DEF Call, OnResize, Resized, Recreate, ClearResizeFlag, AcquireBackbuffer, AcquireOutOfDate,
                  AcquireSuboptimal, AcquireSignalled, Render, Present, PresentOutdated, WaitForFence
    <3> QED
      BY <1>2, <3>1 DEF Next
  <2>3. CASE ExecuteSubmit
    <3>1. queue # <<>> /\ queue' = Tail(queue) /\ presents' = presents
      BY <2>3 DEF ExecuteSubmit
    <3>2. Len(queue') = Len(queue) - 1
      BY <2>1, <3>1, HeadTailProperties DEF Queues
    <3> QED
      BY <2>1, <3>1, <3>2 DEF Remaining
  <2>4. CASE ShowNext
    <3>1. PICK k \in DOMAIN presents :
            /\ k \in 1 .. Len(presents)
            /\ ~presents[k].done /\ \A j \in 1 .. k - 1 : presents[j].done
            /\ Len(presents') = Len(presents) - k + 1
            /\ DOMAIN presents' = 1 .. Len(presents) - k + 1
            /\ \A j \in DOMAIN presents' : presents'[j].done <=> j = 1 \/ presents[j + k - 1].done
      BY <1>2, <2>4, ShownNext
    <3>2. 1 \in DOMAIN presents' /\ presents'[1].done /\ presents' # <<>> /\ presents # <<>>
      <4>1. 1 \in DOMAIN presents'
        BY <2>1, <3>1
      <4>2. presents' # <<>>
        BY <4>1
      <4> QED
        BY <3>1, <4>1, <4>2
    <3>3. queue' = queue
      BY <2>4 DEF ShowNext
    <3>4. CASE k = 1
      <4>1. ~presents[1].done
        BY <3>1, <3>4
      <4> QED
        BY <2>1, <3>1, <3>2, <3>3, <3>4, <4>1 DEF Remaining
    <3>5. CASE k # 1
      <4>1. 1 \in 1 .. k - 1
        BY <2>1, <3>1, <3>5
      <4>2. presents[1].done
        BY <3>1, <4>1
      <4> QED
        BY <2>1, <3>1, <3>2, <3>3, <3>5, <4>1, <4>2 DEF Remaining
    <3> QED
      BY <3>4, <3>5
  <2> QED
    BY <2>2, <2>3, <2>4
<1>3. TypeOK /\ ShowInv /\ ProgressInv /\ [Next]_vars
        => [app = "waiting" \/ app = "resizing" => app' = "top" \/ Remaining' < Remaining]_vars
  BY <1>2
<1> QED
  BY <1>1, <1>3, TypeCorrect, ProgressCorrect, PTL DEF Spec, Nearer
=============================================================================
