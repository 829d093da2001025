------------------------------ MODULE VkSwapchain ------------------------------
(***************************************************************************)
(* A Vulkan swapchain: acquiring, presenting and resizing, as the main     *)
(* loop of README.md drives them, on a queue that executes in order and a  *)
(* presentation engine that shows images in the order they are presented.  *)
(*                                                                         *)
(* Every backbuffer has an image, and a fence and two semaphores.  The     *)
(* images are used in the order the engine hands them out, the fences and  *)
(* semaphores in turn.  The engine may hand out an image it still shows:   *)
(* the semaphore of the acquire is signalled when it is done with it.      *)
(*                                                                         *)
(* A definition whose name contains _Mut is a deliberately wrong variant   *)
(* of the one that follows it.  No behaviour uses it: substituting it must *)
(* break the property PROJECT.json names.                                  *)
(***************************************************************************)
EXTENDS Integers, Sequences

CONSTANTS
  N,          (* backbuffers, 2 to 6                          *)
  Sizes       (* what the surface may measure                 *)

ASSUME BackbuffersAssumption == N \in Nat /\ N > 1

Backbuffers == 0 .. N - 1

VARIABLES
  \* the node of the pool
  backbuf_size, has_resized, active_fence_index, active_image_index,
  state,                       \* of each backbuffer, as remembered
  fence_command_buf_executed, sem_image_available, sem_render_finished,
  \* the node of the resource pool all backbuffers of the swapchain take turns in
  master_state,
  \* the GPU: fence indices of the present submits it has yet to execute, and what the images are in
  queue, layout,
  \* the engine: what is presented, from what is on the screen on
  presents,
  \* the application, the size it believes in, and the assertion or misuse that ended the process
  app, known, fault,
  \* histories: the images acquired since they were created, and whether an acquire was suboptimal
  seen, suboptimal

node == <<backbuf_size, has_resized, active_fence_index, active_image_index, state>>
sync == <<fence_command_buf_executed, sem_image_available, sem_render_finished>>
gpu  == <<queue, presents>>
vars == <<node, sync, gpu, master_state, layout, app, known, fault, seen, suboptimal>>

None == -1

-----------------------------------------------------------------------------
(* Images are created and destroyed with every resize, the fences and      *)
(* semaphores only with the swapchain.                                     *)

SetupIndices == active_fence_index' = 0 /\ active_image_index' = 0

SetupFlag_MutForgotten == UNCHANGED has_resized

SetupFlag == has_resized' = TRUE

SetupSwapchain ==
  /\ backbuf_size' \in Sizes
  /\ SetupFlag /\ SetupIndices
  /\ state' = [b \in Backbuffers |-> "undefined"]
  /\ layout' = [b \in Backbuffers |-> "undefined"]
  /\ presents' = <<>>
  /\ seen' = {}

Idle_MutNoWait == TRUE

\* what vkDeviceWaitIdle waits for
Idle == queue = <<>> /\ \A k \in DOMAIN presents : presents[k].done

FenceCreated_MutUnsignalled == "unsignalled"

FenceCreated == "signalled"

Init ==
  /\ backbuf_size \in Sizes /\ has_resized = TRUE
  /\ active_fence_index = 0 /\ active_image_index = 0
  /\ state = [b \in Backbuffers |-> "undefined"]
  /\ layout = [b \in Backbuffers |-> "undefined"]
  /\ fence_command_buf_executed = [b \in Backbuffers |-> FenceCreated]
  /\ sem_image_available = [b \in Backbuffers |-> "unsignalled"]
  /\ sem_render_finished = [b \in Backbuffers |-> "unsignalled"]
  /\ master_state = "undefined"
  /\ queue = <<>> /\ presents = <<>>
  /\ app = "top" /\ known = None /\ fault = "none"
  /\ seen = {} /\ suboptimal = FALSE

\* free, and createSwapchain, which gets the same node of the pools again
Recreate ==
  /\ app = "top" /\ Idle
  /\ SetupSwapchain
  /\ fence_command_buf_executed' = [b \in Backbuffers |-> FenceCreated]
  /\ sem_image_available' = [b \in Backbuffers |-> "unsignalled"]
  /\ sem_render_finished' = [b \in Backbuffers |-> "unsignalled"]
  /\ suboptimal' = FALSE
  /\ UNCHANGED <<master_state, queue, app, known, fault>>

OnResize ==
  /\ app = "top"
  /\ app' = "resizing"
  /\ UNCHANGED <<node, sync, gpu, master_state, layout, known, fault, seen, suboptimal>>

\* onResize with a width and height of zero, which a build that checks contracts does not survive
InternalResize ==
  \/ app' = "resizing" /\ UNCHANGED fault
  \/ fault' = "w > 0 && h > 0" /\ UNCHANGED app

Resized ==
  /\ app = "resizing" /\ Idle
  /\ SetupSwapchain
  /\ app' = "top"
  /\ UNCHANGED <<sync, master_state, queue, known, fault, suboptimal>>

ClearResizeFlag ==
  /\ app = "top"
  /\ known' = IF has_resized THEN backbuf_size ELSE known
  /\ has_resized' = FALSE
  /\ app' = "cleared"
  /\ UNCHANGED <<backbuf_size, active_fence_index, active_image_index, state, sync, gpu,
                 master_state, layout, fault, seen, suboptimal>>

-----------------------------------------------------------------------------
(* acquireBackbuffer.                                                      *)

\* vkAcquireNextImageKHR may return image im; k is where it was last presented, or None
Acquirable(im, k) ==
  \/ k = None /\ \A j \in DOMAIN presents : presents[j].image # im
  \/ k # None /\ k < Len(presents) /\ presents[k].image = im /\ presents[k].wanted = None

StoredUnder_MutCurrent(prev, current) == current

StoredUnder(prev, current) == prev

AcquireBackbuffer(im, k) ==
  LET f == active_fence_index
  IN  /\ app = "cleared" /\ sem_image_available[f] = "unsignalled"
      /\ Acquirable(im, k)
      /\ sem_image_available' = [sem_image_available EXCEPT ![f] = IF k = None THEN "signalled" ELSE "pending"]
      /\ presents' = [j \in DOMAIN presents |->
                        IF j = k THEN [presents[j] EXCEPT !.wanted = f] ELSE presents[j]]
      /\ active_image_index' = im
      \* injectBackbufferResource, setBackbufferState
      /\ master_state' = state[im]
      /\ state' = [state EXCEPT ![StoredUnder(active_image_index, im)] = master_state]
      /\ app' = "acquired"
      /\ seen' = seen \union {im}
      /\ UNCHANGED <<backbuf_size, has_resized, active_fence_index, fence_command_buf_executed,
                     sem_render_finished, queue, layout, known, fault, suboptimal>>

AcquireOutOfDate ==
  /\ app = "cleared"
  /\ InternalResize
  /\ UNCHANGED <<node, sync, gpu, master_state, layout, known, seen, suboptimal>>

\* the image is acquired all the same, and its semaphore signalled
AcquireSuboptimal ==
  /\ app = "cleared" /\ sem_image_available[active_fence_index] = "unsignalled"
  /\ sem_image_available' = [sem_image_available EXCEPT ![active_fence_index] = "signalled"]
  /\ suboptimal' = TRUE
  /\ InternalResize
  /\ UNCHANGED <<node, fence_command_buf_executed, sem_render_finished, gpu,
                 master_state, layout, known, seen>>

\* the API does not say what happens then
AcquireSignalled ==
  /\ app = "cleared" /\ sem_image_available[active_fence_index] # "unsignalled"
  /\ fault' = "acquire with a signalled semaphore"
  /\ UNCHANGED <<node, sync, gpu, master_state, layout, app, known, seen, suboptimal>>

-----------------------------------------------------------------------------
(* present.                                                                *)

\* the lists the application submits end with a transition of the backbuffer to present
Render ==
  /\ app = "acquired"
  /\ master_state' = "present"
  /\ layout' = [layout EXCEPT ![active_image_index] = "present"]
  /\ app' = "rendered"
  /\ UNCHANGED <<node, sync, gpu, known, fault, seen, suboptimal>>

\* the submit of the dummy command buffer, and the present behind it
Submitted ==
  /\ fence_command_buf_executed' =
       [fence_command_buf_executed EXCEPT ![active_fence_index] = "unsignalled"]
  /\ queue' = Append(queue, active_fence_index)
  /\ presents' = Append(presents, [image |-> active_image_index, index |-> active_fence_index,
                                   done |-> FALSE, wanted |-> None])

NextFence_MutTwoInTurn == (active_fence_index + 1) % 2
NextFence_MutNoWrap    == active_fence_index + 1

NextFence == (active_fence_index + 1) % N

Present ==
  /\ app = "rendered"
  /\ Submitted
  /\ active_fence_index' = NextFence
  /\ app' = "waiting"
  /\ UNCHANGED <<backbuf_size, has_resized, active_image_index, state, sem_image_available,
                 sem_render_finished, master_state, layout, known, fault, seen, suboptimal>>

PresentOutdated ==
  /\ app = "rendered"
  /\ Submitted
  /\ InternalResize
  /\ UNCHANGED <<node, sem_image_available, sem_render_finished, master_state, layout, known,
                 seen, suboptimal>>

WaitCondition_MutNoWait == TRUE

WaitCondition == fence_command_buf_executed[active_fence_index] = "signalled"

WaitForFence ==
  /\ app = "waiting"
  /\ WaitCondition
  /\ app' = "top"
  /\ UNCHANGED <<node, sync, gpu, master_state, layout, known, fault, seen, suboptimal>>

-----------------------------------------------------------------------------
(* The GPU and the presentation engine.                                    *)

ExecuteSubmit ==
  LET f == Head(queue)
  IN  /\ queue # <<>> /\ sem_image_available[f] = "signalled"
      /\ sem_image_available' = [sem_image_available EXCEPT ![f] = "unsignalled"]
      /\ sem_render_finished' = [sem_render_finished EXCEPT ![f] = "signalled"]
      /\ fence_command_buf_executed' = [fence_command_buf_executed EXCEPT ![f] = "signalled"]
      /\ queue' = Tail(queue)
      /\ UNCHANGED <<node, presents, master_state, layout, app, known, fault, seen, suboptimal>>

\* the next image comes to the screen; those before it are free
ShowNext ==
  \E k \in DOMAIN presents :
    /\ ~presents[k].done /\ \A j \in 1 .. k - 1 : presents[j].done
    /\ sem_render_finished[presents[k].index] = "signalled"
    /\ sem_render_finished' = [sem_render_finished EXCEPT ![presents[k].index] = "unsignalled"]
    /\ sem_image_available' =
         [b \in Backbuffers |-> IF \E j \in 1 .. k - 1 : presents[j].wanted = b
                                THEN "signalled" ELSE sem_image_available[b]]
    /\ presents' = <<[presents[k] EXCEPT !.done = TRUE]>> \o SubSeq(presents, k + 1, Len(presents))
    /\ UNCHANGED <<node, fence_command_buf_executed, queue, master_state, layout, app, known,
                   fault, seen, suboptimal>>

-----------------------------------------------------------------------------
Call ==
  \/ OnResize \/ Resized \/ Recreate \/ ClearResizeFlag
  \/ \E im \in Backbuffers, k \in DOMAIN presents \union {None} : AcquireBackbuffer(im, k)
  \/ AcquireOutOfDate \/ AcquireSuboptimal \/ AcquireSignalled
  \/ Render \/ Present \/ PresentOutdated \/ WaitForFence

Next == fault = "none" /\ (Call \/ ExecuteSubmit \/ ShowNext)

Spec == Init /\ [][Next]_vars

\* a call that waits returns once it can, the GPU works through its queue and the engine shows
\* what has been rendered
Fairness ==
  /\ WF_vars(fault = "none" /\ Resized)
  /\ WF_vars(fault = "none" /\ WaitForFence)
  /\ WF_vars(fault = "none" /\ ExecuteSubmit)
  /\ WF_vars(fault = "none" /\ ShowNext)

FairSpec == Spec /\ Fairness

-----------------------------------------------------------------------------
Presented == [image : Backbuffers, index : Backbuffers, done : BOOLEAN,
              wanted : Backbuffers \union {None}]

TypeOK ==
  /\ backbuf_size \in Sizes /\ has_resized \in BOOLEAN
  /\ active_fence_index \in Backbuffers /\ active_image_index \in Backbuffers
  /\ state \in [Backbuffers -> {"undefined", "present"}]
  /\ fence_command_buf_executed \in [Backbuffers -> {"signalled", "unsignalled"}]
  /\ sem_image_available \in [Backbuffers -> {"signalled", "unsignalled", "pending"}]
  /\ sem_render_finished \in [Backbuffers -> {"signalled", "unsignalled"}]
  /\ master_state \in {"undefined", "present"}
  /\ queue \in Seq(Backbuffers)
  /\ layout \in [Backbuffers -> {"undefined", "present"}]
  /\ presents \in Seq(Presented)
  /\ app \in {"top", "resizing", "cleared", "acquired", "rendered", "waiting"}
  /\ known \in Sizes \union {None}
  /\ fault \in {"none", "w > 0 && h > 0", "acquire with a signalled semaphore"}
  /\ seen \subseteq Backbuffers /\ suboptimal \in BOOLEAN

\* The fence present is about to reset has been signalled, and the submit it belongs to is executed:
\* the wait at the end of the present before, or the idle device of a resize, was for this one
\* (swapchain_pool.cc:133, 183).
FenceDone ==
  app = "rendered" /\ fault = "none" =>
    /\ fence_command_buf_executed[active_fence_index] = "signalled"
    /\ \A k \in DOMAIN queue : queue[k] # active_fence_index

\* A present submit signals a semaphore nobody has yet to wait for.  Its fence says nothing about
\* the present that waits for the semaphore (swapchain_pool.cc:145, 163): only N images in turn, and
\* an engine that shows them in order, see to that.
RenderFinishedFree ==
  queue # <<>> /\ sem_image_available[Head(queue)] = "signalled" =>
    sem_render_finished[Head(queue)] = "unsignalled"

\* Every acquire finds its semaphore unsignalled (swapchain_pool.cc:193), unless an acquire before
\* it was suboptimal: that one is given up with its semaphore signalled.
AcquiresRight ==
  fault = "acquire with a signalled semaphore" => suboptimal

\* The state remembered for the backbuffer acquired, from which its first transition starts, is the
\* state it is in, whatever order images come in and whenever the swapchain is resized
\* (BackendVulkan.cc:262-277); only the first time image 0 is acquired it may not be.
BeforeStateRight ==
  [][app = "cleared" /\ app' = "acquired" /\ master_state' # layout[active_image_index']
       => active_image_index' = 0 /\ 0 \notin seen]_vars

\* The application never gets a backbuffer of a size it has not been told of, if it asks once per
\* frame (Backend.hh:60-62): every resize between two frames, its own or an internal one, is noted.
SizeKnown ==
  app = "acquired" => known = backbuf_size

\* present and onResize return: what they wait for is submitted, and no image is waited for that
\* only a later present would free.
CallsReturn ==
  app \in {"waiting", "resizing"} ~> app \notin {"waiting", "resizing"} \/ fault # "none"
=============================================================================
