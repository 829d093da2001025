--------------------------- MODULE ResourceStates ---------------------------
(***************************************************************************)
(* How the backends find the before-state of every resource transition.    *)
(*                                                                         *)
(* A transition names only the state after it.  While a command list is    *)
(* translated, its incomplete state cache knows the state of a resource    *)
(* from the list's first transition of it onwards; that first transition   *)
(* records no barrier.  submit compares what each list expects at its      *)
(* beginning with the master state the previous submissions left behind,   *)
(* and puts a list of the missing barriers in front.  Lists are recorded   *)
(* concurrently and submitted in any order, or discarded.                  *)
(*                                                                         *)
(* Both backends do this; the Vulkan one also tracks the pipeline stages   *)
(* that depend on a state, which D3D12 has no notion of.  The GPU executes *)
(* the commands in the order they are submitted; what it does to a         *)
(* resource is modelled to see whether the barriers are right.             *)
(*                                                                         *)
(* A definition whose name contains _Mut is a deliberately wrong variant   *)
(* of the one that follows it.  No behaviour uses it: substituting it must *)
(* break the property PROJECT.json names.                                  *)
(***************************************************************************)
EXTENDS Integers, Sequences, FiniteSets

CONSTANTS
  Lists,        (* command lists                                            *)
  Resources,
  Images,       (* the others are buffers and have no slices                *)
  Slices,       (* the subresources of an image                             *)
  Stages,       (* pipeline stages                                          *)
  Targets,      (* what a transition may ask for: [state, stages]           *)
  Undefined,    (* the target of a new resource                             *)
  MaxEntries,   (* max_num_unique_transitions_per_cmdlist                   *)
  BundleSize,   (* image barriers, and buffer barriers, of one barrier-only *)
                (* list: 32 each in BackendVulkan, no limit in BackendD3D12 *)
  MaxCommands,  (* bound: length of a list                                  *)
  NoList

ASSUME TargetsAssumption ==
  /\ Undefined \notin Targets
  /\ \A t \in Targets \union {Undefined} :
       DOMAIN t = {"state", "stages"} /\ t.stages \subseteq Stages
ASSUME SizesAssumption ==
  /\ Images \subseteq Resources
  /\ {MaxEntries, BundleSize, MaxCommands} \subseteq Nat
  /\ NoList \notin Lists

AllTargets == Targets \union {Undefined}
States     == {t.state : t \in AllTargets}

VARIABLES
  master,                    \* master_state and master_state_dependency of each resource
  status,                    \* of each list: where it is in its life
  known, initial, current,   \* its incomplete_state_cache: which entries, and their values
  code,                      \* the commands in its command buffer
  slice,                     \* what the application knows of the subresources it transitions
  sub, inserted, done,       \* the list on its way to the GPU, the barriers put in front of it
                             \* that are still to come, and how many of its commands are through
  gpu_state,                 \* the state each subresource really is in,
  visible,                   \* the stages to which its contents were made visible,
  accessed,                  \* and those that have accessed it since
  assertion

cache == <<known, initial, current>>
list  == <<status, cache, code, slice>>
gpu   == <<gpu_state, visible, accessed>>
vars  == <<master, list, sub, inserted, done, gpu, assertion>>

Init ==
  /\ master = [r \in Resources |-> Undefined]
  /\ status = [l \in Lists |-> "unused"]
  /\ known = [l \in Lists |-> {}]
  /\ initial = [l \in Lists |-> [r \in Resources |-> Undefined]]
  /\ current = [l \in Lists |-> [r \in Resources |-> Undefined]]
  /\ code = [l \in Lists |-> <<>>]
  /\ slice = [l \in Lists |-> [r \in Resources |-> [s \in Slices |-> Undefined]]]
  /\ sub = NoList /\ inserted = {} /\ done = 0
  /\ gpu_state = [r \in Resources |-> [s \in Slices |-> Undefined.state]]
  /\ visible = [r \in Resources |-> [s \in Slices |-> Undefined.stages]]
  /\ accessed = [r \in Resources |-> [s \in Slices |-> {}]]
  /\ assertion = "none"

-----------------------------------------------------------------------------
(* What a command buffer contains: barriers, and work that relies on the   *)
(* state a transition has announced.  Work leaves the state as it is.      *)

Barrier(r, ss, before, after) == [res |-> r, slices |-> ss, before |-> before, after |-> after]
Work(r, ss, t) == Barrier(r, ss, t, t)
IsWork(c) == c.before = c.after

Put(l, cs) == code' = [code EXCEPT ![l] = @ \o cs]

\* a transition that changes nothing needs no barrier
Redundant_MutAlways(before, after) == TRUE

Redundant(before, after) == before.state = after.state

BarrierIfNeeded(r, ss, before, after) ==
  IF Redundant(before, after) THEN <<>> ELSE <<Barrier(r, ss, before, after)>>

-----------------------------------------------------------------------------
(* Recording: recordCommandList takes a command list and translates the    *)
(* application's commands into it.  After each transition the application  *)
(* uses what it asked for.                                                 *)

EmptyCache_MutKept(l) ==
  /\ UNCHANGED <<known, initial, current>>
  /\ slice' = [slice EXCEPT ![l] = [r \in Resources |-> [s \in Slices |-> current[l][r]]]]

\* initialize and reset empty the cache; which values a resource not in the cache has is moot
EmptyCache(l) ==
  /\ known' = [known EXCEPT ![l] = {}]
  /\ initial' = [initial EXCEPT ![l] = [r \in Resources |-> Undefined]]
  /\ current' = [current EXCEPT ![l] = [r \in Resources |-> Undefined]]
  /\ slice' = [slice EXCEPT ![l] = [r \in Resources |-> [s \in Slices |-> Undefined]]]

BeginList(l) ==
  /\ status[l] = "unused"
  /\ status' = [status EXCEPT ![l] = "recording"]
  /\ code' = [code EXCEPT ![l] = <<>>]
  /\ EmptyCache(l)
  /\ UNCHANGED <<master, sub, inserted, done, gpu, assertion>>

Room(l) == Len(code[l]) < MaxCommands

\* the cache knows the state of all subresources: the application transitions slice by slice
\* all or none of them, or does a state reset afterwards
InStep(l, r) == \A s \in Slices : slice[l][r][s].state = current[l][r].state

\* required_initial is written once, when the entry is made
Required_MutLatest(l, r, t) == t

Required(l, r, t) == IF r \in known[l] THEN initial[l][r] ELSE t

CacheFull(l, r) == r \notin known[l] /\ Cardinality(known[l]) = MaxEntries

\* cmd::transition_resources, one of its transitions
Transition(l, r, t) ==
  /\ status[l] = "recording" /\ Room(l)
  /\ InStep(l, r)
  /\ \/ /\ CacheFull(l, r)
        /\ assertion' = "state cache full"
        /\ UNCHANGED list
     \/ /\ ~CacheFull(l, r)
        /\ known' = [known EXCEPT ![l] = @ \union {r}]
        /\ initial' = [initial EXCEPT ![l][r] = Required(l, r, t)]
        /\ current' = [current EXCEPT ![l][r] = t]
        /\ slice' = [slice EXCEPT ![l][r] = [s \in Slices |-> t]]
        /\ Put(l, (IF r \in known[l] THEN BarrierIfNeeded(r, Slices, current[l][r], t) ELSE <<>>)
                    \o <<Work(r, Slices, t)>>)
        /\ UNCHANGED <<status, assertion>>
  /\ UNCHANGED <<master, sub, inserted, done, gpu>>

\* cmd::transition_image_slices, one of its transitions: explicit, and not tracked.  A list that
\* has reached the bound only goes back into step.
TransitionSlice(l, r, s, t) ==
  /\ status[l] = "recording"
  /\ Room(l) \/ t = current[l][r]
  /\ r \in known[l] \intersect Images
  /\ slice[l][r][s].state # t.state
  /\ slice' = [slice EXCEPT ![l][r][s] = t]
  /\ Put(l, <<Barrier(r, {s}, slice[l][r][s], t), Work(r, {s}, t)>>)
  /\ UNCHANGED <<master, status, cache, sub, inserted, done, gpu, assertion>>

\* cmd::transition_image_slices, one of its state resets: "once a resource is entirely
\* transitioned slice-by-slice"
ResetState(l, r, t) ==
  /\ status[l] = "recording"
  /\ r \in known[l] \intersect Images
  /\ \A s \in Slices : slice[l][r][s] = t
  /\ current' = [current EXCEPT ![l][r] = t]
  /\ UNCHANGED <<master, status, known, initial, code, slice, sub, inserted, done, gpu, assertion>>

EndList(l) ==
  /\ status[l] = "recording"
  /\ \A r \in known[l] : InStep(l, r)
  /\ status' = [status EXCEPT ![l] = "recorded"]
  /\ UNCHANGED <<master, cache, code, slice, sub, inserted, done, gpu, assertion>>

-----------------------------------------------------------------------------
(* discard and submit.                                                     *)

Release(l) ==
  /\ status' = [status EXCEPT ![l] = "unused"]
  /\ code' = [code EXCEPT ![l] = <<>>]
  /\ EmptyCache(l)

Discard(l) ==
  /\ status[l] = "recorded" /\ sub # l
  /\ Release(l)
  /\ UNCHANGED <<master, sub, inserted, done, gpu, assertion>>

\* the entries for which the list in front has a barrier
Missing_MutUntracked(l) == {}

Missing(l) == {r \in known[l] : ~Redundant(master[r], initial[l][r])}

TooMany(rs) ==
  \/ Cardinality(rs \intersect Images) > BundleSize
  \/ Cardinality(rs \ Images) > BundleSize

\* the state in which the list leaves a resource
Left_MutInitial(l, r) == initial[l][r]

Left(l, r) == current[l][r]

\* one list of a submit: look at its cache, update the master states, insert the barriers
SubmitList(l) ==
  /\ sub = NoList
  /\ status[l] = "recorded"
  /\ \/ /\ TooMany(Missing(l))
        /\ assertion' = "too many barriers"
        /\ UNCHANGED <<master, sub, inserted, done>>
     \/ /\ ~TooMany(Missing(l))
        /\ sub' = l /\ done' = 0
        /\ inserted' = {Barrier(r, Slices, master[r], initial[l][r]) : r \in Missing(l)}
        /\ master' = [r \in Resources |-> IF r \in known[l] THEN Left(l, r) ELSE master[r]]
        /\ UNCHANGED assertion
  /\ UNCHANGED <<list, gpu>>

\* the commands of the submission the GPU is to execute next; barriers of one call go together
Upcoming ==
  IF sub = NoList THEN {}
  ELSE IF inserted # {} THEN inserted
  ELSE IF done < Len(code[sub]) THEN {code[sub][done + 1]}
  ELSE {}

\* the list is through: freeOnSubmit
Finish ==
  /\ sub # NoList
  /\ Upcoming = {}
  /\ Release(sub)
  /\ sub' = NoList
  /\ UNCHANGED <<master, inserted, done, gpu, assertion>>

-----------------------------------------------------------------------------
(* The GPU (external).                                                     *)

Concerns(c, r, s) == c.res = r /\ s \in c.slices

Execute ==
  /\ Upcoming # {}
  /\ gpu_state' = [r \in Resources |-> [s \in Slices |->
       IF \E c \in Upcoming : Concerns(c, r, s)
       THEN (CHOOSE c \in Upcoming : Concerns(c, r, s)).after.state
       ELSE gpu_state[r][s]]]
  /\ visible' = [r \in Resources |-> [s \in Slices |->
       IF \E c \in Upcoming : Concerns(c, r, s) /\ ~IsWork(c)
       THEN (CHOOSE c \in Upcoming : Concerns(c, r, s)).after.stages
       ELSE visible[r][s]]]
  /\ accessed' = [r \in Resources |-> [s \in Slices |->
       IF \E c \in Upcoming : Concerns(c, r, s)
       THEN LET c == CHOOSE c \in Upcoming : Concerns(c, r, s)
            IN  IF IsWork(c) THEN accessed[r][s] \union c.after.stages ELSE {}
       ELSE accessed[r][s]]]
  /\ inserted' = {}
  /\ done' = IF inserted # {} THEN done ELSE done + 1
  /\ UNCHANGED <<master, list, sub, assertion>>

-----------------------------------------------------------------------------
Record(l) ==
  \/ BeginList(l) \/ EndList(l)
  \/ \E r \in Resources, t \in Targets :
       \/ Transition(l, r, t)
       \/ ResetState(l, r, t)
       \/ \E s \in Slices : TransitionSlice(l, r, s, t)

Next ==
  /\ assertion = "none"
  /\ \/ \E l \in Lists : Record(l) \/ Discard(l) \/ SubmitList(l)
     \/ Execute
     \/ Finish

Spec == Init /\ [][Next]_vars

-----------------------------------------------------------------------------
Command == [res : Resources, slices : SUBSET Slices, before : AllTargets, after : AllTargets]

\* Every variable has the type of the C++ member it stands for.
TypeOK ==
  /\ master \in [Resources -> AllTargets]
  /\ status \in [Lists -> {"unused", "recording", "recorded"}]
  /\ known \in [Lists -> SUBSET Resources]
  /\ initial \in [Lists -> [Resources -> AllTargets]]
  /\ current \in [Lists -> [Resources -> AllTargets]]
  /\ code \in [Lists -> Seq(Command)]
  /\ slice \in [Lists -> [Resources -> [Slices -> AllTargets]]]
  /\ sub \in Lists \union {NoList}
  /\ inserted \subseteq Command
  /\ done \in Nat
  /\ gpu_state \in [Resources -> [Slices -> States]]
  /\ visible \in [Resources -> [Slices -> SUBSET Stages]]
  /\ accessed \in [Resources -> [Slices -> SUBSET Stages]]
  /\ assertion \in {"none", "state cache full", "too many barriers"}

\* Every barrier names the state its resource really is in, and all work finds the state that
\* was asked for: "the before state is internally managed, and submit-order-safe"
\* (commands.hh:91), and the resource of a first transition is in its state "right away from
\* the beginning of the cmdlist" (commands.hh:95).
BeforeStatesRight ==
  \A c \in Upcoming : \A s \in c.slices : gpu_state[c.res][s] = c.before.state

\* Between two lists, the master state of a resource is the state it is in.
MasterRight ==
  sub = NoList => \A r \in Resources, s \in Slices : gpu_state[r][s] = master[r].state

\* What makes them inductive: in every list each command names the state its predecessors leave,
\* starting from the state the list expects ...
LeftBy(cs, n, r, s, from, st) ==
  \/ /\ st = from
     /\ \A i \in 1 .. n : ~Concerns(cs[i], r, s)
  \/ \E i \in 1 .. n :
       /\ Concerns(cs[i], r, s) /\ cs[i].after.state = st
       /\ \A j \in i + 1 .. n : ~Concerns(cs[j], r, s)

Chained(cs, r, s, from) ==
  \A n \in 1 .. Len(cs) :
    Concerns(cs[n], r, s) => LeftBy(cs, n - 1, r, s, from, cs[n].before.state)

ListRight(cs, kn, ini, sl) ==
  /\ \A n \in 1 .. Len(cs) : cs[n].res \in kn
  /\ \A r \in kn, s \in Slices :
       /\ Chained(cs, r, s, ini[r].state)
       /\ LeftBy(cs, Len(cs), r, s, ini[r].state, sl[r][s].state)

CodeRight == \A l \in Lists : ListRight(code[l], known[l], initial[l], slice[l])

\* ... the cache of a finished list knows how it leaves its resources ...
CacheRight == \A l \in Lists : status[l] = "recorded" => \A r \in known[l] : InStep(l, r)

\* ... and while a list is executed, what it does not touch is as the master states say, and
\* what it does touch is as far as the list has come.
ProgressRight ==
  sub # NoList =>
    /\ status[sub] = "recorded"
    /\ done \in 0 .. Len(code[sub])
    /\ \A r \in Resources \ known[sub], s \in Slices : gpu_state[r][s] = master[r].state
    /\ \A r \in known[sub] : master[r] = current[sub][r]
    /\ \A c \in inserted : /\ c.res \in known[sub] /\ c.slices = Slices
                          /\ c.after = initial[sub][c.res]
    /\ \A c, d \in inserted : c.res = d.res => c = d
    /\ inserted # {} => done = 0
    /\ \A r \in known[sub], s \in Slices :
         IF \E c \in inserted : c.res = r
         THEN \A c \in inserted : c.res = r => gpu_state[r][s] = c.before.state
         ELSE LeftBy(code[sub], done, r, s, initial[sub][r].state, gpu_state[r][s])

StatesInv ==
  TypeOK /\ CodeRight /\ CacheRight /\ ProgressRight /\ MasterRight /\ (sub = NoList => inserted = {})

\* Work in the stages a transition announced sees the contents of the resource, and a barrier
\* waits for all work it follows: depending_shader is "the union of shaders depending upon this
\* resource next" (commands.hh:102).
StagesOrdered ==
  \A c \in Upcoming : \A s \in c.slices :
    IF IsWork(c) THEN c.after.stages \subseteq visible[c.res][s]
                 ELSE accessed[c.res][s] \subseteq c.before.stages

\* No assertion fires while no list transitions more resources than its cache and the bundle of
\* barriers hold.
NeverAsserts == assertion = "none"

\* A list meets a full state cache only after it has itself transitioned as many resources as the
\* cache has entries: nothing is left over from the lists recorded into it before, and no resource
\* has two entries (vk_incomplete_state_cache.hh:45).
CacheFullRight ==
  assertion = "state cache full" =>
    \E l \in Lists : Cardinality({code[l][n].res : n \in DOMAIN code[l]}) >= MaxEntries

\* A list that fits its state cache can be submitted: all a list with too many transitions needs
\* is to "increase PHI config : max_num_unique_transitions_per_cmdlist"
\* (vk_incomplete_state_cache.hh:45).
BarriersFit == assertion # "too many barriers"
=============================================================================
