--------------------------- MODULE ThreadAssociation ---------------------------
(***************************************************************************)
(* The association of OS threads with indices (common/thread_association), *)
(* by which a backend gives each thread its own translator and command     *)
(* allocators.  The index lives in a thread_local of the thread, the count *)
(* in the backend: threads outlive backends, and backends outlive threads. *)
(*                                                                         *)
(* IsAssociated_MutAny is a deliberately wrong variant of IsAssociated,    *)
(* which no behaviour uses: substituting it must break OwnersDiffer.       *)
(***************************************************************************)
EXTENDS Integers

CONSTANTS Threads, MaxInstances

ASSUME InstancesAssumption == MaxInstances \in Nat

VARIABLES
  s_global_threadassoc_id,  \* what the next instance is called
  id, num_associations,     \* thread_association: _id and _num_associations
  ts_id, index              \* tl_index_info of each thread

assoc == <<s_global_threadassoc_id, id, num_associations, ts_id, index>>

Unassociated == -1

\* no thread has met the first instance
AssocInit ==
  /\ s_global_threadassoc_id = 1
  /\ id = 0 /\ num_associations = 0
  /\ ts_id = [t \in Threads |-> Unassociated]
  /\ index = [t \in Threads |-> 0]

\* destroy, and initialize of the next instance: one is alive at a time
ReplaceAssociation ==
  /\ s_global_threadassoc_id < MaxInstances
  /\ id' = s_global_threadassoc_id
  /\ s_global_threadassoc_id' = s_global_threadassoc_id + 1
  /\ num_associations' = 0
  /\ UNCHANGED <<ts_id, index>>

IsAssociated_MutAny(t) == ts_id[t] # Unassociated

IsAssociated(t) == ts_id[t] = id

\* what get_current_index returns to t ...
CurrentIndex(t) == IF IsAssociated(t) THEN index[t] ELSE num_associations

\* ... and what it leaves behind
GetCurrentIndex(t) ==
  /\ ts_id' = [ts_id EXCEPT ![t] = id]
  /\ index' = [index EXCEPT ![t] = CurrentIndex(t)]
  /\ num_associations' = IF IsAssociated(t) THEN num_associations ELSE num_associations + 1
  /\ UNCHANGED <<s_global_threadassoc_id, id>>

\* thread t ends, and its name is that of a new one
ThreadEnds(t) ==
  /\ ts_id[t] # Unassociated
  /\ ts_id' = [ts_id EXCEPT ![t] = Unassociated]
  /\ index' = [index EXCEPT ![t] = 0]
  /\ UNCHANGED <<s_global_threadassoc_id, id, num_associations>>

-----------------------------------------------------------------------------
AssocType ==
  /\ s_global_threadassoc_id \in Nat
  /\ id \in Nat /\ num_associations \in Nat
  /\ ts_id \in [Threads -> Nat \union {Unassociated}]
  /\ index \in [Threads -> Nat]

\* What an association means: ids are never used twice, not by instances to come either, and the
\* threads that have met this instance have different indices below its count.
AssocRight ==
  /\ id < s_global_threadassoc_id
  /\ \A t \in Threads : ts_id[t] < s_global_threadassoc_id
  /\ \A t \in Threads : ts_id[t] = id => index[t] < num_associations
  /\ \A t, u \in Threads : t # u /\ ts_id[t] = id /\ ts_id[u] = id => index[t] # index[u]
=============================================================================
