------------------------------ MODULE PagePools ------------------------------
(***************************************************************************)
(* The two pools behind page allocators.  They share nothing but the code  *)
(* of the allocator: every behaviour is one of a pool of shader views, or  *)
(* one of a pool of query ranges.                                          *)
(***************************************************************************)
EXTENDS ShaderViewPool, QueryPool

VARIABLE pool

poolvars == <<viewvars, ranges, wanted, pool>>

Init ==
  /\ ViewInit /\ RangeInit
  /\ pool \in {"views", "ranges"}

Next ==
  \/ pool = "views" /\ ViewNext /\ UNCHANGED <<ranges, wanted, pool>>
  \/ pool = "ranges" /\ RangeNext /\ UNCHANGED <<views, pc, new, todo, freed, pool>>

Spec == Init /\ [][Next]_poolvars

FairSpec == Spec /\ ViewFairness /\ RangeFairness

TypeOK == AllocType /\ ViewType /\ RangeType
=============================================================================
