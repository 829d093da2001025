-------------------------- MODULE MCResourceStates --------------------------
(* Instances of ResourceStates for TLC.                                    *)
EXTENDS ResourceStates, TLC

Target(state, stages) == [state |-> state, stages |-> stages]

MCStages    == {"output", "pixel", "compute"}
MCUndefined == Target("undefined", {})

\* one dependency per state, as a renderer that never reads from two stages would use
OneStageEach == {Target("render_target", {"output"}), Target("shader_resource", {"pixel"})}

Symmetry == Permutations(Lists) \union Permutations(Slices)
=============================================================================
