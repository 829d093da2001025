-------------------------- MODULE MCD3D12FenceWait --------------------------
(* Instances of D3D12FenceWait for TLC.                                    *)
EXTENDS D3D12FenceWait, TLC

Symmetry == Permutations(Threads) \union Permutations(Queues)
=============================================================================
