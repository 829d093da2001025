-------------------------- MODULE MCD3D12CmdListPool --------------------------
EXTENDS D3D12CmdListPool, TLC

Symmetry == Permutations(Threads) \union Permutations(Nodes)
=============================================================================
