-------------------------- MODULE MCVkCmdListPool --------------------------
EXTENDS VkCmdListPool, TLC

Symmetry == Permutations(Threads)
=============================================================================
