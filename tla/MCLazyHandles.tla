---------------------------- MODULE MCLazyHandles ----------------------------
EXTENDS LazyHandles, TLC
Symmetry == Permutations(Calls)
=============================================================================
