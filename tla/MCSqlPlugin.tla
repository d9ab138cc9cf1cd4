---------------------------- MODULE MCSqlPlugin ----------------------------
EXTENDS SqlPlugin, TLC
Symmetry == Permutations(RunCalls)
=============================================================================
