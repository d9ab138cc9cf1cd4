----------------------------- MODULE MCExplorer -----------------------------
EXTENDS Explorer, TLC
CONSTANTS a, d1
TabTargets == {<<a, d1>>}
Symmetry == Permutations(Tasks)
=============================================================================
