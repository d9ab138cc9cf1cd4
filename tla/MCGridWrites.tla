---------------------------- MODULE MCGridWrites -----------------------------
EXTENDS GridWrites, TLC
Symmetry == Permutations(Batches) \cup Permutations(Statements) \cup Permutations(Tabs)
=============================================================================
