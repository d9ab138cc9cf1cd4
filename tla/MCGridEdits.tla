---------------------------- MODULE MCGridEdits -----------------------------
EXTENDS GridEdits, TLC
CONSTANTS t, u, a, b, n, j1, j2
Symmetry == Permutations(Tabs) \cup Permutations(Tables) \cup Permutations(Jobs)
=============================================================================
