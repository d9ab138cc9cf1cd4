---------------------------- MODULE MCQueryRunner ----------------------------
EXTENDS QueryRunner, TLC
Symmetry == Permutations(Runs)
=============================================================================
