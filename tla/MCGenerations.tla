---------------------------- MODULE MCGenerations ----------------------------
EXTENDS Generations
Symmetry == Permutations(Flows)
=============================================================================
