------------------------------ MODULE MCNyatDb ------------------------------
EXTENDS NyatDb, TLC
CONSTANTS C1, C2
\* No property is about a trimmed log after a crash.
TrimsOrFaults == trims = 0 \/ kills + losses = 0
Symmetry == Permutations({C1, C2})
=============================================================================
