------------------------------ MODULE MCWaitFsm ------------------------------
EXTENDS WaitFsm, TLC
Symmetry == Permutations(Waits)
=============================================================================
