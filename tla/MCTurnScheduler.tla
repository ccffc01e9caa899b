--------------------------- MODULE MCTurnScheduler ---------------------------
EXTENDS TurnScheduler, TLC
\* One entry meets faults, defer jobs and replays; two entries run without them.
Alone == sent \cap Edits = {}
Plain == faults = 0 /\ \A d \in Defers : defer[d] = "none" /\ \A m \in Msgs : replays[m] = 0
AloneOrPlain == Alone \/ Plain
Symmetry == Permutations(Jobs)
=============================================================================
