------------------------------ MODULE MCOutbox ------------------------------
EXTENDS Outbox, TLC
CONSTANTS F1, F2, Ok, Done, Stop, Fail, W1, W2

MCKind == [e \in Emissions |-> CASE e \in {F1, F2} -> "failure" [] e = Ok -> "callback"
                                 [] e = Done -> "verified" [] e = Stop -> "stop"
                                 [] e = Fail -> "failed"]
MCTool == [e \in Emissions |-> "search"]
Symmetry == {f @@ w : f \in Permutations({F1, F2}), w \in Permutations({W1, W2})}
=============================================================================
