------------------------------ MODULE MCTurnLive ------------------------------
(***************************************************************************)
(* The turn path from a chat with a stranded entry, in the form the safety *)
(* run shows stranded entries have: the pointer names a removed job, the   *)
(* dirty mark is up.                                                       *)
(***************************************************************************)
EXTENDS TurnScheduler
CONSTANT First    \* the stranded entry

StrandedInit ==
    /\ pending = {First} /\ sent = {First} /\ pointer = Gone /\ dirty = TRUE /\ lock = None
    /\ job = [j \in Jobs |-> "none"] /\ stalls = {}
    /\ turn = [j \in Jobs |-> "off"] /\ burst = [j \in Jobs |-> {}]
    /\ wasDirty = [j \in Jobs |-> FALSE] /\ expired = {}
    /\ at = [c \in Callers |-> "no"] /\ seen = [c \in Callers |-> None]
    /\ defer = [d \in Defers |-> "none"] /\ held = [d \in Defers |-> None]
    /\ injected = {} /\ replays = [m \in Msgs |-> 0]
    /\ handled = {} /\ lost = {} /\ faults = 0

LiveSpec == StrandedInit /\ [][Next]_vars /\ Fairness
=============================================================================
