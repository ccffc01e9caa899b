---------------------------- MODULE ActionLedger ----------------------------
(***************************************************************************)
(* What a durable action promises whoever asks for it under an idempotency *)
(* key, however often and through whatever crashes: it is carried out at   *)
(* most once, only when somebody has claimed it, its outcome is final, and *)
(* it is only called a success when it was carried out.                    *)
(***************************************************************************)
EXTENDS Integers

CONSTANTS Keys, Before    \* Before: actions carried out before they were entered

VARIABLES
    entered,   \* the keys that have an entry
    claimed,   \* the entries somebody has claimed
    times,     \* how often each action was carried out
    outcome    \* "open", "ok" or "not"

vars == <<entered, claimed, times, outcome>>

Init ==
    /\ entered = {} /\ claimed = {}
    /\ times = [k \in Keys |-> IF k \in Before THEN 1 ELSE 0]
    /\ outcome = [k \in Keys |-> "open"]

Enter(k) ==
    /\ entered' = entered \cup {k}
    /\ UNCHANGED <<claimed, times, outcome>>

Claim(k) ==
    /\ k \in entered \ claimed /\ outcome[k] = "open"
    /\ claimed' = claimed \cup {k}
    /\ UNCHANGED <<entered, times, outcome>>

\* It may happen after the outcome was settled: somebody gave up waiting.
Happen(k) ==
    /\ k \in claimed /\ times[k] = 0
    /\ times' = [times EXCEPT ![k] = 1]
    /\ UNCHANGED <<entered, claimed, outcome>>

Succeed(k) ==
    /\ k \in claimed /\ times[k] = 1 /\ outcome[k] = "open"
    /\ outcome' = [outcome EXCEPT ![k] = "ok"]
    /\ UNCHANGED <<entered, claimed, times>>

\* Claimed or not, it can be given up, or claimed to be given up at once.
GiveUp(k) ==
    /\ k \in entered /\ outcome[k] = "open"
    /\ claimed' \in {claimed, claimed \cup {k}}
    /\ outcome' = [outcome EXCEPT ![k] = "not"]
    /\ UNCHANGED <<entered, times>>

Next == \E k \in Keys : Enter(k) \/ Claim(k) \/ Happen(k) \/ Succeed(k) \/ GiveUp(k)

Spec == Init /\ [][Next]_vars
=============================================================================
