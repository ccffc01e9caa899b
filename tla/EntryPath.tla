------------------------------ MODULE EntryPath ------------------------------
(***************************************************************************)
(* What the turn path promises an entry, without jobs, locks or Redis: the *)
(* places it can be in and the moves between them.  A turn claims all that *)
(* is queued; a claimed entry is seen to, or goes round again at the cost  *)
(* of one of its replays; only a dying process loses entries, and only     *)
(* claimed ones; what is done or lost stays so.                            *)
(***************************************************************************)
EXTENDS Naturals

CONSTANTS Msgs, MaxReplays

VARIABLES
    place,   \* where each entry is
    uses     \* how many replays it has used

vars == <<place, uses>>

Init ==
    /\ place = [m \in Msgs |-> "unsent"]
    /\ uses = [m \in Msgs |-> 0]

At(from) == {m \in Msgs : place[m] = from}
Move(S, to) == place' = [m \in Msgs |-> IF m \in S THEN to ELSE place[m]]

Send(m) == place[m] = "unsent" /\ Move({m}, "queued") /\ UNCHANGED uses
Claim == Move(At("queued"), "claimed") /\ UNCHANGED uses
SeeTo(m) == place[m] = "claimed" /\ Move({m}, "done") /\ UNCHANGED uses
Lose == Move(At("claimed"), "lost") /\ UNCHANGED uses

\* Back to the queue at once, or after a while.
GoRound(m) ==
    /\ place[m] = "claimed" /\ uses[m] < MaxReplays
    /\ uses' = [uses EXCEPT ![m] = @ + 1]
    /\ Move({m}, "queued") \/ Move({m}, "deferred")

ComeBack(m) == place[m] = "deferred" /\ Move({m}, "queued") /\ UNCHANGED uses

Next ==
    \/ Claim \/ Lose
    \/ \E m \in Msgs : Send(m) \/ SeeTo(m) \/ GoRound(m) \/ ComeBack(m)

Spec == Init /\ [][Next]_vars
=============================================================================
