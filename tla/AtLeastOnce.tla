----------------------------- MODULE AtLeastOnce -----------------------------
(***************************************************************************)
(* What the outbox of cognitive events promises whoever appends one: the   *)
(* event is handled, once or more, before it is settled, an event is       *)
(* settled without that only when it was given up, and every event is      *)
(* settled in the end.                                                     *)
(***************************************************************************)
CONSTANTS Events

VARIABLES
    appended,  \* events that are in the log
    handled,   \* events a handler has seen through
    givenUp,   \* events settled as failed
    settled    \* events nobody will claim again

vars == <<appended, handled, givenUp, settled>>

Init == appended = {} /\ handled = {} /\ givenUp = {} /\ settled = {}

Append(e) ==
    /\ e \notin appended
    /\ appended' = appended \cup {e}
    /\ UNCHANGED <<handled, givenUp, settled>>

Handle(e) ==
    /\ e \in appended \ handled
    /\ handled' = handled \cup {e}
    /\ UNCHANGED <<appended, givenUp, settled>>

Settle(e) ==
    /\ e \in handled \ settled
    /\ settled' = settled \cup {e}
    /\ UNCHANGED <<appended, handled, givenUp>>

GiveUp(e) ==
    /\ e \in appended \ settled
    /\ givenUp' = givenUp \cup {e} /\ settled' = settled \cup {e}
    /\ UNCHANGED <<appended, handled>>

Deal(e) == Handle(e) \/ Settle(e) \/ GiveUp(e)

Next == \E e \in Events : Append(e) \/ Deal(e)

Spec == Init /\ [][Next]_vars

\* Nothing that was appended stays unsettled for ever.
FairSpec == Spec /\ \A e \in Events : WF_vars(e \notin settled /\ Deal(e))
=============================================================================
