----------------------------- MODULE AgencyRuns -----------------------------
(***************************************************************************)
(* The durable actions of agent/agency-runtime.ts: a run per idempotency   *)
(* key, claimed by one of the calls that ask for it, carried out by an     *)
(* adapter that a timeout or a cancellation does not stop, and settled     *)
(* with a receipt.  The calls are the dispatches of agency-reply-dispatch, *)
(* agency-wait-dispatch, agency-codeact-dispatch and agency-proposals, the *)
(* observations of agency-reply-observation, and cancellations.            *)
(*                                                                         *)
(* An action is the code between two awaits.  agency_attempts mirrors the  *)
(* receipts and is left out; envelopes are valid.                          *)
(***************************************************************************)
EXTENDS Integers, FiniteSets

CONSTANTS
    Keys,       \* idempotency keys
    Observed,   \* those of deliveries that have already happened
    Expiring,   \* those whose envelope has an expiry
    Calls,
    MaxCrashes, \* bound
    None

ASSUME AgencyAssumption ==
    Observed \subseteq Keys /\ Expiring \subseteq Keys /\ MaxCrashes \in Nat /\ None \notin Keys

VARIABLES
    status,    \* agency_runs.status per key, "none" before it is created
    attempt,   \* agency_runs.attempt
    receipts,  \* execution_receipts
    past,      \* keys whose expiry has passed
    pc,        \* where each call is
    key,       \* the key it is about
    adapter,   \* what the adapter it has started does
    told,      \* what it returned to its caller
    times,     \* history: how often each action was carried out
    crashes

rows == <<status, attempt, receipts>>
calls == <<pc, key, adapter, told>>
vars == <<rows, past, calls, times, crashes>>

Open == {"pending", "waiting", "running"}
Final == {"succeeded", "failed", "cancelled", "expired"}

Init ==
    /\ status = [k \in Keys |-> "none"] /\ attempt = [k \in Keys |-> 0]
    /\ receipts = {} /\ past = {}
    /\ pc = [p \in Calls |-> "new"] /\ key = [p \in Calls |-> None]
    /\ adapter = [p \in Calls |-> "off"] /\ told = [p \in Calls |-> "nothing"]
    /\ times = [k \in Keys |-> IF k \in Observed THEN 1 ELSE 0]
    /\ crashes = 0

Goto(p, at) == pc' = [pc EXCEPT ![p] = at]
Tell(p, what) == Goto(p, "done") /\ told' = [told EXCEPT ![p] = what]
Becomes(k, s) == status' = [status EXCEPT ![k] = s]
----------------------------------------------------------------------------
\* createAgencyRun: a key that is taken gives back the original run.
Create(p, k) ==
    /\ pc[p] = "new"
    /\ IF status[k] = "none" THEN Becomes(k, "pending") ELSE UNCHANGED status
    /\ Goto(p, "created") /\ key' = [key EXCEPT ![p] = k]
    /\ UNCHANGED <<attempt, receipts, past, adapter, told, times, crashes>>

\* Mutant: it ends a run that has ended already.
MutSettle(p, k, from, s) == Becomes(k, s) /\ Goto(p, "receipt") /\ UNCHANGED told

\* The UPDATE that ends a run, and whether its receipt is still to be written.
Settle(p, k, from, s) ==
    IF status[k] \in from
    THEN Becomes(k, s) /\ Goto(p, "receipt") /\ UNCHANGED told
    ELSE Tell(p, "rejected") /\ UNCHANGED status

\* A run that is over is not run again.
AlreadyOver(p) ==
    /\ pc[p] = "created" /\ status[key[p]] \in Final
    /\ Tell(p, IF status[key[p]] = "succeeded" THEN "accepted" ELSE "rejected")
    /\ UNCHANGED <<rows, past, key, adapter, times, crashes>>

Dispatching(p) == pc[p] = "created" /\ status[key[p]] \in Open /\ key[p] \notin Observed

\* The policy of the moment denies it: deferAgencyRun.
Defer(p) ==
    /\ Dispatching(p)
    /\ IF status[key[p]] = "running" THEN UNCHANGED status ELSE Becomes(key[p], "waiting")
    /\ Tell(p, "rejected")
    /\ UNCHANGED <<attempt, receipts, past, key, adapter, times, crashes>>

Expire(p) ==
    /\ Dispatching(p) /\ key[p] \in past
    /\ Settle(p, key[p], {"pending", "waiting"}, "expired")
    /\ UNCHANGED <<attempt, receipts, past, key, adapter, times, crashes>>

\* Mutant: a run somebody else is running is claimed again.
MutClaimable(k) == status[k] \in Open

Claimable(k) == status[k] \in {"pending", "waiting"}

AlreadyClaimed(p) ==
    /\ pc[p] = "created" /\ status[key[p]] \in Open /\ key[p] \notin past
    /\ ~Claimable(key[p])
    /\ Tell(p, "rejected")
    /\ UNCHANGED <<rows, past, key, adapter, times, crashes>>

Claims(p) ==
    /\ Claimable(key[p])
    /\ attempt' = [attempt EXCEPT ![key[p]] = @ + 1]

\* executeAgencyRun claims the run and starts the adapter.
Claim(p) ==
    /\ Dispatching(p) /\ key[p] \notin past
    /\ Claims(p) /\ Becomes(key[p], "running")
    /\ Goto(p, "run") /\ adapter' = [adapter EXCEPT ![p] = "running"]
    /\ UNCHANGED <<receipts, past, key, told, times, crashes>>

\* ... or finds that nobody gave it one.
NoAdapter(p) ==
    /\ Dispatching(p) /\ key[p] \notin past
    /\ Claims(p) /\ Becomes(key[p], "failed")
    /\ Goto(p, "receipt")
    /\ UNCHANGED <<receipts, past, key, adapter, told, times, crashes>>

\* recordObservedAgencyOutcome.
ObserveClaim(p) ==
    /\ pc[p] = "created" /\ key[p] \in Observed
    /\ Claims(p) /\ Becomes(key[p], "running")
    /\ Goto(p, "observe")
    /\ UNCHANGED <<receipts, past, key, adapter, told, times, crashes>>

ObserveSettle(p) ==
    /\ pc[p] = "observe"
    /\ \E s \in {"succeeded", "failed"} : Settle(p, key[p], {"running"}, s)
    /\ UNCHANGED <<attempt, receipts, past, key, adapter, times, crashes>>
----------------------------------------------------------------------------
(* The adapter.  Nothing stops one that has started: the abort signal is    *)
(* read before the send only.                                               *)

Deliver(p) ==
    /\ adapter[p] = "running"
    /\ times' = [times EXCEPT ![key[p]] = @ + 1]
    /\ adapter' = [adapter EXCEPT ![p] = "sent"]
    /\ UNCHANGED <<rows, past, pc, key, told, crashes>>

\* Its budget is used up, the send fails, or its answer is lost or is no receipt.
Throw(p) ==
    /\ adapter[p] \in {"running", "sent"}
    /\ adapter' = [adapter EXCEPT ![p] = "threw"]
    /\ UNCHANGED <<rows, past, pc, key, told, times, crashes>>

Succeed(p) ==
    /\ pc[p] = "run" /\ adapter[p] = "sent"
    /\ adapter' = [adapter EXCEPT ![p] = "off"]
    /\ Settle(p, key[p], {"running"}, "succeeded")
    /\ UNCHANGED <<attempt, receipts, past, key, times, crashes>>

Fail(p) ==
    /\ pc[p] = "run" /\ adapter[p] = "threw"
    /\ Settle(p, key[p], {"running"}, "failed")
    /\ UNCHANGED <<attempt, receipts, past, key, adapter, times, crashes>>

\* Mutant: no timer, the call waits for its adapter.
MutTimedOut(p) == pc[p] = "run" /\ adapter[p] = "threw"

TimedOut(p) == pc[p] = "run"

\* The adapter goes on.
Timeout(p) ==
    /\ TimedOut(p)
    /\ Settle(p, key[p], {"running"}, "failed")
    /\ UNCHANGED <<attempt, receipts, past, key, adapter, times, crashes>>

Receipt(k) == [key |-> k, no |-> attempt[k], status |-> status[k]]

\* persistAttemptSettled, with the row as it is after the UPDATE.
WriteReceipt(p) ==
    /\ pc[p] = "receipt"
    /\ receipts' = receipts \cup {Receipt(key[p])}
    /\ Tell(p, IF status[key[p]] = "succeeded" THEN "accepted" ELSE "rejected")
    /\ UNCHANGED <<status, attempt, past, key, adapter, times, crashes>>

\* cancelAgencyRun.
Cancel(p, k) ==
    /\ pc[p] = "new" /\ status[k] # "none"
    /\ key' = [key EXCEPT ![p] = k]
    /\ Settle(p, k, Open, "cancelled")
    /\ UNCHANGED <<attempt, receipts, past, adapter, times, crashes>>
----------------------------------------------------------------------------
PassExpiry(k) ==
    /\ k \in Expiring \ past /\ past' = past \cup {k}
    /\ UNCHANGED <<rows, calls, times, crashes>>

\* The process dies: rows stay, nobody looks at a running run again.
Crash ==
    /\ crashes < MaxCrashes /\ crashes' = crashes + 1
    /\ pc' = [p \in Calls |-> IF pc[p] = "new" THEN "new" ELSE "done"]
    /\ adapter' = [p \in Calls |-> "off"]
    /\ UNCHANGED <<rows, past, key, told, times>>

Step(p) ==
    \/ AlreadyOver(p) \/ Defer(p) \/ Expire(p) \/ AlreadyClaimed(p) \/ Claim(p) \/ NoAdapter(p)
    \/ ObserveClaim(p) \/ ObserveSettle(p) \/ Succeed(p) \/ Fail(p) \/ Timeout(p) \/ WriteReceipt(p)

Next ==
    \/ \E p \in Calls : Step(p) \/ Deliver(p) \/ Throw(p)
    \/ \E p \in Calls, k \in Keys : Create(p, k) \/ Cancel(p, k)
    \/ \E k \in Keys : PassExpiry(k)
    \/ Crash

Spec == Init /\ [][Next]_vars

\* A live process gets on with its calls, and its timers fire.
FairSpec == Spec /\ \A p \in Calls : WF_vars(Step(p))
----------------------------------------------------------------------------
\* Every variable has its type; a call past its creation has a run.
TypeOK ==
    /\ status \in [Keys -> Open \cup Final \cup {"none"}] /\ attempt \in [Keys -> Nat]
    /\ receipts \subseteq [key : Keys, no : Nat, status : Final] /\ past \subseteq Expiring
    /\ pc \in [Calls -> {"new", "created", "run", "observe", "receipt", "done"}]
    /\ key \in [Calls -> Keys \cup {None}]
    /\ adapter \in [Calls -> {"off", "running", "sent", "threw"}]
    /\ told \in [Calls -> {"nothing", "accepted", "rejected"}]
    /\ times \in [Keys -> Nat] /\ crashes \in 0..MaxCrashes
    /\ \A p \in Calls : pc[p] # "new" => key[p] \in Keys /\ status[key[p]] # "none"

\* However calls, timeouts, cancellations and a crash interleave, a receipt says of a
\* run's last attempt what the run's own row says, and a run that is over has one unless
\* it is about to get it or its process died.
ReceiptsAgree ==
    /\ \A r \in receipts : status[r.key] = r.status /\ attempt[r.key] = r.no
    /\ \A k \in Keys :
          status[k] \in Final =>
            \/ Receipt(k) \in receipts
            \/ \E p \in Calls : pc[p] = "receipt" /\ key[p] = k
            \/ crashes > 0

\* The runs implement ActionLedger: whatever asks for an action, and again after a
\* timeout, a rejection or a crash, it is carried out once at most, no outcome changes,
\* and a success was carried out.
Outcome(k) ==
    IF status[k] = "succeeded" THEN "ok" ELSE IF status[k] \in Final THEN "not" ELSE "open"
Ledger == INSTANCE ActionLedger WITH
    Before <- Observed,
    entered <- {k \in Keys : status[k] # "none"},
    claimed <- {k \in Keys : attempt[k] > 0},
    outcome <- [k \in Keys |-> Outcome(k)]
KeepsLedger == Ledger!Spec

\* A run that was claimed is settled within its time, unless the process died.
ClaimedIsSettled ==
    \A k \in Keys : status[k] = "running" ~> status[k] \in Final \/ crashes > 0
=============================================================================
