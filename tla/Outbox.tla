------------------------------- MODULE Outbox -------------------------------
(***************************************************************************)
(* The durable outbox of cognitive events, and the debts its projection    *)
(* opens and settles: src/agent/cognitive-events.ts (append, claim, ack,   *)
(* fail), cognitive-outbox-worker.ts (one drain), cognitive-projector.ts   *)
(* (what an event does to the debts), cognitive-debts.ts, and the direct   *)
(* settling of subagent/executor.ts.  The debts are those of one task; the *)
(* events of others never touch them.  Every SQLite transaction is a step, *)
(* and what the task does without an await in between is one.              *)
(*                                                                         *)
(* The cron of one process drains with a handler that never throws; the    *)
(* lease, the lost acknowledgement and the retries are the worker's        *)
(* contract for any handler and for processes that overlap, so the model   *)
(* has several workers.                                                    *)
(***************************************************************************)
EXTENDS Integers, Sequences, FiniteSetsExt, SequencesExt

CONSTANTS
    Emissions,    \* events the task may emit, identified by their dedupe key
    Kind,         \* what each of them is
    Tool,         \* the tool of a failure or callback
    Workers,      \* worker ids
    BatchSize,    \* batchSize
    Lease,        \* leaseSec, in ticks
    Retry,        \* retryInSec, in ticks
    MaxAttempts,  \* maxAttempts
    MaxFaults,    \* bound: crashes, handlers that throw, failing statements
    MaxStalls,    \* bound: ticks that pass during a drain
    MaxOwn,       \* bound: debts opened without an event
    None

Kinds == {"failure",     \* a tool call failed
          "callback",    \* a tool call returned
          "unfinished",  \* the task is queued, or waits for its user
          "failed",      \* it failed
          "stop",        \* its user stopped it
          "verified",    \* it is done, and its result was accepted
          "direct"}      \* done but not accepted, or its user answered

ASSUME OutboxAssumption ==
    /\ Kind \in [Emissions -> Kinds] /\ None \notin Emissions \cup Workers
    /\ BatchSize \in Nat \ {0} /\ Lease \in Nat \ {0} /\ Retry \in Nat \ {0}
    /\ MaxAttempts \in Nat \ {0} /\ MaxFaults \in Nat /\ MaxStalls \in Nat /\ MaxOwn \in Nat

VARIABLES
    log,       \* cognitive_events: emissions in the order of their rows
    row,       \* cognitive_outbox: row[i] is the row of log[i]
    debts,     \* cognitive_debts, in the order of their ids
    settling,  \* stops the task has emitted and has yet to settle its debts for
    batch,     \* per worker: rows its running drain has yet to settle, by id
    done,      \* per worker: the handler has returned for the first of them
    handled,   \* history: rows whose projection took effect
    lost,      \* history: rows whose projection failed silently
    claimers,  \* history: workers that have claimed
    faults, stalls

work == <<batch, done>>
history == <<handled, lost, claimers>>
vars == <<log, row, debts, settling, work, history, faults, stalls>>

Rows == DOMAIN log
Statuses == {"pending", "processing", "delivered", "failed"}

Init ==
    /\ log = <<>> /\ row = <<>> /\ debts = <<>> /\ settling = {}
    /\ batch = [w \in Workers |-> {}] /\ done = [w \in Workers |-> FALSE]
    /\ handled = {} /\ lost = {} /\ claimers = {}
    /\ faults = 0 /\ stalls = 0
----------------------------------------------------------------------------
(* The debts.                                                               *)

IsOpen(d) == d.status = "open"
Settles(d, i) == [d EXCEPT !.status = "resolved", !.by = i]

\* Mutant: a settled debt is settled again.
MutSettleAll(ds, i) == [n \in DOMAIN ds |-> Settles(ds[n], i)]

\* Every open debt of the task.
SettleAll(ds, i) == [n \in DOMAIN ds |-> IF IsOpen(ds[n]) THEN Settles(ds[n], i) ELSE ds[n]]

DebtKind(k) == IF k = "failure" THEN "uncertainty" ELSE "unfinished_task"

\* Mutant: a redelivered event opens its debt again.
MutCreateDebt(ds, i, k) ==
    IF k \notin {"failure", "unfinished", "failed", "stop"} THEN ds
    ELSE Append(ds, [source |-> i, kind |-> DebtKind(k), status |-> "open", by |-> 0])

\* createDebt, whose key is the event's: one debt for an event of kind k, whoever opens
\* it and however often the event is delivered.
CreateDebt(ds, i, k) ==
    IF \/ k \notin {"failure", "unfinished", "failed", "stop"}
       \/ \E n \in DOMAIN ds : ds[n].source = i
    THEN ds
    ELSE Append(ds, [source |-> i, kind |-> DebtKind(k), status |-> "open", by |-> 0])

\* The failures a callback may settle: the invocations of two events always differ.
Answerable(ds, i) ==
    {n \in DOMAIN ds : /\ IsOpen(ds[n]) /\ ds[n].kind = "uncertainty"
                       /\ Tool[log[ds[n].source]] = Tool[log[i]]}

\* Mutant: a callback settles every failure of its tool.
MutSettleNewest(ds, i) ==
    [n \in DOMAIN ds |-> IF n \in Answerable(ds, i) THEN Settles(ds[n], i) ELSE ds[n]]

\* projectSuccessfulToolCallback: the newest of them.
SettleNewest(ds, i) ==
    IF Answerable(ds, i) = {} THEN ds
    ELSE LET n == Max(Answerable(ds, i)) IN [ds EXCEPT ![n] = Settles(ds[n], i)]

\* projectCognitiveEvent: open, then settle.
Project(ds, i) ==
    LET opened == CreateDebt(ds, i, Kind[log[i]])
    IN  CASE Kind[log[i]] \in {"stop", "verified"} -> SettleAll(opened, i)
          [] Kind[log[i]] = "callback" -> SettleNewest(opened, i)
          [] OTHER -> opened

\* The sweep of debts whose time has come.
ExpireDebt(n) ==
    /\ IsOpen(debts[n])
    /\ debts' = [debts EXCEPT ![n].status = "expired"]
    /\ UNCHANGED <<log, row, settling, work, history, faults, stalls>>
----------------------------------------------------------------------------
(* Appending.                                                               *)

NewRow == [status |-> "pending", attempts |-> 0, age |-> 0, wait |-> 0, owner |-> None]

RowOf(e, l) == CHOOSE i \in DOMAIN l : l[i] = e

\* appendCognitiveEvent: the event and its row in one transaction, or the original.
Logged(e) ==
    IF e \in ToSet(log) THEN UNCHANGED <<log, row>>
    ELSE log' = Append(log, e) /\ row' = Append(row, NewRow)

\* What the task does with its debts itself at once, with the event it emits as evidence:
\* it settles them when it is done or its user answers, and when it fails it opens the
\* debt that the projection will try to open too.
Direct(ds, e, i) ==
    CASE Kind[e] \in {"verified", "direct"} -> SettleAll(ds, i)
      [] Kind[e] = "failed" -> CreateDebt(ds, i, "failed")
      [] OTHER -> ds

\* The task emits an event.  Between the event of a stop and its own settling it clears
\* its checkpoint, and tells the user if it was running.
Emit(e) ==
    /\ Logged(e)
    /\ debts' = Direct(debts, e, RowOf(e, log'))
    /\ settling' = IF Kind[e] = "stop" THEN settling \cup {e} ELSE settling
    /\ UNCHANGED <<work, history, faults, stalls>>

SettleStop(e) ==
    /\ debts' = SettleAll(debts, RowOf(e, log))
    /\ settling' = settling \ {e}
    /\ UNCHANGED <<log, row, work, history, faults, stalls>>

\* A debt that is no event's: what its user says to a running task, or that the task
\* waits for its user.  Nothing keeps it from being opened again.
OwnDebt ==
    /\ Cardinality({n \in DOMAIN debts : debts[n].source = 0}) < MaxOwn
    /\ debts' = Append(debts, [source |-> 0, kind |-> "unfinished_task", status |-> "open", by |-> 0])
    /\ UNCHANGED <<log, row, settling, work, history, faults, stalls>>
----------------------------------------------------------------------------
(* One drain.                                                               *)

Claimable(i) ==
    \/ row[i].status = "pending" /\ row[i].wait = 0
    \/ row[i].status = "processing" /\ row[i].age = Lease

\* Mutant: the rows of a dead worker are never claimed again.
MutDue == {i \in Rows : row[i].status = "pending" /\ row[i].wait = 0}

Due == {i \in Rows : Claimable(i)}

\* Mutant: the newest rows first.
MutFirstDue == {i \in Due : Cardinality({j \in Due : j > i}) < BatchSize}

\* The rows of the lowest ids.
FirstDue == {i \in Due : Cardinality({j \in Due : j < i}) < BatchSize}

Claim(w) ==
    /\ batch[w] = {} /\ Due # {}
    /\ row' = [i \in Rows |->
                 IF i \in FirstDue
                 THEN [row[i] EXCEPT !.status = "processing", !.attempts = @ + 1,
                                     !.age = 0, !.owner = w]
                 ELSE row[i]]
    /\ batch' = [batch EXCEPT ![w] = FirstDue]
    /\ claimers' = claimers \cup {w}
    /\ UNCHANGED <<log, debts, settling, done, handled, lost, faults, stalls>>

Current(w) == Min(batch[w])
Owns(w, i) == row[i].status = "processing" /\ row[i].owner = w

\* The handler: the projection of the event.
Handle(w) ==
    /\ batch[w] # {} /\ ~done[w]
    /\ debts' = Project(debts, Current(w))
    /\ handled' = handled \cup {Current(w)}
    /\ done' = [done EXCEPT ![w] = TRUE]
    /\ UNCHANGED <<log, row, settling, batch, lost, claimers, faults, stalls>>

Advance(w) ==
    /\ batch' = [batch EXCEPT ![w] = @ \ {Current(w)}]
    /\ done' = [done EXCEPT ![w] = FALSE]

\* ackCognitiveOutbox: a worker that lost its lease changes nothing.
Acked(w, i) ==
    IF Owns(w, i)
    THEN [row EXCEPT ![i] = [@ EXCEPT !.status = "delivered", !.age = 0, !.owner = None]]
    ELSE row

Ack(w) ==
    /\ batch[w] # {} /\ done[w]
    /\ row' = Acked(w, Current(w))
    /\ Advance(w)
    /\ UNCHANGED <<log, debts, settling, history, faults, stalls>>

\* Mutant: the attempt that would follow is counted too.
MutFailed(w, i) ==
    LET over == row[i].attempts + 1 >= MaxAttempts
    IN  IF Owns(w, i)
        THEN [row EXCEPT ![i] = [@ EXCEPT !.status = IF over THEN "failed" ELSE "pending",
                                          !.wait = IF over THEN 0 ELSE Retry,
                                          !.age = 0, !.owner = None]]
        ELSE row

\* failCognitiveOutbox, by a worker that still holds the lease: another try later, or
\* the end of it.
Failed(w, i) ==
    LET over == row[i].attempts >= MaxAttempts
    IN  IF Owns(w, i)
        THEN [row EXCEPT ![i] = [@ EXCEPT !.status = IF over THEN "failed" ELSE "pending",
                                          !.wait = IF over THEN 0 ELSE Retry,
                                          !.age = 0, !.owner = None]]
        ELSE row
----------------------------------------------------------------------------
(* Faults.                                                                  *)

Fault == faults < MaxFaults /\ faults' = faults + 1

\* The process dies, or the checkpoint cannot be cleared, before the task has settled.
StopCutShort(e) ==
    /\ Fault
    /\ settling' = settling \ {e}
    /\ UNCHANGED <<log, row, debts, work, history, stalls>>

\* A handler that throws has had no effect here.
Throw(w) ==
    /\ Fault /\ batch[w] # {} /\ ~done[w]
    /\ row' = Failed(w, Current(w))
    /\ Advance(w)
    /\ UNCHANGED <<log, debts, settling, history, stalls>>

\* The projector catches what its statements throw, and the event is acknowledged.
ProjectionFails(w) ==
    /\ Fault /\ batch[w] # {} /\ ~done[w]
    /\ lost' = lost \cup {Current(w)}
    /\ done' = [done EXCEPT ![w] = TRUE]
    /\ UNCHANGED <<log, row, debts, settling, batch, handled, claimers, stalls>>

\* The statement that acknowledges fails: the row stays leased.
AckFails(w) ==
    /\ Fault /\ batch[w] # {} /\ done[w]
    /\ Advance(w)
    /\ UNCHANGED <<log, row, debts, settling, history, stalls>>

\* The process dies, and starts again.
Crash(w) ==
    /\ Fault /\ batch[w] # {}
    /\ batch' = [batch EXCEPT ![w] = {}] /\ done' = [done EXCEPT ![w] = FALSE]
    /\ UNCHANGED <<log, row, debts, settling, history, stalls>>

Older(r) ==
    CASE r.status = "processing" -> [r EXCEPT !.age = Min({@ + 1, Lease})]
      [] r.status = "pending" -> [r EXCEPT !.wait = Max({@ - 1, 0})]
      [] OTHER -> r

\* Time.  A drain takes far less than a lease, except MaxStalls times.
Tick ==
    /\ \/ (\A w \in Workers : batch[w] = {}) /\ stalls' = stalls
       \/ stalls < MaxStalls /\ stalls' = stalls + 1
    /\ row' = [i \in Rows |-> Older(row[i])]
    /\ UNCHANGED <<log, debts, settling, work, history, faults>>
----------------------------------------------------------------------------
Drain(w) == Claim(w) \/ Handle(w) \/ Ack(w)
Faults(w) == Throw(w) \/ ProjectionFails(w) \/ AckFails(w) \/ Crash(w)

Next ==
    \/ \E e \in Emissions : Emit(e)
    \/ \E e \in settling : SettleStop(e) \/ StopCutShort(e)
    \/ OwnDebt
    \/ \E n \in DOMAIN debts : ExpireDebt(n)
    \/ \E w \in Workers : Drain(w) \/ Faults(w)
    \/ Tick

Spec == Init /\ [][Next]_vars

\* The heartbeat starts a drain again and again, a drain goes on, and time passes.
FairSpec == Spec /\ WF_vars(Tick) /\ \A w \in Workers : WF_vars(Drain(w))
----------------------------------------------------------------------------
(* Properties.                                                              *)

RowType == [status : Statuses, attempts : Nat, age : 0..Lease, wait : 0..Retry,
            owner : Workers \cup {None}]
DebtType == [source : Nat, kind : {"uncertainty", "unfinished_task"},
             status : {"open", "resolved", "expired"}, by : Nat]

TypeOK ==
    /\ log \in Seq(Emissions)
    /\ row \in Seq(RowType) /\ Len(row) = Len(log)
    /\ debts \in Seq(DebtType)
    /\ settling \subseteq {e \in ToSet(log) : Kind[e] = "stop"}
    /\ batch \in [Workers -> SUBSET Nat] /\ done \in [Workers -> BOOLEAN]
    /\ handled \in SUBSET Nat /\ lost \in SUBSET Nat /\ claimers \in SUBSET Workers
    /\ faults \in 0..MaxFaults /\ stalls \in 0..MaxStalls

\* An event is in the log once and has one debt at most, whoever emits it again and
\* however often it is delivered.
OneDebtPerEvent ==
    /\ \A i, j \in Rows : log[i] = log[j] => i = j
    /\ \A m, n \in DOMAIN debts : debts[m].source = debts[n].source /\ debts[m].source # 0 => m = n

\* A delivered row was handled (or its projection failed, which nobody is told), and a
\* row is given up only after its last attempt.
SettledForAReason ==
    \A i \in Rows :
        /\ row[i].status = "delivered" => i \in handled \cup lost
        /\ row[i].status = "failed" => row[i].attempts >= MaxAttempts

\* A callback settles no more failures than it was delivered times: what lets it settle
\* two is redelivery and nothing else.
SettlesPerDelivery ==
    \A i \in Rows :
        Kind[log[i]] = "callback" =>
            Cardinality({n \in DOMAIN debts : debts[n].by = i}) <= row[i].attempts

Quiet == faults = 0 /\ stalls = 0 /\ Cardinality(claimers) <= 1

\* With one worker and no fault, events take effect in the order in which they were
\* appended, so that a callback settles an earlier failure and a verified end, or a
\* stop, leaves nothing open behind it.
InOrder ==
    Quiet =>
        /\ \A i \in handled : 1..i \subseteq handled
        /\ \A n \in DOMAIN debts :
              debts[n].by # 0 /\ Kind[log[debts[n].by]] = "callback" => debts[n].source < debts[n].by
        /\ \A i \in handled : Kind[log[i]] \in {"stop", "verified"} =>
              \A n \in DOMAIN debts : debts[n].source \in 1..i => ~IsOpen(debts[n])

\* What is resolved or expired stays as it is, and no debt is ever deleted.
SettledIsFinal ==
    [][\A n \in DOMAIN debts :
          /\ n \in DOMAIN debts'
          /\ ~IsOpen(debts[n]) => debts'[n] = debts[n]]_debts

\* What the outbox promises: see AtLeastOnce.
RowsWith(status) == {log[i] : i \in {j \in Rows : row[j].status = status}}
Promise == INSTANCE AtLeastOnce WITH
    Events <- Emissions,
    appended <- ToSet(log),
    handled <- {log[i] : i \in handled \cup lost},
    givenUp <- RowsWith("failed"),
    settled <- RowsWith("failed") \cup RowsWith("delivered")
KeepsPromise == Promise!FairSpec
=============================================================================
