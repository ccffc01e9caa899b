---------------------------- MODULE TurnScheduler ----------------------------
(***************************************************************************)
(* The turn path of one chat: the Redis pending buffer                     *)
(* (src/pipeline/turn/buffer.ts), the scheduler that keeps a turn job      *)
(* queued for it (src/queue/turn-scheduler.ts), the execution lock         *)
(* (src/pipeline/turn/turn-lock.ts), the turn the worker runs              *)
(* (src/pipeline/turn/actor.ts) and the defer jobs that bring an entry     *)
(* back (src/pipeline/timing/defer.ts).                                    *)
(*                                                                         *)
(* One step is one Redis command, MULTI block or Lua script: between any   *)
(* two of them any other caller may run.  Time is abstracted: a delayed    *)
(* job is promoted at some moment, so delays (and the pendingDirect flag   *)
(* and job payload, which only choose them) are left out.                  *)
(***************************************************************************)
EXTENDS Naturals, FiniteSets

CONSTANTS
    Msgs,         \* the entries ingress will append, one per update
    Edits,        \* the passive edits among them: scheduled with noReschedule
    Jobs,         \* identities of the chat_turn jobs in the queue
    Defers,       \* identities of defer_resume jobs
    None,         \* no job, no entry
    Gone,         \* any job id that is no longer in the queue (ids are unique,
                  \* so references to a removed job are renamed to Gone and its
                  \* place in Jobs is free again)
    ExecLock,     \* TURN_EXEC_LOCK_ENABLED
    MaxReplays,   \* TURN_GATE_DEFER_MAX_REPLAYS: replays one entry may use
    MaxFaults     \* bound: crashes, failed Redis calls and lost leases

ASSUME SetsAssumption ==
    /\ Edits \subseteq Msgs
    /\ Msgs \cap Jobs = {} /\ Msgs \cap Defers = {} /\ Jobs \cap Defers = {}
    /\ {None, Gone} \cap (Msgs \cup Jobs \cup Defers) = {} /\ None # Gone
ASSUME BoundsAssumption ==
    ExecLock \in BOOLEAN /\ MaxReplays \in Nat /\ MaxFaults \in Nat

VARIABLES
    pending,   \* xxb:turn:pending, as a set: each entry is in it at most once
    pointer,   \* meta.scheduledJobId
    dirty,     \* meta.dirty
    lock,      \* xxb:turn:execlock: the job whose token it holds
    job,       \* BullMQ: the state of each turn job, "none" once removed
    stalls,    \* jobs BullMQ has already recovered once from a dead worker
    turn,      \* where the worker is in runChatTurn for each job
    burst,     \* the entries that turn has drained and not finished with
    wasDirty,  \* the closing's local: what clearDirty returned
    expired,   \* turns whose lease ran out while they were running
    at,        \* where each caller is in scheduleTurn ("no": not in it)
    seen,      \* the job id that call works on
    defer,     \* BullMQ: the state of each defer_resume job
    held,      \* the entry in the defer job's payload
    injected,  \* xxb:turn:deferinj: tokens of defer jobs already re-injected
    replays,   \* entry.deferCount
    sent,      \* history: entries ingress has appended
    handled,   \* history: entries the pipeline has seen to the end
    lost,      \* history: entries that died with a process
    faults     \* how many faults have happened

bufferVars == <<pending, dirty, pointer>>
queueVars  == <<job, stalls>>
turnVars   == <<turn, burst, wasDirty, expired, lock>>
callVars   == <<at, seen>>
deferVars  == <<defer, held, injected, replays>>
history    == <<sent, handled, lost>>
vars == <<bufferVars, queueVars, turnVars, callVars, deferVars, history, faults>>

Callers == Msgs \cup Jobs \cup Defers

CallSteps == {"no", "meta", "state", "delay", "dirty", "add", "point"}
TurnSteps == {"off", "losing", "drain", "run", "unset", "dirty", "count", "closing",
              "release", "finish", "dead"}

\* The part of runChatTurn that runs between acquireTurnLock and the finally.
Critical == {"drain", "run", "unset", "dirty", "count", "closing", "release"}

Init ==
    /\ pending = {} /\ pointer = None /\ dirty = FALSE /\ lock = None
    /\ job = [j \in Jobs |-> "none"] /\ stalls = {}
    /\ turn = [j \in Jobs |-> "off"] /\ burst = [j \in Jobs |-> {}]
    /\ wasDirty = [j \in Jobs |-> FALSE] /\ expired = {}
    /\ at = [c \in Callers |-> "no"] /\ seen = [c \in Callers |-> None]
    /\ defer = [d \in Defers |-> "none"] /\ held = [d \in Defers |-> None]
    /\ injected = {} /\ replays = [m \in Msgs |-> 0]
    /\ sent = {} /\ handled = {} /\ lost = {} /\ faults = 0

----------------------------------------------------------------------------
(* scheduleTurn, one Redis round trip per action.  c is who calls it: an    *)
(* ingress handler (an entry), a defer_resume handler, or a turn.           *)

\* noReschedule: passive edits and the loser of the execution lock.
Quiet(c) == c \in Edits \/ c \in Jobs

Goto(c, step) == at' = [at EXCEPT ![c] = step]
Return(c) == Goto(c, "no") /\ seen' = [seen EXCEPT ![c] = None]

ReadMeta(c) ==
    /\ at[c] = "meta"
    /\ IF pointer = None
       THEN Goto(c, "add") /\ UNCHANGED seen
       ELSE Goto(c, "state") /\ seen' = [seen EXCEPT ![c] = pointer]
    /\ UNCHANGED <<bufferVars, queueVars, turnVars, deferVars, history, faults>>

StateOf(id) == IF id \in Jobs THEN job[id] ELSE "none"

\* Mutant: a job that cannot be found is taken for one still running.
MutReadState(c) ==
    /\ at[c] = "state"
    /\ LET state == StateOf(seen[c]) IN
       \/ state = "delayed" /\ Quiet(c) /\ Return(c)
       \/ state = "delayed" /\ ~Quiet(c) /\ Goto(c, "delay") /\ UNCHANGED seen
       \/ state # "delayed" /\ Goto(c, "dirty") /\ UNCHANGED seen
    /\ UNCHANGED <<bufferVars, queueVars, turnVars, deferVars, history, faults>>

\* getJob and getState; a job removed before or between them is "none".
ReadState(c) ==
    /\ at[c] = "state"
    /\ LET state == StateOf(seen[c]) IN
       \/ state = "delayed" /\ Quiet(c) /\ Return(c)
       \/ state = "delayed" /\ ~Quiet(c) /\ Goto(c, "delay") /\ UNCHANGED seen
       \/ state \in {"waiting", "active"} /\ Goto(c, "dirty") /\ UNCHANGED seen
       \/ state = "none" /\ Goto(c, "add") /\ seen' = [seen EXCEPT ![c] = None]
    /\ UNCHANGED <<bufferVars, queueVars, turnVars, deferVars, history, faults>>

\* changeDelay throws when the job has left the delayed set meanwhile.
ChangeDelay(c) ==
    /\ at[c] = "delay"
    /\ \/ StateOf(seen[c]) = "delayed" /\ Return(c)
       \/ StateOf(seen[c]) # "delayed" /\ Goto(c, "dirty") /\ UNCHANGED seen
    /\ UNCHANGED <<bufferVars, queueVars, turnVars, deferVars, history, faults>>

MarkDirty(c) ==
    /\ at[c] = "dirty"
    /\ dirty' = TRUE
    /\ Return(c)
    /\ UNCHANGED <<pending, pointer, queueVars, turnVars, deferVars, history, faults>>

AddJob(c) ==
    /\ at[c] = "add"
    /\ \E j \in Jobs :
          /\ job[j] = "none"
          /\ job' = [job EXCEPT ![j] = "delayed"]
          /\ seen' = [seen EXCEPT ![c] = j]
    /\ Goto(c, "point")
    /\ UNCHANGED <<bufferVars, stalls, turnVars, deferVars, history, faults>>

SetPointer(c) ==
    /\ at[c] = "point"
    /\ pointer' = seen[c]
    /\ Return(c)
    /\ UNCHANGED <<pending, dirty, queueVars, turnVars, deferVars, history, faults>>

\* A failed getJob or getState is caught and taken for a job that is not there; a
\* failed changeDelay is taken for the race with promotion.
LookFails(c) ==
    /\ faults < MaxFaults /\ faults' = faults + 1
    /\ \/ at[c] = "state" /\ Goto(c, "add") /\ seen' = [seen EXCEPT ![c] = None]
       \/ at[c] = "delay" /\ Goto(c, "dirty") /\ UNCHANGED seen
    /\ UNCHANGED <<bufferVars, queueVars, turnVars, deferVars, history>>

\* Any other Redis call that fails makes scheduleTurn throw.  Ingress and the lock's loser
\* drop the error; a closing turn goes on to its finally; defer_resume fails
\* and BullMQ retries it.
CallFails(c) ==
    /\ at[c] \in {"meta", "dirty", "add", "point"} /\ faults < MaxFaults
    /\ faults' = faults + 1
    /\ Return(c)
    /\ defer' = [d \in Defers |-> IF d = c THEN "delayed" ELSE defer[d]]
    /\ UNCHANGED <<bufferVars, queueVars, turnVars, held, injected, replays, history>>

ScheduleTurn(c) ==
    ReadMeta(c) \/ ReadState(c) \/ ChangeDelay(c) \/ MarkDirty(c) \/ AddJob(c) \/ SetPointer(c)
----------------------------------------------------------------------------
(* Ingress: appendPending, then scheduleTurn.                               *)

Append(m) ==
    /\ m \notin sent
    /\ sent' = sent \cup {m}
    /\ pending' = pending \cup {m}
    /\ Goto(m, "meta") /\ UNCHANGED seen
    /\ UNCHANGED <<dirty, pointer, queueVars, turnVars, deferVars, handled, lost, faults>>
----------------------------------------------------------------------------
(* BullMQ (external): a delayed job becomes ready and a worker takes it.    *)

Step(j, step) == turn' = [turn EXCEPT ![j] = step]

Forget(j) ==
    LET Rename(id) == IF id = j THEN Gone ELSE id IN
    /\ pointer' = Rename(pointer) /\ lock' = Rename(lock)
    /\ seen' = [c \in Callers |-> Rename(seen[c])]

Promote(j) ==
    /\ job[j] = "delayed"
    /\ job' = [job EXCEPT ![j] = "waiting"]
    /\ UNCHANGED <<bufferVars, stalls, turnVars, callVars, deferVars, history, faults>>

\* removeOnComplete and removeOnFail: a finished job leaves no trace.
Finish(j) ==
    /\ \/ turn[j] = "finish"
       \/ turn[j] = "losing" /\ at[j] = "no"
    /\ job' = [job EXCEPT ![j] = "none"]
    /\ turn' = [turn EXCEPT ![j] = "off"]
    /\ stalls' = stalls \ {j}
    /\ Forget(j)
    /\ UNCHANGED <<pending, dirty, burst, wasDirty, expired, at, deferVars, history, faults>>
----------------------------------------------------------------------------
(* runChatTurn and runChatTurnInner.                                        *)

\* A worker takes the job and tries the lock, its first Redis command.
Acquire(j) ==
    /\ job[j] = "waiting"
    /\ IF ExecLock THEN lock = None /\ lock' = j ELSE UNCHANGED lock
    /\ job' = [job EXCEPT ![j] = "active"]
    /\ Step(j, "drain")
    /\ UNCHANGED <<bufferVars, stalls, burst, wasDirty, expired, callVars, deferVars,
                   history, faults>>

\* Mutant: the buffer is drained before the lock is tried.
MutLockBusy(j) ==
    /\ job[j] = "waiting" /\ ExecLock /\ lock # None
    /\ pending' = {}
    /\ job' = [job EXCEPT ![j] = "active"]
    /\ Step(j, "losing")
    /\ Goto(j, "meta") /\ UNCHANGED seen
    /\ UNCHANGED <<dirty, pointer, stalls, burst, wasDirty, expired, lock, deferVars,
                   history, faults>>

\* The loser drains nothing and schedules a retry, without forceNew.
LockBusy(j) ==
    /\ job[j] = "waiting" /\ ExecLock /\ lock # None
    /\ job' = [job EXCEPT ![j] = "active"]
    /\ Step(j, "losing")
    /\ Goto(j, "meta") /\ UNCHANGED seen
    /\ UNCHANGED <<bufferVars, stalls, burst, wasDirty, expired, lock, deferVars,
                   history, faults>>

\* Mutant: the burst is read and the list is not deleted.
MutDrain(j) ==
    /\ turn[j] = "drain"
    /\ burst' = [burst EXCEPT ![j] = pending]
    /\ Step(j, IF pending = {} THEN "release" ELSE "run")
    /\ UNCHANGED <<bufferVars, queueVars, wasDirty, expired, lock, callVars, deferVars, history,
                   faults>>

\* An empty drain returns at once: the closing below is skipped.
Drain(j) ==
    /\ turn[j] = "drain"
    /\ burst' = [burst EXCEPT ![j] = pending]
    /\ pending' = {}
    /\ Step(j, IF pending = {} THEN "release" ELSE "run")
    /\ UNCHANGED <<dirty, pointer, queueVars, wasDirty, expired, lock, callVars, deferVars,
                   history, faults>>

\* An entry is judged, tracked, or given up with its error logged.
HandleEntry(j, m) ==
    /\ turn[j] = "run" /\ m \in burst[j]
    /\ burst' = [burst EXCEPT ![j] = @ \ {m}]
    /\ handled' = handled \cup {m}
    /\ UNCHANGED <<bufferVars, queueVars, turn, wasDirty, expired, lock, callVars, deferVars,
                   sent, lost, faults>>

\* An interrupted generation drains again and replans with what it finds.
ReplanDrain(j) ==
    /\ turn[j] = "run" /\ burst[j] # {} /\ pending # {}
    /\ burst' = [burst EXCEPT ![j] = @ \cup pending]
    /\ pending' = {}
    /\ UNCHANGED <<dirty, pointer, queueVars, turn, wasDirty, expired, lock, callVars,
                   deferVars, history, faults>>

\* Mutant: hasDeferBudget is not asked.
MutRequeue(j, m) ==
    /\ turn[j] = "run" /\ m \in burst[j]
    /\ burst' = [burst EXCEPT ![j] = @ \ {m}]
    /\ pending' = pending \cup {m}
    /\ replays' = [replays EXCEPT ![m] = @ + 1]
    /\ UNCHANGED <<dirty, pointer, queueVars, turn, wasDirty, expired, lock, callVars,
                   defer, held, injected, history, faults>>

\* Replan budget spent: the entry goes back to pending as a defer replay.
Requeue(j, m) ==
    /\ turn[j] = "run" /\ m \in burst[j] /\ replays[m] < MaxReplays
    /\ burst' = [burst EXCEPT ![j] = @ \ {m}]
    /\ pending' = pending \cup {m}
    /\ replays' = [replays EXCEPT ![m] = @ + 1]
    /\ UNCHANGED <<dirty, pointer, queueVars, turn, wasDirty, expired, lock, callVars,
                   defer, held, injected, history, faults>>

\* enqueueDeferResume: a delayed job carries the only copy of the entry.
EnqueueDefer(d, m) ==
    /\ defer[d] = "none"
    /\ defer' = [defer EXCEPT ![d] = "delayed"]
    /\ held' = [held EXCEPT ![d] = m]

\* The gate defers the entry.
DeferEntry(j, m) ==
    /\ turn[j] = "run" /\ m \in burst[j] /\ replays[m] < MaxReplays
    /\ \E d \in Defers : EnqueueDefer(d, m)
    /\ burst' = [burst EXCEPT ![j] = @ \ {m}]
    /\ replays' = [replays EXCEPT ![m] = @ + 1]
    /\ UNCHANGED <<bufferVars, queueVars, turn, wasDirty, expired, lock, callVars, injected,
                   history, faults>>

\* clearScheduledJob: HGET, then HDEL unless the pointer is another job's.
ReadPointer(j) ==
    /\ turn[j] = "run" /\ burst[j] = {}
    /\ Step(j, IF pointer \in {None, j} THEN "unset" ELSE "dirty")
    /\ UNCHANGED <<bufferVars, queueVars, burst, wasDirty, expired, lock, callVars, deferVars,
                   history, faults>>

UnsetPointer(j) ==
    /\ turn[j] = "unset"
    /\ pointer' = None
    /\ Step(j, "dirty")
    /\ UNCHANGED <<pending, dirty, queueVars, burst, wasDirty, expired, lock, callVars,
                   deferVars, history, faults>>

ClearDirty(j) ==
    /\ turn[j] = "dirty"
    /\ wasDirty' = [wasDirty EXCEPT ![j] = dirty]
    /\ dirty' = FALSE
    /\ Step(j, "count")
    /\ UNCHANGED <<pending, pointer, queueVars, burst, expired, lock, callVars, deferVars,
                   history, faults>>

\* Mutant: the closing trusts the dirty mark alone.
MutCountPending(j) ==
    /\ turn[j] = "count"
    /\ wasDirty' = [wasDirty EXCEPT ![j] = FALSE]
    /\ IF wasDirty[j]
       THEN Step(j, "closing") /\ Goto(j, "add") /\ UNCHANGED seen
       ELSE Step(j, "release") /\ UNCHANGED callVars
    /\ UNCHANGED <<bufferVars, queueVars, burst, expired, lock, deferVars, history, faults>>

\* pendingCount; forceNew skips the reuse branch of scheduleTurn.
CountPending(j) ==
    /\ turn[j] = "count"
    /\ wasDirty' = [wasDirty EXCEPT ![j] = FALSE]
    /\ IF wasDirty[j] \/ pending # {}
       THEN Step(j, "closing") /\ Goto(j, "add") /\ UNCHANGED seen
       ELSE Step(j, "release") /\ UNCHANGED callVars
    /\ UNCHANGED <<bufferVars, queueVars, burst, expired, lock, deferVars, history, faults>>

\* Mutant: the finally deletes the key whoever holds it.
MutReleaseAny(j) ==
    /\ \/ turn[j] = "release"
       \/ turn[j] = "closing" /\ at[j] = "no"
    /\ lock' = None
    /\ expired' = expired \ {j}
    /\ Step(j, "finish")
    /\ UNCHANGED <<bufferVars, queueVars, burst, wasDirty, callVars, deferVars, history, faults>>

\* The finally: only the holder's token deletes the key.
ReleaseLock(j) ==
    /\ \/ turn[j] = "release"
       \/ turn[j] = "closing" /\ at[j] = "no"
    /\ lock' = IF lock = j /\ j \notin expired THEN None ELSE lock
    /\ expired' = expired \ {j}
    /\ Step(j, "finish")
    /\ UNCHANGED <<bufferVars, queueVars, burst, wasDirty, callVars, deferVars, history, faults>>

\* A Redis call of the turn itself fails: attempts is 1 and removeOnFail is set,
\* so the job ends there, after the finally.
TurnFails(j) ==
    /\ faults < MaxFaults /\ faults' = faults + 1
    /\ \/ turn[j] \in {"drain", "unset", "dirty", "count"}
       \/ turn[j] = "run" /\ burst[j] = {}
    /\ wasDirty' = [wasDirty EXCEPT ![j] = FALSE]
    /\ Step(j, "release")
    /\ UNCHANGED <<bufferVars, queueVars, burst, expired, lock, callVars, deferVars, history>>

Turn(j) ==
    \/ Acquire(j) \/ LockBusy(j) \/ Drain(j) \/ ReadPointer(j) \/ UnsetPointer(j)
    \/ ClearDirty(j) \/ CountPending(j) \/ ReleaseLock(j) \/ Finish(j)
----------------------------------------------------------------------------
(* defer_resume: re-inject the payload once, then scheduleTurn.             *)

\* Mutant: no token, so a retried job appends its payload again.
MutReinject(d) ==
    /\ defer[d] = "delayed"
    /\ defer' = [defer EXCEPT ![d] = "active"]
    /\ pending' = pending \cup {held[d]}
    /\ injected' = injected \cup {d}
    /\ Goto(d, "meta") /\ UNCHANGED seen
    /\ UNCHANGED <<dirty, pointer, queueVars, turnVars, held, replays, history, faults>>

Reinject(d) ==
    /\ defer[d] = "delayed"
    /\ defer' = [defer EXCEPT ![d] = "active"]
    /\ pending' = IF d \in injected THEN pending ELSE pending \cup {held[d]}
    /\ injected' = injected \cup {d}
    /\ Goto(d, "meta") /\ UNCHANGED seen
    /\ UNCHANGED <<dirty, pointer, queueVars, turnVars, held, replays, history, faults>>

DeferDone(d) ==
    /\ defer[d] = "active" /\ at[d] = "no"
    /\ defer' = [defer EXCEPT ![d] = "done"]
    /\ UNCHANGED <<bufferVars, queueVars, turnVars, callVars, held, injected, replays,
                   history, faults>>
----------------------------------------------------------------------------
(* Faults.                                                                  *)

\* Mutant: SET NX without PX, so a dead holder's lock stays.
MutLeaseExpires ==
    /\ lock \in Jobs /\ turn[lock] \in Critical /\ faults < MaxFaults
    /\ lock' = None /\ faults' = faults + 1
    /\ expired' = expired \cup {lock}
    /\ UNCHANGED <<bufferVars, queueVars, turn, burst, wasDirty, callVars, deferVars, history>>

\* A lease runs out: its holder is gone, or (a fault) its event loop was
\* blocked past the TTL and it is still running.
LeaseExpires ==
    /\ lock # None
    /\ lock' = None
    /\ IF lock \in Jobs /\ turn[lock] \in Critical
       THEN /\ faults < MaxFaults /\ faults' = faults + 1
            /\ expired' = expired \cup {lock}
       ELSE UNCHANGED <<faults, expired>>
    /\ UNCHANGED <<bufferVars, queueVars, turn, burst, wasDirty, callVars, deferVars, history>>

\* The process dies: what it held in memory goes with it, Redis stays.
Crash ==
    /\ faults < MaxFaults /\ faults' = faults + 1
    /\ turn' = [j \in Jobs |-> IF job[j] = "active" THEN "dead" ELSE "off"]
    /\ lost' = lost \cup UNION {burst[j] : j \in Jobs}
    /\ burst' = [j \in Jobs |-> {}]
    /\ wasDirty' = [j \in Jobs |-> FALSE] /\ expired' = {}
    /\ at' = [c \in Callers |-> "no"] /\ seen' = [c \in Callers |-> None]
    /\ defer' = [d \in Defers |-> IF defer[d] = "active" THEN "delayed" ELSE defer[d]]
    /\ UNCHANGED <<bufferVars, queueVars, lock, held, injected, replays, sent, handled>>

\* BullMQ's stalled check: back to waiting once, then failed and removed.
Stalled(j) ==
    /\ turn[j] = "dead"
    /\ turn' = [turn EXCEPT ![j] = "off"]
    /\ IF j \in stalls
       THEN job' = [job EXCEPT ![j] = "none"] /\ stalls' = stalls \ {j} /\ Forget(j)
       ELSE /\ job' = [job EXCEPT ![j] = "waiting"] /\ stalls' = stalls \cup {j}
            /\ UNCHANGED <<pointer, lock, seen>>
    /\ UNCHANGED <<pending, dirty, burst, wasDirty, expired, at, deferVars, history, faults>>
----------------------------------------------------------------------------
Next ==
    \/ \E m \in Msgs : Append(m)
    \/ \E c \in Callers : ScheduleTurn(c) \/ LookFails(c) \/ CallFails(c)
    \/ \E j \in Jobs : Promote(j) \/ Turn(j) \/ TurnFails(j) \/ ReplanDrain(j) \/ Stalled(j)
    \/ \E j \in Jobs, m \in Msgs : HandleEntry(j, m) \/ Requeue(j, m) \/ DeferEntry(j, m)
    \/ \E d \in Defers : Reinject(d) \/ DeferDone(d)
    \/ LeaseExpires \/ Crash

Spec == Init /\ [][Next]_vars

\* What the worker and the event loop owe: a ready job is promoted, a taken one
\* runs, a started call goes on, a stalled job is found, a dead holder's lease
\* runs out.  Nothing is owed by users or by faults.
Process(c) ==
    \/ ScheduleTurn(c)
    \/ c \in Jobs /\ (Promote(c) \/ Turn(c) \/ Stalled(c) \/ \E m \in Msgs : HandleEntry(c, m))
    \/ c \in Defers /\ (Reinject(c) \/ DeferDone(c))
Fairness ==
    /\ \A c \in Callers : WF_vars(Process(c))
    /\ WF_vars(LeaseExpires /\ UNCHANGED faults)
----------------------------------------------------------------------------
(* Properties.                                                              *)

TypeOK ==
    /\ pending \subseteq Msgs /\ dirty \in BOOLEAN /\ pointer \in Jobs \cup {None, Gone}
    /\ lock \in Jobs \cup {None, Gone} /\ expired \subseteq Jobs /\ stalls \subseteq Jobs
    /\ job \in [Jobs -> {"none", "delayed", "waiting", "active"}]
    /\ turn \in [Jobs -> TurnSteps]
    /\ burst \in [Jobs -> SUBSET Msgs] /\ wasDirty \in [Jobs -> BOOLEAN]
    /\ at \in [Callers -> CallSteps] /\ seen \in [Callers -> Jobs \cup {None, Gone}]
    /\ \A c \in Callers : at[c] \in {"state", "delay", "point"} => seen[c] # None
    /\ defer \in [Defers -> {"none", "delayed", "active", "done"}]
    /\ held \in [Defers -> Msgs \cup {None}] /\ injected \subseteq Defers
    /\ \A d \in Defers : defer[d] # "none" => held[d] # None
    /\ replays \in [Msgs -> 0..MaxReplays]
    /\ sent \subseteq Msgs /\ handled \subseteq Msgs /\ lost \subseteq Msgs
    /\ faults \in 0..MaxFaults

\* At most one turn of the chat executes between taking the lock and its
\* finally, except one whose lease ran out under it: a turn with a live lease
\* holds the lock.  A late turn's finally must not free its successor's lock
\* (turn-lock.ts 20-21).
LeaseExclusion ==
    ExecLock => \A j \in Jobs : turn[j] \in Critical /\ j \notin expired => lock = j

InBursts == UNION {burst[j] : j \in Jobs}
InDefers == {held[d] : d \in {e \in Defers : defer[e] # "none" /\ e \notin injected}}

\* Whatever drains, replans, defers, retries and crashes did, an entry ingress
\* appended is still pending, in a running turn, in a defer job's payload,
\* handled, or died with a process: no step drops it on the floor.
EntriesConserved == sent = pending \cup InBursts \cup InDefers \cup handled \cup lost

\* ... and it is in one of those places only, so no entry is judged twice
\* although jobs are duplicated, retried and recovered (buffer.ts 59-63).
EntriesNotDuplicated ==
    /\ handled \cap (pending \cup InBursts \cup InDefers \cup lost) = {}
    /\ lost \cap (pending \cup InBursts \cup InDefers) = {}
    /\ pending \cap (InBursts \cup InDefers) = {} /\ InBursts \cap InDefers = {}
    /\ \A j, k \in Jobs : j # k => burst[j] \cap burst[k] = {}

\* An entry is in exactly one place, whatever drains, replans, defers, retries and
\* crashes did: both of the above.
EntriesInOnePlace == EntriesConserved /\ EntriesNotDuplicated

Place(m) ==
    CASE m \in handled -> "done"
      [] m \in lost -> "lost"
      [] m \in pending -> "queued"
      [] \E j \in Jobs : m \in burst[j] -> "claimed"
      [] m \in InDefers -> "deferred"
      [] OTHER -> "unsent"
Path == INSTANCE EntryPath WITH place <- [m \in Msgs |-> Place(m)], uses <- replays

\* The turn path implements EntryPath: seen entry by entry, all its handlers, retries
\* and crashes only make that specification's six moves.  An entry is claimed with all
\* that is queued, goes round at most MaxReplays times, and never leaves done or lost.
ImplementsEntryPath == Path!Spec

Calling == \E c \in Callers : at[c] # "no"
Looking == {"drain", "run", "unset", "dirty", "count"}
\* Somebody will still look at pending: a queued turn, a running one that has
\* not made its last check, or a scheduleTurn in progress.
Awake ==
    \/ Calling
    \/ \E j \in Jobs : job[j] \in {"delayed", "waiting"} \/ turn[j] \in Looking \cup {"dead"}
Stranded == pending # {} /\ ~Awake

\* The promise of turn-lock.ts 11-14 and actor.ts 437-442: entries go into
\* pending before the job is scheduled, so a wake-up is never lost.
NoLostWakeup == faults = 0 => ~Stranded

\* What the code does keep of it: whenever an entry is stranded the dirty mark is
\* up and the pointer names a job that is over (or about to be), never another
\* one and never nothing.  So it is only a turn that has made its last check, or
\* made none, that swallows the mark, and the next message will not reuse it.
StrandedIsMarked == faults = 0 /\ Stranded => pointer # None /\ dirty

\* Through crashes, stalled jobs, dead holders' leases and losers' retries the chat
\* keeps coming to rest: every entry handled, lost with its process, or stranded.
\* No entry is left in a loop of jobs that defer to one another for ever.
ComesToRest == []<>(sent \subseteq handled \cup lost \/ Stranded)

\* A stranded entry is not lost for good: the next message of the chat, even a
\* passive edit, starts a turn that handles all that waits.
RescuedByNextMessage ==
    \A m \in Msgs : at[m] = "meta" /\ faults = 0 ~> sent \subseteq handled \/ faults > 0
=============================================================================
