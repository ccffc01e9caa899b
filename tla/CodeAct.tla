------------------------------ MODULE CodeAct ------------------------------
(***************************************************************************)
(* The CodeAct tasks of one chat: meta/session.ts takes the messages one   *)
(* after the other to a task that is under way (as an interrupt, or as the *)
(* answer it waits for) or dispatches a new one; subagent/queue.ts keeps a *)
(* BullMQ job per segment of a task; subagent/executor.ts runs it, drains  *)
(* the interrupts before each turn and ends by finishing, by waiting for   *)
(* the user or by queueing its next segment.                               *)
(*                                                                         *)
(* What they share is in Redis: the active lock (a lease of 180 s), the    *)
(* index from the chat to its task, the record of a task, its interrupts,  *)
(* and the jobs by id.  A step is one Redis command, or the code between   *)
(* two awaits.  What a turn does is left open; redelivery of a message by  *)
(* the attention queue, the agency transport and a failing Redis (which    *)
(* falls back to a queue in memory) are left out.                          *)
(***************************************************************************)
EXTENDS Integers, FiniteSets

CONSTANTS
    Tasks,
    Direct,      \* those queued without the router, by the follow-up window
    Msgs,
    MaxSegments, \* AGENT_MAX_SEGMENTS; 1 when AGENT_LOOP_ENABLED is off
    MaxFaults,   \* bound: throws and crashes
    LastFaulty,  \* bound: they come while no task is beyond this segment
    None

ASSUME CodeActAssumption ==
    /\ Direct \subseteq Tasks /\ None \notin Tasks \cup Msgs
    /\ MaxSegments \in Nat \ {0} /\ MaxFaults \in Nat /\ LastFaulty \in Nat

\* A task has the job "codeact-<id>", number 0, and for segment k the job
\* "codeact-<id>-seg<k>", number k + 1.
JobIds == Tasks \X (0..MaxSegments)
TaskOf(j) == j[1]
SegmentOf(j) == IF j[2] = 0 THEN 0 ELSE j[2] - 1
ResumeJob(t, segment) == <<t, segment + 1>>

VARIABLES
    active,   \* the holder of the lock xxb:codeact:active
    index,    \* xxb:agent:active-chat
    status,   \* the record of each task: its status
    segment,  \* and its segment
    ints,     \* the interrupts of each task
    jobs,     \* the state of each job in BullMQ
    pending,  \* its data: the answers it brings
    pc,       \* where the run of each job is
    batch,    \* what it has read of the list and not yet deleted
    out,      \* how it ends
    recalled, \* the tasks the process remembers as in flight
    old,      \* tasks that were remembered or held the lock 180 s after their creation
    inbox,    \* messages that wait for the router
    router,   \* where it is, with which message, about which task
    cleaner,  \* the handler of failed jobs, per task
    heard,    \* history: how often a task was given a message
    hit,      \* history: the tasks a fault has struck
    faults

record == <<status, segment>>
queue == <<jobs, pending>>
runs == <<pc, batch, out>>
memory == <<recalled, old>>
meta == <<inbox, router>>
history == <<hit, faults>>
vars == <<active, index, record, ints, queue, runs, memory, meta, cleaner, heard, history>>

InFlight == {"queued", "running", "waiting"}
Idle == [at |-> "idle", msg |-> None, task |-> None]

Init ==
    /\ active = None /\ index = None
    /\ status = [t \in Tasks |-> "none"] /\ segment = [t \in Tasks |-> 0]
    /\ ints = [t \in Tasks |-> {}]
    /\ jobs = [j \in JobIds |-> "none"] /\ pending = [j \in JobIds |-> {}]
    /\ pc = [j \in JobIds |-> "idle"] /\ batch = [j \in JobIds |-> {}]
    /\ out = [j \in JobIds |-> "none"]
    /\ recalled = {} /\ old = {}
    /\ inbox = Msgs /\ router = Idle
    /\ cleaner = [t \in Tasks |-> "off"]
    /\ heard = [t \in Tasks |-> [m \in Msgs |-> 0]]
    /\ hit = {} /\ faults = 0

Goto(j, at) == pc' = [pc EXCEPT ![j] = at]
\* persistCodeActTask, and the object the process remembers changes with it.
Persist(t, st, n) ==
    /\ status' = [status EXCEPT ![t] = st]
    /\ segment' = [segment EXCEPT ![t] = n]
    /\ recalled' = IF st \in InFlight THEN recalled \cup {t} ELSE recalled \ {t}
\* Queue.add does nothing when the id is taken, by a completed job too.
Add(j, answers) ==
    IF jobs[j] = "none"
    THEN /\ jobs' = [jobs EXCEPT ![j] = "waiting"]
         /\ pending' = [pending EXCEPT ![j] = answers]
    ELSE UNCHANGED <<jobs, pending>>
\* unregisterAgentChat, clearCodeActActive: a key is deleted by its owner.
Drop(key, t) == IF key = t THEN None ELSE key
Hear(t, ms) ==
    heard' = [heard EXCEPT ![t] = [m \in Msgs |-> IF m \in ms /\ @[m] < 2 THEN @[m] + 1 ELSE @[m]]]
----------------------------------------------------------------------------
\* autoDispatchL0: the next message, and the task the index names.
RouteGet(m) ==
    /\ router = Idle /\ m \in inbox
    /\ inbox' = inbox \ {m}
    /\ router' = [at |-> IF index = None THEN "busy" ELSE "load", msg |-> m, task |-> index]
    /\ UNCHANGED <<active, index, record, ints, queue, runs, memory, cleaner, heard, history>>

\* Its record says whether anybody would read an interrupt.
RouteLoad ==
    /\ router.at = "load"
    /\ router' = [router EXCEPT !.at = CASE status[router.task] = "waiting" -> "answer"
                                         [] status[router.task] \in InFlight \ {"waiting"} -> "push"
                                         [] OTHER -> "busy"]
    /\ UNCHANGED <<active, index, record, ints, queue, runs, memory, inbox, cleaner, heard, history>>

RoutePush ==
    /\ router.at = "push"
    /\ ints' = [ints EXCEPT ![router.task] = @ \cup {router.msg}]
    /\ router' = Idle
    /\ UNCHANGED <<active, index, record, queue, runs, memory, inbox, cleaner, heard, history>>

\* The answer is put in the record that was read, which is queued again.
RouteAnswer ==
    /\ router.at = "answer"
    /\ Persist(router.task, "queued", segment[router.task])
    /\ router' = [router EXCEPT !.at = "answerAdd"]
    /\ UNCHANGED <<active, index, ints, queue, runs, old, inbox, cleaner, heard, history>>

RouteAnswerAdd ==
    /\ router.at = "answerAdd"
    /\ Add(ResumeJob(router.task, segment[router.task]), {router.msg})
    /\ router' = Idle
    /\ UNCHANGED <<active, index, record, ints, runs, memory, inbox, cleaner, heard, history>>

\* taskToGroup: busy by the lock or by what the process remembers of the
\* last 180 s; the message is then queued again.
RouteBusy ==
    /\ router.at = "busy"
    /\ IF active # None \/ recalled \ old # {}
       THEN /\ inbox' = inbox \cup {router.msg}
            /\ router' = Idle
       ELSE router' = [router EXCEPT !.at = "claim"] /\ UNCHANGED inbox
    /\ UNCHANGED <<active, index, record, ints, queue, runs, memory, cleaner, heard, history>>

\* tryMarkCodeActActive with the id of a new task.
RouteClaim(t) ==
    /\ router.at = "claim" /\ t \in Tasks \ Direct /\ status[t] = "none" /\ t \notin recalled \cup old
    /\ IF active = None
       THEN /\ active' = t
            /\ recalled' = recalled \cup {t}
            /\ router' = [router EXCEPT !.at = "persist", !.task = t]
            /\ UNCHANGED inbox
       ELSE /\ inbox' = inbox \cup {router.msg}
            /\ router' = Idle
            /\ UNCHANGED <<active, recalled>>
    /\ UNCHANGED <<index, record, ints, queue, runs, old, cleaner, heard, history>>

\* enqueueCodeActJob.
RoutePersist ==
    /\ router.at = "persist"
    /\ Persist(router.task, "queued", 0)
    /\ router' = [router EXCEPT !.at = "add"]
    /\ UNCHANGED <<active, index, ints, queue, runs, old, inbox, cleaner, heard, history>>

RouteAdd ==
    /\ router.at = "add"
    /\ Add(<<router.task, 0>>, {})
    /\ Hear(router.task, {router.msg})
    /\ router' = Idle
    /\ UNCHANGED <<active, index, record, ints, runs, memory, inbox, cleaner, history>>

\* dispatchContinuation of the follow-up window.
DirectPersist(t) ==
    /\ t \in Direct /\ status[t] = "none"
    /\ Persist(t, "queued", 0)
    /\ UNCHANGED <<active, index, ints, queue, runs, old, meta, cleaner, heard, history>>

DirectAdd(t) ==
    /\ t \in Direct \cap recalled /\ jobs[<<t, 0>>] = "none"
    /\ Add(<<t, 0>>, {})
    /\ UNCHANGED <<active, index, record, ints, runs, memory, meta, cleaner, heard, history>>
----------------------------------------------------------------------------
\* Mutant: SET without NX, after a GET that does not look at the holder.
MutTryMark(j) ==
    /\ jobs[j] = "waiting" /\ pc[j] = "idle"
    /\ active' = TaskOf(j)
    /\ jobs' = [jobs EXCEPT ![j] = "active"]
    /\ Goto(j, "begin")
    /\ UNCHANGED <<index, record, ints, pending, batch, out, memory, meta, cleaner, heard, history>>

\* processCodeActJob: without the lock the job is delayed and tried again.
TryMark(j) ==
    /\ jobs[j] = "waiting" /\ pc[j] = "idle"
    /\ active \in {None, TaskOf(j)}
    /\ active' = TaskOf(j)
    /\ jobs' = [jobs EXCEPT ![j] = "active"]
    /\ Goto(j, "begin")
    /\ UNCHANGED <<index, record, ints, pending, batch, out, memory, meta, cleaner, heard, history>>

Begin(j) ==
    /\ pc[j] = "begin"
    /\ Persist(TaskOf(j), "running", SegmentOf(j))
    /\ Goto(j, "register")
    /\ UNCHANGED <<active, index, ints, queue, batch, out, old, meta, cleaner, heard, history>>

\* registerAgentChat, at the start and again before a pause.
Register(j) ==
    /\ pc[j] \in {"register", "saveRegister", "waitRegister"}
    /\ index' = TaskOf(j)
    /\ Goto(j, CASE pc[j] = "register" -> "input"
                 [] pc[j] = "saveRegister" -> "saveAdd"
                 [] pc[j] = "waitRegister" -> "clear")
    /\ UNCHANGED <<active, record, ints, queue, batch, out, memory, meta, cleaner, heard, history>>

\* The answers the job brought; one that says stop ends the task (isHardStop).
Input(j) ==
    /\ pc[j] = "input"
    /\ Hear(TaskOf(j), pending[j])
    /\ Goto(j, "drain") \/ (pending[j] # {} /\ Goto(j, "stop"))
    /\ UNCHANGED <<active, index, record, ints, queue, batch, out, memory, meta, cleaner, history>>

\* drainInterrupts: LRANGE, and then DEL.
Drain(j) ==
    /\ pc[j] = "drain"
    /\ batch' = [batch EXCEPT ![j] = ints[TaskOf(j)]]
    /\ Goto(j, IF ints[TaskOf(j)] = {} THEN "turn" ELSE "delete")
    /\ UNCHANGED <<active, index, record, ints, queue, out, memory, meta, cleaner, heard, history>>

\* Mutant: the list is read and not deleted.
MutDelete(j) ==
    /\ pc[j] = "delete"
    /\ Hear(TaskOf(j), batch[j])
    /\ batch' = [batch EXCEPT ![j] = {}]
    /\ Goto(j, "turn") \/ Goto(j, "stop")
    /\ UNCHANGED <<active, index, record, ints, queue, out, memory, meta, cleaner, history>>

Delete(j) ==
    /\ pc[j] = "delete"
    /\ ints' = [ints EXCEPT ![TaskOf(j)] = {}]
    /\ Hear(TaskOf(j), batch[j])
    /\ batch' = [batch EXCEPT ![j] = {}]
    /\ Goto(j, "turn") \/ Goto(j, "stop")
    /\ UNCHANGED <<active, index, record, queue, out, memory, meta, cleaner, history>>

\* Mutant: the loop goes on after the stop.
MutStop(j) ==
    /\ pc[j] = "stop"
    /\ Persist(TaskOf(j), "failed", SegmentOf(j))
    /\ Goto(j, "turn")
    /\ UNCHANGED <<active, index, ints, queue, batch, out, old, meta, cleaner, heard, history>>

Stop(j) ==
    /\ pc[j] = "stop"
    /\ Persist(TaskOf(j), "failed", SegmentOf(j))
    /\ out' = [out EXCEPT ![j] = "failed"]
    /\ Goto(j, "finish")
    /\ UNCHANGED <<active, index, ints, queue, batch, old, meta, cleaner, heard, history>>

\* One more turn.
Turn(j) ==
    /\ pc[j] = "turn"
    /\ Goto(j, "drain")
    /\ UNCHANGED <<active, index, record, ints, queue, batch, out, memory, meta, cleaner, heard, history>>

\* The last turn of the segment: the task has ended, waits for the user, or
\* is out of turns and goes on in its next segment.
Leave(j) ==
    /\ pc[j] = "turn"
    /\ \/ \E o \in {"done", "failed"} :
             out' = [out EXCEPT ![j] = o] /\ Goto(j, "finish")
       \/ Goto(j, "wait") /\ UNCHANGED out
       \/ SegmentOf(j) + 1 < MaxSegments /\ Goto(j, "save") /\ UNCHANGED out
    /\ UNCHANGED <<active, index, record, ints, queue, batch, memory, meta, cleaner, heard, history>>

Save(j) ==
    /\ pc[j] = "save"
    /\ Persist(TaskOf(j), "queued", SegmentOf(j) + 1)
    /\ Goto(j, "saveRegister")
    /\ UNCHANGED <<active, index, ints, queue, batch, out, old, meta, cleaner, heard, history>>

\* Mutant: the job of the next segment takes the id of the present one.
MutSaveAdd(j) ==
    /\ pc[j] = "saveAdd"
    /\ Add(ResumeJob(TaskOf(j), SegmentOf(j)), {})
    /\ Goto(j, "clear")
    /\ UNCHANGED <<active, index, record, ints, batch, out, memory, meta, cleaner, heard, history>>

\* enqueueResumeCodeActJob (its persist repeats the one of Save).
SaveAdd(j) ==
    /\ pc[j] = "saveAdd"
    /\ Add(ResumeJob(TaskOf(j), SegmentOf(j) + 1), {})
    /\ Goto(j, "clear")
    /\ UNCHANGED <<active, index, record, ints, batch, out, memory, meta, cleaner, heard, history>>

Wait(j) ==
    /\ pc[j] = "wait"
    /\ Persist(TaskOf(j), "waiting", SegmentOf(j))
    /\ Goto(j, "waitRegister")
    /\ UNCHANGED <<active, index, ints, queue, batch, out, old, meta, cleaner, heard, history>>

Finish(j) ==
    /\ pc[j] = "finish"
    /\ Persist(TaskOf(j), out[j], SegmentOf(j))
    /\ Goto(j, "unregister")
    /\ UNCHANGED <<active, index, ints, queue, batch, out, old, meta, cleaner, heard, history>>

\* unregisterAgentChat, one step: when the task is over, and again in the
\* finally.
Unregister(j) ==
    /\ pc[j] \in {"unregister", "unregister2"}
    /\ index' = Drop(index, TaskOf(j))
    /\ Goto(j, IF pc[j] = "unregister" THEN "unregister2" ELSE "clear")
    /\ UNCHANGED <<active, record, ints, queue, batch, out, memory, meta, cleaner, heard, history>>

\* clearCodeActActive in the finally of the job: GET, and DEL when the lock
\* was the task's or nobody's.  The job is then complete; one
\* that threw is tried again, a resumed segment is not (attempts: 1).
Over(j) ==
    /\ Goto(j, "idle")
    /\ out' = [out EXCEPT ![j] = "none"]
    /\ IF out[j] = "thrown"
       THEN /\ jobs' = [jobs EXCEPT ![j] = IF j[2] = 0 THEN "waiting" ELSE "done"]
            /\ cleaner' = [cleaner EXCEPT ![TaskOf(j)] = "unregister"]
       ELSE jobs' = [jobs EXCEPT ![j] = "done"] /\ UNCHANGED cleaner

Clear(j) ==
    /\ pc[j] = "clear"
    /\ IF active \in {TaskOf(j), None}
       THEN Goto(j, "release") /\ UNCHANGED <<jobs, out, cleaner>>
       ELSE Over(j)
    /\ UNCHANGED <<active, index, record, ints, pending, batch, memory, meta, heard, history>>

Release(j) ==
    /\ pc[j] = "release"
    /\ active' = None
    /\ Over(j)
    /\ UNCHANGED <<index, record, ints, pending, batch, memory, meta, heard, history>>
----------------------------------------------------------------------------
\* Time passes: a task is older than 180 s, which matters while it is
\* remembered or holds the lock, and the lease may run out.
Age(t) ==
    /\ t \in Tasks \ old /\ (t \in recalled \/ t = active)
    /\ old' = old \cup {t}
    /\ UNCHANGED <<active, index, record, ints, queue, runs, recalled, meta, cleaner, heard, history>>

LeaseExpires ==
    /\ active \in old
    /\ active' = None
    /\ UNCHANGED <<index, record, ints, queue, runs, memory, meta, cleaner, heard, history>>

Fails(struck) ==
    /\ faults < MaxFaults /\ \A t \in Tasks : segment[t] <= LastFaulty
    /\ faults' = faults + 1
    /\ hit' = hit \cup struck

\* The code of a run throws: before its try block, inside it, or after the
\* record of its end was stored.
Throw(j) ==
    /\ Fails({TaskOf(j)})
    /\ pc[j] \in {"input", "turn", "finish", "unregister", "unregister2"}
    /\ out' = [out EXCEPT ![j] = "thrown"]
    /\ Goto(j, IF pc[j] = "input" THEN "clear" ELSE "unregister2")
    /\ UNCHANGED <<active, index, record, ints, queue, batch, memory, meta, cleaner, heard>>

\* worker.on('failed'): unregister, clear, and mark the record.
CleanIndex(t) ==
    /\ cleaner[t] = "unregister"
    /\ index' = Drop(index, t)
    /\ cleaner' = [cleaner EXCEPT ![t] = "clear"]
    /\ UNCHANGED <<active, record, ints, queue, runs, memory, meta, heard, history>>

CleanActive(t) ==
    /\ cleaner[t] = "clear"
    /\ active' = Drop(active, t)
    /\ cleaner' = [cleaner EXCEPT ![t] = IF status[t] \in InFlight THEN "mark" ELSE "off"]
    /\ UNCHANGED <<index, record, ints, queue, runs, memory, meta, heard, history>>

CleanRecord(t) ==
    /\ cleaner[t] = "mark"
    /\ status' = [status EXCEPT ![t] = "failed"]
    /\ cleaner' = [cleaner EXCEPT ![t] = "off"]
    /\ UNCHANGED <<active, index, segment, ints, queue, runs, memory, meta, heard, history>>

\* The process dies, and what it held in memory with it: the runs, and a job
\* it was about to queue for a task whose record it had stored.
InHands(t) ==
    \/ \E j \in JobIds : TaskOf(j) = t /\ pc[j] # "idle"
    \/ router.at \in {"add", "answerAdd"} /\ router.task = t
    \/ t \in Direct /\ status[t] # "none" /\ jobs[<<t, 0>>] = "none"
Crash ==
    /\ Fails({t \in Tasks : InHands(t)})
    /\ pc' = [j \in JobIds |-> "idle"] /\ batch' = [j \in JobIds |-> {}]
    /\ out' = [j \in JobIds |-> "none"]
    /\ recalled' = {}
    /\ router' = Idle
    /\ cleaner' = [t \in Tasks |-> "off"]
    /\ UNCHANGED <<active, index, record, ints, queue, old, inbox, heard>>

\* BullMQ takes a job whose worker is gone for stalled: it waits again (the
\* second time it would fail; one crash is not enough for that).
Recover(j) ==
    /\ jobs[j] = "active" /\ pc[j] = "idle"
    /\ jobs' = [jobs EXCEPT ![j] = "waiting"]
    /\ UNCHANGED <<active, index, record, ints, pending, runs, memory, meta, cleaner, heard, history>>
----------------------------------------------------------------------------
Route ==
    \/ RouteLoad \/ RoutePush \/ RouteAnswer \/ RouteAnswerAdd
    \/ RouteBusy \/ (\E t \in Tasks : RouteClaim(t)) \/ RoutePersist \/ RouteAdd
Run(j) ==
    \/ TryMark(j) \/ Begin(j) \/ Register(j) \/ Input(j) \/ Drain(j) \/ Delete(j) \/ Stop(j)
    \/ Turn(j) \/ Leave(j) \/ Save(j) \/ SaveAdd(j) \/ Wait(j) \/ Finish(j)
    \/ Unregister(j) \/ Clear(j) \/ Release(j)
Clean(t) == CleanIndex(t) \/ CleanActive(t) \/ CleanRecord(t)
Next ==
    \/ (\E m \in Msgs : RouteGet(m)) \/ Route
    \/ \E t \in Tasks : DirectPersist(t) \/ DirectAdd(t)
    \/ \E j \in JobIds : Run(j) \/ Throw(j) \/ Recover(j)
    \/ \E t \in Tasks : Clean(t) \/ Age(t)
    \/ LeaseExpires \/ Crash

Spec == Init /\ [][Next]_vars
----------------------------------------------------------------------------
States == {"idle", "begin", "register", "input", "drain", "delete", "stop", "turn", "save",
           "saveRegister", "saveAdd", "wait", "waitRegister", "finish", "unregister", "unregister2",
           "clear", "release"}
TypeOK ==
    /\ active \in Tasks \cup {None} /\ index \in Tasks \cup {None}
    /\ status \in [Tasks -> InFlight \cup {"none", "done", "failed"}]
    /\ segment \in [Tasks -> 0..(MaxSegments - 1)]
    /\ ints \in [Tasks -> SUBSET Msgs]
    /\ jobs \in [JobIds -> {"none", "waiting", "active", "done"}]
    /\ pending \in [JobIds -> SUBSET Msgs]
    /\ pc \in [JobIds -> States] /\ batch \in [JobIds -> SUBSET Msgs]
    /\ out \in [JobIds -> {"none", "done", "failed", "thrown"}]
    /\ recalled \subseteq Tasks /\ old \subseteq Tasks
    /\ inbox \subseteq Msgs
    /\ router \in [at : {"idle", "load", "push", "answer", "answerAdd", "busy", "claim", "persist", "add"},
                   msg : Msgs \cup {None}, task : Tasks \cup {None}]
    /\ cleaner \in [Tasks -> {"off", "unregister", "clear", "mark"}]
    /\ heard \in [Tasks -> [Msgs -> 0..2]]
    /\ hit \subseteq Tasks /\ faults \in 0..MaxFaults

\* The runs that read messages and act in the chat.
Working(j) == pc[j] \in {"begin", "register", "input", "drain", "delete", "stop", "turn"}
HandedOver(t) == \E n \in 1..MaxSegments : jobs[<<t, n>>] # "none"

\* A message waits for the router, is in its hands, or is with one task: in
\* its list, in the data of a job of it, read by a run, or given.  It is never
\* with two; and a task no fault has struck has it in one place (the list, or
\* a job that has not looked at its data) until it is given it, once, whatever
\* happens to the others.
IsWith(m, t) ==
    \/ m \in ints[t] \/ heard[t][m] > 0
    \/ \E j \in JobIds : TaskOf(j) = t /\ m \in pending[j] \cup batch[j]
Carries(j, m) == m \in pending[j] /\ (jobs[j] = "waiting" \/ pc[j] \in {"begin", "register", "input"})
Carriers(m, t) == {j \in JobIds : TaskOf(j) = t /\ Carries(j, m)}
Listed(m, t) == IF m \in ints[t] THEN 1 ELSE 0
Holders(m) ==
    {t \in Tasks : IsWith(m, t)} \cup (IF m \in inbox THEN {"inbox"} ELSE {})
      \cup (IF router.msg = m THEN {"router"} ELSE {})
InOnePlace ==
    \A m \in Msgs :
        /\ Cardinality(Holders(m)) <= 1
        /\ \A t \in Tasks \ hit : Cardinality(Carriers(m, t)) + Listed(m, t) + heard[t][m] <= 1

\* One CodeAct per chat: two runs work at once only after some task of the
\* chat has outlived its lease, was handed from one of its jobs to the next
\* or was struck by a fault (it may be a third task, whose late DEL takes the
\* lock from its holder); and never on the same task, but for one struck.
RunsAlone ==
    \A i, j \in JobIds :
        Working(i) /\ Working(j) /\ i # j =>
            /\ TaskOf(i) # TaskOf(j) \/ TaskOf(i) \in hit
            /\ \E t \in Tasks : t \in old \/ HandedOver(t) \/ t \in hit

\* A task that is over stays over while no fault has struck it: neither a
\* late answer nor a segment starts it again, nor what is done about the
\* tasks that were struck.
StaysOver ==
    [][\A t \in Tasks \ hit' : status[t] \in {"done", "failed"} => status'[t] = status[t]]_vars

\* A record that says a task is under way is told the truth, unless a fault
\* has struck the task: its job waits or runs, or is about to be queued.
\* The one exception is a job whose id was taken: Queue.add has ignored it,
\* and the task stays queued.
Underway(t) ==
    \/ \E n \in 0..MaxSegments : jobs[<<t, n>>] \in {"waiting", "active"}
    \/ router.task = t
    \/ t \in Direct /\ jobs[<<t, 0>>] = "none"
StuckByIdOnly ==
    \A t \in Tasks \ hit :
        status[t] \in {"queued", "running"} /\ ~Underway(t) =>
            jobs[ResumeJob(t, segment[t])] = "done"

(* What comments of the code say and TLC refutes (README, "Disagreements"). *)
OnePerChat ==
    faults = 0 /\ old = {} =>
        \A i, j \in JobIds : Working(i) /\ Working(j) => TaskOf(i) = TaskOf(j)
\* A task that takes messages is one that somebody runs or will run.
TakersAreAlive ==
    faults = 0 => \A t \in Tasks : index = t /\ status[t] \in {"queued", "running"} => Underway(t)
\* The answer to a task that waits finds it.
WaitingIsIndexed ==
    faults = 0 => \A t \in Tasks : status[t] = "waiting" /\ router = Idle /\ ~Underway(t) => index = t
\* What was sent to a task as an interrupt is read before the task is over.
InterruptsAreRead ==
    \A t \in Tasks : status[t] \in {"done", "failed"} /\ ~Underway(t) => ints[t] = {}
\* A record that says done, or that the failed handler has marked, stands: it
\* does not when the job is tried again or recovered, which writes "running"
\* without having read it.
OverIsNotRetried ==
    [][\A t \in Tasks : status[t] \in {"done", "failed"} => status'[t] # "running"]_vars
=============================================================================
