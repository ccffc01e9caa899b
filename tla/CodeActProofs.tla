--------------------------- MODULE CodeActProofs ---------------------------
(***************************************************************************)
(* Proofs about CodeAct, for any number of tasks, messages, segments and   *)
(* faults.                                                                 *)
(***************************************************************************)
EXTENDS CodeAct, FiniteSetTheorems, TLAPS

\* What the router holds while it acts; a next segment is one there may be, and a run that
\* finishes knows how.
RouterHolds ==
    /\ router.at # "idle" => router.msg \in Msgs
    /\ router.at \in {"load", "push", "answer", "answerAdd", "persist", "add"} => router.task \in Tasks
    /\ \A j \in JobIds : /\ pc[j] = "save" => SegmentOf(j) + 1 < MaxSegments
                         /\ pc[j] = "finish" => out[j] \in {"done", "failed"}

TypeInv == TypeOK /\ RouterHolds

LEMMA JobsAre ==
    ASSUME NEW j \in JobIds
    PROVE  TaskOf(j) \in Tasks /\ SegmentOf(j) \in 0..(MaxSegments - 1)
  BY CodeActAssumption DEF CodeActAssumption, JobIds, TaskOf, SegmentOf

\* The types of the parts of an action.
LEMMA PersistTypes ==
    ASSUME TypeOK, NEW t \in Tasks, NEW st \in InFlight \cup {"done", "failed"},
           NEW n \in 0..(MaxSegments - 1), Persist(t, st, n)
    PROVE  /\ status' \in [Tasks -> InFlight \cup {"none", "done", "failed"}]
           /\ segment' \in [Tasks -> 0..(MaxSegments - 1)] /\ recalled' \subseteq Tasks
<1>1. status' \in [Tasks -> InFlight \cup {"none", "done", "failed"}]
  <2>1. status \in [Tasks -> InFlight \cup {"none", "done", "failed"}]
    BY DEF TypeOK
  <2> QED
    BY <2>1 DEF Persist
<1>2. segment' \in [Tasks -> 0..(MaxSegments - 1)]
  BY DEF Persist, TypeOK
<1>3. recalled' \subseteq Tasks
  BY DEF Persist, TypeOK
<1> QED
  BY <1>1, <1>2, <1>3

LEMMA AddTypes ==
    ASSUME TypeOK, NEW j, NEW answers \in SUBSET Msgs, Add(j, answers)
    PROVE  /\ jobs' \in [JobIds -> {"none", "waiting", "active", "done"}]
           /\ pending' \in [JobIds -> SUBSET Msgs]
  BY DEF Add, TypeOK

LEMMA HearTypes ==
    ASSUME TypeOK, NEW t \in Tasks, NEW ms, Hear(t, ms)
    PROVE  heard' \in [Tasks -> [Msgs -> 0..2]]
<1>1. heard \in [Tasks -> [Msgs -> 0..2]]
  BY DEF TypeOK
<1>2. [m \in Msgs |-> IF m \in ms /\ heard[t][m] < 2 THEN heard[t][m] + 1 ELSE heard[t][m]] \in [Msgs -> 0..2]
  BY <1>1
<1> QED
  BY <1>1, <1>2 DEF Hear

LEMMA GotoTypes ==
    ASSUME TypeInv, NEW j \in JobIds, NEW at \in States \ {"save", "finish"}, Goto(j, at)
    PROVE  /\ pc' \in [JobIds -> States]
           /\ \A k \in JobIds : /\ pc'[k] = "save" => SegmentOf(k) + 1 < MaxSegments
                                /\ pc'[k] = "finish" => k # j /\ pc[k] = "finish"
  BY DEF Goto, TypeInv, TypeOK, RouterHolds

LEMMA TypeInit == Init => TypeInv
  BY CodeActAssumption DEF Init, TypeInv, TypeOK, RouterHolds, CodeActAssumption, States, Idle, InFlight

LEMMA TypeStep == TypeInv /\ [Next]_vars => TypeInv'
<1> SUFFICES ASSUME TypeInv, [Next]_vars PROVE TypeInv'
  OBVIOUS
<1> USE CodeActAssumption, JobsAre DEF CodeActAssumption, record, queue, runs, memory, meta, history
<1>1. ASSUME NEW m \in Msgs, RouteGet(m) PROVE TypeInv'
  BY <1>1 DEF RouteGet, TypeInv, TypeOK, RouterHolds
<1>2. ASSUME RouteLoad PROVE TypeInv'
  BY <1>2 DEF RouteLoad, InFlight, TypeInv, TypeOK, RouterHolds
<1>3. ASSUME RoutePush PROVE TypeInv'
  BY <1>3 DEF RoutePush, Idle, TypeInv, TypeOK, RouterHolds
<1>4. ASSUME RouteAnswer PROVE TypeInv'
  <2>1. /\ status' \in [Tasks -> InFlight \cup {"none", "done", "failed"}]
        /\ segment' \in [Tasks -> 0..(MaxSegments - 1)] /\ recalled' \subseteq Tasks
    BY <1>4, PersistTypes DEF RouteAnswer, TypeInv, RouterHolds, InFlight, TypeOK
  <2> QED
    BY <1>4, <2>1 DEF RouteAnswer, TypeInv, TypeOK, RouterHolds
<1>5. ASSUME RouteAnswerAdd PROVE TypeInv'
  <2>1. /\ jobs' \in [JobIds -> {"none", "waiting", "active", "done"}]
        /\ pending' \in [JobIds -> SUBSET Msgs]
    BY <1>5, AddTypes DEF RouteAnswerAdd, TypeInv, RouterHolds
  <2> QED
    BY <1>5, <2>1 DEF RouteAnswerAdd, Idle, TypeInv, TypeOK, RouterHolds
<1>6. ASSUME RouteBusy PROVE TypeInv'
  BY <1>6 DEF RouteBusy, Idle, TypeInv, TypeOK, RouterHolds
<1>7. ASSUME NEW t \in Tasks, RouteClaim(t) PROVE TypeInv'
  <2>1. /\ active' \in Tasks \cup {None} /\ recalled' \subseteq Tasks /\ inbox' \subseteq Msgs
    BY <1>7 DEF RouteClaim, TypeInv, TypeOK, RouterHolds
  <2>2. CASE active = None
    <3>1. router' = [router EXCEPT !.at = "persist", !.task = t] /\ router.msg \in Msgs
      BY <1>7, <2>2 DEF RouteClaim, TypeInv, RouterHolds
    <3>2. TypeOK'
      BY <1>7, <2>1, <3>1 DEF RouteClaim, TypeInv, TypeOK
    <3>3. RouterHolds'
      BY <1>7, <3>1 DEF RouteClaim, TypeInv, TypeOK, RouterHolds
    <3> QED
      BY <3>2, <3>3 DEF TypeInv
  <2>3. CASE active # None
    BY <1>7, <2>1, <2>3 DEF RouteClaim, Idle, TypeInv, TypeOK, RouterHolds
  <2> QED
    BY <2>2, <2>3
<1>8. ASSUME RoutePersist PROVE TypeInv'
  <2>1. router.task \in Tasks /\ 0 \in 0..(MaxSegments - 1)
    BY <1>8 DEF RoutePersist, TypeInv, RouterHolds
  <2>2. /\ status' \in [Tasks -> InFlight \cup {"none", "done", "failed"}]
        /\ segment' \in [Tasks -> 0..(MaxSegments - 1)] /\ recalled' \subseteq Tasks
    BY <1>8, <2>1, PersistTypes DEF RoutePersist, TypeInv, RouterHolds, InFlight
  <2> QED
    BY <1>8, <2>1, <2>2 DEF RoutePersist, TypeInv, TypeOK, RouterHolds
<1>9. ASSUME RouteAdd PROVE TypeInv'
  <2>1. /\ jobs' \in [JobIds -> {"none", "waiting", "active", "done"}]
        /\ pending' \in [JobIds -> SUBSET Msgs]
    BY <1>9, AddTypes DEF RouteAdd, TypeInv, RouterHolds
  <2>2. heard' \in [Tasks -> [Msgs -> 0..2]]
    BY <1>9, HearTypes DEF RouteAdd, TypeInv, RouterHolds
  <2> QED
    BY <1>9, <2>1, <2>2 DEF RouteAdd, Idle, TypeInv, TypeOK, RouterHolds
<1>10. ASSUME NEW t \in Tasks, DirectPersist(t) PROVE TypeInv'
  <2>1. /\ status' \in [Tasks -> InFlight \cup {"none", "done", "failed"}]
        /\ segment' \in [Tasks -> 0..(MaxSegments - 1)] /\ recalled' \subseteq Tasks
    BY <1>10, PersistTypes DEF DirectPersist, TypeInv, RouterHolds, InFlight, TypeOK
  <2> QED
    BY <1>10, <2>1 DEF DirectPersist, TypeInv, TypeOK, RouterHolds
<1>11. ASSUME NEW t \in Tasks, DirectAdd(t) PROVE TypeInv'
  <2>1. /\ jobs' \in [JobIds -> {"none", "waiting", "active", "done"}]
        /\ pending' \in [JobIds -> SUBSET Msgs]
    BY <1>11, AddTypes DEF DirectAdd, TypeInv, RouterHolds
  <2> QED
    BY <1>11, <2>1 DEF DirectAdd, TypeInv, TypeOK, RouterHolds
<1>12. ASSUME NEW j \in JobIds, TryMark(j) PROVE TypeInv'
  BY <1>12 DEF TryMark, Goto, States, TypeInv, TypeOK, RouterHolds
<1>13. ASSUME NEW j \in JobIds, Begin(j) PROVE TypeInv'
  <2>1. /\ pc' \in [JobIds -> States]
        /\ \A k \in JobIds : /\ pc'[k] = "save" => SegmentOf(k) + 1 < MaxSegments
                             /\ pc'[k] = "finish" => k # j /\ pc[k] = "finish"
    BY <1>13, GotoTypes DEF Begin, States
  <2>2. /\ status' \in [Tasks -> InFlight \cup {"none", "done", "failed"}]
        /\ segment' \in [Tasks -> 0..(MaxSegments - 1)] /\ recalled' \subseteq Tasks
    BY <1>13, PersistTypes DEF Begin, TypeInv, RouterHolds, InFlight, TypeOK
  <2> QED
    BY <1>13, <2>1, <2>2 DEF Begin, TypeInv, TypeOK, RouterHolds
<1>14. ASSUME NEW j \in JobIds, Register(j) PROVE TypeInv'
  BY <1>14 DEF Register, Goto, States, TypeInv, TypeOK, RouterHolds
<1>15. ASSUME NEW j \in JobIds, Input(j) PROVE TypeInv'
  <2>1. /\ pc' \in [JobIds -> States]
        /\ \A k \in JobIds : /\ pc'[k] = "save" => SegmentOf(k) + 1 < MaxSegments
                             /\ pc'[k] = "finish" => k # j /\ pc[k] = "finish"
    BY <1>15, GotoTypes DEF Input, States
  <2>2. heard' \in [Tasks -> [Msgs -> 0..2]]
    BY <1>15, HearTypes DEF Input, TypeInv
  <2> QED
    BY <1>15, <2>1, <2>2 DEF Input, TypeInv, TypeOK, RouterHolds
<1>16. ASSUME NEW j \in JobIds, Drain(j) PROVE TypeInv'
  BY <1>16 DEF Drain, Goto, States, TypeInv, TypeOK, RouterHolds
<1>17. ASSUME NEW j \in JobIds, Delete(j) PROVE TypeInv'
  <2>1. /\ pc' \in [JobIds -> States]
        /\ \A k \in JobIds : /\ pc'[k] = "save" => SegmentOf(k) + 1 < MaxSegments
                             /\ pc'[k] = "finish" => k # j /\ pc[k] = "finish"
    BY <1>17, GotoTypes DEF Delete, States
  <2>2. heard' \in [Tasks -> [Msgs -> 0..2]]
    BY <1>17, HearTypes DEF Delete, TypeInv
  <2> QED
    BY <1>17, <2>1, <2>2 DEF Delete, TypeInv, TypeOK, RouterHolds
<1>18. ASSUME NEW j \in JobIds, Stop(j) PROVE TypeInv'
  <2>1. /\ pc' \in [JobIds -> States]
        /\ \A k \in JobIds : /\ pc'[k] = "save" => SegmentOf(k) + 1 < MaxSegments
                             /\ pc'[k] = "finish" => out'[k] \in {"done", "failed"}
    BY <1>18 DEF Stop, Goto, TypeInv, TypeOK, RouterHolds, States
  <2>2. /\ status' \in [Tasks -> InFlight \cup {"none", "done", "failed"}]
        /\ segment' \in [Tasks -> 0..(MaxSegments - 1)] /\ recalled' \subseteq Tasks
    BY <1>18, PersistTypes DEF Stop, TypeInv, RouterHolds, InFlight, TypeOK
  <2> QED
    BY <1>18, <2>1, <2>2 DEF Stop, TypeInv, TypeOK, RouterHolds
<1>19. ASSUME NEW j \in JobIds, Turn(j) PROVE TypeInv'
  BY <1>19 DEF Turn, Goto, States, TypeInv, TypeOK, RouterHolds
<1>20. ASSUME NEW j \in JobIds, Leave(j) PROVE TypeInv'
  <2>1. PICK o \in {"done", "failed", "thrown"}, to \in {"finish", "wait", "save"} :
              /\ Goto(j, to)
              /\ out' = [out EXCEPT ![j] = o] \/ (out' = out /\ to # "finish")
              /\ to = "save" => SegmentOf(j) + 1 < MaxSegments
              /\ to = "finish" => out' = [out EXCEPT ![j] = o] /\ o # "thrown"
    BY <1>20 DEF Leave
  <2>2. /\ pc' \in [JobIds -> States]
        /\ \A k \in JobIds : pc'[k] = IF k = j THEN to ELSE pc[k]
    BY <2>1 DEF Goto, States, TypeInv, TypeOK
  <2>3. /\ out' \in [JobIds -> {"none", "done", "failed", "thrown"}]
        /\ \A k \in JobIds : k # j => out'[k] = out[k]
        /\ to = "finish" => out'[j] \in {"done", "failed"}
    <3>1. out \in [JobIds -> {"none", "done", "failed", "thrown"}]
      BY DEF TypeInv, TypeOK
    <3> QED
      BY <2>1, <3>1
  <2>4. \A k \in JobIds : /\ pc'[k] = "save" => SegmentOf(k) + 1 < MaxSegments
                          /\ pc'[k] = "finish" => out'[k] \in {"done", "failed"}
    BY <2>1, <2>2, <2>3 DEF TypeInv, RouterHolds
  <2>5. UNCHANGED <<active, index, record, ints, queue, batch, memory, meta, cleaner, heard, history>>
    BY <1>20 DEF Leave
  <2> QED
    BY <2>2, <2>3, <2>4, <2>5 DEF TypeInv, TypeOK, RouterHolds
<1>21. ASSUME NEW j \in JobIds, Save(j) PROVE TypeInv'
  <2>1. /\ pc' \in [JobIds -> States]
        /\ \A k \in JobIds : /\ pc'[k] = "save" => SegmentOf(k) + 1 < MaxSegments
                             /\ pc'[k] = "finish" => k # j /\ pc[k] = "finish"
    BY <1>21, GotoTypes DEF Save, States
  <2>2. SegmentOf(j) + 1 \in 0..(MaxSegments - 1)
    BY <1>21 DEF Save, TypeInv, RouterHolds
  <2>3. /\ status' \in [Tasks -> InFlight \cup {"none", "done", "failed"}]
        /\ segment' \in [Tasks -> 0..(MaxSegments - 1)] /\ recalled' \subseteq Tasks
    BY <1>21, <2>2, PersistTypes DEF Save, TypeInv, InFlight
  <2> QED
    BY <1>21, <2>1, <2>2, <2>3 DEF Save, TypeInv, TypeOK, RouterHolds
<1>22. ASSUME NEW j \in JobIds, SaveAdd(j) PROVE TypeInv'
  <2>1. /\ pc' \in [JobIds -> States]
        /\ \A k \in JobIds : /\ pc'[k] = "save" => SegmentOf(k) + 1 < MaxSegments
                             /\ pc'[k] = "finish" => k # j /\ pc[k] = "finish"
    BY <1>22, GotoTypes DEF SaveAdd, States
  <2>2. /\ jobs' \in [JobIds -> {"none", "waiting", "active", "done"}]
        /\ pending' \in [JobIds -> SUBSET Msgs]
    BY <1>22, AddTypes DEF SaveAdd, TypeInv, RouterHolds
  <2> QED
    BY <1>22, <2>1, <2>2 DEF SaveAdd, TypeInv, TypeOK, RouterHolds
<1>23. ASSUME NEW j \in JobIds, Wait(j) PROVE TypeInv'
  <2>1. /\ pc' \in [JobIds -> States]
        /\ \A k \in JobIds : /\ pc'[k] = "save" => SegmentOf(k) + 1 < MaxSegments
                             /\ pc'[k] = "finish" => k # j /\ pc[k] = "finish"
    BY <1>23, GotoTypes DEF Wait, States
  <2>2. /\ status' \in [Tasks -> InFlight \cup {"none", "done", "failed"}]
        /\ segment' \in [Tasks -> 0..(MaxSegments - 1)] /\ recalled' \subseteq Tasks
    BY <1>23, PersistTypes DEF Wait, TypeInv, RouterHolds, InFlight, TypeOK
  <2> QED
    BY <1>23, <2>1, <2>2 DEF Wait, TypeInv, TypeOK, RouterHolds
<1>24. ASSUME NEW j \in JobIds, Finish(j) PROVE TypeInv'
  <2>1. /\ pc' \in [JobIds -> States]
        /\ \A k \in JobIds : /\ pc'[k] = "save" => SegmentOf(k) + 1 < MaxSegments
                             /\ pc'[k] = "finish" => k # j /\ pc[k] = "finish"
    BY <1>24, GotoTypes DEF Finish, States
  <2>2. out[j] \in {"done", "failed"}
    BY <1>24 DEF Finish, TypeInv, RouterHolds
  <2>3. /\ status' \in [Tasks -> InFlight \cup {"none", "done", "failed"}]
        /\ segment' \in [Tasks -> 0..(MaxSegments - 1)] /\ recalled' \subseteq Tasks
    BY <1>24, <2>2, PersistTypes DEF Finish, TypeInv
  <2> QED
    BY <1>24, <2>1, <2>2, <2>3 DEF Finish, TypeInv, TypeOK, RouterHolds
<1>25. ASSUME NEW j \in JobIds, Unregister(j) PROVE TypeInv'
  BY <1>25 DEF Unregister, Drop, Goto, States, TypeInv, TypeOK, RouterHolds
<1>26. ASSUME NEW j \in JobIds, Clear(j) PROVE TypeInv'
  <2>1. /\ pc' \in [JobIds -> States]
        /\ \A k \in JobIds : /\ pc'[k] = "save" => SegmentOf(k) + 1 < MaxSegments
                             /\ pc'[k] = "finish" => k # j /\ pc[k] = "finish"
    BY <1>26, GotoTypes DEF Clear, Over, States
  <2>2. /\ jobs' \in [JobIds -> {"none", "waiting", "active", "done"}]
        /\ out' \in [JobIds -> {"none", "done", "failed", "thrown"}] /\ old' \subseteq Tasks
        /\ \A k \in JobIds : k # j => out'[k] = out[k]
        /\ cleaner' \in [Tasks -> {"off", "unregister", "clear", "mark"}]
    BY <1>26 DEF Clear, Over, TypeInv, TypeOK
  <2> QED
    BY <1>26, <2>1, <2>2 DEF Clear, TypeInv, TypeOK, RouterHolds
<1>27. ASSUME NEW j \in JobIds, Release(j) PROVE TypeInv'
  <2>1. /\ pc' \in [JobIds -> States]
        /\ \A k \in JobIds : /\ pc'[k] = "save" => SegmentOf(k) + 1 < MaxSegments
                             /\ pc'[k] = "finish" => k # j /\ pc[k] = "finish"
    BY <1>27, GotoTypes DEF Release, Over, States
  <2>2. /\ jobs' \in [JobIds -> {"none", "waiting", "active", "done"}]
        /\ out' \in [JobIds -> {"none", "done", "failed", "thrown"}] /\ old' \subseteq Tasks
        /\ \A k \in JobIds : k # j => out'[k] = out[k]
        /\ cleaner' \in [Tasks -> {"off", "unregister", "clear", "mark"}]
    BY <1>27 DEF Release, Over, TypeInv, TypeOK
  <2> QED
    BY <1>27, <2>1, <2>2 DEF Release, TypeInv, TypeOK, RouterHolds
<1>28. ASSUME NEW t \in Tasks, Age(t) PROVE TypeInv'
  BY <1>28 DEF Age, TypeInv, TypeOK, RouterHolds
<1>29. ASSUME LeaseExpires PROVE TypeInv'
  BY <1>29 DEF LeaseExpires, TypeInv, TypeOK, RouterHolds
<1>30. ASSUME NEW j \in JobIds, Throw(j) PROVE TypeInv'
  BY <1>30 DEF Throw, Fails, Goto, States, TypeInv, TypeOK, RouterHolds
<1>31. ASSUME NEW t \in Tasks, CleanIndex(t) PROVE TypeInv'
  BY <1>31 DEF CleanIndex, Drop, TypeInv, TypeOK, RouterHolds
<1>32. ASSUME NEW t \in Tasks, CleanActive(t) PROVE TypeInv'
  BY <1>32 DEF CleanActive, Drop, TypeInv, TypeOK, RouterHolds
<1>33. ASSUME NEW t \in Tasks, CleanRecord(t) PROVE TypeInv'
  BY <1>33 DEF CleanRecord, TypeInv, TypeOK, RouterHolds
<1>34. ASSUME Crash PROVE TypeInv'
  BY <1>34 DEF Crash, Fails, Idle, States, TypeInv, TypeOK, RouterHolds
<1>35. ASSUME NEW j \in JobIds, Recover(j) PROVE TypeInv'
  BY <1>35 DEF Recover, TypeInv, TypeOK, RouterHolds
<1>36. CASE UNCHANGED vars
  BY <1>36 DEF vars, TypeInv, TypeOK, RouterHolds
<1> QED
  BY <1>1, <1>2, <1>3, <1>4, <1>5, <1>6, <1>7, <1>8, <1>9, <1>10, <1>11, <1>12, <1>13,
     <1>14, <1>15, <1>16, <1>17, <1>18, <1>19, <1>20, <1>21, <1>22, <1>23, <1>24,
     <1>25, <1>26, <1>27, <1>28, <1>29, <1>30, <1>31, <1>32, <1>33, <1>34, <1>35, <1>36
     DEF Next, Route, Run, Clean

\* The state of a chat's tasks keeps its types, however runs, answers, retries, crashes
\* and expired leases interleave; a run never begins a segment beyond the last.
THEOREM TypeCorrect == Spec => []TypeOK
<1>1. TypeInv => TypeOK
  BY DEF TypeInv
<1> QED
  BY <1>1, TypeInit, TypeStep, PTL DEF Spec

----------------------------------------------------------------------------
(***************************************************************************)
(* What holds of the tasks no fault has struck.  Each is driven by one job *)
(* at a time, and its record says so (Driven); that is proved task by task,*)
(* and what is done about a task that was struck is about that task only.  *)
(***************************************************************************)
\* The job that drives a task on: it waits, or its run has not yet given the task away.
JobsOf(t) == {j \in JobIds : TaskOf(j) = t}
InSegment == {"register", "input", "drain", "delete", "stop", "turn", "save", "wait"}
HandingOver == {"saveRegister", "saveAdd"}
Drives(j) == jobs[j] = "waiting" \/ pc[j] \in InSegment \cup HandingOver \cup {"begin", "finish"}

\* No job of a task exists beyond this number.
JobsUpTo(t, n) == \A k \in 0..MaxSegments : jobs[<<t, k>>] # "none" => k <= n

\* What the record says of the task a job drives, while no fault has struck it.
Recorded(t, st, n) == status[t] = st /\ segment[t] = n
JobIsRecorded(t, j) ==
    /\ out[j] # "thrown" /\ (jobs[j] = "active" <=> pc[j] # "idle")
    /\ jobs[j] = "waiting" \/ pc[j] = "begin" => Recorded(t, "queued", SegmentOf(j))
    /\ pc[j] \in InSegment => Recorded(t, "running", SegmentOf(j))
    /\ pc[j] \in HandingOver => /\ Recorded(t, "queued", SegmentOf(j) + 1)
                                /\ JobsUpTo(t, SegmentOf(j) + 1)
    /\ pc[j] = "finish" => \/ Recorded(t, "running", SegmentOf(j))
                           \/ Recorded(t, "failed", SegmentOf(j)) /\ out[j] = "failed"

OneDriver(t) == \A i, j \in JobsOf(t) : Drives(i) /\ Drives(j) => i = j
NobodyDrives(t) == \A j \in JobsOf(t) : ~Drives(j)

\* The router's hands on a task.
RouterDrives(t) ==
    /\ router.at = "persist" => t \notin Direct /\ status[t] = "none"
    /\ router.at = "add" => t \notin Direct /\ Recorded(t, "queued", 0) /\ jobs[<<t, 0>>] = "none"
    /\ router.at = "answer" => status[t] = "waiting"
    /\ router.at = "answerAdd" => status[t] = "queued" /\ jobs[<<t, 0>>] # "none" /\ NobodyDrives(t)

\* The first job comes first; whoever is said to be under way is driven, is about to be
\* queued, or has had the job of its segment.
IsTracked(t) ==
    /\ JobsUpTo(t, segment[t] + 1)
    /\ \A n \in 0..MaxSegments : jobs[<<t, n>>] # "none" => jobs[<<t, 0>>] # "none"
    /\ status[t] = "none" => jobs[<<t, 0>>] = "none"
    /\ jobs[<<t, 0>>] = "none" =>
          \/ status[t] = "none"
          \/ Recorded(t, "queued", 0) /\ (t \in Direct \/ (router.at = "add" /\ router.task = t))
    /\ t \in Direct \cap recalled => status[t] \in InFlight
    /\ status[t] \in {"queued", "running"} /\ jobs[<<t, 0>>] # "none" =>
          \/ ~NobodyDrives(t)
          \/ router.at = "answerAdd" /\ router.task = t
          \/ jobs[ResumeJob(t, segment[t])] # "none"

TaskIsDriven(t) ==
    /\ cleaner[t] = "off"
    /\ \A j \in JobsOf(t) : JobIsRecorded(t, j)
    /\ OneDriver(t)
    /\ router.task = t => RouterDrives(t)
    /\ IsTracked(t)
Driven == \A t \in Tasks \ hit : TaskIsDriven(t)
\* While every lease lasts, every task has its one job and no fault has struck, whoever
\* runs has the lock.
LockHeld ==
    hit = {} /\ (\A t \in Tasks : t \notin old /\ ~HandedOver(t)) =>
        \A j \in JobIds : pc[j] # "idle" => active = TaskOf(j)

LEMMA JobOf ==
    ASSUME NEW t \in Tasks, NEW n \in 0..MaxSegments
    PROVE  <<t, n>> \in JobsOf(t) /\ SegmentOf(<<t, n>>) = IF n = 0 THEN 0 ELSE n - 1
  BY DEF JobsOf, JobIds, TaskOf, SegmentOf

LEMMA JobIsPair ==
    ASSUME NEW t \in Tasks, NEW j \in JobsOf(t)
    PROVE  /\ j \in JobIds /\ TaskOf(j) = t
           /\ \E n \in 0..MaxSegments : j = <<t, n>> /\ SegmentOf(j) = IF n = 0 THEN 0 ELSE n - 1
  BY DEF JobsOf, JobIds, TaskOf, SegmentOf

\* A step that leaves a task, its jobs and their runs alone.
LEMMA Untouched ==
    ASSUME TypeOK, NEW t \in Tasks, TaskIsDriven(t),
           status'[t] = status[t], segment'[t] = segment[t], cleaner'[t] = cleaner[t],
           \A j \in JobsOf(t) : jobs'[j] = jobs[j] /\ Drives(j)' = Drives(j) /\ JobIsRecorded(t, j)',
           t \in Direct \cap recalled' => t \in recalled,
           router.task = t /\ router.at \in {"add", "answerAdd"} => router' = router,
           router'.task = t => router' = router \/ RouterDrives(t)'
    PROVE  TaskIsDriven(t)'
<1>1. OneDriver(t)'
  BY DEF TaskIsDriven, OneDriver, JobsOf
<1>2. NobodyDrives(t)' = NobodyDrives(t)
  BY DEF NobodyDrives, JobsOf
<1>3. \A n \in 0..MaxSegments : jobs'[<<t, n>>] = jobs[<<t, n>>]
  BY JobOf
<1>4. 0 \in 0..MaxSegments
  BY CodeActAssumption DEF CodeActAssumption
<1>5. router'.task = t => RouterDrives(t)'
  BY <1>2, <1>3, <1>4 DEF TaskIsDriven, RouterDrives, Recorded
<1>6. jobs'[ResumeJob(t, segment[t])] = jobs[ResumeJob(t, segment[t])]
  <2>1. segment[t] + 1 \in 0..MaxSegments
    BY CodeActAssumption DEF CodeActAssumption, TypeOK
  <2> QED
    BY <1>3, <2>1 DEF ResumeJob
<1>7. JobsUpTo(t, segment[t] + 1)'
  BY <1>3 DEF TaskIsDriven, IsTracked, JobsUpTo
<1>8. jobs'[<<t, 0>>] = "none" =>
          \/ status'[t] = "none"
          \/ Recorded(t, "queued", 0)' /\ (t \in Direct \/ (router'.at = "add" /\ router'.task = t))
  BY <1>3, <1>4 DEF TaskIsDriven, IsTracked, Recorded
<1>9. status'[t] \in {"queued", "running"} /\ jobs'[<<t, 0>>] # "none" =>
          \/ ~NobodyDrives(t)'
          \/ router'.at = "answerAdd" /\ router'.task = t
          \/ jobs'[ResumeJob(t, segment'[t])] # "none"
  BY <1>2, <1>3, <1>4, <1>6 DEF TaskIsDriven, IsTracked
<1>10. IsTracked(t)'
  BY <1>3, <1>4, <1>7, <1>8, <1>9 DEF TaskIsDriven, IsTracked
<1> QED
  BY <1>1, <1>5, <1>10 DEF TaskIsDriven, JobsOf

\* While a job drives its task, no other does, and the router leaves the task alone.
LEMMA DriverAlone ==
    ASSUME NEW t \in Tasks, TaskIsDriven(t), NEW j \in JobsOf(t), Drives(j)
    PROVE  /\ \A k \in JobsOf(t) \ {j} : ~Drives(k)
           /\ jobs[j] \in {"waiting", "active"} /\ jobs[<<t, 0>>] # "none"
           /\ status[t] \notin {"none", "waiting"}
           /\ router.task = t => router.at \notin {"persist", "add", "answer", "answerAdd"}
<1>1. \A k \in JobsOf(t) \ {j} : ~Drives(k)
  BY DEF TaskIsDriven, OneDriver
<1>2. jobs[j] \in {"waiting", "active"}
  BY DEF TaskIsDriven, JobIsRecorded, Drives, InSegment, HandingOver
<1>3. jobs[<<t, 0>>] # "none"
  BY <1>2, JobIsPair DEF TaskIsDriven, IsTracked
<1>4. status[t] \notin {"none", "waiting"}
  BY DEF TaskIsDriven, JobIsRecorded, Recorded, Drives, InSegment, HandingOver
<1>5. router.task = t => router.at \notin {"persist", "add", "answer", "answerAdd"}
  BY <1>3, <1>4 DEF TaskIsDriven, RouterDrives, NobodyDrives
<1> QED
  BY <1>1, <1>2, <1>3, <1>4, <1>5

\* The run of a job goes on, and with it what the record says.
LEMMA DriverMoves ==
    ASSUME TypeOK, NEW t \in Tasks, TaskIsDriven(t), NEW j \in JobsOf(t), Drives(j),
           \A k \in JobsOf(t) \ {j} : jobs'[k] = jobs[k] /\ pc'[k] = pc[k] /\ out'[k] = out[k],
           cleaner' = cleaner, router' = router, jobs'[j] = "active",
           JobIsRecorded(t, j)', JobsUpTo(t, segment[t] + 1)',
           t \in Direct \cap recalled' => status'[t] \in InFlight, status'[t] # "none",
           status'[t] \in {"queued", "running"} => Drives(j)'
    PROVE  TaskIsDriven(t)'
<1>1. \A k \in JobsOf(t) \ {j} : ~Drives(k) /\ ~Drives(k)'
  BY DriverAlone DEF Drives
<1>2. \A k \in JobsOf(t) \ {j} : JobIsRecorded(t, k)'
  BY <1>1 DEF TaskIsDriven, JobIsRecorded, Drives, InSegment, HandingOver
<1>3. OneDriver(t)'
  BY <1>1 DEF OneDriver, JobsOf
<1>4. router'.task = t => RouterDrives(t)'
  BY DriverAlone DEF RouterDrives
<1>5. jobs'[<<t, 0>>] # "none"
  BY DriverAlone, JobOf, CodeActAssumption DEF CodeActAssumption
<1>6. IsTracked(t)'
  BY <1>5 DEF IsTracked, NobodyDrives, JobsOf
<1> QED
  BY <1>2, <1>3, <1>4, <1>6 DEF TaskIsDriven, JobsOf

\* The run of a job that no longer drives its task comes to its end.
LEMMA AfterMoves ==
    ASSUME TypeOK, NEW t \in Tasks, TaskIsDriven(t), NEW j \in JobsOf(t), ~Drives(j), ~Drives(j)',
           \A k \in JobsOf(t) \ {j} : jobs'[k] = jobs[k] /\ pc'[k] = pc[k] /\ out'[k] = out[k],
           cleaner' = cleaner, router' = router, status' = status, segment' = segment,
           recalled' = recalled, jobs[j] # "none", jobs'[j] # "none",
           JobIsRecorded(t, j)'
    PROVE  TaskIsDriven(t)'
<1>1. \A k \in JobsOf(t) : Drives(k)' = Drives(k) /\ (jobs'[k] = "none" <=> jobs[k] = "none")
  BY DEF Drives
<1>2. \A n \in 0..MaxSegments : jobs'[<<t, n>>] = "none" <=> jobs[<<t, n>>] = "none"
  BY <1>1, JobOf
<1>3. \A n : JobsUpTo(t, n)' = JobsUpTo(t, n)
  BY <1>2 DEF JobsUpTo
<1>4. \A k \in JobsOf(t) : JobIsRecorded(t, k)'
  BY <1>3 DEF TaskIsDriven, JobIsRecorded, Recorded
<1>5. OneDriver(t)'
  BY <1>1 DEF TaskIsDriven, OneDriver, JobsOf
<1>6. NobodyDrives(t)' = NobodyDrives(t)
  BY <1>1 DEF NobodyDrives, JobsOf
<1>7. 0 \in 0..MaxSegments /\ segment[t] + 1 \in 0..MaxSegments
  BY CodeActAssumption DEF CodeActAssumption, TypeOK
<1>8. router'.task = t => RouterDrives(t)'
  BY <1>2, <1>6, <1>7 DEF TaskIsDriven, RouterDrives, Recorded
<1>9. jobs'[ResumeJob(t, segment[t])] = "none" <=> jobs[ResumeJob(t, segment[t])] = "none"
  BY <1>2, <1>7 DEF ResumeJob
<1>10. JobsUpTo(t, segment[t] + 1)'
  BY <1>3 DEF TaskIsDriven, IsTracked
<1>11. IsTracked(t)'
  BY <1>2, <1>6, <1>7, <1>9, <1>10 DEF TaskIsDriven, IsTracked, Recorded
<1> QED
  BY <1>4, <1>5, <1>8, <1>11 DEF TaskIsDriven, JobsOf

\* A step about one task leaves the others as they were.
LEMMA OthersUntouched ==
    ASSUME TypeOK, Driven, NEW u \in Tasks, hit \subseteq hit',
           \A t \in Tasks \ {u} : /\ status'[t] = status[t] /\ segment'[t] = segment[t]
                                 /\ cleaner'[t] = cleaner[t],
           \A t \in Tasks \ {u} : t \in recalled' => t \in recalled,
           \A j \in JobIds : TaskOf(j) # u => jobs'[j] = jobs[j] /\ pc'[j] = pc[j] /\ out'[j] = out[j],
           router' = router \/ (router.task = u /\ router'.task \in {u, None})
    PROVE  \A t \in Tasks \ (hit' \cup {u}) : TaskIsDriven(t)'
<1> SUFFICES ASSUME NEW t \in Tasks \ (hit' \cup {u}) PROVE TaskIsDriven(t)'
  OBVIOUS
<1>1. TaskIsDriven(t)
  BY DEF Driven
<1>2. \A j \in JobsOf(t) : jobs'[j] = jobs[j] /\ pc'[j] = pc[j] /\ out'[j] = out[j]
  BY DEF JobsOf
<1>3. \A n : JobsUpTo(t, n)' = JobsUpTo(t, n)
  BY <1>2, JobOf DEF JobsUpTo
<1>4. \A j \in JobsOf(t) : Drives(j)' = Drives(j) /\ JobIsRecorded(t, j)'
  BY <1>1, <1>2, <1>3 DEF TaskIsDriven, Drives, JobIsRecorded, Recorded
<1>5. /\ router.task = t => router' = router
      /\ router'.task = t => router' = router
  BY CodeActAssumption DEF CodeActAssumption
<1> QED
  BY <1>1, <1>2, <1>4, <1>5, Untouched

\* A step of the router, the clock or a lease that touches no record and no job.
LEMMA NothingMoves ==
    ASSUME TypeOK, Driven, UNCHANGED <<status, segment, jobs, pc, out, cleaner, hit>>,
           Direct \cap recalled' \subseteq recalled,
           \/ router' = router
           \/ /\ router.at \notin {"add", "answerAdd"}
              /\ \A t \in Tasks : router'.task = t => RouterDrives(t)'
    PROVE  Driven'
<1> SUFFICES ASSUME NEW t \in Tasks \ hit PROVE TaskIsDriven(t)'
  BY DEF Driven
<1>1. TaskIsDriven(t)
  BY DEF Driven
<1>2. \A n : JobsUpTo(t, n)' = JobsUpTo(t, n)
  BY DEF JobsUpTo
<1>3. \A j \in JobsOf(t) : Drives(j)' = Drives(j) /\ JobIsRecorded(t, j)'
  BY <1>1, <1>2 DEF TaskIsDriven, Drives, JobIsRecorded, Recorded
<1> QED
  BY <1>1, <1>3, Untouched

\* What the parts of an action do, key by key.
LEMMA PersistIs ==
    ASSUME TypeOK, NEW t \in Tasks, NEW st, NEW n, Persist(t, st, n)
    PROVE  /\ status'[t] = st /\ segment'[t] = n
           /\ \A u \in Tasks \ {t} : status'[u] = status[u] /\ segment'[u] = segment[u]
           /\ \A u \in Tasks \ {t} : u \in recalled' => u \in recalled
           /\ t \in recalled' => st \in InFlight
  BY DEF Persist, TypeOK

LEMMA AddIs ==
    ASSUME TypeOK, NEW j \in JobIds, NEW answers, Add(j, answers)
    PROVE  /\ \A k \in JobIds \ {j} : jobs'[k] = jobs[k] /\ pending'[k] = pending[k]
           /\ jobs[j] = "none" => jobs'[j] = "waiting" /\ pending'[j] = answers
           /\ jobs[j] # "none" => jobs'[j] = jobs[j] /\ pending'[j] = pending[j]
  BY DEF Add, TypeOK

LEMMA GotoIs ==
    ASSUME TypeOK, NEW j \in JobIds, NEW at, Goto(j, at)
    PROVE  pc'[j] = at /\ \A k \in JobIds \ {j} : pc'[k] = pc[k]
  BY DEF Goto, TypeOK

\* A job is queued for a task nobody drives.
LEMMA JobQueued ==
    ASSUME TypeOK, NEW t \in Tasks, NEW j \in JobsOf(t),
           \A k \in JobsOf(t) : /\ out'[k] # "thrown" /\ (jobs'[k] = "active" <=> pc'[k] # "idle")
                                /\ k # j => ~Drives(k)',
           jobs'[j] = "waiting", Recorded(t, "queued", SegmentOf(j))', cleaner'[t] = "off",
           JobsUpTo(t, segment[t] + 1)', jobs'[<<t, 0>>] # "none",
           router'.task = t => router'.at = "idle"
    PROVE  TaskIsDriven(t)'
<1>1. \A k \in JobsOf(t) : JobIsRecorded(t, k)'
  BY DEF JobIsRecorded, Drives, InSegment, HandingOver
<1>2. OneDriver(t)'
  BY DEF OneDriver, JobsOf
<1>3. ~NobodyDrives(t)'
  BY DEF NobodyDrives, Drives, JobsOf
<1>4. IsTracked(t)'
  BY <1>3 DEF IsTracked, Recorded, InFlight
<1> QED
  BY <1>1, <1>2, <1>4 DEF TaskIsDriven, RouterDrives, JobsOf

LEMMA RouterSteps ==
    ASSUME TypeInv, Driven,
           \/ \E m \in Msgs : RouteGet(m)
           \/ RouteLoad \/ RoutePush \/ RouteBusy \/ \E t \in Tasks : RouteClaim(t)
    PROVE  Driven'
<1> USE DEF record, queue, runs, memory, meta, history
<1>1. ASSUME NEW m \in Msgs, RouteGet(m) PROVE Driven'
  BY <1>1, NothingMoves DEF RouteGet, RouterDrives, Idle, TypeInv
<1>2. CASE RouteLoad
  <2>1. router'.task = router.task /\ router'.at \in {"answer", "push", "busy"}
        /\ (router'.at = "answer" => status[router.task] = "waiting")
    BY <1>2 DEF RouteLoad, TypeInv, TypeOK
  <2> QED
    BY <1>2, <2>1, NothingMoves DEF RouteLoad, RouterDrives, TypeInv
<1>3. CASE RoutePush
  BY <1>3, NothingMoves DEF RoutePush, RouterDrives, Idle, TypeInv
<1>4. CASE RouteBusy
  <2>1. router'.at \in {"idle", "claim"}
    BY <1>4 DEF RouteBusy, Idle, TypeInv, TypeOK
  <2> QED
    BY <1>4, <2>1, NothingMoves DEF RouteBusy, RouterDrives, TypeInv
<1>5. ASSUME NEW t \in Tasks, RouteClaim(t) PROVE Driven'
  <2>1. \/ router'.at = "idle"
        \/ router'.at = "persist" /\ router'.task = t
    <3>1. CASE active = None
      BY <1>5, <3>1 DEF RouteClaim, TypeInv, TypeOK
    <3>2. CASE active # None
      BY <1>5, <3>2 DEF RouteClaim, Idle
    <3> QED
      BY <3>1, <3>2
  <2>2. \A u \in Tasks : router'.task = u => RouterDrives(u)'
    BY <1>5, <2>1 DEF RouteClaim, RouterDrives
  <2>3. Direct \cap recalled' \subseteq recalled
    BY <1>5 DEF RouteClaim
  <2> QED
    BY <1>5, <2>2, <2>3, NothingMoves DEF RouteClaim, TypeInv
<1> QED
  BY <1>1, <1>2, <1>3, <1>4, <1>5

LEMMA RouteAnswerStep ==
    ASSUME TypeInv, Driven, RouteAnswer, NEW t, router.task = t, t \notin hit PROVE Driven'
<1>1. t \in Tasks /\ TaskIsDriven(t) /\ status[t] = "waiting" /\ TypeOK
  BY DEF RouteAnswer, TypeInv, RouterHolds, Driven, TaskIsDriven, RouterDrives
<1>2. /\ status'[t] = "queued" /\ segment'[t] = segment[t]
      /\ \A u \in Tasks \ {t} : status'[u] = status[u] /\ segment'[u] = segment[u]
      /\ \A u \in Tasks \ {t} : u \in recalled' => u \in recalled
  BY <1>1, PersistIs DEF RouteAnswer
<1>3. router'.at = "answerAdd" /\ router'.task = t
  BY DEF RouteAnswer, TypeInv, TypeOK
<1>4. UNCHANGED <<queue, runs, cleaner, hit>>
  BY DEF RouteAnswer, history
<1>5. \A u \in Tasks \ (hit' \cup {t}) : TaskIsDriven(u)'
  BY <1>1, <1>2, <1>3, <1>4, OthersUntouched DEF queue, runs
<1>6. NobodyDrives(t) /\ NobodyDrives(t)'
  BY <1>1, <1>4, DriverAlone DEF NobodyDrives, queue, runs, Drives, JobsOf
<1>7. jobs[<<t, 0>>] # "none"
  BY <1>1 DEF TaskIsDriven, IsTracked, Recorded
<1>8. \A j \in JobsOf(t) : JobIsRecorded(t, j)'
  BY <1>1, <1>4, <1>6 DEF TaskIsDriven, JobIsRecorded, NobodyDrives, Drives, InSegment, HandingOver, queue, runs
<1>9. OneDriver(t)'
  BY <1>6 DEF OneDriver, NobodyDrives, JobsOf
<1>10. RouterDrives(t)'
  BY <1>2, <1>3, <1>4, <1>6, <1>7 DEF RouterDrives, queue
<1>11. JobsUpTo(t, segment[t] + 1)'
  BY <1>1, <1>2, <1>4 DEF TaskIsDriven, IsTracked, JobsUpTo, queue
<1>12. IsTracked(t)'
  BY <1>1, <1>2, <1>3, <1>4, <1>7, <1>11 DEF TaskIsDriven, IsTracked, queue, InFlight
<1>13. TaskIsDriven(t)'
  BY <1>1, <1>4, <1>8, <1>9, <1>10, <1>12 DEF TaskIsDriven, JobsOf
<1> QED
  BY <1>5, <1>13 DEF Driven

LEMMA RouteAnswerAddStep ==
    ASSUME TypeInv, Driven, RouteAnswerAdd, NEW t, router.task = t, t \notin hit,
           NEW j, j = ResumeJob(t, segment[t])
    PROVE  Driven'
<1>1. /\ t \in Tasks /\ TaskIsDriven(t) /\ status[t] = "queued" /\ jobs[<<t, 0>>] # "none"
      /\ NobodyDrives(t) /\ TypeOK
  BY DEF RouteAnswerAdd, TypeInv, RouterHolds, Driven, TaskIsDriven, RouterDrives
<1>2. segment[t] \in 0..(MaxSegments - 1) /\ segment[t] + 1 \in 0..MaxSegments /\ 0 \in 0..MaxSegments
  BY <1>1, CodeActAssumption DEF CodeActAssumption, TypeOK
<1>3. j \in JobsOf(t) /\ j \in JobIds /\ SegmentOf(j) = segment[t] /\ <<t, 0>> \in JobIds
  BY <1>1, <1>2, JobOf DEF ResumeJob, JobsOf
<1>4. /\ \A k \in JobIds \ {j} : jobs'[k] = jobs[k]
      /\ jobs[j] = "none" => jobs'[j] = "waiting"
      /\ jobs[j] # "none" => jobs'[j] = jobs[j]
  BY <1>1, <1>3, AddIs DEF RouteAnswerAdd
<1>5. router'.at = "idle" /\ router'.task = None /\ UNCHANGED <<record, runs, recalled, cleaner, hit>>
  BY DEF RouteAnswerAdd, Idle, memory, history
<1>6. \A u \in Tasks \ (hit' \cup {t}) : TaskIsDriven(u)'
  BY <1>1, <1>3, <1>4, <1>5, OthersUntouched DEF JobsOf, record, runs, TypeInv
<1>7. \A k \in JobsOf(t) : k \in JobIds /\ out[k] # "thrown" /\ (jobs[k] = "active" <=> pc[k] # "idle") /\ ~Drives(k)
  BY <1>1 DEF TaskIsDriven, JobIsRecorded, NobodyDrives, JobsOf
<1>8. \A n \in 0..MaxSegments : jobs'[<<t, n>>] # "none" => n <= segment[t] + 1
  BY <1>1, <1>2, <1>4, JobOf DEF TaskIsDriven, IsTracked, JobsUpTo, ResumeJob, JobsOf
<1>9. jobs'[<<t, 0>>] # "none"
  BY <1>1, <1>3, <1>4
<1>10. CASE jobs[j] = "none"
  <2>1. jobs'[j] = "waiting" /\ Recorded(t, "queued", SegmentOf(j))'
    BY <1>1, <1>3, <1>4, <1>5, <1>10 DEF Recorded, record
  <2>2. \A k \in JobsOf(t) : /\ out'[k] # "thrown" /\ (jobs'[k] = "active" <=> pc'[k] # "idle")
                             /\ k # j => ~Drives(k)'
    BY <1>4, <1>5, <1>7, <1>10 DEF Drives, runs
  <2>3. TaskIsDriven(t)'
    BY <1>1, <1>3, <1>5, <1>8, <1>9, <2>1, <2>2, JobQueued DEF JobsUpTo, record, TaskIsDriven
  <2> QED
    BY <1>6, <2>3 DEF Driven
<1>11. CASE jobs[j] # "none"
  <2>1. \A k \in JobIds : jobs'[k] = jobs[k]
    BY <1>4, <1>11
  <2>2. \A k \in JobsOf(t) : ~Drives(k)' /\ JobIsRecorded(t, k)'
    BY <1>1, <1>5, <1>7, <2>1 DEF TaskIsDriven, JobIsRecorded, Drives, InSegment, HandingOver, runs
  <2>3. OneDriver(t)'
    BY <2>2 DEF OneDriver, JobsOf
  <2>4. jobs'[ResumeJob(t, segment'[t])] # "none"
    BY <1>3, <1>5, <1>11, <2>1 DEF record
  <2>5. IsTracked(t)'
    BY <1>1, <1>5, <1>8, <1>9, <2>4 DEF TaskIsDriven, IsTracked, JobsUpTo, record, InFlight
  <2>6. TaskIsDriven(t)'
    BY <1>1, <1>5, <2>2, <2>3, <2>5 DEF TaskIsDriven, RouterDrives, JobsOf
  <2> QED
    BY <1>6, <2>6 DEF Driven
<1> QED
  BY <1>10, <1>11

\* A new task is recorded.
LEMMA NewRecord ==
    ASSUME TypeInv, Driven, NEW t \in Tasks \ hit, Persist(t, "queued", 0), status[t] = "none",
           UNCHANGED <<queue, runs, cleaner, hit>>,
           \/ t \in Direct /\ router' = router
           \/ t \notin Direct /\ router.task = t /\ router'.at = "add" /\ router'.task = t
    PROVE  Driven'
<1>1. TaskIsDriven(t) /\ TypeOK
  BY DEF Driven, TypeInv
<1>2. /\ Recorded(t, "queued", 0)'
      /\ \A u \in Tasks \ {t} : status'[u] = status[u] /\ segment'[u] = segment[u]
      /\ \A u \in Tasks \ {t} : u \in recalled' => u \in recalled
  BY <1>1, PersistIs DEF Recorded
<1>3. \A u \in Tasks \ (hit' \cup {t}) : TaskIsDriven(u)'
  BY <1>1, <1>2, OthersUntouched DEF queue, runs
<1>4. jobs[<<t, 0>>] = "none" /\ \A n \in 0..MaxSegments : jobs[<<t, n>>] = "none"
  BY <1>1 DEF TaskIsDriven, IsTracked
<1>5. NobodyDrives(t)
  BY <1>1, DriverAlone DEF NobodyDrives
<1>6. NobodyDrives(t)' /\ \A j \in JobsOf(t) : JobIsRecorded(t, j)'
  BY <1>1, <1>5 DEF TaskIsDriven, JobIsRecorded, NobodyDrives, Drives, JobsOf, InSegment, HandingOver, queue, runs
<1>7. OneDriver(t)'
  BY <1>6 DEF OneDriver, NobodyDrives, JobsOf
<1>8. router'.task = t => RouterDrives(t)'
  BY <1>1, <1>2, <1>4 DEF TaskIsDriven, RouterDrives, queue, Recorded
<1>9. 0 \in 0..MaxSegments
  BY CodeActAssumption DEF CodeActAssumption
<1>10. IsTracked(t)'
  BY <1>2, <1>4, <1>9 DEF IsTracked, JobsUpTo, Recorded, InFlight, queue
<1>11. TaskIsDriven(t)'
  BY <1>1, <1>6, <1>7, <1>8, <1>10 DEF TaskIsDriven, JobsOf
<1> QED
  BY <1>3, <1>11 DEF Driven

\* The first job of a task is queued.
LEMMA FirstJob ==
    ASSUME TypeInv, Driven, NEW t \in Tasks \ hit, Add(<<t, 0>>, {}), Recorded(t, "queued", 0),
           jobs[<<t, 0>>] = "none", UNCHANGED <<record, runs, memory, cleaner, hit>>,
           \/ t \in Direct /\ router' = router
           \/ router.at = "add" /\ router.task = t /\ router'.at = "idle" /\ router'.task = None
    PROVE  Driven'
<1>1. TaskIsDriven(t) /\ TypeOK /\ 0 \in 0..MaxSegments
  BY CodeActAssumption DEF Driven, TypeInv, CodeActAssumption
<1>2. <<t, 0>> \in JobsOf(t) /\ <<t, 0>> \in JobIds /\ SegmentOf(<<t, 0>>) = 0
  BY <1>1, JobOf DEF JobsOf
<1>3. /\ \A k \in JobIds \ {<<t, 0>>} : jobs'[k] = jobs[k]
      /\ jobs'[<<t, 0>>] = "waiting"
  BY <1>1, <1>2, AddIs
<1>4. \A u \in Tasks \ (hit' \cup {t}) : TaskIsDriven(u)'
  BY <1>1, <1>2, <1>3, OthersUntouched DEF JobsOf, record, runs, memory
<1>5. \A n \in 0..MaxSegments : jobs[<<t, n>>] = "none"
  BY <1>1 DEF TaskIsDriven, IsTracked
<1>6. \A k \in JobsOf(t) : k \in JobIds /\ jobs[k] = "none" /\ out[k] # "thrown" /\ pc[k] = "idle"
  BY <1>1, <1>5, JobIsPair DEF TaskIsDriven, JobIsRecorded
<1>7. \A k \in JobsOf(t) : /\ out'[k] # "thrown" /\ (jobs'[k] = "active" <=> pc'[k] # "idle")
                           /\ k # <<t, 0>> => ~Drives(k)'
  BY <1>3, <1>6 DEF Drives, InSegment, HandingOver, runs
<1>8. JobsUpTo(t, segment[t] + 1)'
  <2>1. \A n \in 0..MaxSegments : n # 0 => jobs'[<<t, n>>] = "none"
    BY <1>3, <1>5, JobOf DEF JobsOf
  <2> QED
    BY <2>1 DEF JobsUpTo, Recorded, record
<1>9. router'.task = t => router'.at \notin {"persist", "add", "answer", "answerAdd"}
  BY <1>1, CodeActAssumption DEF CodeActAssumption, TaskIsDriven, RouterDrives, Recorded
<1>10. \A k \in JobsOf(t) : JobIsRecorded(t, k)'
  BY <1>2, <1>3, <1>7 DEF JobIsRecorded, Drives, InSegment, HandingOver, Recorded, record
<1>11. OneDriver(t)'
  BY <1>7 DEF OneDriver, JobsOf
<1>12. ~NobodyDrives(t)'
  BY <1>2, <1>3 DEF NobodyDrives, Drives, JobsOf
<1>13. IsTracked(t)'
  BY <1>3, <1>8, <1>12 DEF IsTracked, Recorded, InFlight, record
<1>14. TaskIsDriven(t)'
  BY <1>1, <1>9, <1>10, <1>11, <1>13 DEF TaskIsDriven, RouterDrives, JobsOf
<1> QED
  BY <1>4, <1>14 DEF Driven

LEMMA NewTaskSteps ==
    ASSUME TypeInv, Driven,
           \/ (RoutePersist \/ RouteAdd) /\ router.task \notin hit
           \/ \E t \in Tasks \ hit : DirectPersist(t) \/ DirectAdd(t)
    PROVE  Driven'
<1> USE DEF history
<1>1. CASE RoutePersist /\ router.task \notin hit
  <2>1. router.task \in Tasks /\ router'.at = "add" /\ router'.task = router.task
    BY <1>1 DEF RoutePersist, TypeInv, TypeOK, RouterHolds
  <2>2. router.task \notin Direct /\ status[router.task] = "none"
    BY <1>1, <2>1 DEF RoutePersist, Driven, TaskIsDriven, RouterDrives
  <2> QED
    BY <1>1, <2>1, <2>2, NewRecord DEF RoutePersist
<1>2. CASE RouteAdd /\ router.task \notin hit
  <2>1. router.task \in Tasks /\ router'.at = "idle" /\ router'.task = None
    BY <1>2 DEF RouteAdd, TypeInv, TypeOK, RouterHolds, Idle
  <2>2. Recorded(router.task, "queued", 0) /\ jobs[<<router.task, 0>>] = "none"
    BY <1>2, <2>1 DEF RouteAdd, Driven, TaskIsDriven, RouterDrives
  <2> QED
    BY <1>2, <2>1, <2>2, FirstJob DEF RouteAdd
<1>3. ASSUME NEW t \in Tasks \ hit, DirectPersist(t) PROVE Driven'
  BY <1>3, NewRecord DEF DirectPersist, meta
<1>4. ASSUME NEW t \in Tasks \ hit, DirectAdd(t) PROVE Driven'
  <2>1. Recorded(t, "queued", 0)
    BY <1>4 DEF DirectAdd, Driven, TaskIsDriven, IsTracked, InFlight
  <2> QED
    BY <1>4, <2>1, FirstJob DEF DirectAdd, meta
<1> QED
  BY <1>1, <1>2, <1>3, <1>4

\* A step of the run of a job.
SameElsewhere(j) ==
    /\ \A k \in JobIds \ {j} : jobs'[k] = jobs[k] /\ pc'[k] = pc[k] /\ out'[k] = out[k]
    /\ \A u \in Tasks \ {TaskOf(j)} : status'[u] = status[u] /\ segment'[u] = segment[u]
    /\ \A u \in Tasks \ {TaskOf(j)} : u \in recalled' => u \in recalled
    /\ cleaner' = cleaner /\ router' = router /\ hit' = hit

LEMMA DriverStep ==
    ASSUME TypeInv, Driven, NEW j \in JobIds, NEW t \in Tasks \ hit, t = TaskOf(j), Drives(j), SameElsewhere(j),
           jobs'[j] = "active", JobIsRecorded(t, j)',
           segment'[t] \in {segment[t], segment[t] + 1},
           status'[t] # "none", t \in Direct \cap recalled' => status'[t] \in InFlight,
           status'[t] \in {"queued", "running"} => Drives(j)'
    PROVE  Driven'
<1>1. TaskIsDriven(t) /\ TypeOK /\ j \in JobsOf(t)
  BY DEF Driven, TypeInv, JobsOf
<1>2. \A u \in Tasks \ (hit' \cup {t}) : TaskIsDriven(u)'
  BY <1>1, OthersUntouched DEF SameElsewhere
<1>3. \A k \in JobsOf(t) \ {j} : jobs'[k] = jobs[k] /\ pc'[k] = pc[k] /\ out'[k] = out[k]
  BY DEF JobsOf, SameElsewhere
<1>4. jobs[j] # "none"
  BY <1>1, DriverAlone
<1>5. \A n \in 0..MaxSegments : jobs'[<<t, n>>] # "none" => jobs[<<t, n>>] # "none"
  BY <1>3, <1>4, JobOf
<1>6. JobsUpTo(t, segment[t] + 1)'
  BY <1>1, <1>5 DEF TaskIsDriven, IsTracked, JobsUpTo, TypeOK
<1>7. TaskIsDriven(t)'
  BY <1>1, <1>3, <1>6, DriverMoves DEF SameElsewhere
<1> QED
  BY <1>2, <1>7 DEF Driven

LEMMA AfterStep ==
    ASSUME TypeInv, Driven, NEW j \in JobIds, TaskOf(j) \notin hit, ~Drives(j), ~Drives(j)', SameElsewhere(j),
           UNCHANGED <<status, segment, recalled>>, jobs[j] # "none", jobs'[j] # "none",
           JobIsRecorded(TaskOf(j), j)'
    PROVE  Driven'
<1> DEFINE t == TaskOf(j)
<1>1. t \in Tasks /\ TaskIsDriven(t) /\ TypeOK /\ j \in JobsOf(t)
  BY JobsAre DEF Driven, TypeInv, JobsOf
<1>2. \A u \in Tasks \ (hit' \cup {t}) : TaskIsDriven(u)'
  BY <1>1, OthersUntouched DEF SameElsewhere
<1>3. \A k \in JobsOf(t) \ {j} : jobs'[k] = jobs[k] /\ pc'[k] = pc[k] /\ out'[k] = out[k]
  BY DEF JobsOf, SameElsewhere
<1>4. TaskIsDriven(t)'
  BY <1>1, <1>3, AfterMoves DEF SameElsewhere
<1> QED
  BY <1>2, <1>4 DEF Driven

\* What a job that drives its task finds there.
LEMMA DriverFinds ==
    ASSUME TypeInv, Driven, NEW j \in JobIds, TaskOf(j) \notin hit
    PROVE  /\ TaskOf(j) \in Tasks /\ SegmentOf(j) \in 0..(MaxSegments - 1)
           /\ JobIsRecorded(TaskOf(j), j) /\ TypeOK
  BY JobsAre DEF Driven, TaskIsDriven, JobsOf, TypeInv

LEMMA RunQuietly ==
    ASSUME TypeInv, Driven, NEW j \in JobIds, TaskOf(j) \notin hit,
           \/ TryMark(j) \/ (Register(j) /\ pc[j] # "waitRegister") \/ Input(j) \/ Drain(j) \/ Delete(j)
           \/ Turn(j) \/ Leave(j)
    PROVE  Driven'
<1> USE DEF record, runs, memory, meta, queue, history
<1>1. TaskOf(j) \in Tasks /\ JobIsRecorded(TaskOf(j), j) /\ TypeOK
  BY DriverFinds
<1>2. UNCHANGED <<status, segment, recalled, cleaner, router, hit>>
  BY DEF TryMark, Register, Input, Drain, Delete, Turn, Leave
<1>3. Drives(j) /\ (pc[j] # "idle" => jobs[j] = "active")
  BY <1>1 DEF TryMark, Register, Input, Drain, Delete, Turn, Leave, Drives, InSegment, HandingOver, JobIsRecorded
<1>4. \A k \in JobIds \ {j} : jobs'[k] = jobs[k] /\ pc'[k] = pc[k] /\ out'[k] = out[k]
  BY <1>1 DEF TryMark, Register, Input, Drain, Delete, Turn, Leave, Goto, TypeOK
<1>5. SameElsewhere(j)
  BY <1>2, <1>4 DEF SameElsewhere
<1>6. jobs'[j] = "active" /\ out'[j] # "thrown"
  BY <1>1, <1>3 DEF TryMark, Register, Input, Drain, Delete, Turn, Leave, TypeOK, JobIsRecorded
<1>7. \/ pc[j] = "idle" /\ jobs[j] = "waiting" /\ pc'[j] = "begin"
      \/ pc[j] \in InSegment /\ pc'[j] \in InSegment
      \/ pc[j] = "saveRegister" /\ pc'[j] = "saveAdd"
      \/ pc[j] = "turn" /\ pc'[j] = "finish"
  BY <1>1 DEF TryMark, Register, Input, Drain, Delete, Turn, Leave, Goto, TypeOK, InSegment
<1>8. \A n : JobsUpTo(TaskOf(j), n) => JobsUpTo(TaskOf(j), n)'
  <2>1. jobs[j] # "none"
    BY <1>3 DEF Drives, InSegment, HandingOver
  <2> QED
    BY <1>1, <1>4, <2>1, JobOf DEF JobsUpTo, JobsOf
<1>9. JobIsRecorded(TaskOf(j), j)'
  BY <1>1, <1>2, <1>6, <1>7, <1>8 DEF JobIsRecorded, Recorded, InSegment, HandingOver
<1>10. Drives(j)'
  BY <1>7 DEF Drives, InSegment, HandingOver
<1>11. status[TaskOf(j)] # "none" /\ (TaskOf(j) \in Direct \cap recalled => status[TaskOf(j)] \in InFlight)
  BY <1>1, <1>3 DEF Driven, TaskIsDriven, IsTracked, JobIsRecorded, Drives, Recorded, InSegment, HandingOver
<1>12. /\ segment'[TaskOf(j)] = segment[TaskOf(j)] /\ status'[TaskOf(j)] = status[TaskOf(j)]
       /\ recalled' = recalled
  BY <1>2
<1> QED
  BY <1>1, <1>3, <1>5, <1>6, <1>9, <1>10, <1>11, <1>12, DriverStep

LEMMA RunRecords ==
    ASSUME TypeInv, Driven, NEW j \in JobIds, TaskOf(j) \notin hit,
           Begin(j) \/ Stop(j) \/ Save(j) \/ Wait(j) \/ Finish(j)
    PROVE  Driven'
<1> USE DEF record, runs, memory, meta, queue, history
<1>1. TaskOf(j) \in Tasks /\ JobIsRecorded(TaskOf(j), j) /\ TypeOK
  BY DriverFinds
<1>2. PICK st, n, at :
          /\ Persist(TaskOf(j), st, n) /\ Goto(j, at)
          /\ \/ pc[j] = "begin" /\ st = "running" /\ n = SegmentOf(j) /\ at = "register" /\ out' = out
             \/ pc[j] = "stop" /\ st = "failed" /\ n = SegmentOf(j) /\ at = "finish" /\ out'[j] = "failed"
             \/ pc[j] = "save" /\ st = "queued" /\ n = SegmentOf(j) + 1 /\ at = "saveRegister" /\ out' = out
             \/ pc[j] = "wait" /\ st = "waiting" /\ n = SegmentOf(j) /\ at = "waitRegister" /\ out' = out
             \/ /\ pc[j] = "finish" /\ st \in {"done", "failed"} /\ n = SegmentOf(j)
                /\ at = "unregister" /\ out' = out
  BY <1>1 DEF Begin, Stop, Save, Wait, Finish, TypeInv, RouterHolds, TypeOK
<1>3. /\ status'[TaskOf(j)] = st /\ segment'[TaskOf(j)] = n
      /\ \A u \in Tasks \ {TaskOf(j)} : status'[u] = status[u] /\ segment'[u] = segment[u]
      /\ \A u \in Tasks \ {TaskOf(j)} : u \in recalled' => u \in recalled
      /\ TaskOf(j) \in recalled' => st \in InFlight
  BY <1>1, <1>2, PersistIs
<1>4. pc'[j] = at /\ \A k \in JobIds \ {j} : pc'[k] = pc[k]
  BY <1>1, <1>2, GotoIs
<1>5. jobs' = jobs /\ cleaner' = cleaner /\ router' = router /\ hit' = hit /\ \A k \in JobIds \ {j} : out'[k] = out[k]
  BY <1>1 DEF Begin, Stop, Save, Wait, Finish, TypeOK
<1>6. SameElsewhere(j)
  BY <1>3, <1>4, <1>5 DEF SameElsewhere
<1>7. jobs'[j] = "active" /\ Drives(j)
  BY <1>1, <1>2, <1>5 DEF JobIsRecorded, Drives, InSegment, HandingOver
<1>8. segment[TaskOf(j)] = SegmentOf(j)
  BY <1>1, <1>2 DEF JobIsRecorded, Recorded, InSegment
<1>9. JobsUpTo(TaskOf(j), SegmentOf(j) + 1)'
  BY <1>1, <1>5, <1>8 DEF JobsUpTo, Driven, TaskIsDriven, IsTracked
<1>10. JobIsRecorded(TaskOf(j), j)'
  BY <1>1, <1>2, <1>3, <1>4, <1>5, <1>7, <1>9 DEF JobIsRecorded, Recorded, InSegment, HandingOver
<1>11. st \in {"queued", "running"} => Drives(j)'
  BY <1>2, <1>4 DEF Drives, InSegment, HandingOver
<1> QED
  BY <1>1, <1>2, <1>3, <1>6, <1>7, <1>8, <1>10, <1>11, DriverStep

LEMMA RunEnds ==
    ASSUME TypeInv, Driven, NEW j \in JobIds, TaskOf(j) \notin hit,
           \/ Register(j) /\ pc[j] = "waitRegister"
           \/ Unregister(j) \/ Clear(j) \/ Release(j)
    PROVE  Driven'
<1> USE DEF record, runs, memory, meta, queue, history
<1>1. TaskOf(j) \in Tasks /\ JobIsRecorded(TaskOf(j), j) /\ TypeOK
  BY DriverFinds
<1>2. pc[j] \in {"waitRegister", "unregister", "unregister2", "clear", "release"} /\ out[j] # "thrown"
  BY <1>1 DEF Register, Unregister, Clear, Release, JobIsRecorded
<1>3. /\ UNCHANGED <<status, segment, recalled, cleaner, router, hit>>
      /\ \A k \in JobIds \ {j} : jobs'[k] = jobs[k] /\ pc'[k] = pc[k] /\ out'[k] = out[k]
      /\ \/ pc'[j] \in {"unregister2", "clear", "release"} /\ jobs'[j] = jobs[j] /\ out'[j] # "thrown"
         \/ pc'[j] = "idle" /\ jobs'[j] = "done" /\ out'[j] # "thrown"
  <2>1. CASE Register(j) /\ pc[j] = "waitRegister"
    BY <1>1, <1>2, <2>1 DEF Register, Goto, TypeOK
  <2>2. CASE Unregister(j)
    BY <1>1, <1>2, <2>2 DEF Unregister, Goto, TypeOK
  <2>3. ASSUME Over(j)
        PROVE  /\ cleaner' = cleaner /\ pc'[j] = "idle" /\ jobs'[j] = "done" /\ out'[j] # "thrown"
               /\ \A k \in JobIds \ {j} : jobs'[k] = jobs[k] /\ pc'[k] = pc[k] /\ out'[k] = out[k]
    BY <1>1, <1>2, <2>3 DEF Over, Goto, TypeOK
  <2>4. CASE Clear(j)
    <3>1. CASE active \in {TaskOf(j), None}
      BY <1>1, <1>2, <2>4, <3>1 DEF Clear, Goto, TypeOK
    <3>2. CASE active \notin {TaskOf(j), None}
      BY <2>3, <2>4, <3>2 DEF Clear
    <3> QED
      BY <3>1, <3>2
  <2>5. CASE Release(j)
    BY <2>3, <2>5 DEF Release
  <2> QED
    BY <2>1, <2>2, <2>4, <2>5
<1>4. jobs[j] = "active"
  BY <1>1, <1>2 DEF JobIsRecorded
<1>5. ~Drives(j) /\ ~Drives(j)'
  BY <1>2, <1>3, <1>4 DEF Drives, InSegment, HandingOver
<1>6. SameElsewhere(j)
  BY <1>3 DEF SameElsewhere
<1>7. jobs'[j] # "none"
  BY <1>3, <1>4
<1>8. JobIsRecorded(TaskOf(j), j)'
  BY <1>3, <1>4 DEF JobIsRecorded, InSegment, HandingOver
<1> QED
  BY <1>3, <1>4, <1>5, <1>6, <1>7, <1>8, AfterStep

LEMMA SaveAddStep ==
    ASSUME TypeInv, Driven, NEW j \in JobIds, SaveAdd(j), NEW t \in Tasks \ hit, t = TaskOf(j),
           NEW next, next = ResumeJob(t, SegmentOf(j) + 1)
    PROVE  Driven'
<1>1. TaskIsDriven(t) /\ TypeOK /\ JobIsRecorded(t, j) /\ j \in JobsOf(t)
  BY DriverFinds DEF Driven, JobsOf
<1>2. Drives(j) /\ jobs[j] = "active" /\ Recorded(t, "queued", SegmentOf(j) + 1) /\ JobsUpTo(t, SegmentOf(j) + 1)
  BY <1>1 DEF SaveAdd, Drives, HandingOver, JobIsRecorded
<1>3. /\ SegmentOf(j) \in Nat /\ SegmentOf(j) + 1 + 1 = SegmentOf(j) + 2 /\ ~(SegmentOf(j) + 2 <= SegmentOf(j) + 1)
      /\ SegmentOf(j) + 1 \in 0..(MaxSegments - 1) /\ SegmentOf(j) + 2 \in 0..MaxSegments /\ 0 \in 0..MaxSegments
  BY <1>1, <1>2, JobsAre, CodeActAssumption DEF CodeActAssumption, TypeOK, Recorded
<1>4. next = <<t, SegmentOf(j) + 2>> /\ next \in JobIds /\ next \in JobsOf(t) /\ SegmentOf(next) = SegmentOf(j) + 1
  <2>1. SegmentOf(j) + 2 # 0 /\ SegmentOf(j) + 2 - 1 = SegmentOf(j) + 1
    BY <1>3
  <2> QED
    BY <1>3, <2>1, JobOf DEF ResumeJob, JobsOf
<1>5. jobs[next] = "none" /\ next # j
  BY <1>2, <1>3, <1>4 DEF JobsUpTo
<1>6. jobs'[next] = "waiting" /\ \A k \in JobIds \ {next} : jobs'[k] = jobs[k]
  BY <1>1, <1>4, <1>5, AddIs DEF SaveAdd
<1>7. pc'[j] = "clear" /\ \A k \in JobIds \ {j} : pc'[k] = pc[k]
  BY <1>1, GotoIs DEF SaveAdd
<1>8. UNCHANGED <<record, out, recalled, router, cleaner, hit>>
  BY DEF SaveAdd, memory, meta, history
<1>9. \A u \in Tasks \ (hit' \cup {t}) : TaskIsDriven(u)'
  BY <1>1, <1>4, <1>6, <1>7, <1>8, OthersUntouched DEF JobsOf, record
<1>10. \A k \in JobsOf(t) : JobIsRecorded(t, k) /\ k \in JobIds
  BY <1>1 DEF TaskIsDriven, JobsOf
<1>11. \A k \in JobsOf(t) \ {j} : ~Drives(k)
  BY <1>1, <1>2, DriverAlone
<1>12. pc'[next] = "idle"
  BY <1>4, <1>5, <1>7, <1>10, <1>11 DEF JobIsRecorded
<1>13. \A k \in JobsOf(t) : /\ out'[k] # "thrown" /\ (jobs'[k] = "active" <=> pc'[k] # "idle")
                            /\ k # next => ~Drives(k)'
  BY <1>2, <1>6, <1>7, <1>8, <1>10, <1>11, <1>12 DEF JobIsRecorded, Drives, InSegment, HandingOver
<1>14. JobsUpTo(t, segment[t] + 1)'
  <2>1. \A n \in 0..MaxSegments : n # SegmentOf(j) + 2 => jobs'[<<t, n>>] = jobs[<<t, n>>]
    BY <1>4, <1>6, JobOf DEF JobsOf
  <2> QED
    BY <1>2, <1>3, <1>8, <2>1 DEF JobsUpTo, Recorded, record, Drives
<1>15. jobs'[<<t, 0>>] # "none"
  BY <1>1, <1>2, <1>3, <1>4, <1>5, <1>6, DriverAlone, JobOf DEF JobsOf
<1>16. \A k \in JobsOf(t) : JobIsRecorded(t, k)'
  BY <1>2, <1>4, <1>6, <1>8, <1>12, <1>13 DEF JobIsRecorded, Drives, InSegment, HandingOver, Recorded, record
<1>17. OneDriver(t)'
  BY <1>13 DEF OneDriver, JobsOf
<1>18. ~NobodyDrives(t)'
  BY <1>4, <1>6 DEF NobodyDrives, Drives, JobsOf
<1>19. router'.task = t => RouterDrives(t)'
  BY <1>1, <1>2, <1>8, DriverAlone DEF RouterDrives
<1>20. IsTracked(t)'
  BY <1>2, <1>8, <1>14, <1>15, <1>18 DEF IsTracked, Recorded, InFlight, record
<1>21. TaskIsDriven(t)'
  BY <1>1, <1>8, <1>16, <1>17, <1>19, <1>20 DEF TaskIsDriven, JobsOf
<1> QED
  BY <1>9, <1>21 DEF Driven

----------------------------------------------------------------------------
\* The tasks that were struck: what goes on about them leaves the others alone.
LEMMA HitGrows == [Next]_vars => hit \subseteq hit'
<1> SUFFICES ASSUME [Next]_vars PROVE hit \subseteq hit'
  OBVIOUS
<1> USE DEF history
<1>1. ASSUME NEW m \in Msgs, RouteGet(m) PROVE hit' = hit
  BY <1>1 DEF RouteGet
<1>2. ASSUME Route PROVE hit' = hit
  BY <1>2 DEF Route, RouteLoad, RoutePush, RouteAnswer, RouteAnswerAdd, RouteBusy, RouteClaim,
              RoutePersist, RouteAdd
<1>3. ASSUME NEW t \in Tasks, DirectPersist(t) \/ DirectAdd(t) \/ Clean(t) \/ Age(t)
      PROVE  hit' = hit
  BY <1>3 DEF DirectPersist, DirectAdd, Clean, CleanIndex, CleanActive, CleanRecord, Age
<1>4. ASSUME NEW j \in JobIds, Run(j) \/ Recover(j) PROVE hit' = hit
  BY <1>4 DEF Run, TryMark, Begin, Register, Input, Drain, Delete, Stop, Turn, Leave, Save, SaveAdd,
              Wait, Finish, Unregister, Clear, Release, Recover
<1>5. ASSUME Crash \/ \E j \in JobIds : Throw(j) PROVE hit \subseteq hit'
  BY <1>5 DEF Throw, Crash, Fails
<1>6. ASSUME LeaseExpires \/ UNCHANGED vars PROVE hit' = hit
  BY <1>6 DEF LeaseExpires, vars
<1> QED
  BY <1>1, <1>2, <1>3, <1>4, <1>5, <1>6 DEF Next

LEMMA StruckRoutes ==
    ASSUME TypeInv, Driven, router.task \in hit,
           RouteAnswer \/ RouteAnswerAdd \/ RoutePersist \/ RouteAdd
    PROVE  Driven'
<1> DEFINE t == router.task
<1> USE DEF record, runs, memory, meta, queue, history
<1>1. t \in Tasks /\ TypeOK
  BY DEF RouteAnswer, RouteAnswerAdd, RoutePersist, RouteAdd, TypeInv, RouterHolds
<1>2. hit' = hit /\ cleaner' = cleaner /\ pc' = pc /\ out' = out /\ router'.task \in {t, None}
  BY <1>1 DEF RouteAnswer, RouteAnswerAdd, RoutePersist, RouteAdd, Idle, TypeOK
<1>3. \A u \in Tasks \ {t} : /\ status'[u] = status[u] /\ segment'[u] = segment[u]
                             /\ u \in recalled' => u \in recalled
  BY <1>1, PersistIs DEF RouteAnswer, RouteAnswerAdd, RoutePersist, RouteAdd
<1>4. \A j \in JobIds : TaskOf(j) # t => jobs'[j] = jobs[j]
  BY <1>1 DEF RouteAnswer, RouteAnswerAdd, RoutePersist, RouteAdd, Add, ResumeJob, TaskOf, TypeOK
<1>5. \A u \in Tasks \ (hit' \cup {t}) : TaskIsDriven(u)'
  BY <1>1, <1>2, <1>3, <1>4, OthersUntouched
<1> QED
  BY <1>2, <1>5 DEF Driven

LEMMA StruckTasks ==
    ASSUME TypeInv, Driven, NEW t \in Tasks,
           (t \in hit /\ (DirectPersist(t) \/ DirectAdd(t))) \/ Clean(t)
    PROVE  Driven'
<1> USE DEF record, runs, memory, meta, queue, history, Clean
<1>1. t \in hit /\ TypeOK
  BY DEF CleanIndex, CleanActive, CleanRecord, Driven, TaskIsDriven, TypeInv
<1>2. hit' = hit /\ pc' = pc /\ out' = out /\ router' = router
  BY DEF DirectPersist, DirectAdd, CleanIndex, CleanActive, CleanRecord
<1>3. \A u \in Tasks \ {t} : /\ status'[u] = status[u] /\ segment'[u] = segment[u]
                             /\ cleaner'[u] = cleaner[u] /\ (u \in recalled' => u \in recalled)
  <2>1. CASE DirectPersist(t)
    BY <1>1, <2>1, PersistIs DEF DirectPersist
  <2>2. CASE DirectAdd(t)
    BY <2>2 DEF DirectAdd
  <2>3. CASE Clean(t)
    BY <1>1, <2>3 DEF CleanIndex, CleanActive, CleanRecord, TypeOK
  <2> QED
    BY <2>1, <2>2, <2>3
<1>4. \A j \in JobIds : TaskOf(j) # t => jobs'[j] = jobs[j]
  BY <1>1 DEF DirectPersist, DirectAdd, Add, TaskOf, CleanIndex, CleanActive, CleanRecord, TypeOK
<1>5. \A u \in Tasks \ (hit' \cup {t}) : TaskIsDriven(u)'
  BY <1>1, <1>2, <1>3, <1>4, OthersUntouched
<1> QED
  BY <1>1, <1>2, <1>5 DEF Driven

LEMMA StruckRuns ==
    ASSUME TypeInv, Driven, NEW j \in JobIds,
           (TaskOf(j) \in hit /\ Run(j)) \/ Throw(j) \/ Recover(j)
    PROVE  Driven'
<1> DEFINE t == TaskOf(j)
<1> USE DEF record, runs, memory, meta, queue, history
<1>1. t \in Tasks /\ TypeOK
  BY JobsAre DEF TypeInv
<1>2. t \in hit' /\ hit \subseteq hit'
  <2>1. CASE Recover(j)
    BY <2>1, DriverFinds DEF Recover, JobIsRecorded
  <2>2. CASE Throw(j)
    BY <2>2 DEF Throw, Fails
  <2>3. CASE t \in hit /\ Run(j)
    BY <2>3 DEF Run, TryMark, Begin, Register, Input, Drain, Delete, Stop, Turn, Leave, Save, SaveAdd,
                Wait, Finish, Unregister, Clear, Release
  <2> QED
    BY <2>1, <2>2, <2>3
<1>3. router' = router
  BY DEF Run, TryMark, Begin, Register, Input, Drain, Delete, Stop, Turn, Leave, Save, SaveAdd,
         Wait, Finish, Unregister, Clear, Release, Throw, Recover
<1>4. \A u \in Tasks \ {t} : /\ status'[u] = status[u] /\ segment'[u] = segment[u]
                             /\ u \in recalled' => u \in recalled
  <2>1. CASE Begin(j) \/ Stop(j) \/ Save(j) \/ Wait(j) \/ Finish(j)
    BY <1>1, <2>1, PersistIs DEF Begin, Stop, Save, Wait, Finish
  <2>2. CASE ~(Begin(j) \/ Stop(j) \/ Save(j) \/ Wait(j) \/ Finish(j))
    <3>1. UNCHANGED <<status, segment, recalled>>
      BY <2>2 DEF Run, TryMark, Register, Input, Drain, Delete, Turn, Leave, SaveAdd, Unregister, Clear,
                  Release, Throw, Recover
    <3> QED
      BY <3>1
  <2> QED
    BY <2>1, <2>2
<1>5. \A u \in Tasks \ {t} : cleaner'[u] = cleaner[u]
  <2>1. CASE Clear(j) \/ Release(j)
    BY <1>1, <2>1 DEF Clear, Release, Over, TypeOK
  <2>2. CASE ~Clear(j) /\ ~Release(j)
    <3>1. cleaner' = cleaner
      BY <2>2 DEF Run, TryMark, Begin, Register, Input, Drain, Delete, Stop, Turn, Leave, Save, SaveAdd,
                  Wait, Finish, Unregister, Throw, Recover
    <3> QED
      BY <3>1
  <2> QED
    BY <2>1, <2>2
<1>6. \A k \in JobIds : TaskOf(k) # t => jobs'[k] = jobs[k]
  <2>1. CASE SaveAdd(j)
    BY <1>1, <2>1 DEF SaveAdd, Add, ResumeJob, TaskOf, TypeOK
  <2>2. CASE TryMark(j) \/ Recover(j) \/ Clear(j) \/ Release(j)
    BY <1>1, <2>2 DEF TryMark, Recover, Clear, Release, Over, TypeOK
  <2>3. CASE ~SaveAdd(j) /\ ~(TryMark(j) \/ Recover(j) \/ Clear(j) \/ Release(j))
    <3>1. jobs' = jobs
      BY <2>3 DEF Run, Begin, Register, Input, Drain, Delete, Stop, Turn, Leave, Save, Wait, Finish,
                  Unregister, Throw
    <3> QED
      BY <3>1
  <2> QED
    BY <2>1, <2>2, <2>3
<1>7. \A k \in JobIds : TaskOf(k) # t => pc'[k] = pc[k] /\ out'[k] = out[k]
  <2>1. \A k \in JobIds \ {j} : pc'[k] = pc[k]
    <3>1. CASE Recover(j)
      BY <3>1 DEF Recover
    <3>2. CASE ~Recover(j)
      BY <1>1, <3>2 DEF Run, TryMark, Begin, Register, Input, Drain, Delete, Stop, Turn, Leave, Save, SaveAdd,
                  Wait, Finish, Unregister, Clear, Release, Over, Throw, Goto, TypeOK
    <3> QED
      BY <3>1, <3>2
  <2>2. \A k \in JobIds \ {j} : out'[k] = out[k]
    BY <1>1 DEF Run, TryMark, Begin, Register, Input, Drain, Delete, Stop, Turn, Leave, Save, SaveAdd,
                  Wait, Finish, Unregister, Clear, Release, Over, Throw, Recover, TypeOK
  <2> QED
    BY <2>1, <2>2
<1>8. \A u \in Tasks \ (hit' \cup {t}) : TaskIsDriven(u)'
  BY <1>1, <1>2, <1>3, <1>4, <1>5, <1>6, <1>7, OthersUntouched
<1> QED
  BY <1>2, <1>8 DEF Driven

\* A task the process had not in its hands survives its death.
LEMMA CrashSurvived == ASSUME TypeInv, Driven, Crash PROVE Driven'
<1> USE DEF record, runs, memory, meta, queue, history
<1> SUFFICES ASSUME NEW t \in Tasks \ hit' PROVE TaskIsDriven(t)'
  BY DEF Driven
<1>1. t \notin hit /\ ~InHands(t) /\ TypeOK
  BY DEF Crash, Fails, TypeInv
<1>2. TaskIsDriven(t)
  BY <1>1 DEF Driven
<1>3. /\ UNCHANGED <<status, segment, jobs>> /\ recalled' = {} /\ router' = Idle /\ cleaner'[t] = "off"
      /\ \A j \in JobsOf(t) : pc'[j] = "idle" /\ out'[j] = "none" /\ j \in JobIds
  BY DEF Crash, JobsOf
<1>4. \A j \in JobsOf(t) : pc[j] = "idle"
  BY <1>1 DEF InHands, JobsOf
<1>5. \A j \in JobsOf(t) : Drives(j)' = Drives(j) /\ JobIsRecorded(t, j)'
  BY <1>2, <1>3, <1>4 DEF Drives, JobIsRecorded, TaskIsDriven, Recorded, InSegment, HandingOver
<1>6. router'.task # t /\ ~(router.task = t /\ router.at \in {"add", "answerAdd"})
  BY <1>1, <1>3, CodeActAssumption DEF Idle, InHands, CodeActAssumption
<1>7. cleaner[t] = "off"
  BY <1>2 DEF TaskIsDriven
<1> QED
  BY <1>1, <1>2, <1>3, <1>5, <1>6, <1>7, Untouched

LEMMA DrivenStep ==
    ASSUME TypeInv, Driven, [Next]_vars
    PROVE  Driven'
<1>1. ASSUME (\E m \in Msgs : RouteGet(m)) \/ Route PROVE Driven'
  BY <1>1, RouterSteps, RouteAnswerStep, RouteAnswerAddStep, NewTaskSteps, StruckRoutes DEF Route
<1>2. ASSUME NEW t \in Tasks, DirectPersist(t) \/ DirectAdd(t) \/ Clean(t) PROVE Driven'
  BY <1>2, NewTaskSteps, StruckTasks
<1>3. ASSUME NEW j \in JobIds, Run(j) \/ Throw(j) \/ Recover(j) PROVE Driven'
  BY <1>3, JobsAre, RunQuietly, RunRecords, RunEnds, SaveAddStep, StruckRuns DEF Run
<1>4. ASSUME (\E t \in Tasks : Age(t)) \/ LeaseExpires \/ UNCHANGED vars PROVE Driven'
  BY <1>4, NothingMoves DEF Age, LeaseExpires, vars, record, queue, runs, memory, meta, history, TypeInv
<1> QED
  BY <1>1, <1>2, <1>3, <1>4, CrashSurvived DEF Next

LEMMA DrivenInit == Init => Driven
<1> SUFFICES ASSUME Init, NEW t \in Tasks PROVE TaskIsDriven(t)
  BY DEF Driven
<1>1. 0 \in 0..MaxSegments
  BY CodeActAssumption DEF CodeActAssumption
<1>2. \A n \in 0..MaxSegments : jobs[<<t, n>>] = "none"
  BY JobOf DEF Init, JobsOf
<1>3. \A j \in JobsOf(t) : ~Drives(j) /\ JobIsRecorded(t, j)
  BY DEF Init, JobsOf, Drives, JobIsRecorded, InSegment, HandingOver
<1>4. IsTracked(t)
  BY <1>1, <1>2 DEF Init, IsTracked, JobsUpTo
<1> QED
  BY <1>3, <1>4 DEF Init, TaskIsDriven, OneDriver, RouterDrives, Idle

\* While no fault has struck, there is nothing to clean up and no run has been lost; the
\* crash that strikes nobody finds no run.
LEMMA QuietSteps ==
    ASSUME TypeInv, Driven, [Next]_vars, hit' = {}
    PROVE  /\ hit = {}
           /\ \/ \E m \in Msgs : RouteGet(m)
              \/ Route
              \/ \E t \in Tasks : DirectPersist(t) \/ DirectAdd(t)
              \/ \E j \in JobIds : Run(j)
              \/ \E t \in Tasks : Age(t)
              \/ LeaseExpires \/ UNCHANGED vars \/ Crash
<1>0. hit = {}
  BY HitGrows
<1>1. ASSUME NEW j \in JobIds PROVE ~Recover(j)
  BY <1>0, DriverFinds DEF Recover, JobIsRecorded
<1>2. ASSUME NEW t \in Tasks PROVE ~Clean(t)
  BY <1>0 DEF Clean, CleanIndex, CleanActive, CleanRecord, Driven, TaskIsDriven
<1>3. \A j \in JobIds : ~Throw(j)
  BY DEF Throw, Fails
<1> QED
  BY <1>0, <1>1, <1>2, <1>3 DEF Next

----------------------------------------------------------------------------
\* What ages stays old, and a job that was queued stays known.
JobsStay == old \subseteq old' /\ \A j \in JobIds : jobs[j] # "none" => jobs'[j] # "none"
NoNewRun == active' = active /\ \A j \in JobIds : pc'[j] # "idle" => pc[j] # "idle"

LEMMA LockStep ==
    ASSUME TypeInv, Driven, Driven', LockHeld, [Next]_vars
    PROVE  LockHeld'
<1> USE DEF record, runs, memory, meta, queue, history
<1> SUFFICES ASSUME hit' = {}, \A t \in Tasks : t \notin old' /\ ~HandedOver(t)'
             PROVE  \A j \in JobIds : pc'[j] # "idle" => active' = TaskOf(j)
  BY DEF LockHeld, HandedOver
<1>0. CASE Crash
  BY <1>0 DEF Crash
<1> SUFFICES ASSUME ~Crash PROVE \A j \in JobIds : pc'[j] # "idle" => active' = TaskOf(j)
  BY <1>0
<1>1. JobsStay
  <2> USE DEF JobsStay
  <2>1. ASSUME NEW m \in Msgs, RouteGet(m) PROVE JobsStay
    BY <2>1 DEF RouteGet
  <2>2. CASE Route
    BY <2>2 DEF Route, RouteLoad, RoutePush, RouteAnswer, RouteAnswerAdd, RouteBusy, RouteClaim,
                RoutePersist, RouteAdd, Add, TypeInv, TypeOK
  <2>3. ASSUME NEW t \in Tasks, DirectPersist(t) \/ DirectAdd(t) \/ Age(t) PROVE JobsStay
    BY <2>3 DEF DirectPersist, DirectAdd, Add, Age, TypeInv, TypeOK
  <2>4. ASSUME NEW j \in JobIds, Run(j) PROVE JobsStay
    BY <2>4 DEF Run, TryMark, Begin, Register, Input, Drain, Delete, Stop, Turn, Leave, Save, SaveAdd,
                Wait, Finish, Unregister, Clear, Release, Over, Add, TypeInv, TypeOK
  <2>5. CASE LeaseExpires \/ UNCHANGED vars
    BY <2>5 DEF LeaseExpires, vars
  <2> QED
    BY <2>1, <2>2, <2>3, <2>4, <2>5, QuietSteps
<1>2. \A t \in Tasks : t \notin old /\ \A n \in 1..MaxSegments : jobs[<<t, n>>] = "none"
  <2>1. \A t \in Tasks, n \in 1..MaxSegments : <<t, n>> \in JobIds
    BY DEF JobIds
  <2> QED
    BY <1>1, <2>1 DEF JobsStay, HandedOver
<1>3. \A j \in JobIds : pc[j] # "idle" => active = TaskOf(j)
  BY <1>2, QuietSteps DEF LockHeld, HandedOver
<1>4. \A i, j \in JobIds : pc[i] # "idle" /\ pc[j] # "idle" /\ TaskOf(i) = TaskOf(j) => i = j
  <2>1. \A j \in JobIds : pc[j] # "idle" => jobs[j] = "active"
    BY QuietSteps, DriverFinds DEF JobIsRecorded
  <2>2. \A j \in JobIds : jobs[j] # "none" => j = <<TaskOf(j), 0>>
    BY <1>2 DEF JobIds, TaskOf
  <2> QED
    BY <2>1, <2>2
<1>5. \A j \in JobIds : TaskOf(j) \in Tasks /\ TaskOf(j) # None
  BY JobsAre, CodeActAssumption DEF CodeActAssumption
<1>6. CASE NoNewRun
  BY <1>3, <1>6 DEF NoNewRun
<1>7. ASSUME NEW m \in Msgs, RouteGet(m) PROVE NoNewRun
  BY <1>7 DEF NoNewRun, RouteGet
<1>8. CASE Route
  <2>1. ASSUME NEW t \in Tasks, RouteClaim(t) PROVE \A j \in JobIds : pc'[j] # "idle" => active' = TaskOf(j)
    BY <1>3, <1>5, <2>1 DEF RouteClaim
  <2> QED
    BY <1>6, <1>8, <2>1 DEF NoNewRun, Route, RouteLoad, RoutePush, RouteAnswer, RouteAnswerAdd, RouteBusy,
                            RoutePersist, RouteAdd
<1>9. ASSUME NEW t \in Tasks, DirectPersist(t) \/ DirectAdd(t) \/ Age(t) PROVE NoNewRun
  BY <1>9 DEF NoNewRun, DirectPersist, DirectAdd, Age
<1>10. ASSUME NEW j \in JobIds, Run(j) PROVE \A k \in JobIds : pc'[k] # "idle" => active' = TaskOf(k)
  <2>1. CASE TryMark(j)
    BY <1>3, <1>5, <2>1 DEF TryMark, Goto, TypeInv, TypeOK
  <2>2. CASE Release(j)
    BY <1>3, <1>4, <1>5, <2>2 DEF Release, Over, Goto, TypeInv, TypeOK
  <2>3. CASE Clear(j)
    BY <1>6, <2>3 DEF NoNewRun, Clear, Over, Goto, TypeInv, TypeOK
  <2>4. CASE ~TryMark(j) /\ ~Release(j) /\ ~Clear(j)
    <3>1. active' = active /\ pc[j] # "idle" /\ \A k \in JobIds \ {j} : pc'[k] = pc[k]
      BY <1>10, <2>4 DEF Run, Begin, Register, Input, Drain, Delete, Stop, Turn, Leave, Save, SaveAdd,
                         Wait, Finish, Unregister, Goto, TypeInv, TypeOK
    <3> QED
      BY <1>6, <3>1 DEF NoNewRun
  <2> QED
    BY <2>1, <2>2, <2>3, <2>4
<1>11. CASE LeaseExpires
  BY <1>2, <1>11 DEF LeaseExpires, TypeInv, TypeOK
<1>12. CASE UNCHANGED vars
  BY <1>6, <1>12 DEF NoNewRun, vars
<1> QED
  BY <1>6, <1>7, <1>8, <1>9, <1>10, <1>11, <1>12, QuietSteps

----------------------------------------------------------------------------
\* The messages.  One that is with a task stays with it; one that is not waits for the router
\* or is in its hands.
OneHolder(m) ==
    /\ m \in inbox => router.msg # m
    /\ m \in inbox \/ router.msg = m => \A t \in Tasks : ~IsWith(m, t)
    /\ \A t, u \in Tasks : IsWith(m, t) /\ IsWith(m, u) => t = u

\* A task is given it once, and while it carries it nowhere else has it.
GivenOnce(m, t) ==
    /\ heard[t][m] \in {0, 1}
    /\ heard[t][m] = 1 => m \notin ints[t]
    /\ \A j \in JobsOf(t) :
           Carries(j, m) => /\ heard[t][m] = 0 /\ m \notin ints[t]
                            /\ \A k \in JobsOf(t) : Carries(k, m) => k = j

\* What a run has read of the list and is about to delete is still there.
ReadIn(t) == \A j \in JobsOf(t) : pc[j] = "delete" => batch[j] \subseteq ints[t]

Once ==
    /\ \A m \in Msgs : OneHolder(m)
    /\ \A t \in Tasks \ hit : ReadIn(t) /\ \A m \in Msgs : GivenOnce(m, t)

LEMMA HearIs ==
    ASSUME TypeOK, NEW t \in Tasks, NEW ms, Hear(t, ms), NEW m \in Msgs
    PROVE  /\ m \notin ms => heard'[t][m] = heard[t][m]
           /\ m \in ms /\ heard[t][m] = 0 => heard'[t][m] = 1
           /\ \A u \in Tasks \ {t} : heard'[u] = heard[u]
  BY DEF Hear, TypeOK

\* A message that comes to nobody new.
LEMMA HolderKept ==
    ASSUME NEW m \in Msgs, OneHolder(m),
           m \in inbox' => m \in inbox, router'.msg = m => router.msg = m,
           \A t \in Tasks : IsWith(m, t)' => IsWith(m, t)
    PROVE  OneHolder(m)'
  BY DEF OneHolder

\* The router hands its message to a task.
LEMMA HolderHanded ==
    ASSUME NEW m \in Msgs, OneHolder(m), NEW u \in Tasks, inbox' = inbox, router'.msg # m,
           \A t \in Tasks : IsWith(m, t)' => IsWith(m, t) \/ (t = u /\ m = router.msg)
    PROVE  OneHolder(m)'
  BY DEF OneHolder

LEMMA HolderRoutes ==
    ASSUME TypeInv, NEW m \in Msgs, OneHolder(m), Route \/ \E n \in Msgs : RouteGet(n)
    PROVE  OneHolder(m)'
<1> USE DEF record, runs, memory, meta, queue
<1>0. TypeOK /\ None \notin Msgs
  BY CodeActAssumption DEF CodeActAssumption, TypeInv
<1>1. ASSUME NEW n \in Msgs, RouteGet(n) PROVE OneHolder(m)'
  <2>1. router'.msg = n /\ inbox' = inbox \ {n} /\ \A t \in Tasks : IsWith(m, t)' = IsWith(m, t)
    BY <1>1 DEF RouteGet, IsWith
  <2> QED
    BY <1>1, <2>1 DEF OneHolder, RouteGet
<1>2. CASE RouteLoad \/ RouteAnswer \/ RoutePersist
  <2>1. router'.msg = router.msg
    BY <1>0, <1>2 DEF RouteLoad, RouteAnswer, RoutePersist, TypeOK
  <2>2. inbox' = inbox /\ \A t \in Tasks : IsWith(m, t)' = IsWith(m, t)
    BY <1>2 DEF RouteLoad, RouteAnswer, RoutePersist, IsWith
  <2> QED
    BY <2>1, <2>2, HolderKept
<1>3. CASE RoutePush
  <2>1. router.task \in Tasks /\ inbox' = inbox /\ router'.msg # m
    BY <1>0, <1>3 DEF RoutePush, Idle, TypeInv, RouterHolds
  <2>2. \A t \in Tasks : m \in ints'[t] => m \in ints[t] \/ (t = router.task /\ m = router.msg)
    BY <1>0, <1>3 DEF RoutePush, TypeOK
  <2>3. \A t \in Tasks : IsWith(m, t)' => IsWith(m, t) \/ (t = router.task /\ m = router.msg)
    BY <1>3, <2>2 DEF RoutePush, IsWith
  <2> QED
    BY <2>1, <2>3, HolderHanded
<1>4. CASE RouteAnswerAdd
  <2>1. router.task \in Tasks /\ inbox' = inbox /\ router'.msg # m
    BY <1>0, <1>4 DEF RouteAnswerAdd, Idle, TypeInv, RouterHolds
  <2>2. \A j \in JobIds : m \in pending'[j] => m \in pending[j] \/ (TaskOf(j) = router.task /\ m = router.msg)
    <3>1. PICK k : Add(k, {router.msg}) /\ TaskOf(k) = router.task
      BY <1>4 DEF RouteAnswerAdd, ResumeJob, TaskOf
    <3>2. \A j \in JobIds : pending'[j] = pending[j] \/ (j = k /\ pending'[j] = {router.msg})
      BY <1>0, <3>1 DEF Add, TypeOK
    <3> QED
      BY <3>1, <3>2
  <2>3. UNCHANGED <<ints, heard, batch>>
    BY <1>4 DEF RouteAnswerAdd
  <2>4. \A t \in Tasks : IsWith(m, t)' => IsWith(m, t) \/ (t = router.task /\ m = router.msg)
    BY <2>2, <2>3 DEF IsWith
  <2> QED
    BY <2>1, <2>4, HolderHanded
<1>5. CASE RouteAdd
  <2>1. router.task \in Tasks /\ inbox' = inbox /\ router'.msg # m
    BY <1>0, <1>5 DEF RouteAdd, Idle, TypeInv, RouterHolds
  <2>2. \A j \in JobIds : m \in pending'[j] => m \in pending[j]
    BY <1>0, <1>5 DEF RouteAdd, Add, TypeOK
  <2>3. \A t \in Tasks : heard'[t][m] = heard[t][m] \/ (t = router.task /\ m = router.msg)
    BY <1>0, <1>5, <2>1, HearIs DEF RouteAdd
  <2>4. UNCHANGED <<ints, batch>>
    BY <1>5 DEF RouteAdd
  <2>5. \A t \in Tasks : IsWith(m, t)' => IsWith(m, t) \/ (t = router.task /\ m = router.msg)
    BY <2>2, <2>3, <2>4 DEF IsWith
  <2> QED
    BY <2>1, <2>5, HolderHanded
<1>6. CASE RouteBusy \/ \E t \in Tasks : RouteClaim(t)
  <2>1. \/ router'.msg = router.msg /\ inbox' = inbox
        \/ router'.msg = None /\ inbox' = inbox \cup {router.msg}
    <3>1. CASE RouteBusy
      BY <1>0, <3>1 DEF RouteBusy, Idle, TypeOK
    <3>2. ASSUME NEW t \in Tasks, RouteClaim(t), active = None
          PROVE  router'.msg = router.msg /\ inbox' = inbox
      BY <1>0, <3>2 DEF RouteClaim, TypeOK
    <3>3. ASSUME NEW t \in Tasks, RouteClaim(t), active # None
          PROVE  router'.msg = None /\ inbox' = inbox \cup {router.msg}
      BY <3>3 DEF RouteClaim, Idle
    <3> QED
      BY <1>6, <3>1, <3>2, <3>3
  <2>2. \A t \in Tasks : IsWith(m, t)' = IsWith(m, t)
    BY <1>6 DEF RouteBusy, RouteClaim, IsWith
  <2> QED
    BY <1>0, <2>1, <2>2 DEF OneHolder
<1> QED
  BY <1>1, <1>2, <1>3, <1>4, <1>5, <1>6 DEF Route

LEMMA HolderRuns ==
    ASSUME TypeInv, NEW m \in Msgs, OneHolder(m), NEW j \in JobIds, Run(j) \/ Throw(j) \/ Recover(j)
    PROVE  OneHolder(m)'
<1> USE DEF record, runs, memory, meta, queue
<1>0. TypeOK /\ TaskOf(j) \in Tasks
  BY JobsAre DEF TypeInv
<1>1. inbox' = inbox /\ router' = router
  BY DEF Run, TryMark, Begin, Register, Input, Drain, Delete, Stop, Turn, Leave, Save, SaveAdd, Wait,
         Finish, Unregister, Clear, Release, Throw, Recover
<1>2. \A t \in Tasks : IsWith(m, t)' => IsWith(m, t)
  <2>1. CASE Input(j)
    <3>1. UNCHANGED <<ints, pending, batch>> /\ Hear(TaskOf(j), pending[j])
      BY <2>1 DEF Input
    <3>2. \A t \in Tasks : heard'[t][m] = heard[t][m] \/ (t = TaskOf(j) /\ m \in pending[j])
      BY <1>0, <3>1, HearIs
    <3> QED
      BY <3>1, <3>2 DEF IsWith
  <2>2. CASE Drain(j)
    <3>1. UNCHANGED <<ints, pending, heard>>
      BY <2>2 DEF Drain
    <3>2. \A k \in JobIds : m \in batch'[k] => m \in batch[k] \/ m \in ints[TaskOf(k)]
      BY <1>0, <2>2 DEF Drain, TypeOK
    <3> QED
      BY <3>1, <3>2 DEF IsWith
  <2>3. CASE Delete(j)
    <3>1. UNCHANGED pending /\ Hear(TaskOf(j), batch[j])
      BY <2>3 DEF Delete
    <3>2. \A t \in Tasks : heard'[t][m] = heard[t][m] \/ (t = TaskOf(j) /\ m \in batch[j])
      BY <1>0, <3>1, HearIs
    <3>3. \A t \in Tasks : m \in ints'[t] => m \in ints[t]
      BY <1>0, <2>3 DEF Delete, TypeOK
    <3>4. \A k \in JobIds : m \in batch'[k] => m \in batch[k]
      BY <1>0, <2>3 DEF Delete, TypeOK
    <3> QED
      BY <3>1, <3>2, <3>3, <3>4 DEF IsWith
  <2>4. CASE SaveAdd(j)
    <3>1. UNCHANGED <<ints, batch, heard>>
      BY <2>4 DEF SaveAdd
    <3>2. \A k \in JobIds : m \in pending'[k] => m \in pending[k]
      BY <1>0, <2>4 DEF SaveAdd, Add, TypeOK
    <3> QED
      BY <3>1, <3>2 DEF IsWith
  <2>5. CASE ~Input(j) /\ ~Drain(j) /\ ~Delete(j) /\ ~SaveAdd(j)
    <3>1. UNCHANGED <<ints, batch, heard, pending>>
      BY <2>5 DEF Run, TryMark, Begin, Register, Stop, Turn, Leave, Save, Wait, Finish, Unregister, Clear,
                  Release, Throw, Recover
    <3> QED
      BY <3>1 DEF IsWith
  <2> QED
    BY <2>1, <2>2, <2>3, <2>4, <2>5
<1> QED
  BY <1>1, <1>2, HolderKept

LEMMA HolderStep ==
    ASSUME TypeInv, NEW m \in Msgs, OneHolder(m), [Next]_vars
    PROVE  OneHolder(m)'
<1> USE DEF record, runs, memory, meta, queue
<1>1. ASSUME NEW t \in Tasks, DirectAdd(t) PROVE OneHolder(m)'
  <2>1. UNCHANGED <<inbox, router, ints, batch, heard>>
    BY <1>1 DEF DirectAdd
  <2>2. \A k \in JobIds : m \in pending'[k] => m \in pending[k]
    BY <1>1 DEF DirectAdd, Add, TypeInv, TypeOK
  <2>3. \A u \in Tasks : IsWith(m, u)' => IsWith(m, u)
    BY <2>1, <2>2 DEF IsWith
  <2> QED
    BY <2>1, <2>3, HolderKept
<1>2. CASE Crash
  <2>1. UNCHANGED <<inbox, ints, heard, pending>> /\ router'.msg = None /\ \A j \in JobIds : batch'[j] = {}
    BY <1>2 DEF Crash, Idle
  <2>2. \A u \in Tasks : IsWith(m, u)' => IsWith(m, u)
    BY <2>1 DEF IsWith
  <2> QED
    BY <2>1, <2>2, HolderKept, CodeActAssumption DEF CodeActAssumption
<1>3. ASSUME LeaseExpires \/ UNCHANGED vars \/ \E t \in Tasks : DirectPersist(t) \/ Clean(t) \/ Age(t)
      PROVE  OneHolder(m)'
  <2>1. UNCHANGED <<inbox, router, ints, batch, heard, pending>>
    BY <1>3 DEF LeaseExpires, vars, DirectPersist, Clean, CleanIndex, CleanActive, CleanRecord, Age
  <2>2. \A u \in Tasks : IsWith(m, u)' = IsWith(m, u)
    BY <2>1 DEF IsWith
  <2> QED
    BY <2>1, <2>2, HolderKept
<1> QED
  BY <1>1, <1>2, <1>3, HolderRoutes, HolderRuns DEF Next

\* A task that is given nothing, carries nothing new and has nothing new in its list.
LEMMA GivenKept ==
    ASSUME NEW m \in Msgs, NEW t \in Tasks, GivenOnce(m, t), heard'[t][m] = heard[t][m],
           m \in ints'[t] => m \in ints[t],
           \A j \in JobsOf(t) : Carries(j, m)' => Carries(j, m)
    PROVE  GivenOnce(m, t)'
  BY DEF GivenOnce, JobsOf

\* A task that has had nothing to do with a message.
LEMMA NotWith ==
    ASSUME TypeOK, NEW m \in Msgs, NEW t \in Tasks, ~IsWith(m, t)
    PROVE  heard[t][m] = 0 /\ m \notin ints[t] /\ \A j \in JobsOf(t) : m \notin pending[j]
<1>1. heard[t][m] \in 0..2
  BY DEF TypeOK
<1> QED
  BY <1>1 DEF IsWith, JobsOf

LEMMA GivenRoutes ==
    ASSUME TypeInv, Once, NEW t \in Tasks \ hit, NEW m \in Msgs, Route \/ \E n \in Msgs : RouteGet(n)
    PROVE  GivenOnce(m, t)'
<1> USE DEF record, runs, memory, meta, queue
<1>0. TypeOK /\ GivenOnce(m, t) /\ (router.msg = m => ~IsWith(m, t))
  BY DEF Once, OneHolder, TypeInv
<1>1. CASE RoutePush
  <2>1. /\ UNCHANGED <<heard, jobs, pending, pc>> /\ router.task \in Tasks
        /\ ints'[t] = IF t = router.task THEN ints[t] \cup {router.msg} ELSE ints[t]
    BY <1>1 DEF RoutePush, TypeInv, TypeOK, RouterHolds
  <2>2. CASE m = router.msg
    <3>1. heard'[t][m] = 0 /\ \A j \in JobsOf(t) : ~Carries(j, m)'
      BY <1>0, <2>1, <2>2, NotWith DEF Carries
    <3> QED
      BY <3>1 DEF GivenOnce, JobsOf
  <2>3. CASE m # router.msg
    BY <1>0, <2>1, <2>3, GivenKept DEF Carries
  <2> QED
    BY <2>2, <2>3
<1>2. CASE RouteAnswerAdd
  <2>1. PICK j \in JobIds : Add(j, {router.msg})
    <3>1. router.task \in Tasks /\ segment[router.task] + 1 \in 0..MaxSegments
      BY <1>2, CodeActAssumption DEF CodeActAssumption, RouteAnswerAdd, TypeInv, TypeOK, RouterHolds
    <3> QED
      BY <1>2, <3>1 DEF RouteAnswerAdd, ResumeJob, JobIds
  <2>2. UNCHANGED <<ints, heard, pc>>
    BY <1>2 DEF RouteAnswerAdd
  <2>3. /\ \A k \in JobIds \ {j} : jobs'[k] = jobs[k] /\ pending'[k] = pending[k]
        /\ jobs[j] = "none" => jobs'[j] = "waiting" /\ pending'[j] = {router.msg}
        /\ jobs[j] # "none" => jobs'[j] = jobs[j] /\ pending'[j] = pending[j]
    BY <1>0, <2>1, AddIs
  <2>4. \A k \in JobsOf(t) : Carries(k, m)' => Carries(k, m) \/ (k = j /\ m = router.msg)
    BY <2>2, <2>3 DEF Carries, JobsOf
  <2>5. CASE m = router.msg
    <3>1. heard[t][m] = 0 /\ m \notin ints[t] /\ \A k \in JobsOf(t) : ~Carries(k, m)
      BY <1>0, <2>5, NotWith DEF Carries
    <3> QED
      BY <2>2, <2>4, <3>1 DEF GivenOnce, JobsOf
  <2>6. CASE m # router.msg
    BY <1>0, <2>2, <2>4, <2>6, GivenKept
  <2> QED
    BY <2>5, <2>6
<1>3. CASE RouteAdd
  <2>1. UNCHANGED <<ints, pc>> /\ router.task \in Tasks /\ Hear(router.task, {router.msg})
    BY <1>3 DEF RouteAdd, TypeInv, RouterHolds
  <2>2. \A k \in JobsOf(t) : Carries(k, m)' => Carries(k, m)
    BY <1>0, <1>3, <2>1 DEF RouteAdd, Add, Carries, JobsOf, TypeOK
  <2>3. CASE m = router.msg /\ t = router.task
    <3>1. heard[t][m] = 0 /\ m \notin ints[t] /\ \A k \in JobsOf(t) : ~Carries(k, m)
      BY <1>0, <2>3, NotWith DEF Carries
    <3>2. heard'[t][m] = 1
      BY <1>0, <2>1, <2>3, <3>1, HearIs
    <3> QED
      BY <2>1, <2>2, <3>1, <3>2 DEF GivenOnce, JobsOf
  <2>4. CASE m # router.msg \/ t # router.task
    <3>1. heard'[t][m] = heard[t][m]
      BY <1>0, <2>1, <2>4, HearIs
    <3> QED
      BY <1>0, <2>1, <2>2, <3>1, GivenKept
  <2> QED
    BY <2>3, <2>4
<1>4. CASE \/ \E n \in Msgs : RouteGet(n)
           \/ RouteLoad \/ RouteAnswer \/ RoutePersist \/ RouteBusy \/ \E u \in Tasks : RouteClaim(u)
  <2>1. UNCHANGED <<ints, heard, jobs, pending, pc>>
    BY <1>4 DEF RouteGet, RouteLoad, RouteAnswer, RoutePersist, RouteBusy, RouteClaim
  <2> QED
    BY <1>0, <2>1, GivenKept DEF Carries
<1> QED
  BY <1>1, <1>2, <1>3, <1>4 DEF Route

\* The run of a job does nothing to the messages of another task.
LEMMA GivenElsewhere ==
    ASSUME TypeInv, Once, NEW j \in JobIds, Run(j) \/ Throw(j) \/ Recover(j),
           NEW t \in Tasks \ hit, t # TaskOf(j), NEW m \in Msgs
    PROVE  GivenOnce(m, t)' /\ ReadIn(t)'
<1> USE DEF record, runs, memory, meta, queue
<1>0. TypeOK /\ GivenOnce(m, t) /\ ReadIn(t) /\ TaskOf(j) \in Tasks
  BY JobsAre DEF Once, TypeInv
<1>1. heard'[t] = heard[t] /\ ints'[t] = ints[t]
  <2>1. CASE Input(j)
    BY <1>0, <2>1, HearIs DEF Input
  <2>2. CASE Delete(j)
    BY <1>0, <2>2, HearIs DEF Delete, TypeOK
  <2>3. CASE ~Input(j) /\ ~Delete(j)
    <3>1. UNCHANGED <<heard, ints>>
      BY <2>3 DEF Run, TryMark, Begin, Register, Drain, Stop, Turn, Leave, Save, SaveAdd, Wait,
         Finish, Unregister, Clear, Release, Throw, Recover
    <3> QED
      BY <3>1
  <2> QED
    BY <2>1, <2>2, <2>3
<1>2. \A k \in JobsOf(t) : k \in JobIds /\ k # j /\ TaskOf(k) # TaskOf(j)
  BY DEF JobsOf
<1>3. \A k \in JobsOf(t) : jobs'[k] = jobs[k] /\ pending'[k] = pending[k]
  <2>1. CASE SaveAdd(j)
    <3>1. PICK n : TaskOf(n) = TaskOf(j) /\ Add(n, {})
      BY <2>1 DEF SaveAdd, ResumeJob, TaskOf
    <3> QED
      BY <1>0, <1>2, <3>1 DEF Add, TypeOK
  <2>2. CASE ~SaveAdd(j)
    <3>1. pending' = pending
      BY <2>2 DEF Run, TryMark, Begin, Register, Input, Drain, Delete, Stop, Turn, Leave, Save, Wait,
         Finish, Unregister, Clear, Release, Throw, Recover
    <3>2. \A k \in JobIds \ {j} : jobs'[k] = jobs[k]
      BY <1>0, <2>2 DEF Run, TryMark, Begin, Register, Input, Drain, Delete, Stop, Turn, Leave, Save, Wait,
         Finish, Unregister, Clear, Release, Over, Throw, Recover, TypeOK
    <3> QED
      BY <1>2, <3>1, <3>2
  <2> QED
    BY <2>1, <2>2
<1>4. \A k \in JobIds \ {j} : pc'[k] = pc[k]
  <2>1. CASE Recover(j)
    BY <2>1 DEF Recover
  <2>2. CASE ~Recover(j)
    BY <1>0, <2>2 DEF Run, TryMark, Begin, Register, Input, Drain, Delete, Stop, Turn, Leave, Save, SaveAdd,
                  Wait, Finish, Unregister, Clear, Release, Over, Throw, Goto, TypeOK
  <2> QED
    BY <2>1, <2>2
<1>5. \A k \in JobIds \ {j} : batch'[k] = batch[k]
  <2>1. CASE Drain(j) \/ Delete(j)
    BY <1>0, <2>1 DEF Drain, Delete, TypeOK
  <2>2. CASE ~Drain(j) /\ ~Delete(j)
    BY <2>2 DEF Run, TryMark, Begin, Register, Input, Stop, Turn, Leave, Save, SaveAdd,
                  Wait, Finish, Unregister, Clear, Release, Throw, Recover
  <2> QED
    BY <2>1, <2>2
<1>6. GivenOnce(m, t)'
  BY <1>0, <1>1, <1>2, <1>3, <1>4, GivenKept DEF Carries
<1>7. ReadIn(t)'
  BY <1>0, <1>1, <1>2, <1>4, <1>5 DEF ReadIn, JobsOf
<1> QED
  BY <1>6, <1>7

LEMMA GivenRuns ==
    ASSUME TypeInv, Driven, Once, NEW j \in JobIds, NEW t \in Tasks \ hit, t = TaskOf(j), Run(j), NEW m \in Msgs
    PROVE  GivenOnce(m, t)'
<1> USE DEF record, runs, memory, meta, queue
<1>0. TypeOK /\ JobIsRecorded(t, j) /\ GivenOnce(m, t) /\ ReadIn(t) /\ j \in JobsOf(t)
  BY DriverFinds DEF Once, JobsOf
<1>1. ASSUME ~Input(j), ~Delete(j), ~SaveAdd(j) PROVE GivenOnce(m, t)'
  <2>1. UNCHANGED <<ints, heard, pending>>
    BY <1>1 DEF Run, TryMark, Begin, Register, Drain, Stop, Turn, Leave, Save, Wait, Finish, Unregister,
                Clear, Release
  <2>2. \A k \in JobIds \ {j} : jobs'[k] = jobs[k] /\ pc'[k] = pc[k]
    BY <1>0, <1>1 DEF Run, TryMark, Begin, Register, Drain, Stop, Turn, Leave, Save, Wait, Finish,
                      Unregister, Clear, Release, Over, Goto, TypeOK
  <2>3. jobs'[j] # "waiting"
    BY <1>0, <1>1 DEF JobIsRecorded, Run, TryMark, Begin, Register, Drain, Stop, Turn, Leave, Save, Wait,
                      Finish, Unregister, Clear, Release, Over, Goto, TypeOK
  <2>4. \/ pc'[j] \notin {"begin", "register", "input"}
        \/ pc[j] \in {"begin", "register", "input"} \/ jobs[j] = "waiting"
    BY <1>0, <1>1 DEF Run, TryMark, Begin, Register, Drain, Stop, Turn, Leave, Save, Wait, Finish,
                      Unregister, Clear, Release, Over, Goto, TypeOK
  <2>5. \A k \in JobsOf(t) : Carries(k, m)' => Carries(k, m)
    BY <2>1, <2>2, <2>3, <2>4 DEF Carries, JobsOf
  <2> QED
    BY <1>0, <2>1, <2>5, GivenKept
<1>2. ASSUME SaveAdd(j) PROVE GivenOnce(m, t)'
  <2>1. UNCHANGED <<ints, heard>> /\ \A k \in JobIds : Carries(k, m)' => Carries(k, m)
    BY <1>0, <1>2 DEF SaveAdd, Add, Goto, Carries, TypeOK
  <2> QED
    BY <1>0, <2>1, GivenKept DEF JobsOf
<1>3. ASSUME Input(j) PROVE GivenOnce(m, t)'
  <2>1. /\ ints' = ints /\ jobs' = jobs /\ pending' = pending /\ jobs[j] = "active"
        /\ pc[j] = "input" /\ pc'[j] \in {"drain", "stop"}
        /\ \A k \in JobIds \ {j} : pc'[k] = pc[k]
    BY <1>0, <1>3 DEF Input, Goto, JobIsRecorded, TypeOK
  <2>2. ~Carries(j, m)' /\ \A k \in JobsOf(t) : Carries(k, m)' => Carries(k, m)
    BY <2>1 DEF Carries, JobsOf
  <2>3. CASE m \in pending[j]
    <3>1. Carries(j, m)
      BY <2>1, <2>3 DEF Carries
    <3>2. heard[t][m] = 0 /\ m \notin ints[t] /\ \A k \in JobsOf(t) : ~Carries(k, m)'
      BY <1>0, <2>2, <3>1 DEF GivenOnce
    <3>3. heard'[t][m] = 1
      BY <1>0, <1>3, <2>3, <3>2, HearIs DEF Input
    <3> QED
      BY <2>1, <3>2, <3>3 DEF GivenOnce, JobsOf
  <2>4. CASE m \notin pending[j]
    <3>1. heard'[t][m] = heard[t][m]
      BY <1>0, <1>3, <2>4, HearIs DEF Input
    <3> QED
      BY <1>0, <2>1, <2>2, <3>1, GivenKept
  <2> QED
    BY <2>3, <2>4
<1>4. ASSUME Delete(j) PROVE GivenOnce(m, t)'
  <2>1. /\ jobs' = jobs /\ pending' = pending
        /\ pc[j] = "delete" /\ pc'[j] \in {"turn", "stop"}
        /\ \A k \in JobIds \ {j} : pc'[k] = pc[k]
        /\ ints'[t] = {}
    BY <1>0, <1>4 DEF Delete, Goto, TypeOK
  <2>2. batch[j] \subseteq ints[t]
    BY <1>0, <2>1 DEF ReadIn
  <2>3. \A k \in JobsOf(t) : Carries(k, m)' => Carries(k, m)
    BY <2>1 DEF Carries, JobsOf
  <2>4. CASE m \in batch[j]
    <3>1. heard[t][m] = 0 /\ \A k \in JobsOf(t) : ~Carries(k, m)
      BY <1>0, <2>2, <2>4 DEF GivenOnce
    <3>2. heard'[t][m] = 1
      BY <1>0, <1>4, <2>4, <3>1, HearIs DEF Delete
    <3> QED
      BY <2>1, <2>3, <3>1, <3>2 DEF GivenOnce, JobsOf
  <2>5. CASE m \notin batch[j]
    <3>1. heard'[t][m] = heard[t][m]
      BY <1>0, <1>4, <2>5, HearIs DEF Delete
    <3> QED
      BY <1>0, <2>1, <2>3, <3>1, GivenKept
  <2> QED
    BY <2>4, <2>5
<1> QED
  BY <1>1, <1>2, <1>3, <1>4

LEMMA ReadRuns ==
    ASSUME TypeInv, Driven, Once, NEW j \in JobIds, NEW t \in Tasks \ hit, t = TaskOf(j), Run(j)
    PROVE  ReadIn(t)'
<1> USE DEF record, runs, memory, meta, queue
<1>0. TypeOK /\ ReadIn(t) /\ j \in JobsOf(t) /\ TaskIsDriven(t)
  BY DEF Once, JobsOf, Driven, TypeInv
<1>1. CASE Drain(j)
  <2>1. /\ ints' = ints /\ batch'[j] = ints[t]
        /\ \A k \in JobIds \ {j} : pc'[k] = pc[k] /\ batch'[k] = batch[k]
    BY <1>0, <1>1 DEF Drain, Goto, TypeOK
  <2> QED
    BY <1>0, <2>1 DEF ReadIn, JobsOf
<1>2. CASE Delete(j)
  <2>1. pc[j] = "delete" /\ pc'[j] # "delete" /\ \A k \in JobIds \ {j} : pc'[k] = pc[k]
    BY <1>0, <1>2 DEF Delete, Goto, TypeOK
  <2>2. \A k \in JobsOf(t) \ {j} : pc[k] # "delete"
    BY <1>0, <2>1 DEF TaskIsDriven, OneDriver, Drives, InSegment
  <2> QED
    BY <2>1, <2>2 DEF ReadIn, JobsOf
<1>3. CASE ~Drain(j) /\ ~Delete(j)
  <2>1. ints' = ints /\ batch' = batch /\ pc'[j] # "delete" /\ \A k \in JobIds \ {j} : pc'[k] = pc[k]
    BY <1>0, <1>3 DEF Run, TryMark, Begin, Register, Input, Stop, Turn, Leave, Save, SaveAdd, Wait,
                        Finish, Unregister, Clear, Release, Over, Goto, TypeOK
  <2> QED
    BY <1>0, <2>1 DEF ReadIn, JobsOf
<1> QED
  BY <1>1, <1>2, <1>3

LEMMA GivenStep ==
    ASSUME TypeInv, Driven, Once, [Next]_vars, NEW t \in Tasks \ hit', NEW m \in Msgs
    PROVE  GivenOnce(m, t)' /\ ReadIn(t)'
<1> USE DEF record, runs, memory, meta, queue
<1>0. TypeOK /\ t \notin hit /\ GivenOnce(m, t) /\ ReadIn(t) /\ TaskIsDriven(t)
  BY HitGrows DEF Once, Driven, TypeInv
<1>1. CASE Route \/ \E n \in Msgs : RouteGet(n)
  <2>1. ints[t] \subseteq ints'[t]
    <3>1. CASE RoutePush
      BY <1>0, <3>1 DEF RoutePush, TypeOK
    <3>2. CASE ~RoutePush
      <4>1. ints' = ints
        BY <1>1, <3>2 DEF RouteGet, Route, RouteLoad, RouteAnswer, RouteAnswerAdd, RouteBusy, RouteClaim,
                RoutePersist, RouteAdd
      <4> QED
        BY <4>1
    <3> QED
      BY <3>1, <3>2
  <2>2. UNCHANGED <<pc, batch>>
    BY <1>1 DEF RouteGet, Route, RouteLoad, RoutePush, RouteAnswer, RouteAnswerAdd, RouteBusy, RouteClaim,
                RoutePersist, RouteAdd
  <2>3. ReadIn(t)'
    BY <1>0, <2>1, <2>2 DEF ReadIn
  <2> QED
    BY <1>0, <1>1, <2>3, GivenRoutes
<1>2. ASSUME NEW j \in JobIds, Run(j) \/ Throw(j) \/ Recover(j) PROVE GivenOnce(m, t)' /\ ReadIn(t)'
  <2>1. CASE t # TaskOf(j)
    BY <1>0, <1>2, <2>1, GivenElsewhere
  <2>2. CASE t = TaskOf(j)
    <3>1. ~Throw(j)
      BY <2>2 DEF Throw, Fails
    <3>2. ~Recover(j)
      BY <1>0, <2>2, DriverFinds DEF Recover, JobIsRecorded
    <3> QED
      BY <1>0, <1>2, <2>2, <3>1, <3>2, GivenRuns, ReadRuns
  <2> QED
    BY <2>1, <2>2
<1>3. ASSUME NEW u \in Tasks, DirectAdd(u) PROVE GivenOnce(m, t)' /\ ReadIn(t)'
  <2>1. UNCHANGED <<heard, ints, pc, batch>>
    BY <1>3 DEF DirectAdd
  <2>2. \A k \in JobsOf(t) : Carries(k, m)' => Carries(k, m)
    BY <1>0, <1>3, <2>1 DEF DirectAdd, Add, Carries, JobsOf, TypeOK
  <2> QED
    BY <1>0, <2>1, <2>2, GivenKept DEF ReadIn
<1>4. CASE Crash
  <2>1. \A j \in JobsOf(t) : j \in JobIds /\ pc[j] = "idle"
    BY <1>4 DEF Crash, Fails, InHands, JobsOf
  <2>2. UNCHANGED <<heard, ints, jobs, pending>> /\ \A j \in JobsOf(t) : pc'[j] = pc[j]
    BY <1>4, <2>1 DEF Crash
  <2> QED
    BY <1>0, <2>1, <2>2, GivenKept DEF ReadIn, Carries
<1>5. CASE LeaseExpires \/ UNCHANGED vars \/ \E u \in Tasks : DirectPersist(u) \/ Clean(u) \/ Age(u)
  <2>1. UNCHANGED <<heard, ints, jobs, pending, pc, batch>>
    BY <1>5 DEF LeaseExpires, vars, DirectPersist, Clean, CleanIndex, CleanActive, CleanRecord, Age
  <2> QED
    BY <1>0, <2>1, GivenKept DEF ReadIn, Carries
<1> QED
  BY <1>1, <1>2, <1>3, <1>4, <1>5 DEF Next

\* No message, no reader: a task reads nothing when there is none to read.
LEMMA OnceStep ==
    ASSUME TypeInv, Driven, Once, [Next]_vars
    PROVE  Once'
<1>1. \A m \in Msgs : OneHolder(m)'
  BY HolderStep DEF Once
<1>2. CASE Msgs = {}
  <2>1. \A j \in JobIds : batch'[j] \subseteq Msgs
    BY TypeStep DEF TypeInv, TypeOK
  <2> QED
    BY <1>2, <2>1 DEF Once, ReadIn, JobsOf
<1>3. CASE Msgs # {}
  BY <1>1, <1>3, GivenStep DEF Once
<1> QED
  BY <1>2, <1>3

----------------------------------------------------------------------------
Inv == TypeInv /\ Driven /\ LockHeld /\ Once

LEMMA InvInit == Init => Inv
<1>1. Init => LockHeld
  BY DEF Init, LockHeld
<1>2. Init => Once
  BY CodeActAssumption DEF CodeActAssumption, Init, Idle, Once, ReadIn, GivenOnce, OneHolder, IsWith,
     Carries, JobsOf
<1> QED
  BY <1>1, <1>2, TypeInit, DrivenInit DEF Inv

LEMMA InvStep == Inv /\ [Next]_vars => Inv'
<1> SUFFICES ASSUME Inv, [Next]_vars PROVE Inv'
  OBVIOUS
<1>1. TypeInv' /\ Driven'
  BY TypeStep, DrivenStep DEF Inv
<1>2. LockHeld'
  BY <1>1, LockStep DEF Inv
<1>3. Once'
  BY OnceStep DEF Inv
<1> QED
  BY <1>1, <1>2, <1>3 DEF Inv

LEMMA InvAlways == Spec => []Inv
  BY InvInit, InvStep, PTL DEF Spec

\* Whatever the router, the runs of the segments, their hand-overs and faults do in which
\* order, and however leases run out: no message is with two tasks, or with one and still
\* waiting; and a task no throw or crash has struck has it in one place and is given it once.
THEOREM MessagesInOnePlace == Spec => []InOnePlace
<1>1. ASSUME Inv, NEW m \in Msgs PROVE Cardinality(Holders(m)) <= 1
  <2>1. OneHolder(m)
    BY <1>1 DEF Inv, Once
  <2>2. \A p, q \in Holders(m) : p = q
    BY <2>1 DEF Holders, OneHolder
  <2>3. CASE Holders(m) = {}
    BY <2>3, FS_EmptySet
  <2>4. ASSUME NEW p \in Holders(m) PROVE Cardinality(Holders(m)) <= 1
    <3>1. Holders(m) = {p}
      BY <2>2, <2>4
    <3> QED
      BY <3>1, FS_Singleton
  <2> QED
    BY <2>3, <2>4
<1>2. ASSUME Inv, NEW m \in Msgs, NEW t \in Tasks \ hit
      PROVE  Cardinality(Carriers(m, t)) + Listed(m, t) + heard[t][m] <= 1
  <2>1. GivenOnce(m, t)
    BY <1>2 DEF Inv, Once
  <2>2. \A j \in Carriers(m, t) : j \in JobsOf(t) /\ Carries(j, m)
    BY DEF Carriers, JobsOf
  <2>3. CASE Carriers(m, t) = {}
    BY <2>1, <2>3, FS_EmptySet DEF GivenOnce, Listed
  <2>4. ASSUME NEW j \in Carriers(m, t) PROVE Cardinality(Carriers(m, t)) + Listed(m, t) + heard[t][m] <= 1
    <3>1. Carriers(m, t) = {j}
      BY <2>1, <2>2 DEF GivenOnce
    <3>2. Cardinality(Carriers(m, t)) = 1
      BY <3>1, FS_Singleton
    <3>3. heard[t][m] = 0 /\ Listed(m, t) = 0
      BY <2>1, <2>2 DEF GivenOnce, Listed
    <3> QED
      BY <3>2, <3>3
  <2> QED
    BY <2>3, <2>4
<1>3. Inv => InOnePlace
  BY <1>1, <1>2 DEF InOnePlace
<1> QED
  BY <1>3, InvAlways, PTL

\* No task has two runs at work, unless a throw or crash has struck it; and two tasks of a
\* chat are at work together only after a task outlived its lease, was handed to its next job
\* or was struck.
THEOREM RunsWorkAlone == Spec => []RunsAlone
<1>1. ASSUME Inv, NEW i \in JobIds, NEW j \in JobIds, Working(i), Working(j), i # j
      PROVE  /\ TaskOf(i) # TaskOf(j) \/ TaskOf(i) \in hit
             /\ \E t \in Tasks : t \in old \/ HandedOver(t) \/ t \in hit
  <2>1. TaskOf(i) # TaskOf(j) \/ TaskOf(i) \in hit
    BY <1>1, JobsAre DEF Inv, Driven, TaskIsDriven, OneDriver, JobsOf, Drives, InSegment, Working
  <2>2. pc[i] # "idle" /\ pc[j] # "idle"
    BY <1>1 DEF Working
  <2>3. hit = {} => \E t \in Tasks : t \in old \/ HandedOver(t)
    BY <1>1, <2>1, <2>2 DEF Inv, LockHeld
  <2>4. hit \subseteq Tasks
    BY <1>1 DEF Inv, TypeInv, TypeOK
  <2> QED
    BY <2>1, <2>3, <2>4
<1>2. Inv => RunsAlone
  BY <1>1 DEF RunsAlone
<1> QED
  BY <1>2, InvAlways, PTL

\* A task no throw or crash has struck and whose record says it is under way is driven by a
\* job or about to be, unless the id of its answer's job was taken.
THEOREM StuckOnlyById == Spec => []StuckByIdOnly
<1>1. ASSUME Inv, NEW t \in Tasks \ hit, status[t] \in {"queued", "running"}, ~Underway(t)
      PROVE  jobs[ResumeJob(t, segment[t])] = "done"
  <2>1. TaskIsDriven(t) /\ TypeOK
    BY <1>1 DEF Inv, Driven, TypeInv
  <2>2. \A j \in JobsOf(t) : jobs[j] \notin {"waiting", "active"}
    BY <1>1, JobIsPair DEF Underway
  <2>3. NobodyDrives(t)
    BY <2>1, <2>2, DriverAlone DEF NobodyDrives
  <2>4. jobs[<<t, 0>>] # "none"
    BY <1>1, <2>1 DEF Underway, TaskIsDriven, IsTracked
  <2>5. jobs[ResumeJob(t, segment[t])] # "none"
    BY <1>1, <2>1, <2>3, <2>4 DEF Underway, TaskIsDriven, IsTracked
  <2>6. ResumeJob(t, segment[t]) \in JobsOf(t) /\ ResumeJob(t, segment[t]) \in JobIds
    <3>1. segment[t] + 1 \in 0..MaxSegments
      BY <2>1, CodeActAssumption DEF CodeActAssumption, TypeOK
    <3> QED
      BY <3>1, JobOf DEF ResumeJob, JobsOf
  <2> QED
    BY <2>1, <2>2, <2>5, <2>6 DEF TypeOK
<1>2. Inv => StuckByIdOnly
  BY <1>1 DEF StuckByIdOnly
<1> QED
  BY <1>2, InvAlways, PTL

\* A task that is done or failed and that no throw or crash has struck is never started
\* again: not by an answer that comes late, nor by its next segment, nor by a second record
\* of its end, nor by what is done about the tasks that were struck.
THEOREM OverIsOver == Spec => StaysOver
<1>1. ASSUME Inv, [Next]_vars, NEW t \in Tasks \ hit', status[t] \in {"done", "failed"}
      PROVE  status'[t] = status[t]
  <2>0. t \notin hit /\ TypeInv /\ Driven /\ TypeOK /\ TaskIsDriven(t)
    BY <1>1, HitGrows DEF Inv, Driven, TypeInv
  <2>1. ASSUME NEW u \in Tasks, NEW st, NEW n, Persist(u, st, n),
               u = t => status[u] \notin {"done", "failed"} \/ st = status[u]
        PROVE  status'[t] = status[t]
    BY <1>1, <2>0, <2>1, PersistIs
  <2>2. ASSUME Route PROVE status'[t] = status[t]
    <3>1. CASE RouteAnswer
      <4>1. router.task \in Tasks /\ (router.task = t => status[t] = "waiting")
        BY <2>0, <3>1 DEF RouteAnswer, TypeInv, RouterHolds, TaskIsDriven, RouterDrives
      <4> QED
        BY <2>1, <3>1, <4>1 DEF RouteAnswer
    <3>2. CASE RoutePersist
      <4>1. router.task \in Tasks /\ (router.task = t => status[t] = "none")
        BY <2>0, <3>2 DEF RoutePersist, TypeInv, RouterHolds, TaskIsDriven, RouterDrives
      <4> QED
        BY <2>1, <3>2, <4>1 DEF RoutePersist
    <3>3. CASE ~RouteAnswer /\ ~RoutePersist
      BY <2>2, <3>3 DEF Route, RouteLoad, RoutePush, RouteAnswerAdd, RouteBusy, RouteClaim, RouteAdd, record
    <3> QED
      BY <3>1, <3>2, <3>3
  <2>3. ASSUME NEW u \in Tasks, DirectPersist(u) PROVE status'[t] = status[t]
    BY <2>1, <2>3 DEF DirectPersist
  <2>4. ASSUME NEW j \in JobIds, Run(j) PROVE status'[t] = status[t]
    <3>1. TaskOf(j) \in Tasks /\ (TaskOf(j) = t => JobIsRecorded(t, j))
      BY <2>0, JobsAre DEF TaskIsDriven, JobsOf
    <3>2. CASE Begin(j) \/ Stop(j) \/ Save(j) \/ Wait(j)
      <4>1. TaskOf(j) = t => status[t] \notin {"done", "failed"}
        BY <3>1, <3>2 DEF Begin, Stop, Save, Wait, JobIsRecorded, Recorded, InSegment
      <4> QED
        BY <2>1, <3>1, <3>2, <4>1 DEF Begin, Stop, Save, Wait
    <3>3. CASE Finish(j)
      <4>1. TaskOf(j) = t => status[t] \notin {"done", "failed"} \/ out[j] = status[t]
        BY <3>1, <3>3 DEF Finish, JobIsRecorded, Recorded
      <4> QED
        BY <2>1, <3>1, <3>3, <4>1 DEF Finish
    <3>4. CASE ~Begin(j) /\ ~Stop(j) /\ ~Save(j) /\ ~Wait(j) /\ ~Finish(j)
      BY <2>4, <3>4 DEF Run, TryMark, Register, Input, Drain, Delete, Turn, Leave, SaveAdd, Unregister,
                        Clear, Release, record
    <3> QED
      BY <3>2, <3>3, <3>4
  <2>5. ASSUME NEW u \in Tasks, Clean(u) PROVE status'[t] = status[t]
    <3>1. u # t
      BY <2>0, <2>5 DEF TaskIsDriven, Clean, CleanIndex, CleanActive, CleanRecord
    <3> QED
      BY <2>0, <2>5, <3>1 DEF Clean, CleanIndex, CleanActive, CleanRecord, record, TypeOK
  <2>6. ASSUME \/ (\E m \in Msgs : RouteGet(m)) \/ LeaseExpires \/ UNCHANGED vars \/ Crash
               \/ \E u \in Tasks : DirectAdd(u) \/ Age(u)
               \/ \E j \in JobIds : Throw(j) \/ Recover(j)
        PROVE  status'[t] = status[t]
    BY <2>6 DEF RouteGet, DirectAdd, Age, LeaseExpires, Throw, Recover, Crash, vars, record
  <2> QED
    BY <1>1, <2>2, <2>3, <2>4, <2>5, <2>6 DEF Next
<1>2. Inv /\ [Next]_vars =>
          [\A t \in Tasks \ hit' : status[t] \in {"done", "failed"} => status'[t] = status[t]]_vars
  BY <1>1
<1> QED
  BY <1>2, InvAlways, PTL DEF Spec, StaysOver
=============================================================================
