------------------------ MODULE TurnSchedulerProofs ------------------------
(***************************************************************************)
(* Proofs about TurnScheduler, for any number of entries, jobs, defer jobs *)
(* and faults: the lock, the places of an entry, the wake-up, and the      *)
(* refinement of EntryPath.                                                *)
(***************************************************************************)
EXTENDS TurnScheduler, TLAPS

\* A defer_resume handler calls scheduleTurn only while its job is active.
DeferCalls == \A d \in Defers : at[d] # "no" => defer[d] = "active"

TypeInv == TypeOK /\ DeferCalls

LEMMA TypeInit == Init => TypeInv
<1> SUFFICES ASSUME Init PROVE TypeInv
  OBVIOUS
<1>1. /\ pending \subseteq Msgs /\ dirty \in BOOLEAN /\ pointer \in Jobs \cup {None, Gone}
      /\ lock \in Jobs \cup {None, Gone} /\ expired \subseteq Jobs /\ stalls \subseteq Jobs
  BY DEF Init
<1>2. /\ job \in [Jobs -> {"none", "delayed", "waiting", "active"}]
      /\ turn \in [Jobs -> TurnSteps]
      /\ burst \in [Jobs -> SUBSET Msgs] /\ wasDirty \in [Jobs -> BOOLEAN]
  BY DEF Init, TurnSteps
<1>3. /\ at \in [Callers -> CallSteps] /\ seen \in [Callers -> Jobs \cup {None, Gone}]
      /\ \A c \in Callers : at[c] = "no"
  BY DEF Init, CallSteps
<1>4. /\ defer \in [Defers -> {"none", "delayed", "active", "done"}]
      /\ held \in [Defers -> Msgs \cup {None}] /\ injected \subseteq Defers
      /\ \A d \in Defers : defer[d] = "none"
  BY DEF Init
<1>5. /\ replays \in [Msgs -> 0..MaxReplays] /\ faults \in 0..MaxFaults
      /\ sent \subseteq Msgs /\ handled \subseteq Msgs /\ lost \subseteq Msgs
  BY BoundsAssumption DEF BoundsAssumption, Init
<1> QED
  BY <1>1, <1>2, <1>3, <1>4, <1>5 DEF TypeInv, TypeOK, DeferCalls, Callers

LEMMA TypeStep == TypeInv /\ [Next]_vars => TypeInv'
<1> SUFFICES ASSUME TypeInv, [Next]_vars PROVE TypeInv'
  OBVIOUS
<1> USE SetsAssumption, BoundsAssumption DEF SetsAssumption, BoundsAssumption, TypeInv, TypeOK, DeferCalls, Callers, CallSteps, TurnSteps
<1>1. ASSUME NEW m \in Msgs, Append(m) PROVE TypeInv'
  BY <1>1 DEF Append, Goto, turnVars, queueVars, deferVars
<1>2. ASSUME NEW c \in Callers, ReadMeta(c) PROVE TypeInv'
  BY <1>2 DEF ReadMeta, Goto, bufferVars, turnVars, queueVars, deferVars, history
<1>3. ASSUME NEW c \in Callers, ReadState(c) PROVE TypeInv'
  BY <1>3 DEF ReadState, Return, Goto, bufferVars, turnVars, queueVars, deferVars, history
<1>4. ASSUME NEW c \in Callers, ChangeDelay(c) PROVE TypeInv'
  BY <1>4 DEF ChangeDelay, Return, Goto, bufferVars, turnVars, queueVars, deferVars, history
<1>5. ASSUME NEW c \in Callers, MarkDirty(c) PROVE TypeInv'
  BY <1>5 DEF MarkDirty, Return, Goto, bufferVars, turnVars, queueVars, deferVars, history
<1>6. ASSUME NEW c \in Callers, AddJob(c) PROVE TypeInv'
  BY <1>6 DEF AddJob, Return, Goto, bufferVars, turnVars, queueVars, deferVars, history
<1>7. ASSUME NEW c \in Callers, SetPointer(c) PROVE TypeInv'
  BY <1>7 DEF SetPointer, Return, Goto, bufferVars, turnVars, queueVars, deferVars, history
<1>8. ASSUME NEW c \in Callers, LookFails(c) \/ CallFails(c) PROVE TypeInv'
  BY <1>8 DEF LookFails, CallFails, Return, Goto, bufferVars, turnVars, queueVars, deferVars, history
<1>9. ASSUME NEW j \in Jobs, Promote(j) PROVE TypeInv'
  BY <1>9 DEF Promote, bufferVars, turnVars, callVars, deferVars, history
<1>10. ASSUME NEW j \in Jobs, Acquire(j) PROVE TypeInv'
  BY <1>10 DEF Acquire, Step, bufferVars, turnVars, callVars, deferVars, history
<1>11. ASSUME NEW j \in Jobs, LockBusy(j) PROVE TypeInv'
  BY <1>11 DEF LockBusy, Step, Goto, bufferVars, turnVars, callVars, deferVars, history
<1>12. ASSUME NEW j \in Jobs, Drain(j) PROVE TypeInv'
  BY <1>12 DEF Drain, Step, bufferVars, queueVars, callVars, deferVars, history
<1>13. ASSUME NEW j \in Jobs, ReadPointer(j) PROVE TypeInv'
  BY <1>13 DEF ReadPointer, Step, bufferVars, queueVars, callVars, deferVars, history
<1>14. ASSUME NEW j \in Jobs, UnsetPointer(j) PROVE TypeInv'
  BY <1>14 DEF UnsetPointer, Step, bufferVars, queueVars, callVars, deferVars, history
<1>15. ASSUME NEW j \in Jobs, ClearDirty(j) PROVE TypeInv'
  BY <1>15 DEF ClearDirty, Step, bufferVars, queueVars, callVars, deferVars, history
<1>16. ASSUME NEW j \in Jobs, CountPending(j) PROVE TypeInv'
  BY <1>16 DEF CountPending, Step, Goto, bufferVars, queueVars, callVars, deferVars, history
<1>17. ASSUME NEW j \in Jobs, ReleaseLock(j) PROVE TypeInv'
  BY <1>17 DEF ReleaseLock, Step, bufferVars, queueVars, callVars, deferVars, history
<1>18. ASSUME NEW j \in Jobs, Finish(j) PROVE TypeInv'
  BY <1>18 DEF Finish, Forget, deferVars, history
<1>19. ASSUME NEW j \in Jobs, ReplanDrain(j) PROVE TypeInv'
  BY <1>19 DEF ReplanDrain, bufferVars, queueVars, callVars, deferVars, history
<1>20. ASSUME NEW j \in Jobs, Stalled(j) PROVE TypeInv'
  BY <1>20 DEF Stalled, Forget, deferVars, history
<1>21. ASSUME NEW j \in Jobs, NEW m \in Msgs, HandleEntry(j, m) PROVE TypeInv'
  BY <1>21 DEF HandleEntry, bufferVars, queueVars, callVars, deferVars
<1>22. ASSUME NEW j \in Jobs, NEW m \in Msgs, Requeue(j, m) PROVE TypeInv'
  BY <1>22 DEF Requeue, queueVars, callVars, history
<1>23. ASSUME NEW j \in Jobs, NEW m \in Msgs, DeferEntry(j, m) PROVE TypeInv'
  BY <1>23 DEF DeferEntry, EnqueueDefer, bufferVars, queueVars, callVars, history
<1>24. ASSUME NEW d \in Defers, Reinject(d) PROVE TypeInv'
  BY <1>24 DEF Reinject, Goto, queueVars, turnVars, history
<1>25. ASSUME NEW d \in Defers, DeferDone(d) PROVE TypeInv'
  BY <1>25 DEF DeferDone, bufferVars, queueVars, turnVars, callVars, history
<1>26. CASE LeaseExpires
  BY <1>26 DEF LeaseExpires, Critical, bufferVars, queueVars, callVars, deferVars, history
<1>27. CASE Crash
  BY <1>27 DEF Crash, bufferVars, queueVars
<1>28. ASSUME NEW j \in Jobs, TurnFails(j) PROVE TypeInv'
  BY <1>28 DEF TurnFails, Step, bufferVars, queueVars, callVars, deferVars, history
<1>29. CASE UNCHANGED vars
  BY <1>29 DEF vars, bufferVars, queueVars, turnVars, callVars, deferVars, history
<1> QED
  BY <1>1, <1>2, <1>3, <1>4, <1>5, <1>6, <1>7, <1>8, <1>9, <1>10, <1>11, <1>12, <1>13, <1>14,
     <1>15, <1>16, <1>17, <1>18, <1>19, <1>20, <1>21, <1>22, <1>23, <1>24, <1>25, <1>26,
     <1>27, <1>28, <1>29 DEF Next, ScheduleTurn, Turn

\* Every variable keeps its type, and no defer job is without its payload,
\* whatever is interleaved, retried or crashes.
THEOREM TypeCorrect == Spec => []TypeOK
<1>1. Init => TypeInv
  BY TypeInit
<1>2. TypeInv /\ [Next]_vars => TypeInv'
  BY TypeStep
<1>3. TypeInv => TypeOK
  BY DEF TypeInv
<1> QED
  BY <1>1, <1>2, <1>3, PTL DEF Spec
----------------------------------------------------------------------------
(* The execution lock.  LeaseExclusion is inductive once the variables have *)
(* their types: only Acquire makes a turn critical, and only when nobody    *)
(* holds the lock; only the holder, or the end of its lease, frees it.      *)

LEMMA LeaseStep == TypeInv /\ LeaseExclusion /\ [Next]_vars => LeaseExclusion'
<1> SUFFICES ASSUME TypeInv, LeaseExclusion, [Next]_vars, ExecLock PROVE LeaseExclusion'
  BY DEF LeaseExclusion
<1>t. /\ turn \in [Jobs -> TurnSteps] /\ expired \subseteq Jobs /\ None \notin Jobs /\ Gone \notin Jobs
  BY SetsAssumption DEF TypeInv, TypeOK, SetsAssumption
<1> USE <1>t DEF LeaseExclusion, Critical
<1>1. ASSUME NEW m \in Msgs, Append(m) PROVE LeaseExclusion'
  BY <1>1 DEF Append, turnVars
<1>2. ASSUME NEW c \in Callers, ScheduleTurn(c) \/ LookFails(c) \/ CallFails(c) PROVE LeaseExclusion'
  BY <1>2 DEF ScheduleTurn, ReadMeta, ReadState, ChangeDelay, MarkDirty, AddJob, SetPointer,
     LookFails, CallFails, turnVars
<1>3. ASSUME NEW j \in Jobs, Acquire(j) PROVE LeaseExclusion'
  BY <1>3 DEF Acquire, Step
<1>4. ASSUME NEW j \in Jobs, Promote(j) \/ ReplanDrain(j) PROVE LeaseExclusion'
  BY <1>4 DEF Promote, ReplanDrain, turnVars
<1>5. ASSUME NEW j \in Jobs, LockBusy(j) PROVE LeaseExclusion'
  BY <1>5 DEF LockBusy, Step
<1>6. ASSUME NEW j \in Jobs,
             \/ Drain(j) \/ ReadPointer(j) \/ UnsetPointer(j) \/ ClearDirty(j)
             \/ CountPending(j) \/ TurnFails(j)
      PROVE LeaseExclusion'
  BY <1>6 DEF Drain, ReadPointer, UnsetPointer, ClearDirty, CountPending, TurnFails, Step
<1>7. ASSUME NEW j \in Jobs, ReleaseLock(j) PROVE LeaseExclusion'
  BY <1>7 DEF ReleaseLock, Step
<1>8. ASSUME NEW j \in Jobs, Finish(j) PROVE LeaseExclusion'
  BY <1>8 DEF Finish, Forget
<1>9. ASSUME NEW j \in Jobs, Stalled(j) PROVE LeaseExclusion'
  BY <1>9 DEF Stalled, Forget
<1>10. ASSUME NEW j \in Jobs, NEW m \in Msgs,
              HandleEntry(j, m) \/ Requeue(j, m) \/ DeferEntry(j, m)
       PROVE LeaseExclusion'
  BY <1>10 DEF HandleEntry, Requeue, DeferEntry, EnqueueDefer
<1>11. ASSUME NEW d \in Defers, Reinject(d) \/ DeferDone(d) PROVE LeaseExclusion'
  BY <1>11 DEF Reinject, DeferDone, turnVars
<1>12. CASE LeaseExpires
  BY <1>12 DEF LeaseExpires
<1>13. CASE Crash
  BY <1>13 DEF Crash
<1>14. CASE UNCHANGED vars
  BY <1>14 DEF vars, turnVars
<1> QED
  BY <1>1, <1>2, <1>3, <1>4, <1>5, <1>6, <1>7, <1>8, <1>9, <1>10, <1>11, <1>12, <1>13, <1>14
     DEF Next, Turn

\* With the execution lock on, two turns of a chat with live leases are never
\* between taking the lock and their finally together (turn-lock.ts 22-48,
\* actor.ts 444-479), for any number of jobs, crashes and lost leases.
THEOREM LockIsExclusive == Spec => []LeaseExclusion
<1>1. Init => LeaseExclusion
  BY DEF Init, LeaseExclusion, Critical
<1>2. Init => TypeInv
  BY TypeInit
<1>3. TypeInv /\ [Next]_vars => TypeInv'
  BY TypeStep
<1>4. TypeInv /\ LeaseExclusion /\ [Next]_vars => LeaseExclusion'
  BY LeaseStep
<1> QED
  BY <1>1, <1>2, <1>3, <1>4, PTL DEF Spec
----------------------------------------------------------------------------
(* What becomes of an entry.  The two properties are proved together, entry *)
(* by entry: that the places an entry can be in are pairwise apart needs    *)
(* that a new entry is in none of them, which is conservation, and a drain  *)
(* keeps what its turn had only if that was nothing, which is Shape.        *)

Carries(d) == defer[d] # "none" /\ d \notin injected

\* A turn runs for an active job and holds a burst in its loop only; a token is
\* set by an existing defer job.
Shape ==
    /\ \A j \in Jobs : turn[j] # "off" => job[j] = "active"
    /\ \A j \in Jobs : burst[j] # {} => turn[j] = "run"
    /\ \A d \in injected : defer[d] # "none"

Conserved ==
    \A m \in Msgs :
        m \in sent <=> \/ m \in pending \cup handled \cup lost
                       \/ \E j \in Jobs : m \in burst[j]
                       \/ \E d \in Defers : Carries(d) /\ held[d] = m

Apart ==
    /\ handled \cap pending = {} /\ lost \cap pending = {} /\ handled \cap lost = {}
    /\ \A j \in Jobs : burst[j] \cap (pending \cup handled \cup lost) = {}
    /\ \A j, k \in Jobs : j # k => burst[j] \cap burst[k] = {}
    /\ \A d \in Defers : Carries(d) =>
          held[d] \notin pending \cup handled \cup lost /\ \A j \in Jobs : held[d] \notin burst[j]
    /\ \A d, e \in Defers : d # e /\ Carries(d) /\ Carries(e) => held[d] # held[e]

EntryInv == Shape /\ Conserved /\ Apart

LEMMA EntryStep == TypeInv /\ EntryInv /\ [Next]_vars => EntryInv'
<1> SUFFICES ASSUME TypeInv, EntryInv, [Next]_vars PROVE EntryInv'
  OBVIOUS
<1>t. /\ pending \subseteq Msgs /\ sent \subseteq Msgs /\ handled \subseteq Msgs /\ lost \subseteq Msgs
      /\ burst \in [Jobs -> SUBSET Msgs] /\ turn \in [Jobs -> TurnSteps]
      /\ job \in [Jobs -> {"none", "delayed", "waiting", "active"}]
      /\ defer \in [Defers -> {"none", "delayed", "active", "done"}]
      /\ held \in [Defers -> Msgs \cup {None}] /\ injected \subseteq Defers
      /\ \A d \in Defers : defer[d] # "none" => held[d] \in Msgs
      /\ \A d \in Defers : at[d] # "no" => defer[d] = "active"
  BY DEF TypeInv, TypeOK, DeferCalls
<1> USE <1>t DEF EntryInv, Shape, Conserved, Apart, Carries
<1>1. ASSUME NEW m \in Msgs, Append(m) PROVE EntryInv'
  BY <1>1 DEF Append, queueVars, turnVars, deferVars
<1>2. ASSUME NEW c \in Callers, ScheduleTurn(c) PROVE EntryInv'
  BY <1>2 DEF ScheduleTurn, ReadMeta, ReadState, ChangeDelay, MarkDirty, AddJob, SetPointer,
     bufferVars, queueVars, turnVars, deferVars, history
<1>3. ASSUME NEW c \in Callers, LookFails(c) \/ CallFails(c) PROVE EntryInv'
  BY <1>3 DEF LookFails, CallFails, deferVars, bufferVars, queueVars, turnVars, history
<1>4. ASSUME NEW j \in Jobs, Promote(j) PROVE EntryInv'
  BY <1>4 DEF Promote, bufferVars, turnVars, deferVars, history
<1>5. ASSUME NEW j \in Jobs, Drain(j) PROVE EntryInv'
  BY <1>5 DEF Drain, Step, queueVars, deferVars, history
<1>6. ASSUME NEW j \in Jobs, ReplanDrain(j) PROVE EntryInv'
  BY <1>6 DEF ReplanDrain, queueVars, deferVars, history
<1>7. ASSUME NEW j \in Jobs, Acquire(j) \/ LockBusy(j) PROVE EntryInv'
  BY <1>7 DEF Acquire, LockBusy, Step, bufferVars, deferVars, history
<1>8. ASSUME NEW j \in Jobs, ReleaseLock(j) PROVE EntryInv'
  BY <1>8 DEF ReleaseLock, Step, bufferVars, queueVars, deferVars, history
<1>9. ASSUME NEW j \in Jobs, Finish(j) \/ Stalled(j) PROVE EntryInv'
  BY <1>9 DEF Finish, Stalled, deferVars, history
<1>10. ASSUME NEW j \in Jobs,
             ReadPointer(j) \/ UnsetPointer(j) \/ ClearDirty(j) \/ CountPending(j) \/ TurnFails(j)
      PROVE EntryInv'
  BY <1>10 DEF ReadPointer, UnsetPointer, ClearDirty, CountPending, TurnFails, Step, bufferVars,
     queueVars, deferVars, history
<1>11. ASSUME NEW j \in Jobs, NEW m \in Msgs, HandleEntry(j, m) PROVE EntryInv'
  BY <1>11 DEF HandleEntry, bufferVars, queueVars, deferVars
<1>12. ASSUME NEW j \in Jobs, NEW m \in Msgs, Requeue(j, m) PROVE EntryInv'
  BY <1>12 DEF Requeue, queueVars, history
<1>13. ASSUME NEW j \in Jobs, NEW m \in Msgs, DeferEntry(j, m) PROVE EntryInv'
  BY <1>13 DEF DeferEntry, EnqueueDefer, bufferVars, queueVars, history
<1>14. ASSUME NEW d \in Defers, Reinject(d) PROVE EntryInv'
  BY <1>14 DEF Reinject, queueVars, turnVars, history
<1>15. ASSUME NEW d \in Defers, DeferDone(d) PROVE EntryInv'
  BY <1>15 DEF DeferDone, bufferVars, queueVars, turnVars, history
<1>16. CASE LeaseExpires
  BY <1>16 DEF LeaseExpires, bufferVars, queueVars, deferVars, history
<1>17. CASE Crash
  BY <1>17 DEF Crash, bufferVars, queueVars
<1>18. CASE UNCHANGED vars
  BY <1>18 DEF vars, bufferVars, queueVars, turnVars, deferVars, history
<1> QED
  BY <1>1, <1>2, <1>3, <1>4, <1>5, <1>6, <1>7, <1>8, <1>9, <1>10, <1>11, <1>12, <1>13, <1>14,
     <1>15, <1>16, <1>17, <1>18 DEF Next, Turn

LEMMA EntryInit == Init => EntryInv
BY DEF Init, EntryInv, Shape, Conserved, Apart, Carries

LEMMA EntryAlways == Spec => [](TypeInv /\ EntryInv)
<1>1. Init => TypeInv /\ EntryInv
  BY TypeInit, EntryInit
<1>2. TypeInv /\ EntryInv /\ [Next]_vars => TypeInv' /\ EntryInv'
  BY TypeStep, EntryStep
<1> QED
  BY <1>1, <1>2, PTL DEF Spec

\* No entry is dropped by any drain, replan, deferral, retry or recovery: it is
\* pending, in a running turn, in a defer job, handled, or it died with its
\* process (buffer.ts 22-148, actor.ts 330-419, defer.ts 38-100).
THEOREM EntriesAreConserved == Spec => []EntriesConserved
<1>1. TypeInv /\ EntryInv => EntriesConserved
  <2> SUFFICES ASSUME TypeInv, EntryInv PROVE EntriesConserved
    OBVIOUS
  <2>1. InBursts \subseteq Msgs /\ \A m \in Msgs : m \in InBursts <=> \E j \in Jobs : m \in burst[j]
    BY DEF InBursts, TypeInv, TypeOK
  <2>2. /\ InDefers \subseteq Msgs
        /\ \A m \in Msgs : m \in InDefers <=> \E d \in Defers : Carries(d) /\ held[d] = m
    BY DEF InDefers, Carries, TypeInv, TypeOK
  <2>3. /\ sent \subseteq Msgs /\ pending \subseteq Msgs /\ handled \subseteq Msgs
        /\ lost \subseteq Msgs
    BY DEF TypeInv, TypeOK
  <2> QED
    BY <2>1, <2>2, <2>3 DEF EntriesConserved, EntryInv, Conserved
<1> QED
  BY <1>1, EntryAlways, PTL

\* ... and it is in one of those places only: no interleaving of duplicated jobs,
\* retries and crashes puts an entry before the judge twice at a time.
THEOREM EntriesAreNotDuplicated == Spec => []EntriesNotDuplicated
<1>1. EntryInv => EntriesNotDuplicated
  BY DEF EntryInv, Apart, Carries, EntriesNotDuplicated, InBursts, InDefers
<1> QED
  BY <1>1, EntryAlways, PTL

\* Both: an entry ingress appended is in exactly one place, for any number of
\* entries, jobs, defers, replays and faults.
THEOREM EntriesStayInOnePlace == Spec => []EntriesInOnePlace
<1>1. EntriesConserved /\ EntriesNotDuplicated => EntriesInOnePlace
  BY DEF EntriesInOnePlace
<1> QED
  BY <1>1, EntriesAreConserved, EntriesAreNotDuplicated, PTL
----------------------------------------------------------------------------
(* The wake-up.  While nothing fails, waiting entries have somebody who     *)
(* will look, or whoever scheduled for them found a job and marks it.       *)

\* A call that has yet to read the pointer, or will add a job whatever it says.
Scheduling == \E c \in Callers : at[c] \in {"meta", "add"}
\* A call that found a job, which it may yet mark.
Reusing == \E c \in Callers : at[c] \in {"state", "delay", "dirty"}
WillLook == \E j \in Jobs : job[j] \in {"delayed", "waiting"} \/ turn[j] \in Looking

\* The pointer only goes away in a turn that counts pending afterwards, and so does the mark.
WakeupInv == faults = 0 /\ pending # {} => Scheduling \/ WillLook \/ (pointer # None /\ (dirty \/ Reusing))

LEMMA WakeupStep == TypeInv /\ EntryInv /\ WakeupInv /\ [Next]_vars => WakeupInv'
<1> SUFFICES ASSUME TypeInv, EntryInv, WakeupInv, [Next]_vars, faults' = 0, pending' # {}
             PROVE  (Scheduling \/ WillLook \/ (pointer # None /\ (dirty \/ Reusing)))'
  BY DEF WakeupInv
<1> DEFINE Goal == (Scheduling \/ WillLook \/ (pointer # None /\ (dirty \/ Reusing)))'
<1>t. /\ turn \in [Jobs -> TurnSteps] /\ job \in [Jobs -> {"none", "delayed", "waiting", "active"}]
      /\ at \in [Callers -> CallSteps] /\ seen \in [Callers -> Jobs \cup {None, Gone}]
      /\ pointer \in Jobs \cup {None, Gone} /\ None # Gone /\ None \notin Jobs /\ faults \in Nat
      /\ \A c \in Callers : at[c] = "point" => seen[c] # None
      /\ \A j \in Jobs : turn[j] # "off" => job[j] = "active"
      /\ Msgs \subseteq Callers /\ Jobs \subseteq Callers /\ Defers \subseteq Callers
  BY SetsAssumption DEF SetsAssumption, TypeInv, TypeOK, EntryInv, Shape, Callers
<1> USE <1>t DEF WakeupInv, Scheduling, Reusing, WillLook, Looking
<1>1. ASSUME NEW m \in Msgs, Append(m) PROVE Goal
  BY <1>1 DEF Append, Goto
<1>2. ASSUME NEW c \in Callers, ReadMeta(c) PROVE Goal
  BY <1>2 DEF ReadMeta, Goto, bufferVars, queueVars, turnVars
<1>3. ASSUME NEW c \in Callers, ReadState(c) PROVE Goal
  BY <1>3 DEF ReadState, StateOf, Return, Goto, bufferVars, queueVars, turnVars
<1>4. ASSUME NEW c \in Callers, ChangeDelay(c) PROVE Goal
  BY <1>4 DEF ChangeDelay, StateOf, Return, Goto, bufferVars, queueVars, turnVars
<1>5. ASSUME NEW c \in Callers, MarkDirty(c) PROVE Goal
  BY <1>5 DEF MarkDirty, Return, Goto, queueVars, turnVars
<1>6. ASSUME NEW c \in Callers, AddJob(c) PROVE Goal
  BY <1>6 DEF AddJob
<1>7. ASSUME NEW c \in Callers, SetPointer(c) PROVE Goal
  BY <1>7 DEF SetPointer, Return, Goto, queueVars, turnVars
<1>8. ASSUME NEW j \in Jobs, Promote(j) \/ Acquire(j) \/ LockBusy(j) PROVE Goal
  BY <1>8 DEF Promote, Acquire, LockBusy, Step, Goto, bufferVars, turnVars, callVars
<1>9. ASSUME NEW j \in Jobs, Drain(j) \/ ReplanDrain(j) PROVE Goal
  BY <1>9 DEF Drain, ReplanDrain
<1>10. ASSUME NEW j \in Jobs, ReadPointer(j) \/ UnsetPointer(j) \/ ClearDirty(j) PROVE Goal
  BY <1>10 DEF ReadPointer, UnsetPointer, ClearDirty, Step
<1>11. ASSUME NEW j \in Jobs, CountPending(j) PROVE Goal
  BY <1>11 DEF CountPending, Step, Goto, bufferVars
<1>12. ASSUME NEW j \in Jobs, ReleaseLock(j) PROVE Goal
  BY <1>12 DEF ReleaseLock, Step, bufferVars, queueVars, callVars
<1>13. ASSUME NEW j \in Jobs, Finish(j) \/ Stalled(j) PROVE Goal
  BY <1>13 DEF Finish, Stalled, Forget
<1>14. ASSUME NEW j \in Jobs, NEW m \in Msgs, HandleEntry(j, m) \/ Requeue(j, m) \/ DeferEntry(j, m) PROVE Goal
  BY <1>14 DEF HandleEntry, Requeue, DeferEntry
<1>15. ASSUME NEW d \in Defers, Reinject(d) PROVE Goal
  BY <1>15 DEF Reinject, Goto
<1>16. ASSUME NEW d \in Defers, DeferDone(d) PROVE Goal
  BY <1>16 DEF DeferDone, bufferVars, queueVars, turnVars, callVars
<1>17. CASE LeaseExpires
  BY <1>17 DEF LeaseExpires, bufferVars, queueVars, callVars
<1>18. ASSUME \/ Crash \/ \E c \in Callers : LookFails(c) \/ CallFails(c) \/ \E j \in Jobs : TurnFails(j) PROVE FALSE
  BY <1>18 DEF Crash, LookFails, CallFails, TurnFails
<1>19. CASE UNCHANGED vars
  BY <1>19 DEF vars, bufferVars, queueVars, turnVars, callVars
<1> QED
  BY <1>1, <1>2, <1>3, <1>4, <1>5, <1>6, <1>7, <1>8, <1>9, <1>10, <1>11, <1>12, <1>13, <1>14,
     <1>15, <1>16, <1>17, <1>18, <1>19 DEF Next, ScheduleTurn, Turn

\* While nothing fails a stranded entry has left its marks: the dirty mark is up and the pointer
\* names a job that is over, so the next message of the chat rescues it (turn-scheduler.ts, actor.ts
\* 437-442), for any number of entries, jobs, defers and replays.
THEOREM StrandedEntriesAreMarked == Spec => []StrandedIsMarked
<1>1. Init => WakeupInv
  BY DEF Init, WakeupInv
<1>2. TypeInv /\ EntryInv /\ WakeupInv /\ [Next]_vars => WakeupInv'
  BY WakeupStep
<1>3. WakeupInv => StrandedIsMarked
  BY DEF WakeupInv, StrandedIsMarked, Stranded, Awake, Calling, Scheduling, Reusing, WillLook
<1> QED
  BY <1>1, <1>2, <1>3, EntryAlways, PTL DEF Spec
----------------------------------------------------------------------------
(* TurnScheduler implements EntryPath.  The places of an entry are pairwise *)
(* apart (EntryInv), so a step is known by what it does to the five sets.   *)

LEMMA InBurstsIs == ASSUME NEW m PROVE m \in InBursts <=> \E j \in Jobs : m \in burst[j]
  BY DEF InBursts

LEMMA InDefersIs ==
    ASSUME NEW m PROVE m \in InDefers <=> \E d \in Defers : Carries(d) /\ held[d] = m
  BY DEF InDefers, Carries

Placed ==
    \A m \in Msgs :
        /\ Place(m) = "queued" <=> m \in pending
        /\ Place(m) = "claimed" <=> m \in InBursts
        /\ Place(m) = "deferred" <=> m \in InDefers
        /\ Place(m) = "done" <=> m \in handled
        /\ Place(m) = "lost" <=> m \in lost
        /\ Place(m) = "unsent" <=> m \notin sent
        /\ Place(m) \in {"queued", "claimed", "deferred", "done", "lost", "unsent"}

LEMMA PlaceIs == EntryInv => Placed
<1> SUFFICES ASSUME EntryInv, NEW m \in Msgs
             PROVE  /\ Place(m) = "queued" <=> m \in pending
                    /\ Place(m) = "claimed" <=> m \in InBursts
                    /\ Place(m) = "deferred" <=> m \in InDefers
                    /\ Place(m) = "done" <=> m \in handled
                    /\ Place(m) = "lost" <=> m \in lost
                    /\ Place(m) = "unsent" <=> m \notin sent
                    /\ Place(m) \in {"queued", "claimed", "deferred", "done", "lost", "unsent"}
  BY DEF Placed
<1>1. m \in InBursts => m \notin pending \cup handled \cup lost
  BY InBurstsIs DEF EntryInv, Apart
<1>2. m \in InDefers => m \notin pending \cup handled \cup lost \cup InBursts
  BY InBurstsIs, InDefersIs DEF EntryInv, Apart
<1>3. m \notin pending \cap handled /\ m \notin pending \cap lost /\ m \notin handled \cap lost
  BY DEF EntryInv, Apart
<1>4. m \in sent <=> m \in pending \cup handled \cup lost \cup InBursts \cup InDefers
  BY InBurstsIs, InDefersIs DEF EntryInv, Conserved
<1>5. m \in InBursts <=> \E j \in Jobs : m \in burst[j]
  BY InBurstsIs
<1> QED
  BY <1>1, <1>2, <1>3, <1>4, <1>5 DEF Place

LEMMA MoveIs ==
    ASSUME NEW S, NEW to, \A x \in Msgs : Place(x)' = IF x \in S THEN to ELSE Place(x)
    PROVE  Path!Move(S, to)
  BY DEF Path!Move

LEMMA PathInit == Init => Path!Init
<1> SUFFICES ASSUME Init PROVE Path!Init
  OBVIOUS
<1>1. \A m \in Msgs : Place(m) = "unsent"
  BY DEF Init, Place, InBursts, InDefers
<1> QED
  BY <1>1 DEF Init, Path!Init

\* A step that leaves the entries where they are.
LEMMA PathStays ==
    ASSUME UNCHANGED <<pending, burst, handled, lost, replays>>, InDefers' = InDefers
    PROVE  UNCHANGED Path!vars
<1>1. \A m \in Msgs : Place(m)' = Place(m)
  BY DEF Place, InBursts
<1> QED
  BY <1>1 DEF Path!vars

LEMMA PathStep ==
    TypeInv /\ EntryInv /\ [Next]_vars => [Path!Next]_Path!vars
<1> SUFFICES ASSUME TypeInv, EntryInv, [Next]_vars PROVE [Path!Next]_Path!vars
  OBVIOUS
<1>p. Placed /\ Placed'
  <2>1. EntryInv'
    BY EntryStep
  <2>2. EntryInv' => Placed'
    BY PlaceIs, PTL
  <2> QED
    BY <2>1, <2>2, PlaceIs
<1>s. Shape
  BY DEF EntryInv
<1>t. /\ pending \subseteq Msgs /\ sent \subseteq Msgs
      /\ handled \subseteq Msgs /\ lost \subseteq Msgs
      /\ burst \in [Jobs -> SUBSET Msgs] /\ InBursts \subseteq Msgs
      /\ defer \in [Defers -> {"none", "delayed", "active", "done"}]
      /\ held \in [Defers -> Msgs \cup {None}] /\ injected \subseteq Defers
      /\ replays \in [Msgs -> 0..MaxReplays]
  BY DEF TypeInv, TypeOK, InBursts
<1> USE SetsAssumption DEF SetsAssumption
<1>1. ASSUME NEW m \in Msgs, Append(m) PROVE Path!Send(m)
  <2>1. /\ m \notin sent /\ sent' = sent \cup {m} /\ pending' = pending \cup {m}
        /\ UNCHANGED <<burst, handled, lost, replays, defer, held, injected>>
    BY <1>1 DEF Append, turnVars, deferVars
  <2>2. InBursts' = InBursts /\ InDefers' = InDefers
    BY <2>1 DEF InBursts, InDefers
  <2>3. \A x \in Msgs : Place(x)' = IF x \in {m} THEN "queued" ELSE Place(x)
    BY <1>p, <2>1, <2>2 DEF Placed
  <2> QED
    BY <1>p, <2>1, <2>3, MoveIs DEF Placed, Path!Send
<1>2. ASSUME NEW j \in Jobs, Drain(j) \/ ReplanDrain(j) PROVE Path!Claim
  <2>1. /\ burst' = [burst EXCEPT ![j] = @ \cup pending] /\ pending' = {}
        /\ UNCHANGED <<sent, handled, lost, replays, defer, held, injected>>
    BY <1>2, <1>s, <1>t DEF Drain, ReplanDrain, Shape, deferVars, history
  <2>2. InBursts' = InBursts \cup pending /\ InDefers' = InDefers
    BY <1>t, <2>1 DEF InBursts, InDefers
  <2>3. \A x \in Msgs : Place(x)' = IF x \in Path!At("queued") THEN "claimed" ELSE Place(x)
    BY <1>p, <2>1, <2>2 DEF Placed, Path!At
  <2> QED
    BY <2>1, <2>3, MoveIs DEF Path!Claim
<1>3. ASSUME NEW j \in Jobs, NEW m \in Msgs, HandleEntry(j, m) PROVE Path!SeeTo(m)
  <2>1. /\ m \in burst[j] /\ burst' = [burst EXCEPT ![j] = @ \ {m}] /\ handled' = handled \cup {m}
        /\ UNCHANGED <<pending, sent, lost, replays, defer, held, injected>>
    BY <1>3 DEF HandleEntry, bufferVars, deferVars
  <2>2. m \in InBursts /\ InBursts' = InBursts \ {m} /\ InDefers' = InDefers
    BY <1>t, <2>1 DEF InBursts, InDefers, EntryInv, Apart
  <2>3. \A x \in Msgs : Place(x)' = IF x \in {m} THEN "done" ELSE Place(x)
    BY <1>p, <2>1, <2>2 DEF Placed
  <2> QED
    BY <1>p, <2>1, <2>2, <2>3, MoveIs DEF Placed, Path!SeeTo
<1>4. ASSUME NEW j \in Jobs, NEW m \in Msgs, Requeue(j, m) PROVE Path!GoRound(m)
  <2>1. /\ m \in burst[j] /\ burst' = [burst EXCEPT ![j] = @ \ {m}] /\ pending' = pending \cup {m}
        /\ replays[m] < MaxReplays /\ replays' = [replays EXCEPT ![m] = @ + 1]
        /\ UNCHANGED <<handled, sent, lost, defer, held, injected>>
    BY <1>4 DEF Requeue, history
  <2>2. m \in InBursts /\ InBursts' = InBursts \ {m} /\ InDefers' = InDefers
    BY <1>t, <2>1 DEF InBursts, InDefers, EntryInv, Apart
  <2>3. \A x \in Msgs : Place(x)' = IF x \in {m} THEN "queued" ELSE Place(x)
    BY <1>p, <2>1, <2>2 DEF Placed
  <2> QED
    BY <1>p, <2>1, <2>2, <2>3, MoveIs DEF Placed, Path!GoRound
<1>5. ASSUME NEW j \in Jobs, NEW m \in Msgs, DeferEntry(j, m) PROVE Path!GoRound(m)
  <2>1. PICK d \in Defers : /\ defer[d] = "none"
                            /\ defer' = [defer EXCEPT ![d] = "delayed"]
                            /\ held' = [held EXCEPT ![d] = m]
    BY <1>5 DEF DeferEntry, EnqueueDefer
  <2>2. /\ m \in burst[j] /\ burst' = [burst EXCEPT ![j] = @ \ {m}]
        /\ replays[m] < MaxReplays /\ replays' = [replays EXCEPT ![m] = @ + 1]
        /\ UNCHANGED <<pending, handled, sent, lost, injected>>
    BY <1>5 DEF DeferEntry, EnqueueDefer, bufferVars, history
  <2>3. m \in InBursts /\ InBursts' = InBursts \ {m}
    BY <1>t, <2>2 DEF InBursts, EntryInv, Apart
  <2>4. InDefers' = InDefers \cup {m}
    BY <1>s, <1>t, <2>1, <2>2 DEF InDefers, Shape
  <2>5. \A x \in Msgs : Place(x)' = IF x \in {m} THEN "deferred" ELSE Place(x)
    BY <1>p, <2>2, <2>3, <2>4 DEF Placed
  <2> QED
    BY <1>p, <2>2, <2>3, <2>5, MoveIs DEF Placed, Path!GoRound
<1>6. ASSUME NEW d \in Defers, Reinject(d) PROVE [Path!Next]_Path!vars
  <2>1. /\ UNCHANGED <<burst, handled, sent, lost, replays, held>> /\ defer[d] = "delayed"
        /\ defer' = [defer EXCEPT ![d] = "active"] /\ injected' = injected \cup {d}
        /\ pending' = IF d \in injected THEN pending ELSE pending \cup {held[d]}
    BY <1>6 DEF Reinject, turnVars, history
  <2>2. CASE d \in injected
    <3>1. InDefers' = InDefers
      BY <1>t, <2>1, <2>2 DEF InDefers
    <3> QED
      BY <2>1, <2>2, <3>1, PathStays
  <2>3. CASE d \notin injected
    <3>1. held[d] \in Msgs /\ held[d] \in InDefers
      BY <1>t, <2>1, <2>3 DEF TypeInv, TypeOK, InDefers
    <3>2. InDefers' = InDefers \ {held[d]} /\ InBursts' = InBursts
      BY <1>t, <2>1, <2>3 DEF InDefers, InBursts, EntryInv, Apart, Carries
    <3>3. \A x \in Msgs : Place(x)' = IF x \in {held[d]} THEN "queued" ELSE Place(x)
      BY <1>p, <2>1, <2>3, <3>1, <3>2 DEF Placed
    <3>4. Path!ComeBack(held[d])
      BY <1>p, <2>1, <3>1, <3>3, MoveIs DEF Placed, Path!ComeBack
    <3> QED
      BY <3>1, <3>4 DEF Path!Next
  <2> QED
    BY <2>2, <2>3
<1>7. ASSUME Crash PROVE Path!Lose
  <2>1. /\ UNCHANGED <<pending, handled, sent, replays, held, injected>>
        /\ lost' = lost \cup InBursts /\ burst' = [j \in Jobs |-> {}]
        /\ \A d \in Defers : defer'[d] = "none" <=> defer[d] = "none"
    BY <1>7 DEF Crash, InBursts, bufferVars
  <2>2. InBursts' = {} /\ InDefers' = InDefers
    BY <2>1 DEF InBursts, InDefers
  <2>3. \A x \in Msgs : Place(x)' = IF x \in Path!At("claimed") THEN "lost" ELSE Place(x)
    BY <1>p, <2>1, <2>2 DEF Placed, Path!At
  <2> QED
    BY <2>1, <2>3, MoveIs DEF Path!Lose
<1>8. ASSUME NEW c \in Callers, ScheduleTurn(c) PROVE UNCHANGED Path!vars
  <2>1. UNCHANGED <<pending, burst, handled, lost, replays, held, injected>>
        /\ \A d \in Defers : defer'[d] = "none" <=> defer[d] = "none"
    BY <1>t, <1>8 DEF ScheduleTurn, ReadMeta, ReadState, ChangeDelay, MarkDirty, AddJob,
       SetPointer, bufferVars, turnVars, deferVars, history
  <2> QED
    BY <2>1, PathStays DEF InDefers
\* A retried defer job is queued again: it was active.
<1>9. ASSUME NEW c \in Callers, LookFails(c) \/ CallFails(c) PROVE UNCHANGED Path!vars
  <2>1. UNCHANGED <<pending, burst, handled, lost, replays, held, injected>>
        /\ \A d \in Defers : defer'[d] = "none" <=> defer[d] = "none"
    BY <1>t, <1>9 DEF LookFails, CallFails, TypeInv, DeferCalls, bufferVars, turnVars, deferVars, history
  <2> QED
    BY <2>1, PathStays DEF InDefers
<1>10. ASSUME NEW j \in Jobs, Promote(j) PROVE UNCHANGED Path!vars
  <2>1. UNCHANGED <<pending, burst, handled, lost, replays, held, injected>>
        /\ \A d \in Defers : defer'[d] = "none" <=> defer[d] = "none"
    BY <1>t, <1>10 DEF Promote, bufferVars, turnVars, deferVars, history
  <2> QED
    BY <2>1, PathStays DEF InDefers
<1>11. ASSUME NEW j \in Jobs, Acquire(j) \/ LockBusy(j) \/ ReleaseLock(j) PROVE UNCHANGED Path!vars
  <2>1. UNCHANGED <<pending, burst, handled, lost, replays, held, injected>>
        /\ \A d \in Defers : defer'[d] = "none" <=> defer[d] = "none"
    BY <1>t, <1>11 DEF Acquire, LockBusy, ReleaseLock, bufferVars, deferVars, history
  <2> QED
    BY <2>1, PathStays DEF InDefers
<1>12. ASSUME NEW j \in Jobs, Finish(j) \/ Stalled(j) PROVE UNCHANGED Path!vars
  <2>1. UNCHANGED <<pending, burst, handled, lost, replays, held, injected>>
        /\ \A d \in Defers : defer'[d] = "none" <=> defer[d] = "none"
    BY <1>t, <1>12 DEF Finish, Stalled, deferVars, history
  <2> QED
    BY <2>1, PathStays DEF InDefers
<1>13. ASSUME NEW j \in Jobs,
             ReadPointer(j) \/ UnsetPointer(j) \/ ClearDirty(j) \/ CountPending(j) \/ TurnFails(j)
      PROVE UNCHANGED Path!vars
  <2>1. UNCHANGED <<pending, burst, handled, lost, replays, held, injected, defer>>
    BY <1>13 DEF ReadPointer, UnsetPointer, ClearDirty, CountPending, TurnFails, bufferVars,
       deferVars, history
  <2> QED
    BY <2>1, PathStays DEF InDefers
<1>14. ASSUME NEW d \in Defers, DeferDone(d) PROVE UNCHANGED Path!vars
  <2>1. UNCHANGED <<pending, burst, handled, lost, replays, held, injected>>
        /\ \A e \in Defers : defer'[e] = "none" <=> defer[e] = "none"
    BY <1>t, <1>14 DEF DeferDone, bufferVars, turnVars, history
  <2> QED
    BY <2>1, PathStays DEF InDefers
<1>15. ASSUME LeaseExpires \/ UNCHANGED vars PROVE UNCHANGED Path!vars
  <2>1. UNCHANGED <<pending, burst, handled, lost, replays, held, injected, defer>>
    BY <1>15 DEF LeaseExpires, vars, bufferVars, turnVars, deferVars, history
  <2> QED
    BY <2>1, PathStays DEF InDefers
<1> QED
  BY <1>1, <1>2, <1>3, <1>4, <1>5, <1>6, <1>7, <1>8, <1>9, <1>10, <1>11, <1>12, <1>13, <1>14,
     <1>15 DEF Next, Turn, Path!Next

\* Every behaviour of the turn path, with its lost leases, failed calls and crashes, is
\* one of EntryPath: what the scheduler, the lock and the defer jobs do to an entry is
\* one of the six moves, and no entry moves back from done or lost.
THEOREM TurnPathImplementsEntryPath == Spec => ImplementsEntryPath
<1>1. Spec => [](TypeInv /\ EntryInv)
  BY EntryAlways
<1> QED
  BY <1>1, PathInit, PathStep, PTL DEF Spec, ImplementsEntryPath, Path!Spec
=============================================================================
