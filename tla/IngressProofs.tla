---------------------------- MODULE IngressProofs ----------------------------
(***************************************************************************)
(* Proofs about Ingress, for any number of updates, connections, faults    *)
(* and restarts.                                                           *)
(***************************************************************************)
EXTENDS Ingress, FiniteSetTheorems, TLAPS

LEMMA TypeInit == Init => TypeOK
<1> SUFFICES ASSUME Init PROVE TypeOK
  OBVIOUS
<1> USE UpdatesAssumption DEF UpdatesAssumption, Init, Idle, NoUpdate
<1>1. WorldTypes
  <2>1. arrived \in 0 .. MaxUpdates /\ waiting \subseteq Updates /\ marked \subseteq Updates
    OBVIOUS
  <2> QED
    BY <2>1 DEF WorldTypes
<1>2. ProcessTypes
  BY DEF ProcessTypes
<1>3. HandlerTypes
  BY DEF HandlerTypes
<1>4. HistoryTypes
  BY DEF HistoryTypes
<1> QED
  BY <1>1, <1>2, <1>3, <1>4 DEF TypeOK

LEMMA TypeStep == TypeOK /\ [Next]_vars => TypeOK'
<1> SUFFICES ASSUME TypeOK, [Next]_vars PROVE TypeOK'
  OBVIOUS
<1> Loop \in Slots /\ Conns \subseteq Slots
  BY DEF Slots
<1> USE UpdatesAssumption DEF TypeOK, Idle, NoUpdate, telegram, process, handlers, history, bounds, Fault, NoFault
<1>1. ASSUME Arrive PROVE TypeOK'
  <2>1. WorldTypes'
    <3>1. arrived' \in 0 .. MaxUpdates /\ waiting' \subseteq Updates
      BY <1>1 DEF Arrive, WorldTypes, UpdatesAssumption, Updates
    <3> QED
      BY <3>1, <1>1 DEF Arrive, WorldTypes
  <2>2. ProcessTypes' /\ HandlerTypes' /\ HistoryTypes'
    BY <1>1 DEF Arrive, ProcessTypes, HandlerTypes, HistoryTypes
  <2> QED
    BY <2>1, <2>2
<1>2. ASSUME Outage PROVE TypeOK'
  <2>1. WorldTypes'
    BY <1>2 DEF Outage, WorldTypes
  <2>2. ProcessTypes' /\ HandlerTypes' /\ HistoryTypes'
    BY <1>2 DEF Outage, ProcessTypes, HandlerTypes, HistoryTypes
  <2> QED
    BY <2>1, <2>2
<1>3. ASSUME Stop PROVE TypeOK'
  <2>1. WorldTypes'
    BY <1>3 DEF Stop, WorldTypes
  <2>2. ProcessTypes'
    BY <1>3 DEF Stop, ProcessTypes
  <2>3. HistoryTypes'
    BY <1>3 DEF Stop, HistoryTypes
  <2>4. HandlerTypes'
    BY <1>3 DEF Stop, HandlerTypes
  <2> QED
    BY <2>1, <2>2, <2>3, <2>4
<1>4. ASSUME Boot PROVE TypeOK'
  <2>1. WorldTypes'
    BY <1>4 DEF Boot, BootInto, WorldTypes
  <2>2. ProcessTypes'
    BY <1>4 DEF Boot, BootInto, ProcessTypes
  <2>3. HandlerTypes' /\ HistoryTypes'
    BY <1>4 DEF Boot, BootInto, HandlerTypes, HistoryTypes
  <2> QED
    BY <2>1, <2>2, <2>3
<1>5. ASSUME Ready PROVE TypeOK'
  <2>1. WorldTypes'
    BY <1>5 DEF Ready, WorldTypes
  <2>2. ProcessTypes'
    BY <1>5 DEF Ready, ProcessTypes
  <2>3. HandlerTypes' /\ HistoryTypes'
    BY <1>5 DEF Ready, HandlerTypes, HistoryTypes
  <2> QED
    BY <2>1, <2>2, <2>3
<1>6. ASSUME Stopped PROVE TypeOK'
  <2>1. ProcessTypes'
    BY <1>6 DEF Stopped, Exit, ProcessTypes
  <2>2. HandlerTypes'
    BY <1>6 DEF Stopped, Exit, HandlerTypes
  <2>3. HistoryTypes'
    <3>1. cut' \subseteq Updates
      BY <1>6 DEF Stopped, Exit, Unfinished, HandlerTypes, HistoryTypes
    <3> QED
      BY <3>1, <1>6 DEF Stopped, Exit, HistoryTypes
  <2>4. WorldTypes'
    BY <1>6 DEF Stopped, Exit, WorldTypes
  <2> QED
    BY <2>1, <2>2, <2>3, <2>4
<1>7. ASSUME FailOver PROVE TypeOK'
  <2>1. ProcessTypes'
    BY <1>7 DEF FailOver, Watch, ProcessTypes
  <2>2. WorldTypes' /\ HandlerTypes' /\ HistoryTypes'
    BY <1>7 DEF FailOver, Watch, WorldTypes, HandlerTypes, HistoryTypes
  <2> QED
    BY <2>1, <2>2
<1>8. ASSUME NoteSince PROVE TypeOK'
  <2>1. WorldTypes'
    BY <1>8 DEF NoteSince, Watch, WorldTypes
  <2>2. ProcessTypes'
    BY <1>8 DEF NoteSince, Watch, ProcessTypes
  <2>3. HandlerTypes' /\ HistoryTypes'
    BY <1>8 DEF NoteSince, Watch, HandlerTypes, HistoryTypes
  <2> QED
    BY <2>1, <2>2, <2>3
<1>9. ASSUME Recover PROVE TypeOK'
  <2>1. ProcessTypes'
    BY <1>9 DEF Recover, Watch, ProcessTypes
  <2>2. WorldTypes' /\ HandlerTypes' /\ HistoryTypes'
    BY <1>9 DEF Recover, Watch, WorldTypes, HandlerTypes, HistoryTypes
  <2> QED
    BY <2>1, <2>2
<1>10. ASSUME WriteFlag PROVE TypeOK'
  <2>1. WorldTypes'
    BY <1>10 DEF WriteFlag, Watch, Other, WorldTypes
  <2>2. ProcessTypes'
    BY <1>10 DEF WriteFlag, Watch, Other, ProcessTypes
  <2>3. HandlerTypes' /\ HistoryTypes'
    BY <1>10 DEF WriteFlag, Watch, Other, HandlerTypes, HistoryTypes
  <2> QED
    BY <2>1, <2>2, <2>3
<1>11. ASSUME WriteSince PROVE TypeOK'
  <2>1. WorldTypes'
    BY <1>11 DEF WriteSince, Watch, WorldTypes
  <2>2. ProcessTypes'
    BY <1>11 DEF WriteSince, Watch, ProcessTypes
  <2>3. HandlerTypes' /\ HistoryTypes'
    BY <1>11 DEF WriteSince, Watch, HandlerTypes, HistoryTypes
  <2> QED
    BY <2>1, <2>2, <2>3
<1>12. ASSUME Leave PROVE TypeOK'
  <2>1. ProcessTypes'
    BY <1>12 DEF Leave, Exit, ProcessTypes
  <2>2. HandlerTypes'
    BY <1>12 DEF Leave, Exit, HandlerTypes
  <2>3. HistoryTypes'
    <3>1. cut' \subseteq Updates
      BY <1>12 DEF Leave, Exit, Unfinished, HandlerTypes, HistoryTypes
    <3> QED
      BY <3>1, <1>12 DEF Leave, Exit, HistoryTypes
  <2>4. WorldTypes'
    BY <1>12 DEF Leave, Exit, WorldTypes
  <2> QED
    BY <2>1, <2>2, <2>3, <2>4
<1>13. ASSUME GrowUp PROVE TypeOK'
  <2>1. ProcessTypes'
    BY <1>13 DEF GrowUp, ProcessTypes
  <2>2. WorldTypes' /\ HandlerTypes' /\ HistoryTypes'
    BY <1>13 DEF GrowUp, WorldTypes, HandlerTypes, HistoryTypes
  <2> QED
    BY <2>1, <2>2
<1>14. ASSUME BeatAges PROVE TypeOK'
  <2>1. WorldTypes'
    BY <1>14 DEF BeatAges, WorldTypes
  <2>2. ProcessTypes' /\ HandlerTypes' /\ HistoryTypes'
    BY <1>14 DEF BeatAges, ProcessTypes, HandlerTypes, HistoryTypes
  <2> QED
    BY <2>1, <2>2
<1>15. ASSUME SinceAges PROVE TypeOK'
  <2>1. WorldTypes'
    BY <1>15 DEF SinceAges, WorldTypes
  <2>2. ProcessTypes' /\ HandlerTypes' /\ HistoryTypes'
    BY <1>15 DEF SinceAges, ProcessTypes, HandlerTypes, HistoryTypes
  <2> QED
    BY <2>1, <2>2
<1>16. ASSUME Fetch PROVE TypeOK'
  <2>1. WorldTypes'
    BY <1>16 DEF Fetch, CanFetch, WorldTypes
  <2>2. HandlerTypes'
    <3>1. batch' \subseteq Updates
      BY <1>16 DEF Fetch, CanFetch, WorldTypes
    <3> QED
      BY <3>1, <1>16 DEF Fetch, CanFetch, HandlerTypes
  <2>3. ProcessTypes' /\ HistoryTypes'
    BY <1>16 DEF Fetch, CanFetch, ProcessTypes, HistoryTypes
  <2> QED
    BY <2>1, <2>2, <2>3
<1>17. ASSUME Take PROVE TypeOK'
  <2>1. HandlerTypes'
    BY <1>17 DEF Take, HandlerTypes
  <2>2. WorldTypes' /\ ProcessTypes' /\ HistoryTypes'
    BY <1>17 DEF Take, WorldTypes, ProcessTypes, HistoryTypes
  <2> QED
    BY <2>1, <2>2
<1>18. ASSUME NEW c \in Conns, NEW u \in Updates, Push(c, u) PROVE TypeOK'
  <2>1. HandlerTypes'
    BY <1>18 DEF Push, HandlerTypes
  <2>2. WorldTypes' /\ ProcessTypes' /\ HistoryTypes'
    BY <1>18 DEF Push, WorldTypes, ProcessTypes, HistoryTypes
  <2> QED
    BY <2>1, <2>2
<1>19. ASSUME NEW s \in Slots, Duplicate(s) PROVE TypeOK'
  <2>1. WorldTypes'
    BY <1>19 DEF Duplicate, End, WorldTypes
  <2>2. HandlerTypes'
    BY <1>19 DEF Duplicate, End, HandlerTypes
  <2>3. ProcessTypes' /\ HistoryTypes'
    BY <1>19 DEF Duplicate, End, ProcessTypes, HistoryTypes
  <2> QED
    BY <2>1, <2>2, <2>3
<1>20. ASSUME NEW s \in Slots, Mark(s) PROVE TypeOK'
  <2>1. WorldTypes'
    <3>1. marked' \subseteq Updates
      BY <1>20 DEF Mark, HandlerTypes, WorldTypes
    <3> QED
      BY <3>1, <1>20 DEF Mark, WorldTypes
  <2>2. HandlerTypes'
    BY <1>20 DEF Mark, HandlerTypes
  <2>3. ProcessTypes' /\ HistoryTypes'
    BY <1>20 DEF Mark, ProcessTypes, HistoryTypes
  <2> QED
    BY <2>1, <2>2, <2>3
<1>21. ASSUME NEW s \in Slots, CheckFails(s) PROVE TypeOK'
  <2>1. WorldTypes'
    <3>1. marked' \subseteq Updates
      BY <1>21 DEF CheckFails, HandlerTypes, WorldTypes
    <3> QED
      BY <3>1, <1>21 DEF CheckFails, WorldTypes
  <2>2. HandlerTypes'
    BY <1>21 DEF CheckFails, HandlerTypes
  <2>3. HistoryTypes'
    <3>1. update[s] \in Updates
      BY <1>21 DEF CheckFails, HandlerTypes
    <3> QED
      BY <3>1, <1>21 DEF CheckFails, HistoryTypes
  <2>4. ProcessTypes'
    BY <1>21 DEF CheckFails, ProcessTypes
  <2> QED
    BY <2>1, <2>2, <2>3, <2>4
<1>22. ASSUME NEW s \in Slots, Finish(s) PROVE TypeOK'
  <2>1. WorldTypes'
    BY <1>22 DEF Finish, End, WorldTypes
  <2>2. HandlerTypes'
    BY <1>22 DEF Finish, End, HandlerTypes
  <2>3. HistoryTypes'
    <3>1. update[s] \in Updates
      BY <1>22 DEF Finish, End, HandlerTypes
    <3> QED
      BY <3>1, <1>22 DEF Finish, End, HistoryTypes
  <2>4. ProcessTypes'
    BY <1>22 DEF Finish, End, ProcessTypes
  <2> QED
    BY <2>1, <2>2, <2>3, <2>4
<1>23. ASSUME NEW s \in Slots, HandlerThrows(s) PROVE TypeOK'
  <2>1. WorldTypes'
    BY <1>23 DEF HandlerThrows, End, WorldTypes
  <2>2. HandlerTypes'
    BY <1>23 DEF HandlerThrows, End, HandlerTypes
  <2>3. HistoryTypes'
    <3>1. update[s] \in Updates
      BY <1>23 DEF HandlerThrows, End, HandlerTypes
    <3> QED
      BY <3>1, <1>23 DEF HandlerThrows, End, HistoryTypes
  <2>4. ProcessTypes'
    BY <1>23 DEF HandlerThrows, End, ProcessTypes
  <2> QED
    BY <2>1, <2>2, <2>3, <2>4
<1>24. ASSUME BootUnread PROVE TypeOK'
  <2>1. WorldTypes'
    BY <1>24 DEF BootUnread, BootInto, WorldTypes
  <2>2. ProcessTypes'
    BY <1>24 DEF BootUnread, BootInto, ProcessTypes
  <2>3. HistoryTypes'
    BY <1>24 DEF BootUnread, BootInto, HistoryTypes
  <2>4. HandlerTypes'
    BY <1>24 DEF BootUnread, BootInto, HandlerTypes
  <2> QED
    BY <2>1, <2>2, <2>3, <2>4
<1>25. ASSUME Crash PROVE TypeOK'
  <2>1. ProcessTypes'
    BY <1>25 DEF Crash, Exit, ProcessTypes
  <2>2. HandlerTypes'
    BY <1>25 DEF Crash, Exit, HandlerTypes
  <2>3. HistoryTypes'
    <3>1. cut' \subseteq Updates
      BY <1>25 DEF Crash, Exit, Unfinished, HandlerTypes, HistoryTypes
    <3> QED
      BY <3>1, <1>25 DEF Crash, Exit, HistoryTypes
  <2>4. WorldTypes'
    BY <1>25 DEF Crash, Exit, WorldTypes
  <2> QED
    BY <2>1, <2>2, <2>3, <2>4
<1>26. ASSUME SwitchFails PROVE TypeOK'
  <2>1. ProcessTypes'
    BY <1>26 DEF SwitchFails, Watch, ProcessTypes
  <2>2. HistoryTypes'
    BY <1>26 DEF SwitchFails, Watch, HistoryTypes
  <2>3. WorldTypes' /\ HandlerTypes'
    BY <1>26 DEF SwitchFails, Watch, WorldTypes, HandlerTypes
  <2> QED
    BY <2>1, <2>2, <2>3
<1>27. ASSUME UNCHANGED vars PROVE TypeOK'
  BY <1>27 DEF vars, WorldTypes, ProcessTypes, HandlerTypes, HistoryTypes
<1> QED
  BY <1>1, <1>2, <1>3, <1>4, <1>5, <1>6, <1>7, <1>8, <1>9, <1>10, <1>11, <1>12, <1>13, <1>14, <1>15, <1>16, <1>17, <1>18, <1>19, <1>20, <1>21, <1>22, <1>23, <1>24, <1>25, <1>26, <1>27
     DEF Next, Startup, Watchdog, Time, Polling, Pushed, Advance

\* Type correctness of the flags in Redis, the process and its handlers.
THEOREM TypeCorrect == Spec => []TypeOK
  BY TypeInit, TypeStep, PTL DEF Spec
----------------------------------------------------------------------------
(* How often an update is handled.                                          *)

\* The handlers past their check, for one update.
Working(u) == {s \in Slots : at[s] = "working" /\ update[s] = u}
Marks(u) == IF u \in marked THEN 1 ELSE 0

\* Each mark and each failed check lets one handler through.
Passes ==
    \A u \in Updates : handled[u] + Cardinality(Working(u)) <= Marks(u) + opened[u]

LEMMA WorkingFinite == \A u \in Updates : IsFiniteSet(Working(u)) /\ Cardinality(Working(u)) \in Nat
<1>1. IsFiniteSet(Slots)
  BY SlotsAssumption, FS_Singleton, FS_Union DEF SlotsAssumption, Slots
<1> QED
  BY <1>1, FS_Subset, FS_CardinalityType DEF Working

LEMMA PassesInit == Init => Passes
<1> SUFFICES ASSUME Init, NEW u \in Updates PROVE handled[u] + Cardinality(Working(u)) <= Marks(u) + opened[u]
  BY DEF Passes
<1>1. Working(u) = {}
  BY DEF Init, Idle, Working
<1> QED
  BY <1>1, FS_EmptySet DEF Init, Marks

\* One handler passes its check, with a new mark or with a failed check.
LEMMA PassStep ==
    ASSUME TypeOK, Passes, NEW s \in Slots, at[s] = "checking",
           at' = [at EXCEPT ![s] = "working"], UNCHANGED update, UNCHANGED handled,
           \A v \in Updates : Marks(v)' + opened'[v] >= Marks(v) + opened[v] + (IF v = update[s] THEN 1 ELSE 0),
           \A v \in Updates : Marks(v)' \in Nat /\ opened'[v] \in Nat
    PROVE  Passes'
<1> SUFFICES ASSUME NEW u \in Updates
             PROVE  handled'[u] + Cardinality(Working(u)') <= Marks(u)' + opened'[u]
  BY DEF Passes
<1>1. handled[u] \in Nat /\ opened[u] \in Nat /\ Marks(u) \in Nat
  BY DEF TypeOK, HistoryTypes, Marks
<1>2. Cardinality(Working(u)) \in Nat /\ IsFiniteSet(Working(u))
  BY WorkingFinite
<1>3. CASE u = update[s]
  <2>1. Working(u)' = Working(u) \union {s} /\ s \notin Working(u)
    BY <1>3 DEF Working, TypeOK, HandlerTypes
  <2>2. Cardinality(Working(u)') = Cardinality(Working(u)) + 1
    BY <2>1, <1>2, FS_AddElement
  <2> QED
    BY <2>2, <1>1, <1>2, <1>3 DEF Passes
<1>4. CASE u # update[s]
  <2>1. Working(u)' = Working(u)
    BY <1>4 DEF Working, TypeOK, HandlerTypes
  <2> QED
    BY <2>1, <1>1, <1>2, <1>4 DEF Passes
<1> QED
  BY <1>3, <1>4

\* One handler ends, or none changes what it does past its check.
LEMMA EndStep ==
    ASSUME TypeOK, Passes, NEW s \in Slots, at[s] = "working",
           at' = [at EXCEPT ![s] = "free"], update' = [update EXCEPT ![s] = 0],
           UNCHANGED <<marked, opened>>,
           handled' = handled \/ handled' = [handled EXCEPT ![update[s]] = @ + 1]
    PROVE  Passes'
<1> SUFFICES ASSUME NEW u \in Updates
             PROVE  handled'[u] + Cardinality(Working(u)') <= Marks(u)' + opened'[u]
  BY DEF Passes
<1>1. handled[u] \in Nat /\ opened[u] \in Nat /\ Marks(u) \in Nat /\ Marks(u)' = Marks(u)
  BY DEF TypeOK, HistoryTypes, Marks
<1>2. Cardinality(Working(u)) \in Nat /\ IsFiniteSet(Working(u))
  BY WorkingFinite
<1>3. CASE u = update[s]
  <2>1. Working(u)' = Working(u) \ {s} /\ s \in Working(u)
    BY <1>3 DEF Working, TypeOK, HandlerTypes
  <2>2. Cardinality(Working(u)') = Cardinality(Working(u)) - 1
    BY <2>1, <1>2, FS_RemoveElement
  <2>3. handled'[u] \in {handled[u], handled[u] + 1}
    BY <1>3 DEF TypeOK, HistoryTypes
  <2> QED
    BY <2>2, <2>3, <1>1, <1>2 DEF Passes
<1>4. CASE u # update[s]
  <2>1. Working(u)' = Working(u)
    BY <1>4 DEF Working, TypeOK, HandlerTypes
  <2>2. handled'[u] = handled[u]
    BY <1>4 DEF TypeOK, HistoryTypes
  <2> QED
    BY <2>1, <2>2, <1>1, <1>2 DEF Passes
<1> QED
  BY <1>3, <1>4

\* No handler passes its check or ends past it.
LEMMA SameStep ==
    ASSUME TypeOK, Passes, UNCHANGED <<marked, handled, opened>>,
           \A u \in Updates : Working(u)' = Working(u) \/ Working(u)' = {}
    PROVE  Passes'
<1> SUFFICES ASSUME NEW u \in Updates
             PROVE  handled'[u] + Cardinality(Working(u)') <= Marks(u)' + opened'[u]
  BY DEF Passes
<1>1. handled[u] \in Nat /\ opened[u] \in Nat /\ Marks(u) \in Nat /\ Marks(u)' = Marks(u)
  BY DEF TypeOK, HistoryTypes, Marks
<1>2. Cardinality(Working(u)) \in Nat /\ IsFiniteSet(Working(u))
  BY WorkingFinite
<1>3. Cardinality(Working(u)') <= Cardinality(Working(u))
  BY <1>2, FS_EmptySet
<1>4. Cardinality(Working(u)') \in Nat
  BY <1>2, FS_EmptySet
<1> QED
  BY <1>1, <1>2, <1>3, <1>4 DEF Passes

LEMMA PassesStep == TypeOK /\ Passes /\ [Next]_vars => Passes'
<1> SUFFICES ASSUME TypeOK, Passes, [Next]_vars PROVE Passes'
  OBVIOUS
<1> Loop \in Slots /\ Conns \subseteq Slots
  BY DEF Slots
<1> USE DEF TypeOK, telegram, process, handlers, history, bounds, Fault, NoFault
<1>1. ASSUME Arrive \/ Outage \/ Stop \/ Boot \/ Ready \/ FailOver \/ NoteSince \/ Recover
             \/ WriteFlag \/ WriteSince \/ GrowUp \/ BeatAges \/ SinceAges \/ Fetch \/ BootUnread \/ SwitchFails \/ UNCHANGED vars
      PROVE  Passes'
  <2>1. UNCHANGED <<marked, at, update, handled, opened>>
    BY <1>1 DEF vars, Arrive, Outage, Stop, Boot, Ready, FailOver, NoteSince, Recover, WriteFlag,
       WriteSince, GrowUp, BeatAges, SinceAges, Fetch, BootUnread, SwitchFails, BootInto, Watch, CanFetch
  <2>2. \A u \in Updates : Working(u)' = Working(u)
    BY <2>1 DEF Working
  <2> QED
    BY <2>1, <2>2, SameStep
<1>2. ASSUME Stopped PROVE Passes'
  <2>1. \A u \in Updates : Working(u)' = {}
    BY <1>2 DEF Stopped, Exit, Working, Idle
  <2> QED
    BY <2>1, <1>2, SameStep DEF Stopped, Exit
<1>3. ASSUME Leave PROVE Passes'
  <2>1. \A u \in Updates : Working(u)' = {}
    BY <1>3 DEF Leave, Exit, Working, Idle
  <2> QED
    BY <2>1, <1>3, SameStep DEF Leave, Exit
<1>4. ASSUME Take PROVE Passes'
  <2>1. \A u \in Updates : Working(u)' = Working(u)
    BY <1>4 DEF Take, Working, HandlerTypes
  <2> QED
    BY <2>1, <1>4, SameStep DEF Take
<1>5. ASSUME NEW c \in Conns, NEW u \in Updates, Push(c, u) PROVE Passes'
  <2>1. \A v \in Updates : Working(v)' = Working(v)
    BY <1>5 DEF Push, Working, HandlerTypes
  <2> QED
    BY <2>1, <1>5, SameStep DEF Push
<1>6. ASSUME NEW s \in Slots, Duplicate(s) PROVE Passes'
  <2>1. \A u \in Updates : Working(u)' = Working(u)
    BY <1>6 DEF Duplicate, End, Working, HandlerTypes
  <2> QED
    BY <2>1, <1>6, SameStep DEF Duplicate, End
<1>7. ASSUME NEW s \in Slots, Mark(s) PROVE Passes'
  <2>1. \A v \in Updates : Marks(v)' \in Nat /\ opened'[v] \in Nat
    BY <1>7 DEF Mark, Marks, HistoryTypes
  <2>2. \A v \in Updates :
          Marks(v)' + opened'[v] >= Marks(v) + opened[v] + (IF v = update[s] THEN 1 ELSE 0)
    BY <1>7 DEF Mark, Marks, HistoryTypes, WorldTypes
  <2> QED
    BY <2>1, <2>2, <1>7, PassStep DEF Mark
<1>8. ASSUME NEW s \in Slots, CheckFails(s) PROVE Passes'
  <2>1. \A v \in Updates : Marks(v)' \in Nat /\ opened'[v] \in Nat
    BY <1>8 DEF CheckFails, Marks, HistoryTypes
  <2>2. \A v \in Updates :
          Marks(v)' + opened'[v] >= Marks(v) + opened[v] + (IF v = update[s] THEN 1 ELSE 0)
    BY <1>8 DEF CheckFails, Marks, HistoryTypes, WorldTypes
  <2> QED
    BY <2>1, <2>2, <1>8, PassStep DEF CheckFails
<1>9. ASSUME NEW s \in Slots, Finish(s) PROVE Passes'
  BY <1>9, EndStep DEF Finish, End
<1>10. ASSUME NEW s \in Slots, HandlerThrows(s) PROVE Passes'
  BY <1>10, EndStep DEF HandlerThrows, End
<1>11. ASSUME Crash PROVE Passes'
  <2>1. \A u \in Updates : Working(u)' = {}
    BY <1>11 DEF Crash, Exit, Working, Idle
  <2> QED
    BY <2>1, <1>11, SameStep DEF Crash, Exit
<1> QED
  BY <1>1, <1>2, <1>3, <1>4, <1>5, <1>6, <1>7, <1>8, <1>9, <1>10, <1>11
     DEF Next, Startup, Watchdog, Time, Polling, Pushed, Advance

\* However often an update is delivered, it is handled once, and once more for each
\* dedup check that failed open.
THEOREM OnceEach == Spec => []HandledOnce
<1>1. Spec => [](TypeOK /\ Passes)
  BY TypeInit, TypeStep, PassesInit, PassesStep, PTL DEF Spec
<1>2. TypeOK /\ Passes => HandledOnce
  <2> SUFFICES ASSUME TypeOK, Passes, NEW u \in Updates PROVE handled[u] <= 1 + opened[u]
    BY DEF HandledOnce
  <2>1. Marks(u) \in {0, 1} /\ handled[u] \in Nat /\ opened[u] \in Nat
    BY DEF Marks, TypeOK, HistoryTypes
  <2> QED
    BY <2>1, WorkingFinite DEF Passes
<1> QED
  BY <1>1, <1>2, PTL
----------------------------------------------------------------------------
(* Where an update is.                                                      *)

\* Updates that are handled, cut short, or past their check in a handler.
Done == {u \in Updates :
           Settled(u) \/ \E s \in Slots : at[s] = "working" /\ update[s] = u}
\* The update the loop is checking.
InLoop == {u \in Updates : at[Loop] = "checking" /\ update[Loop] = u}

\* A marked update is not handled again, so it must be done with.
MarkedIsDone == marked \subseteq Done
\* Telegram lets go of an update when it is done with, or when the loop stops.
GoneIsDone == \A u \in 1 .. arrived : u \in waiting \/ u \in Done \/ (stopping /\ u \in InLoop)
\* The next offset confirms what was tried.
TriedIsDone == \A u \in waiting : u <= tried => u \in Done \/ u \in InLoop
\* What was fetched is handled in the order it was sent.
FetchedInOrder ==
    /\ \A u \in waiting : u > tried => u \in batch \/ \A v \in batch : u > v
    /\ \A v \in batch : v > tried
    /\ tried <= arrived /\ batch \subseteq 1 .. arrived /\ waiting \subseteq 1 .. arrived

Kept == MarkedIsDone /\ GoneIsDone /\ TriedIsDone /\ FetchedInOrder

LEMMA KeptInit == Init => Kept
  BY DEF Init, Kept, MarkedIsDone, GoneIsDone, TriedIsDone, FetchedInOrder

\* What was in a handler when the process ends is cut, or still at Telegram.
LEMMA ExitSettles ==
    ASSUME TypeOK, Exit
    PROVE  /\ Done \subseteq Done' /\ InLoop' = {}
           /\ stopping => \A u \in InLoop : u \in waiting \/ u \in Done'
<1>1. \A u \in Updates : Settled(u) => u \in Done'
  BY DEF Exit, Settled, Done
<1>2. \A s \in Slots : at[s] = "working" => update[s] \in cut'
  BY DEF Exit, Unfinished
<1>3. \A u \in InLoop : stopping /\ u \notin waiting => u \in cut'
  BY DEF Exit, Unfinished, InLoop
<1>4. \A u \in Updates : u \in cut' => u \in Done'
  BY DEF Done, Settled
<1>5. InLoop' = {}
  BY DEF Exit, InLoop, Idle, Slots
<1>6. Done \subseteq Done'
  BY <1>1, <1>2, <1>4 DEF Done
<1> QED
  BY <1>3, <1>4, <1>5, <1>6 DEF InLoop

LEMMA KeptStep == TypeOK /\ Kept /\ [Next]_vars => Kept'
<1> SUFFICES ASSUME TypeOK, Kept, [Next]_vars PROVE Kept'
  OBVIOUS
<1> Loop \in Slots /\ Conns \subseteq Slots
  BY DEF Slots
<1> /\ 1 .. arrived \subseteq Updates /\ arrived \in Nat /\ tried \in Nat
    /\ \A u \in Updates : u \in Nat /\ u > 0
  BY UpdatesAssumption DEF UpdatesAssumption, TypeOK, WorldTypes, HandlerTypes, Updates
<1> USE DEF TypeOK, WorldTypes, HandlerTypes, HistoryTypes, telegram, process, handlers, history, bounds, Fault, NoFault
<1>1. ASSUME Outage \/ Boot \/ Ready \/ FailOver \/ NoteSince \/ Recover \/ WriteFlag
             \/ WriteSince \/ GrowUp \/ BeatAges \/ SinceAges \/ BootUnread \/ SwitchFails
             \/ UNCHANGED vars
      PROVE  Kept'
  <2>1. UNCHANGED <<arrived, waiting, marked, stopping, batch, tried, at, update, handled, cut>>
    BY <1>1 DEF vars, Outage, Boot, Ready, FailOver, NoteSince, Recover, WriteFlag, WriteSince,
       GrowUp, BeatAges, SinceAges, BootUnread, SwitchFails, BootInto, Watch
  <2> QED
    BY <2>1 DEF Kept, MarkedIsDone, GoneIsDone, TriedIsDone, FetchedInOrder, Done, Settled, InLoop
<1>2. ASSUME Arrive PROVE Kept'
  <2>1. /\ UNCHANGED <<marked, stopping, tried, batch>> /\ Done' = Done /\ InLoop' = InLoop
        /\ arrived' = arrived + 1 /\ waiting' = waiting \union {arrived + 1}
    BY <1>2 DEF Arrive, Done, Settled, InLoop
  <2> QED
    BY <2>1 DEF Kept, MarkedIsDone, GoneIsDone, TriedIsDone, FetchedInOrder
<1>3. ASSUME Stop PROVE Kept'
  <2>1. /\ UNCHANGED <<arrived, marked, tried, batch>> /\ Done' = Done /\ InLoop' = InLoop
        /\ stopping' /\ waiting' \subseteq waiting /\ \A u \in waiting : u > tried => u \in waiting'
    BY <1>3 DEF Stop, Done, Settled, InLoop
  <2> QED
    BY <2>1 DEF Kept, MarkedIsDone, GoneIsDone, TriedIsDone, FetchedInOrder
<1>4. ASSUME Stopped PROVE Kept'
  <2>1. /\ UNCHANGED <<arrived, waiting, marked>> /\ stopping' = FALSE /\ tried' = 0 /\ batch' = {}
        /\ Done \subseteq Done' /\ (stopping => \A u \in InLoop : u \in waiting \/ u \in Done')
    BY <1>4, ExitSettles DEF Stopped, Exit
  <2> QED
    BY <2>1 DEF Kept, MarkedIsDone, GoneIsDone, TriedIsDone, FetchedInOrder
<1>5. ASSUME Leave PROVE Kept'
  <2>1. /\ UNCHANGED <<arrived, waiting, marked>> /\ stopping' = FALSE /\ tried' = 0 /\ batch' = {}
        /\ Done \subseteq Done' /\ (stopping => \A u \in InLoop : u \in waiting \/ u \in Done')
    BY <1>5, ExitSettles DEF Leave, Exit
  <2> QED
    BY <2>1 DEF Kept, MarkedIsDone, GoneIsDone, TriedIsDone, FetchedInOrder
<1>6. ASSUME Crash PROVE Kept'
  <2>1. /\ UNCHANGED <<arrived, waiting, marked>> /\ stopping' = FALSE /\ tried' = 0 /\ batch' = {}
        /\ Done \subseteq Done' /\ (stopping => \A u \in InLoop : u \in waiting \/ u \in Done')
    BY <1>6, ExitSettles DEF Crash, Exit
  <2> QED
    BY <2>1 DEF Kept, MarkedIsDone, GoneIsDone, TriedIsDone, FetchedInOrder
<1>7. ASSUME Fetch PROVE Kept'
  <2>1. /\ UNCHANGED <<arrived, marked, stopping, tried>> /\ Done' = Done /\ InLoop' = {} /\ InLoop = {}
        /\ waiting' = {u \in waiting : u > tried} /\ batch' = waiting'
    BY <1>7 DEF Fetch, CanFetch, Done, Settled, InLoop
  <2>2. \A u \in waiting : u <= tried => u \in Done
    BY <2>1 DEF Kept, TriedIsDone
  <2>3. MarkedIsDone'
    BY <2>1 DEF Kept, MarkedIsDone
  <2>4. GoneIsDone'
    BY <2>1, <2>2 DEF Kept, GoneIsDone
  <2>5. TriedIsDone'
    BY <2>1 DEF TriedIsDone
  <2>6. FetchedInOrder'
    BY <2>1 DEF Kept, FetchedInOrder
  <2> QED
    BY <2>3, <2>4, <2>5, <2>6 DEF Kept
<1>8. ASSUME Take PROVE Kept'
  <2>1. PICK u \in batch : /\ \A v \in batch : u <= v
                           /\ tried' = u /\ batch' = batch \ {u} /\ InLoop' = {u} /\ InLoop = {}
    BY <1>8 DEF Take, InLoop
  <2>2. UNCHANGED <<arrived, waiting, marked, stopping>> /\ Done' = Done
    BY <1>8 DEF Take, Done, Settled
  <2>3. \A v \in waiting : v > tried /\ v \notin batch => v > u
    BY <2>1 DEF Kept, FetchedInOrder
  <2>4. MarkedIsDone' /\ GoneIsDone'
    BY <2>1, <2>2 DEF Kept, MarkedIsDone, GoneIsDone
  <2>5. TriedIsDone'
    <3> SUFFICES ASSUME NEW v \in waiting, v <= u PROVE v \in Done \/ v = u
      BY <2>1, <2>2 DEF TriedIsDone
    <3>1. CASE v <= tried
      BY <3>1, <2>1 DEF Kept, TriedIsDone
    <3>2. CASE v > tried
      BY <3>2, <2>1, <2>3
    <3> QED
      BY <3>1, <3>2
  <2>6. FetchedInOrder'
    BY <2>1, <2>2 DEF Kept, FetchedInOrder
  <2> QED
    BY <2>4, <2>5, <2>6 DEF Kept
<1>9. ASSUME NEW c \in Conns, NEW u \in Updates, Push(c, u) PROVE Kept'
  <2>1. UNCHANGED <<arrived, waiting, marked, stopping, tried, batch>> /\ Done' = Done /\ InLoop' = InLoop
    BY <1>9, SlotsAssumption DEF SlotsAssumption, Push, Done, Settled, InLoop
  <2> QED
    BY <2>1 DEF Kept, MarkedIsDone, GoneIsDone, TriedIsDone, FetchedInOrder
<1>10. ASSUME NEW s \in Slots, Mark(s) PROVE Kept'
  <2>1. /\ UNCHANGED <<arrived, waiting, stopping, tried, batch>>
        /\ marked' \subseteq marked \union {update[s]} /\ update[s] \in Updates
    BY <1>10 DEF Mark
  <2>2. Done \subseteq Done' /\ update[s] \in Done'
    BY <1>10, <2>1 DEF Mark, Done, Settled
  <2>3. InLoop \subseteq InLoop' \union {update[s]}
    BY <1>10 DEF Mark, InLoop
  <2> QED
    BY <2>1, <2>2, <2>3 DEF Kept, MarkedIsDone, GoneIsDone, TriedIsDone, FetchedInOrder
<1>11. ASSUME NEW s \in Slots, CheckFails(s) PROVE Kept'
  <2>1. /\ UNCHANGED <<arrived, waiting, stopping, tried, batch>>
        /\ marked' \subseteq marked \union {update[s]} /\ update[s] \in Updates
    BY <1>11 DEF CheckFails
  <2>2. Done \subseteq Done' /\ update[s] \in Done'
    BY <1>11, <2>1 DEF CheckFails, Done, Settled
  <2>3. InLoop \subseteq InLoop' \union {update[s]}
    BY <1>11 DEF CheckFails, InLoop
  <2> QED
    BY <2>1, <2>2, <2>3 DEF Kept, MarkedIsDone, GoneIsDone, TriedIsDone, FetchedInOrder
<1>12. ASSUME NEW s \in Slots, Duplicate(s) PROVE Kept'
  <2>1. /\ UNCHANGED <<arrived, marked, stopping, tried, batch>> /\ update[s] \in Updates
        /\ waiting' \subseteq waiting /\ waiting \subseteq waiting' \union {update[s]}
    BY <1>12 DEF Duplicate, End
  <2>2. Done \subseteq Done'
    BY <1>12 DEF Duplicate, End, Done, Settled
  <2>3. update[s] \in Done'
    BY <1>12, <2>1, <2>2 DEF Duplicate, Kept, MarkedIsDone
  <2>4. InLoop \subseteq InLoop' \union {update[s]}
    BY <1>12 DEF Duplicate, End, InLoop
  <2> QED
    BY <2>1, <2>2, <2>3, <2>4 DEF Kept, MarkedIsDone, GoneIsDone, TriedIsDone, FetchedInOrder
<1>13. ASSUME NEW s \in Slots, Finish(s) PROVE Kept'
  <2>1. /\ UNCHANGED <<arrived, marked, stopping, tried, batch>> /\ update[s] \in Updates
        /\ waiting' \subseteq waiting /\ waiting \subseteq waiting' \union {update[s]}
    BY <1>13 DEF Finish, End
  <2>2. Done \subseteq Done'
    <3>1. \A u \in Updates : handled[u] > 0 => handled'[u] > 0
      BY <1>13 DEF Finish
    <3>2. handled'[update[s]] > 0 /\ UNCHANGED cut
      <4>1. handled'[update[s]] = handled[update[s]] + 1 /\ handled[update[s]] \in Nat
        BY <1>13, <2>1 DEF Finish
      <4> QED
        BY <4>1, <1>13 DEF Finish
    <3>3. \A q \in Slots : at[q] = "working" /\ q # s => at'[q] = "working" /\ update'[q] = update[q]
      BY <1>13 DEF Finish, End
    <3> QED
      BY <3>1, <3>2, <3>3 DEF Done, Settled
  <2>3. update[s] \in Done'
    BY <1>13, <2>1, <2>2 DEF Finish, Done, Settled
  <2>4. InLoop \subseteq InLoop' \union {update[s]}
    BY <1>13 DEF Finish, End, InLoop
  <2> QED
    BY <2>1, <2>2, <2>3, <2>4 DEF Kept, MarkedIsDone, GoneIsDone, TriedIsDone, FetchedInOrder
<1>14. ASSUME NEW s \in Slots, HandlerThrows(s) PROVE Kept'
  <2>1. /\ UNCHANGED <<arrived, marked, stopping, tried, batch>> /\ update[s] \in Updates
        /\ waiting' \subseteq waiting /\ waiting \subseteq waiting' \union {update[s]}
    BY <1>14 DEF HandlerThrows, End
  <2>2. Done \subseteq Done'
    BY <1>14 DEF HandlerThrows, End, Done, Settled
  <2>3. update[s] \in Done'
    BY <1>14, <2>1, <2>2 DEF HandlerThrows, Done, Settled
  <2>4. InLoop \subseteq InLoop' \union {update[s]}
    BY <1>14 DEF HandlerThrows, End, InLoop
  <2> QED
    BY <2>1, <2>2, <2>3, <2>4 DEF Kept, MarkedIsDone, GoneIsDone, TriedIsDone, FetchedInOrder
<1> QED
  BY <1>1, <1>2, <1>3, <1>4, <1>5, <1>6, <1>7, <1>8, <1>9, <1>10, <1>11, <1>12, <1>13, <1>14
     DEF Next, Startup, Watchdog, Time, Polling, Pushed, Advance

\* An update Telegram no longer holds has been handled, or is in a handler, or its
\* handler threw or was cut short by the end of the process.
THEOREM NothingLost == Spec => []NoSilentLoss
<1>1. Spec => []Kept
  BY TypeInit, TypeStep, KeptInit, KeptStep, PTL DEF Spec
<1>2. Kept => NoSilentLoss
  BY DEF Kept, GoneIsDone, Done, Settled, InLoop, NoSilentLoss, Slots
<1> QED
  BY <1>1, <1>2, PTL
=============================================================================
