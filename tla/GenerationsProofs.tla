------------------------- MODULE GenerationsProofs -------------------------
(***************************************************************************)
(* Proofs about Generations, for any number of entries, overlapping turns, *)
(* self-continuations and any limits: first the abort registry, then what  *)
(* becomes of the entries, then how often one of them is generated for.    *)
(***************************************************************************)
EXTENDS Generations, WellFoundedInduction, TLAPS

\* The types of the registry and of the places of its owners.
RegistryType ==
    /\ active \in Owners \cup {None} /\ aborted \in [Owners -> BOOLEAN]
    /\ stopping \in 0..2
    /\ flow \in [Flows -> {"off", "turn", "generate", "delay", "send", "ending", "quiet", "again"}]
    /\ follow \in [Follow -> {"off", "beat", "register", "generate", "written", "locking",
                              "locked", "done"}]

\* Each part needs the others: a turn that registers is not in the registry already
\* because of NoGhost, and the broadcast reaches a live generation because
\* LiveIsRegistered.
RegistryInv == RegistryType /\ LiveIsRegistered /\ NoGhost /\ ShutdownReachesAll

LEMMA RegistryInit == Init => RegistryInv
  BY DEF Init, RegistryInv, RegistryType, LiveIsRegistered, NoGhost, ShutdownReachesAll,
         InFlight, Owners, ShuttingDown

\* What the three changes of the registry do to it, whoever makes them.
LEMMA RegisterKeeps ==
    ASSUME RegistryInv, NEW x \in Flows, NEW prior \in Owners \cup {None},
           prior = active \/ (active = x /\ prior = None),
           active = x => prior = None,
           Register(x, prior), flow' = [flow EXCEPT ![x] = "generate"],
           UNCHANGED <<stopping, follow>>
    PROVE  RegistryInv'
<1> USE SetsAssumption DEF SetsAssumption, RegistryInv, RegistryType, Owners, ShuttingDown
<1>1. RegistryType'
  BY DEF Register
<1>2. \A y \in Owners : y # x => InFlight(y)' = InFlight(y)
  BY DEF InFlight
<1>3. InFlight(x)'
  BY DEF InFlight
<1>4. CASE ShuttingDown
  <2>1. /\ aborted'[x] /\ \A y \in Owners : aborted[y] => aborted'[y]
        /\ active' = prior /\ prior # x
    BY <1>4, SetsAssumption DEF Register
  <2>2. \A y \in Owners : InFlight(y)' => aborted'[y]
    BY <1>2, <1>4, <2>1 DEF ShutdownReachesAll
  <2> QED
    BY <1>1, <1>2, <2>1, <2>2 DEF LiveIsRegistered, NoGhost, ShutdownReachesAll
<1>5. CASE ~ShuttingDown
  <2>1. /\ active' = x
        /\ \A y \in Owners : y # x => aborted'[y] = (aborted[y] \/ y = prior)
    BY <1>5 DEF Register
  <2>2. LiveIsRegistered'
    BY <1>2, <2>1 DEF LiveIsRegistered
  <2> QED
    BY <1>1, <1>3, <1>5, <2>1, <2>2 DEF NoGhost, ShutdownReachesAll
<1> QED
  BY <1>4, <1>5

LEMMA ClearKeeps ==
    ASSUME RegistryInv, NEW x \in Owners, NEW interrupted \in BOOLEAN,
           Clear(x, interrupted), ~InFlight(x)', RegistryType',
           \A y \in Owners : y # x => InFlight(y)' = InFlight(y),
           UNCHANGED <<aborted, stopping>>
    PROVE  RegistryInv'
<1> USE DEF RegistryInv, RegistryType, ShuttingDown
<1>1. active' = (IF active = x THEN None ELSE active)
  BY DEF Clear
<1>2. LiveIsRegistered'
  BY <1>1 DEF LiveIsRegistered
<1>3. NoGhost'
  BY <1>1 DEF NoGhost
<1>4. ShutdownReachesAll'
  BY DEF ShutdownReachesAll
<1> QED
  BY <1>2, <1>3, <1>4

\* A step that leaves the registry alone and starts and ends no generation.
LEMMA StayKeeps ==
    ASSUME RegistryInv, RegistryType',
           \A y \in Owners : InFlight(y)' = InFlight(y),
           UNCHANGED <<active, aborted, stopping>>
    PROVE  RegistryInv'
  BY DEF RegistryInv, RegistryType, ShuttingDown, LiveIsRegistered, NoGhost,
     ShutdownReachesAll

LEMMA RegistryStep == RegistryInv /\ [Next]_vars => RegistryInv'
<1> SUFFICES ASSUME RegistryInv, [Next]_vars PROVE RegistryInv'
  OBVIOUS
<1> USE SetsAssumption DEF SetsAssumption, registry, left, flowVars, history
<1>t. RegistryType
  BY DEF RegistryInv
<1>1. ASSUME NEW m \in Msgs, Ingress(m) PROVE RegistryInv'
  <2>1. /\ UNCHANGED <<active, stopping, flow, follow>>
        /\ \/ UNCHANGED aborted
           \/ active # None /\ aborted' = [aborted EXCEPT ![active] = TRUE]
    BY <1>1 DEF Ingress, Interrupt
  <2>2. \A y \in Owners : InFlight(y)' = InFlight(y) /\ (aborted[y] => aborted'[y])
    BY <1>t, <2>1 DEF InFlight, RegistryType
  <2>3. RegistryType'
    BY <1>t, <2>1 DEF RegistryType, Owners
  <2> QED
    BY <2>1, <2>2, <2>3 DEF RegistryInv, RegistryType, LiveIsRegistered, NoGhost,
       ShutdownReachesAll, ShuttingDown
<1>2. ASSUME NEW f \in Flows, StartTurn(f) PROVE RegistryInv'
  <2>1. RegistryType' /\ UNCHANGED <<active, aborted, stopping>>
    BY <1>t, <1>2 DEF StartTurn, Step, RegistryType
  <2>2. \A y \in Owners : InFlight(y)' = InFlight(y)
    BY <1>t, <1>2 DEF StartTurn, Step, RegistryType, InFlight, Owners
  <2> QED
    BY <2>1, <2>2, StayKeeps
<1>3. ASSUME NEW f \in Flows, EndTurn(f) PROVE RegistryInv'
  <2>1. RegistryType' /\ UNCHANGED <<active, aborted, stopping>>
    BY <1>t, <1>3 DEF EndTurn, Step, RegistryType
  <2>2. \A y \in Owners : InFlight(y)' = InFlight(y)
    BY <1>t, <1>3 DEF EndTurn, Step, RegistryType, InFlight, Owners
  <2> QED
    BY <2>1, <2>2, StayKeeps
<1>4. ASSUME NEW f \in Flows, NEW m \in Msgs, Track(f, m) PROVE RegistryInv'
  <2>1. RegistryType' /\ UNCHANGED <<active, aborted, stopping>>
    BY <1>t, <1>4 DEF Track, Take, RegistryType
  <2>2. \A y \in Owners : InFlight(y)' = InFlight(y)
    BY <1>t, <1>4 DEF Track, Take, RegistryType, InFlight, Owners
  <2> QED
    BY <2>1, <2>2, StayKeeps
<1>5. ASSUME NEW f \in Flows, NEW m \in Msgs, RunCommandEntry(f, m) PROVE RegistryInv'
  <2>1. RegistryType' /\ UNCHANGED <<active, aborted, stopping>>
    BY <1>t, <1>5 DEF RunCommandEntry, Take, RegistryType
  <2>2. \A y \in Owners : InFlight(y)' = InFlight(y)
    BY <1>t, <1>5 DEF RunCommandEntry, Take, RegistryType, InFlight, Owners
  <2> QED
    BY <2>1, <2>2, StayKeeps
<1>6. ASSUME NEW f \in Flows, Deliver(f) \/ SendFirst(f) PROVE RegistryInv'
  <2>1. RegistryType' /\ UNCHANGED <<active, aborted, stopping>>
    BY <1>t, <1>6 DEF Deliver, SendFirst, Step, RegistryType
  <2>2. \A y \in Owners : InFlight(y)' = InFlight(y)
    BY <1>t, <1>6 DEF Deliver, SendFirst, Step, RegistryType, InFlight, Owners
  <2> QED
    BY <2>1, <2>2, StayKeeps
<1>7. ASSUME NEW f \in Flows, ShutdownRequeue(f) PROVE RegistryInv'
  <2>1. RegistryType' /\ UNCHANGED <<active, aborted, stopping>>
    BY <1>t, <1>7 DEF ShutdownRequeue, Throws, GiveBack, Step, RegistryType
  <2>2. \A y \in Owners : InFlight(y)' = InFlight(y)
    BY <1>t, <1>7 DEF ShutdownRequeue, Throws, GiveBack, Step, RegistryType, InFlight,
       Owners
  <2> QED
    BY <2>1, <2>2, StayKeeps
<1>8. ASSUME NEW f \in Flows, BudgetRequeue(f) PROVE RegistryInv'
  <2>1. RegistryType' /\ UNCHANGED <<active, aborted, stopping>>
    BY <1>t, <1>8 DEF BudgetRequeue, Throws, GiveBack, Step, RegistryType
  <2>2. \A y \in Owners : InFlight(y)' = InFlight(y)
    BY <1>t, <1>8 DEF BudgetRequeue, Throws, GiveBack, Step, RegistryType, InFlight, Owners
  <2> QED
    BY <2>1, <2>2, StayKeeps
<1>9. ASSUME NEW f \in Flows, BudgetDrop(f) PROVE RegistryInv'
  <2>1. RegistryType' /\ UNCHANGED <<active, aborted, stopping>>
    BY <1>t, <1>9 DEF BudgetDrop, Throws, Step, RegistryType
  <2>2. \A y \in Owners : InFlight(y)' = InFlight(y)
    BY <1>t, <1>9 DEF BudgetDrop, Throws, Step, RegistryType, InFlight, Owners
  <2> QED
    BY <2>1, <2>2, StayKeeps
<1>10. ASSUME NEW f \in Flows, Interrupted(f) PROVE RegistryInv'
  <2>1. RegistryType' /\ UNCHANGED <<active, aborted, stopping>>
    BY <1>t, <1>10 DEF Interrupted, Throws, Step, RegistryType
  <2>2. \A y \in Owners : InFlight(y)' = InFlight(y)
    BY <1>t, <1>10 DEF Interrupted, Throws, Step, RegistryType, InFlight, Owners
  <2> QED
    BY <2>1, <2>2, StayKeeps
<1>11. ASSUME NEW f \in Flows, Replan(f) PROVE RegistryInv'
  <2>1. RegistryType' /\ UNCHANGED <<active, aborted, stopping>>
    BY <1>t, <1>11 DEF Replan, Step, RegistryType
  <2>2. \A y \in Owners : InFlight(y)' = InFlight(y)
    BY <1>t, <1>11 DEF Replan, Step, RegistryType, InFlight, Owners
  <2> QED
    BY <2>1, <2>2, StayKeeps
<1>12. ASSUME NEW w \in Follow, StartFollow(w) PROVE RegistryInv'
  <2>1. RegistryType' /\ UNCHANGED <<active, aborted, stopping>>
    BY <1>t, <1>12 DEF StartFollow, FollowStep, RegistryType
  <2>2. \A y \in Owners : InFlight(y)' = InFlight(y)
    BY <1>t, <1>12 DEF StartFollow, FollowStep, RegistryType, InFlight, Owners
  <2> QED
    BY <2>1, <2>2, StayKeeps
<1>13. ASSUME NEW w \in Follow, Yield(w) PROVE RegistryInv'
  <2>1. RegistryType' /\ UNCHANGED <<active, aborted, stopping>>
    BY <1>t, <1>13 DEF Yield, FollowStep, RegistryType
  <2>2. \A y \in Owners : InFlight(y)' = InFlight(y)
    BY <1>t, <1>13 DEF Yield, FollowStep, RegistryType, InFlight, Owners
  <2> QED
    BY <2>1, <2>2, StayKeeps
<1>14. ASSUME NEW w \in Follow, StillQuiet(w) PROVE RegistryInv'
  <2>1. RegistryType' /\ UNCHANGED <<active, aborted, stopping>>
    BY <1>t, <1>14 DEF StillQuiet, FollowStep, RegistryType
  <2>2. \A y \in Owners : InFlight(y)' = InFlight(y)
    BY <1>t, <1>14 DEF StillQuiet, FollowStep, RegistryType, InFlight, Owners
  <2> QED
    BY <2>1, <2>2, StayKeeps
<1>15. ASSUME NEW w \in Follow, FollowSends(w) PROVE RegistryInv'
  <2>1. RegistryType' /\ UNCHANGED <<active, aborted, stopping>>
    BY <1>t, <1>15 DEF FollowSends, FollowStep, RegistryType
  <2>2. \A y \in Owners : InFlight(y)' = InFlight(y)
    BY <1>t, <1>15 DEF FollowSends, FollowStep, RegistryType, InFlight, Owners
  <2> QED
    BY <2>1, <2>2, StayKeeps
<1>16. ASSUME NEW f \in Flows, Complete(f) PROVE RegistryInv'
  <2>1. RegistryType' /\ Clear(f, FALSE) /\ UNCHANGED <<aborted, stopping>>
    BY <1>t, <1>16 DEF Complete, Step, RegistryType, Clear, Owners
  <2>2. ~InFlight(f)' /\ \A y \in Owners : y # f => InFlight(y)' = InFlight(y)
    BY <1>t, <1>16 DEF Complete, Step, RegistryType, InFlight, Owners
  <2>3. f \in Owners
    BY DEF Owners
  <2> QED
    BY <2>1, <2>2, <2>3, ClearKeeps
<1>17. ASSUME NEW f \in Flows, SendRest(f) PROVE RegistryInv'
  <2>1. RegistryType' /\ Clear(f, FALSE) /\ UNCHANGED <<aborted, stopping>>
    BY <1>t, <1>17 DEF SendRest, Step, RegistryType, Clear, Owners
  <2>2. ~InFlight(f)' /\ \A y \in Owners : y # f => InFlight(y)' = InFlight(y)
    BY <1>t, <1>17 DEF SendRest, Step, RegistryType, InFlight, Owners
  <2>3. f \in Owners
    BY DEF Owners
  <2> QED
    BY <2>1, <2>2, <2>3, ClearKeeps
<1>18. ASSUME NEW f \in Flows, EndEntry(f) PROVE RegistryInv'
  <2>1. RegistryType' /\ Clear(f, FALSE) /\ UNCHANGED <<aborted, stopping>>
    BY <1>t, <1>18 DEF EndEntry, Step, RegistryType, Clear, Owners
  <2>2. ~InFlight(f)' /\ \A y \in Owners : y # f => InFlight(y)' = InFlight(y)
    BY <1>t, <1>18 DEF EndEntry, Step, RegistryType, InFlight, Owners
  <2>3. f \in Owners
    BY DEF Owners
  <2> QED
    BY <2>1, <2>2, <2>3, ClearKeeps
<1>19. ASSUME NEW w \in Follow, FollowWritten(w) PROVE RegistryInv'
  <2>1. RegistryType' /\ Clear(w, FALSE) /\ UNCHANGED <<aborted, stopping>>
    BY <1>t, <1>19 DEF FollowWritten, FollowStep, RegistryType, Clear, Owners
  <2>2. ~InFlight(w)' /\ \A y \in Owners : y # w => InFlight(y)' = InFlight(y)
    BY <1>t, <1>19 DEF FollowWritten, FollowStep, RegistryType, InFlight, Owners
  <2>3. w \in Owners
    BY DEF Owners
  <2> QED
    BY <2>1, <2>2, <2>3, ClearKeeps
<1>20. ASSUME NEW w \in Follow, FollowFails(w) PROVE RegistryInv'
  <2>1. RegistryType' /\ Clear(w, TRUE) /\ UNCHANGED <<aborted, stopping>>
    BY <1>t, <1>20 DEF FollowFails, FollowStep, RegistryType, Clear, Owners
  <2>2. ~InFlight(w)' /\ \A y \in Owners : y # w => InFlight(y)' = InFlight(y)
    BY <1>t, <1>20 DEF FollowFails, FollowStep, RegistryType, InFlight, Owners
  <2>3. w \in Owners
    BY DEF Owners
  <2> QED
    BY <2>1, <2>2, <2>3, ClearKeeps
\* A turn that judges an entry is not in the registry: NoGhost.
<1>21. ASSUME NEW f \in Flows, NEW m \in Msgs, Judge(f, m) PROVE RegistryInv'
  <2>1. active # f
    BY <1>21 DEF Judge, RegistryInv, NoGhost, InFlight
  <2>2. /\ Register(f, active) /\ flow' = [flow EXCEPT ![f] = "generate"]
        /\ UNCHANGED <<stopping, follow>>
    BY <1>21 DEF Judge, Step
  <2>3. active \in Owners \cup {None}
    BY <1>t DEF RegistryType
  <2> QED
    BY <2>1, <2>2, <2>3, RegisterKeeps
<1>22. ASSUME NEW f \in Flows, Again(f) PROVE RegistryInv'
  <2> DEFINE prior == IF active = f THEN None ELSE active
  <2>1. /\ Register(f, prior) /\ flow' = [flow EXCEPT ![f] = "generate"]
        /\ UNCHANGED <<stopping, follow>>
    BY <1>22 DEF Again, Step
  <2>2. /\ prior \in Owners \cup {None}
        /\ prior = active \/ (active = f /\ prior = None)
        /\ active = f => prior = None
    BY <1>t DEF RegistryType
  <2> HIDE DEF prior
  <2> QED
    BY <2>1, <2>2, RegisterKeeps
<1>23. ASSUME NEW w \in Follow, RegisterWeak(w) PROVE RegistryInv'
  <2>1. RegistryType' /\ ~ShuttingDown' /\ active' = w
    BY <1>t, <1>23 DEF RegisterWeak, FollowStep, RegistryType, ShuttingDown, Owners
  <2>2. /\ InFlight(w)'
        /\ \A y \in Owners : y # w => InFlight(y)' = InFlight(y) /\ aborted'[y] = aborted[y]
    BY <1>t, <1>23 DEF RegisterWeak, FollowStep, RegistryType, InFlight, Owners
  <2>3. \A y \in Owners : InFlight(y) => aborted[y]
    BY <1>t, <1>23 DEF RegisterWeak, RegistryInv, LiveIsRegistered, RegistryType, Owners
  <2> QED
    BY <2>1, <2>2, <2>3 DEF RegistryInv, LiveIsRegistered, NoGhost, ShutdownReachesAll
\* The registered generation is the only one that may not be aborted yet.
<1>24. ASSUME AbortAllGenerations PROVE RegistryInv'
  <2>1. RegistryType' /\ UNCHANGED active
    BY <1>t, <1>24 DEF AbortAllGenerations, RegistryType
  <2>2. \A y \in Owners : /\ InFlight(y)' = InFlight(y)
                          /\ aborted'[y] = (aborted[y] \/ y = active)
    BY <1>t, <1>24 DEF AbortAllGenerations, InFlight
  <2> QED
    BY <1>t, <2>1, <2>2 DEF RegistryInv, RegistryType, LiveIsRegistered, NoGhost,
       ShutdownReachesAll
<1>25. ASSUME DrainSelfContinuations PROVE RegistryInv'
  <2>1. RegistryType' /\ UNCHANGED <<active, aborted>> /\ ShuttingDown
    BY <1>t, <1>25 DEF DrainSelfContinuations, RegistryType, ShuttingDown
  <2>2. \A y \in Owners : InFlight(y)' = InFlight(y)
    BY <1>25 DEF DrainSelfContinuations, InFlight
  <2> QED
    BY <1>t, <2>1, <2>2 DEF RegistryInv, RegistryType, LiveIsRegistered, NoGhost,
       ShutdownReachesAll
<1>26. CASE UNCHANGED vars
  <2>1. RegistryType' /\ UNCHANGED <<active, aborted, stopping>>
    BY <1>t, <1>26 DEF vars, RegistryType
  <2>2. \A y \in Owners : InFlight(y)' = InFlight(y)
    BY <1>26 DEF vars, InFlight
  <2> QED
    BY <2>1, <2>2, StayKeeps
<1> QED
  BY <1>1, <1>2, <1>3, <1>4, <1>5, <1>6, <1>7, <1>8, <1>9, <1>10, <1>11, <1>12, <1>13,
     <1>14, <1>15, <1>16, <1>17, <1>18, <1>19, <1>20, <1>21, <1>22, <1>23, <1>24, <1>25,
     <1>26 DEF Next, Turn, SelfContinue

LEMMA RegistryAlways == Spec => []RegistryInv
  BY RegistryInit, RegistryStep, PTL DEF Spec

\* At most one generation of the chat is live, and it is the one users and
\* shutdown can reach: abort-registry.ts, for any overlap of turns.
THEOREM OneLiveGeneration == Spec => []LiveIsRegistered
<1>1. RegistryInv => LiveIsRegistered
  BY DEF RegistryInv
<1> QED
  BY <1>1, RegistryAlways, PTL

\* The registry never names a generation that is over: clearGeneration is called on
\* every way out, and its identity check spares the successor.
THEOREM RegistryHasNoGhost == Spec => []NoGhost
<1>1. RegistryInv => NoGhost
  BY DEF RegistryInv
<1> QED
  BY <1>1, RegistryAlways, PTL

\* Both: at every moment the registry names the one live generation and nobody who is
\* gone (abort-registry.ts, for any overlap of turns and self-continuations).
THEOREM RegistryIsExact == Spec => []RegistryExact
<1>1. RegistryInv => RegistryExact
  BY DEF RegistryInv, RegistryExact
<1> QED
  BY <1>1, RegistryAlways, PTL

\* After abortAllGenerations every generation in flight is aborted, those that
\* register afterwards too.
THEOREM ShutdownIsComplete == Spec => []ShutdownReachesAll
<1>1. RegistryInv => ShutdownReachesAll
  BY DEF RegistryInv
<1> QED
  BY <1>1, RegistryAlways, PTL

\* Least numbers exist: the induction by which facts about a recursive function are proved.
LEMMA LeastNumber ==
    ASSUME NEW T, T \subseteq Nat, T # {}
    PROVE  \E x \in T : \A y \in T : x <= y
<1> DEFINE Less == {p \in Nat \X Nat : p[1] < p[2]}
<1>1. Less = OpToRel(<, Nat)
  BY Zenon DEF OpToRel
<1>2. IsWellFoundedOn(Less, Nat)
  BY <1>1, NatLessThanWellFounded, Zenon
<1>3. \A x, y \in Nat : y < x => <<y, x>> \in Less
  OBVIOUS
<1> HIDE DEF Less
<1>4. PICK x \in T : \A y \in T : <<y, x>> \notin Less
  BY <1>2, WFMin
<1>5. ASSUME NEW y \in T PROVE x <= y
  <2>1. x \in Nat /\ y \in Nat
    BY <1>4
  <2>2. ~ (y < x)
    BY <1>3, <1>4, <2>1
  <2> QED
    BY <2>1, <2>2
<1> QED
  BY <1>4, <1>5

LEMMA AppendToSet ==
    ASSUME NEW T, NEW s \in Seq(T), NEW e \in T
    PROVE  Append(s, e) \in Seq(T) /\ ToSet(Append(s, e)) = ToSet(s) \cup {e}
<1>1. /\ Append(s, e) \in Seq(T) /\ Len(Append(s, e)) = Len(s) + 1 /\ Len(s) \in Nat
      /\ \A i \in 1..Len(s) : Append(s, e)[i] = s[i]
      /\ Append(s, e)[Len(s) + 1] = e /\ DOMAIN s = 1..Len(s)
      /\ DOMAIN Append(s, e) = 1..(Len(s) + 1)
  OBVIOUS
<1>2. \A x : x \in ToSet(Append(s, e)) <=> x \in ToSet(s) \cup {e}
  BY <1>1 DEF ToSet
<1> QED
  BY <1>1, <1>2

\* The anchor is an entry that was drained and no command.
LEMMA LastExists ==
    ASSUME NEW I, I \subseteq Nat, I # {}, NEW n \in Nat, \A i \in I : i <= n
    PROVE  Max(I) \in I
<1> DEFINE Below == {n - i : i \in I}
<1>1. Below \subseteq Nat /\ Below # {}
  <2>1. \A i \in I : n - i \in Nat
    OBVIOUS
  <2> QED
    BY <2>1
<1>2. PICK x \in Below : \A y \in Below : x <= y
  BY <1>1, LeastNumber
<1>3. PICK i \in I : x = n - i
  BY <1>2
<1>4. \A k \in I : i >= k
  <2> SUFFICES ASSUME NEW k \in I PROVE i >= k
    OBVIOUS
  <2>1. n - k \in Below
    OBVIOUS
  <2>2. n - i <= n - k
    BY <1>2, <1>3, <2>1
  <2> QED
    BY <2>2
<1> QED
  BY <1>4 DEF Max

LEMMA AnchorIs ==
    ASSUME NEW drained \in Seq(Msgs)
    PROVE  Anchor(drained) = None \/ Anchor(drained) \in ToSet(drained) \cap (Msgs \ Commands)
<1>1. Len(drained) \in Nat /\ DOMAIN drained = 1..Len(drained) /\ \A i \in 1..Len(drained) : drained[i] \in Msgs
  OBVIOUS
<1> DEFINE At(S) == {i \in 1..Len(drained) : drained[i] \in S}
           LastPlace(S) == IF At(S) # {} THEN Max(At(S)) ELSE 0
           LastOf(S) == IF LastPlace(S) = 0 THEN None ELSE drained[LastPlace(S)]
<1>2. ASSUME NEW S PROVE LastOf(S) = None \/ LastOf(S) \in ToSet(drained) \cap S
  <2>1. CASE At(S) = {}
    BY <2>1
  <2>2. CASE At(S) # {}
    <3>1. At(S) \subseteq Nat /\ \A i \in At(S) : i <= Len(drained)
      BY <1>1
    <3>2. Max(At(S)) \in At(S)
      <4> HIDE DEF At
      <4> QED
        BY <1>1, <2>2, <3>1, LastExists
    <3> QED
      BY <1>1, <2>2, <3>2 DEF ToSet
  <2> QED
    BY <2>1, <2>2
<1>3. Anchor(drained) = IF LastOf(Direct \ Commands) # None THEN LastOf(Direct \ Commands)
                      ELSE LastOf(Msgs \ (Edits \cup Commands))
  BY DEF Anchor, SelectLastInSeq
<1> HIDE DEF LastOf
<1> QED
  BY <1>2, <1>3, SetsAssumption DEF SetsAssumption

----------------------------------------------------------------------------
(***************************************************************************)
(* The entries.                                                            *)
(***************************************************************************)

\* Types, and where a turn has an entry in hand.
EntryType ==
    /\ TypeOK
    /\ sent \cup answered \cup settled \cup dropped \subseteq Msgs
    /\ displaced \subseteq Msgs \X Msgs /\ gens \in [Msgs -> Nat]
    /\ \A f \in Flows : /\ flow[f] \in {"generate", "delay", "send", "quiet", "again"} <=> current[f] # None
                        /\ flow[f] = "off" => todo[f] = {}
                        /\ flow[f] # "again" => fresh[f] = {}

Waits(m) == m \in ToSet(pending)
InHand(f) == todo[f] \cup fresh[f]
Gone(m) == m \in settled \cup Displaced \cup dropped

\* An entry that was sent is somewhere.
IsKept(m) ==
    m \in sent <=> \/ Waits(m) \/ m \in answered \/ Gone(m)
                   \/ \E f \in Flows : m \in InHand(f) \/ current[f] = m

\* It is in one place; in a turn's hand it is answered exactly while it is sent.
IsOnce(m) ==
    /\ Waits(m) => m \notin answered /\ ~Gone(m)
    /\ m \in answered => ~Gone(m)
    /\ \A f \in Flows :
          /\ m \in InHand(f) => ~Waits(m) /\ m \notin answered /\ ~Gone(m)
          /\ m \in todo[f] => m \notin fresh[f]
          /\ current[f] = m => ~Waits(m) /\ ~Gone(m) /\ (m \in answered <=> flow[f] = "send")
          /\ \A g \in Flows : /\ m \in InHand(f) => current[g] # m /\ (m \in InHand(g) => f = g)
                              /\ current[f] = m /\ current[g] = m => f = g
EntryOK == EntryType /\ \A m \in Msgs : IsKept(m) /\ IsOnce(m)

LEMMA EntryInit == Init => EntryOK
  BY SetsAssumption, BoundsAssumption
     DEF SetsAssumption, BoundsAssumption, Init, EntryOK, EntryType, TypeOK, IsKept, IsOnce, Waits, InHand, Gone, Displaced, Owners, ToSet

LEMMA RegisterTypes ==
    ASSUME TypeOK, NEW x \in Owners, NEW prior \in Owners \cup {None}, Register(x, prior)
    PROVE  active' \in Owners \cup {None} /\ aborted' \in [Owners -> BOOLEAN]
  BY DEF Register, TypeOK

LEMMA ClearTypes ==
    ASSUME TypeOK, NEW x, NEW interrupted, Clear(x, interrupted)
    PROVE  active' \in Owners \cup {None} /\ consecutive' \in 0..Cap
  BY BoundsAssumption DEF BoundsAssumption, Clear, TypeOK

LEMMA AppendIs ==
    ASSUME TypeOK, NEW m \in Msgs
    PROVE  Append(pending, m) \in Seq(Msgs) /\ ToSet(Append(pending, m)) = ToSet(pending) \cup {m}
<1>1. pending \in Seq(Msgs)
  BY DEF TypeOK
<1> QED
  BY <1>1, AppendToSet

LEMMA PendingIs ==
    ASSUME TypeOK
    PROVE  /\ <<>> \in Seq(Msgs) /\ ToSet(<<>>) = {} /\ pending \in Seq(Msgs)
           /\ ToSet(pending) \subseteq Msgs
           /\ Anchor(pending) = None \/ Anchor(pending) \in ToSet(pending) \cap (Msgs \ Commands)
<1>1. pending \in Seq(Msgs)
  BY DEF TypeOK
<1>2. ToSet(<<>>) = {} /\ ToSet(pending) \subseteq Msgs
  BY <1>1 DEF ToSet
<1> QED
  BY <1>1, <1>2, AnchorIs

LEMMA TakeTypes ==
    ASSUME TypeOK, NEW f \in Flows, NEW m \in Msgs, Take(f, m)
    PROVE  /\ todo' \in [Flows -> SUBSET Msgs] /\ fresh' \in [Flows -> SUBSET Msgs]
           /\ \A g \in Flows : todo'[g] \subseteq todo[g] /\ fresh'[g] \subseteq fresh[g]
<1>1. todo \in [Flows -> SUBSET Msgs] /\ fresh \in [Flows -> SUBSET Msgs]
  BY DEF TypeOK
<1>2. \/ todo' = [todo EXCEPT ![f] = @ \ {m}] /\ fresh' = fresh
      \/ fresh' = [fresh EXCEPT ![f] = @ \ {m}] /\ todo' = todo
  BY DEF Take
<1> QED
  BY <1>1, <1>2

\* The types, step by step.
LEMMA EntryTypeStep == EntryType /\ [Next]_vars => EntryType'
<1> SUFFICES ASSUME EntryType, [Next]_vars PROVE EntryType'
  OBVIOUS
<1> USE SetsAssumption, BoundsAssumption DEF SetsAssumption, BoundsAssumption, registry, left, flowVars, history
<1>0. TypeOK /\ Flows \subseteq Owners /\ Follow \subseteq Owners
  BY DEF EntryType, Owners
<1>1. ASSUME NEW m \in Msgs, Ingress(m) PROVE EntryType'
  <2>1. pending' \in Seq(Msgs)
    BY <1>0, <1>1, AppendIs DEF Ingress
  <2>2. aborted' \in [Owners -> BOOLEAN] /\ consecutive' \in 0..Cap
    <3>1. CASE UNCHANGED <<aborted, consecutive>>
      BY <1>0, <3>1 DEF TypeOK
    <3>2. CASE Interrupt
      <4>1. aborted \in [Owners -> BOOLEAN] /\ consecutive \in 0..Cap
        BY <1>0 DEF TypeOK
      <4>2. \/ UNCHANGED <<aborted, consecutive>>
            \/ aborted' = [aborted EXCEPT ![active] = TRUE] /\ consecutive' = consecutive + 1 /\ consecutive < Cap
        BY <3>2 DEF Interrupt
      <4>3. aborted' \in [Owners -> BOOLEAN]
        BY <4>1, <4>2
      <4>4. consecutive' \in 0..Cap
        BY <4>1, <4>2
      <4> QED
        BY <4>3, <4>4
    <3> QED
      BY <1>1, <3>1, <3>2 DEF Ingress
  <2> QED
    BY <1>1, <2>1, <2>2 DEF Ingress, EntryType, TypeOK
<1>2. ASSUME NEW f \in Flows, StartTurn(f) PROVE EntryType'
  <2>1. ToSet(pending) \subseteq Msgs /\ pending' \in Seq(Msgs)
    BY <1>0, <1>2, PendingIs DEF StartTurn
  <2> QED
    BY <1>2, <2>1 DEF StartTurn, Step, EntryType, TypeOK
<1>3. ASSUME NEW f \in Flows, EndTurn(f) PROVE EntryType'
  BY <1>3 DEF EndTurn, Step, EntryType, TypeOK
<1>4. ASSUME NEW f \in Flows, NEW m \in Msgs, Track(f, m) PROVE EntryType'
  BY <1>0, <1>4, TakeTypes DEF Track, EntryType, TypeOK
<1>5. ASSUME NEW f \in Flows, NEW m \in Msgs, RunCommandEntry(f, m) PROVE EntryType'
  <2>1. pending' \in Seq(Msgs)
    BY <1>0, <1>5, AppendIs, PendingIs DEF RunCommandEntry
  <2>2. /\ todo' \in [Flows -> SUBSET Msgs] /\ fresh' \in [Flows -> SUBSET Msgs]
        /\ \A g \in Flows : todo'[g] \subseteq todo[g] /\ fresh'[g] \subseteq fresh[g]
    BY <1>0, <1>5, TakeTypes DEF RunCommandEntry
  <2>3. /\ answered' \subseteq answered \cup {m}
        /\ UNCHANGED <<registry, stopping, flow, current, replans, follow, deferCount, sent, settled, displaced,
                       dropped, gens>>
    BY <1>5 DEF RunCommandEntry
  <2> QED
    BY <1>5, <2>1, <2>2, <2>3 DEF EntryType, TypeOK
<1>6. ASSUME NEW f \in Flows, NEW m \in Msgs, Judge(f, m) PROVE EntryType'
  <2>1. active' \in Owners \cup {None} /\ aborted' \in [Owners -> BOOLEAN]
    BY <1>0, <1>6, RegisterTypes DEF Judge, TypeOK
  <2>2. gens' \in [Msgs -> Nat]
    BY <1>6 DEF Judge, Counted, EntryType
  <2>3. /\ flow' = [flow EXCEPT ![f] = "generate"] /\ current' = [current EXCEPT ![f] = m]
        /\ replans' = [replans EXCEPT ![f] = 0] /\ 0 \in 0..MaxReplans /\ m # None
        /\ todo' = [todo EXCEPT ![f] = @ \ {m}] /\ flow[f] = "turn"
    BY <1>6 DEF Judge, Step
  <2>4. UNCHANGED <<pending, consecutive, stopping, fresh, follow, deferCount, sent, answered, settled, displaced,
                    dropped>>
    BY <1>6 DEF Judge
  <2> QED
    BY <1>6, <2>1, <2>2, <2>3, <2>4 DEF EntryType, TypeOK
<1>7. ASSUME NEW f \in Flows, Complete(f) PROVE EntryType'
  <2>1. active' \in Owners \cup {None} /\ consecutive' \in 0..Cap
    BY <1>0, <1>7, ClearTypes DEF Complete
  <2>2. current[f] \in Msgs
    BY <1>7 DEF Complete, EntryType, TypeOK
  <2> QED
    BY <1>7, <2>1, <2>2 DEF Complete, Step, EntryType, TypeOK
<1>8. ASSUME NEW f \in Flows, Deliver(f) \/ SendFirst(f) PROVE EntryType'
  <2>1. current[f] \in Msgs
    BY <1>8 DEF Deliver, SendFirst, EntryType, TypeOK
  <2> QED
    BY <1>8, <2>1 DEF Deliver, SendFirst, Step, EntryType, TypeOK
<1>9. ASSUME NEW f \in Flows, SendRest(f) PROVE EntryType'
  <2>1. active' \in Owners \cup {None} /\ consecutive' \in 0..Cap
    BY <1>0, <1>9, ClearTypes DEF SendRest
  <2> QED
    BY <1>9, <2>1 DEF SendRest, Step, EntryType, TypeOK
<1>10. ASSUME NEW f \in Flows, ShutdownRequeue(f) \/ BudgetRequeue(f) \/ BudgetDrop(f) PROVE EntryType'
  <2>1. current[f] \in Msgs
    BY <1>10 DEF ShutdownRequeue, BudgetRequeue, BudgetDrop, Throws, EntryType, TypeOK
  <2>2. pending' \in Seq(Msgs)
    BY <1>0, <1>10, <2>1, AppendIs, PendingIs DEF ShutdownRequeue, BudgetRequeue, BudgetDrop, GiveBack
  <2>3. deferCount' \in [Msgs -> 0..MaxReplays]
    <3>1. CASE BudgetRequeue(f)
      BY <1>0, <2>1, <3>1 DEF BudgetRequeue, TypeOK
    <3>2. CASE ~BudgetRequeue(f)
      BY <1>0, <1>10, <3>2 DEF ShutdownRequeue, BudgetDrop, TypeOK
    <3> QED
      BY <3>1, <3>2
  <2>4. /\ flow[f] \in {"generate", "delay"} /\ flow' = [flow EXCEPT ![f] = "ending"]
        /\ current' = [current EXCEPT ![f] = None]
    BY <1>10 DEF ShutdownRequeue, BudgetRequeue, BudgetDrop, GiveBack, Step, Throws
  <2>5. /\ fresh[f] = {} /\ dropped' \subseteq Msgs
        /\ UNCHANGED <<registry, stopping, left, replans, follow, sent, answered, settled, displaced, gens>>
    BY <1>10, <2>1, <2>4 DEF ShutdownRequeue, BudgetRequeue, BudgetDrop, EntryType
  <2> QED
    BY <1>10, <2>1, <2>2, <2>3, <2>4, <2>5 DEF ShutdownRequeue, BudgetRequeue, BudgetDrop, EntryType, TypeOK
<1>11. ASSUME NEW f \in Flows, EndEntry(f) PROVE EntryType'
  <2>1. active' \in Owners \cup {None} /\ consecutive' \in 0..Cap
    BY <1>0, <1>11, ClearTypes DEF EndEntry
  <2> QED
    BY <1>11, <2>1 DEF EndEntry, Step, EntryType, TypeOK
<1>12. ASSUME NEW f \in Flows, Interrupted(f) PROVE EntryType'
  <2>1. replans' \in [Flows -> 0..MaxReplans]
    BY <1>0, <1>12 DEF Interrupted, TypeOK
  <2> QED
    BY <1>12, <2>1 DEF Interrupted, Throws, Step, EntryType, TypeOK
<1>13. ASSUME NEW f \in Flows, Replan(f) PROVE EntryType'
  <2>1. current[f] \in Msgs /\ (Anchor(pending) = None \/ Anchor(pending) \in Msgs)
    BY <1>0, <1>13, PendingIs DEF Replan, EntryType, TypeOK
  <2>2. pending' \in Seq(Msgs) /\ ToSet(pending) \subseteq Msgs
    BY <1>0, <1>13, PendingIs DEF Replan
  <2>3. fresh' \in [Flows -> SUBSET Msgs] /\ \A g \in Flows \ {f} : fresh'[g] = fresh[g]
    BY <1>0, <1>13, <2>2 DEF Replan, TypeOK
  <2>4. displaced' \subseteq Msgs \X Msgs
    BY <1>13, <2>1 DEF Replan, EntryType
  <2>5. current' \in [Flows -> Msgs \cup {None}] /\ current'[f] # None
        /\ \A g \in Flows \ {f} : current'[g] = current[g]
    BY <1>0, <1>13, <2>1 DEF Replan, TypeOK
  <2>6. flow' = [flow EXCEPT ![f] = "again"] /\ flow[f] = "quiet"
        /\ UNCHANGED <<registry, stopping, todo, replans, follow, deferCount, sent, answered, settled, dropped, gens,
                       butted>>
    BY <1>13 DEF Replan, Step
  <2> QED
    BY <2>2, <2>3, <2>4, <2>5, <2>6 DEF EntryType, TypeOK
<1>14. ASSUME NEW f \in Flows, Again(f) PROVE EntryType'
  <2>1. active' \in Owners \cup {None} /\ aborted' \in [Owners -> BOOLEAN]
    BY <1>0, <1>14, RegisterTypes DEF Again, TypeOK
  <2>2. gens' \in [Msgs -> Nat]
    BY <1>14 DEF Again, Counted, EntryType, TypeOK
  <2> QED
    BY <1>14, <2>1, <2>2 DEF Again, Step, EntryType, TypeOK
<1>15. ASSUME NEW w \in Follow, SelfContinue(w) PROVE EntryType'
  <2>1. active' \in Owners \cup {None} /\ consecutive' \in 0..Cap /\ aborted' \in [Owners -> BOOLEAN]
    <3>1. CASE RegisterWeak(w)
      BY <1>0, <3>1 DEF RegisterWeak, TypeOK
    <3>2. ASSUME NEW interrupted, Clear(w, interrupted), aborted' = aborted
          PROVE  active' \in Owners \cup {None} /\ consecutive' \in 0..Cap /\ aborted' \in [Owners -> BOOLEAN]
      BY <1>0, <3>2, ClearTypes DEF TypeOK
    <3>3. CASE FollowWritten(w) \/ FollowFails(w)
      BY <3>2, <3>3 DEF FollowWritten, FollowFails
    <3>4. CASE StartFollow(w) \/ Yield(w) \/ StillQuiet(w) \/ FollowSends(w)
      BY <1>0, <3>4 DEF StartFollow, Yield, StillQuiet, FollowSends, TypeOK
    <3> QED
      BY <1>15, <3>1, <3>3, <3>4 DEF SelfContinue
  <2>2. follow' \in [Follow -> {"off", "beat", "register", "generate", "written", "locking", "locked", "done"}]
    BY <1>0, <1>15 DEF SelfContinue, StartFollow, Yield, StillQuiet, RegisterWeak, FollowWritten, FollowFails,
                       FollowSends, FollowStep, TypeOK
  <2>3. UNCHANGED <<pending, stopping, flowVars, deferCount, sent, answered, settled, displaced, dropped, gens>>
    BY <1>15 DEF SelfContinue, StartFollow, Yield, StillQuiet, RegisterWeak, FollowWritten, FollowFails, FollowSends
  <2> QED
    BY <2>1, <2>2, <2>3 DEF EntryType, TypeOK
<1>16. ASSUME AbortAllGenerations \/ DrainSelfContinuations PROVE EntryType'
  <2>1. aborted' \in [Owners -> BOOLEAN] /\ stopping' \in 0..2
    <3>1. CASE AbortAllGenerations
      BY <1>0, <3>1 DEF AbortAllGenerations, TypeOK
    <3>2. CASE DrainSelfContinuations
      BY <1>0, <3>2 DEF DrainSelfContinuations, TypeOK
    <3> QED
      BY <1>16, <3>1, <3>2
  <2> QED
    BY <1>16, <2>1 DEF AbortAllGenerations, DrainSelfContinuations, EntryType, TypeOK
<1>17. CASE UNCHANGED vars
  BY <1>17 DEF vars, EntryType, TypeOK
<1> QED
  BY <1>1, <1>2, <1>3, <1>4, <1>5, <1>6, <1>7, <1>8, <1>9, <1>10, <1>11, <1>12, <1>13, <1>14, <1>15, <1>16, <1>17
     DEF Next, Turn


\* A step after which no place of any entry is new, and the known ones are as before.
SamePlaces == UNCHANGED <<pending, left, current, sent, answered, settled, displaced, dropped>>

LEMMA DisplacedIs ==
    ASSUME NEW a, NEW b, displaced' = displaced \cup {<<a, b>>}
    PROVE  Displaced' = Displaced \cup {a}
<1>1. <<a, b>>[1] = a
  OBVIOUS
<1>2. Displaced' = {p[1] : p \in displaced \cup {<<a, b>>}}
  BY DEF Displaced
<1>3. {p[1] : p \in displaced \cup {<<a, b>>}} = {p[1] : p \in displaced} \cup {a}
  BY <1>1, Zenon
<1> QED
  BY <1>2, <1>3 DEF Displaced

\* What Take does: one entry that the turn had in one of its lists is no longer in it.
Taken(f, m) ==
    /\ m \in InHand(f)
    /\ \A g \in Flows \ {f} : todo'[g] = todo[g] /\ fresh'[g] = fresh[g]
    /\ \/ m \in todo[f] /\ todo'[f] = todo[f] \ {m} /\ fresh'[f] = fresh[f]
       \/ m \in fresh[f] /\ fresh'[f] = fresh[f] \ {m} /\ todo'[f] = todo[f]

LEMMA TakeIs ==
    ASSUME TypeOK, NEW f \in Flows, NEW m \in Msgs, Take(f, m)
    PROVE  Taken(f, m)
  BY DEF Take, Taken, InHand, TypeOK

LEMMA JudgedIsOnce ==
    ASSUME NEW m, NEW f \in Flows, ~Waits(m)', m \notin answered', ~Gone(m)', flow'[f] # "send",
           \A g \in Flows : m \notin todo'[g] /\ m \notin fresh'[g] /\ (current'[g] = m => g = f)
    PROVE  IsOnce(m)'
  BY DEF IsOnce, InHand

LEMMA EntryStep == EntryOK /\ [Next]_vars => EntryOK'
<1> SUFFICES ASSUME EntryOK, [Next]_vars, NEW m \in Msgs PROVE IsKept(m)' /\ IsOnce(m)'
  BY EntryTypeStep DEF EntryOK
<1> USE SetsAssumption DEF SetsAssumption, registry, left, flowVars, history, IsKept, IsOnce, Waits, Gone, Displaced, InHand
<1>0. TypeOK /\ EntryType /\ IsKept(m) /\ IsOnce(m)
  BY DEF EntryOK, EntryType
<1>t. TypeOK
  BY <1>0
<1>p. /\ ToSet(<<>>) = {} /\ ToSet(pending) \subseteq Msgs
      /\ \A n \in Msgs : ToSet(Append(pending, n)) = ToSet(pending) \cup {n}
  BY <1>0, AppendIs, PendingIs
<1> DEFINE Goal == IsKept(m)' /\ IsOnce(m)'
<1>1. ASSUME NEW n \in Msgs, Ingress(n) PROVE Goal
  BY <1>0, <1>1, <1>p DEF Ingress, TypeOK
<1>2. ASSUME NEW f \in Flows, StartTurn(f) PROVE Goal
  BY <1>0, <1>2, <1>p DEF StartTurn, Step, EntryType, TypeOK
<1>4. ASSUME NEW f \in Flows, NEW n \in Msgs, Track(f, n) PROVE Goal
  <2>1. /\ UNCHANGED <<pending, flow, current, sent, answered, displaced, dropped>> /\ settled' = settled \cup {n}
        /\ Taken(f, n)
    BY <1>0, <1>4, TakeIs DEF Track
  <2> QED
    BY <1>0, <2>1 DEF Taken
<1>5. ASSUME NEW f \in Flows, NEW n \in Msgs, RunCommandEntry(f, n) PROVE Goal
  <2>1. /\ UNCHANGED <<flow, current, sent, settled, displaced, dropped>>
        /\ Taken(f, n)
    BY <1>0, <1>5, TakeIs DEF RunCommandEntry
  <2>2. \/ ToSet(pending') = ToSet(pending) \cup {n} /\ answered' = answered
        \/ pending' = pending /\ answered' = answered \cup {n}
    BY <1>5, <1>p DEF RunCommandEntry
  <2> QED
    BY <1>0, <2>1, <2>2 DEF Taken
<1>6. ASSUME NEW f \in Flows, NEW n \in Msgs, Judge(f, n) PROVE Goal
  <2>1. UNCHANGED <<pending, fresh, sent, answered, settled, displaced, dropped>> /\ n \in todo[f]
    BY <1>6 DEF Judge
  <2>2. current[f] = None /\ n # None /\ m # None
    BY <1>0, <1>6 DEF Judge, EntryType
  <2>3. \A g \in Flows : /\ todo'[g] = IF g = f THEN todo[g] \ {n} ELSE todo[g]
                         /\ current'[g] = IF g = f THEN n ELSE current[g]
                         /\ flow'[g] = IF g = f THEN "generate" ELSE flow[g]
    BY <1>t, <1>6 DEF Judge, Step, TypeOK
  <2> IsKept(m) /\ IsOnce(m) /\ Displaced' = Displaced
    BY <1>0, <2>1
  <2> HIDE DEF Displaced
  <2>4. IsKept(m)'
    BY <2>1, <2>2, <2>3
  <2>5. IsOnce(m)'
    <3>1. CASE m = n
      <4>1. /\ \A g \in Flows : /\ m \notin todo'[g] /\ m \notin fresh'[g]
                                /\ current'[g] = m => g = f
            /\ flow'[f] = "generate" /\ ~Waits(m) /\ m \notin answered /\ ~Gone(m)
        BY <2>1, <2>2, <2>3, <3>1
      <4>2. ~Waits(m)' /\ m \notin answered' /\ ~Gone(m)'
        BY <2>1, <4>1
      <4> HIDE DEF IsKept, IsOnce, Waits, Gone
      <4> QED
        BY <4>1, <4>2, JudgedIsOnce
    <3>2. CASE m # n
      <4>1. \A g \in Flows : /\ m \in todo'[g] <=> m \in todo[g]
                             /\ current'[g] = m <=> current[g] = m
                             /\ current[g] = m => flow'[g] = flow[g]
        BY <2>2, <2>3, <3>2
      <4> QED
        BY <2>1, <4>1
    <3> QED
      BY <3>1, <3>2
  <2> QED
    BY <2>4, <2>5
<1>7. ASSUME NEW f \in Flows, Complete(f) PROVE Goal
  BY <1>0, <1>7, <1>p DEF Complete, Step, EntryType, TypeOK
<1>8. ASSUME NEW f \in Flows, SendFirst(f) PROVE Goal
  BY <1>0, <1>8, <1>p DEF SendFirst, Step, EntryType, TypeOK
<1>9. ASSUME NEW f \in Flows, SendRest(f) PROVE Goal
  BY <1>0, <1>9, <1>p DEF SendRest, Step, EntryType, TypeOK
<1>10. ASSUME NEW f \in Flows, ShutdownRequeue(f) PROVE Goal
  BY <1>0, <1>10, <1>p DEF ShutdownRequeue, Throws, GiveBack, Step, EntryType, TypeOK
<1>11. ASSUME NEW f \in Flows, BudgetRequeue(f) PROVE Goal
  BY <1>0, <1>11, <1>p DEF BudgetRequeue, Throws, GiveBack, Step, EntryType, TypeOK
<1>12. ASSUME NEW f \in Flows, BudgetDrop(f) PROVE Goal
  BY <1>0, <1>12, <1>p DEF BudgetDrop, Throws, Step, EntryType, TypeOK
<1>13. ASSUME NEW f \in Flows, Replan(f) PROVE Goal
  <2>1. PICK anchor : /\ anchor = Anchor(pending)
                      /\ anchor = None \/ anchor \in ToSet(pending) \cap (Msgs \ Commands)
    BY <1>0, PendingIs
  <2>2. /\ UNCHANGED <<sent, answered, settled, dropped, todo>> /\ flow[f] = "quiet" /\ fresh[f] = {}
        /\ \A g \in Flows : flow'[g] = IF g = f THEN "again" ELSE flow[g]
    BY <1>0, <1>13 DEF Replan, Step, EntryType, TypeOK
  <2>3. /\ ToSet(pending') = {}
        /\ \A g \in Flows : fresh'[g] = IF g = f THEN ToSet(pending) \ {anchor} ELSE fresh[g]
    BY <1>0, <1>13, <1>p, <2>1 DEF Replan, TypeOK
  <2>4. CASE anchor = None
    <3>1. current' = current /\ displaced' = displaced
      BY <1>13, <2>1, <2>4 DEF Replan
    <3> QED
      BY <1>0, <1>p, <2>2, <2>3, <2>4, <3>1
  <2>5. CASE anchor # None
    <3>1. current[f] # None /\ \A g \in Flows : current'[g] = IF g = f THEN anchor ELSE current[g]
      BY <1>0, <1>13, <2>1, <2>5 DEF Replan, EntryType, TypeOK
    <3>2. displaced' = displaced \cup {<<current[f], anchor>>}
      BY <1>13, <2>1, <2>5 DEF Replan
    <3>3. Displaced' = Displaced \cup {current[f]}
      BY <3>2, DisplacedIs
    <3> HIDE DEF Displaced
    <3> QED
      BY <1>0, <1>p, <2>1, <2>2, <2>3, <2>5, <3>1, <3>3
  <2> QED
    BY <2>4, <2>5
<1>14. ASSUME SamePlaces, \A f \in Flows : flow'[f] = "send" <=> flow[f] = "send" PROVE Goal
  BY <1>0, <1>14 DEF SamePlaces
<1>15. ASSUME NEW f \in Flows, EndTurn(f) \/ Deliver(f) \/ EndEntry(f) \/ Interrupted(f) \/ Again(f)
       PROVE  SamePlaces /\ \A g \in Flows : flow'[g] = "send" <=> flow[g] = "send"
  BY <1>0, <1>15 DEF SamePlaces, EndTurn, Deliver, EndEntry, Interrupted, Throws, Again, Step, TypeOK
<1>16. ASSUME NEW w \in Follow, SelfContinue(w) PROVE SamePlaces /\ flow' = flow
  BY <1>16 DEF SamePlaces, SelfContinue, StartFollow, Yield, StillQuiet, RegisterWeak, FollowWritten, FollowFails, FollowSends
<1>17. ASSUME AbortAllGenerations \/ DrainSelfContinuations \/ UNCHANGED vars PROVE SamePlaces /\ flow' = flow
  BY <1>17 DEF SamePlaces, AbortAllGenerations, DrainSelfContinuations, vars
<1> QED
  BY <1>1, <1>2, <1>4, <1>5, <1>6, <1>7, <1>8, <1>9, <1>10, <1>11, <1>12, <1>13, <1>14, <1>15, <1>16, <1>17
     DEF Next, Turn


LEMMA EntryAlways == Spec => []EntryOK
  BY EntryInit, EntryStep, PTL DEF Spec

\* Registry, turns, self-continuations and counters keep their types, and the limits on interrupts,
\* replans and replays are never exceeded.
THEOREM TypeCorrect == Spec => []TypeOK
<1>1. EntryOK => TypeOK
  BY DEF EntryOK, EntryType
<1> QED
  BY <1>1, EntryAlways, PTL

LEMMA InTurnsIs == \A m : m \in InTurns <=> \E f \in Flows : m \in InHand(f) \/ (current[f] = m /\ m # None)
<1> SUFFICES ASSUME NEW m
             PROVE  m \in InTurns <=> \E f \in Flows : m \in InHand(f) \/ (current[f] = m /\ m # None)
  OBVIOUS
<1> DEFINE InTodo == UNION {InHand(f) : f \in Flows}
           Judged == {current[f] : f \in Flows}
<1>1. m \in InTodo <=> \E f \in Flows : m \in InHand(f)
  BY Zenon
<1>2. m \in Judged <=> \E f \in Flows : current[f] = m
  BY Zenon
<1>3. InTurns = InTodo \cup (Judged \ {None})
  BY DEF InTurns, InHand
<1> HIDE DEF InTodo, Judged
<1> QED
  BY <1>1, <1>2, <1>3

\* However turns overlap, are interrupted, replan and are stopped: an entry that was sent waits, is
\* in a turn, or was answered, settled, displaced by a newer anchor or dropped with its replays used up.
THEOREM EntriesAreKept == Spec => []EntriesKept
<1>1. ASSUME EntryOK PROVE EntriesKept
  <2>1. TypeOK /\ EntryType
    BY <1>1 DEF EntryOK, EntryType
  <2>6. \A m : m \in InTurns <=> \E f \in Flows : m \in InHand(f) \/ (current[f] = m /\ m # None)
    BY InTurnsIs
  <2>2. ASSUME NEW m \in Msgs
        PROVE  m \in sent <=> m \in ToSet(pending) \cup InTurns \cup answered \cup settled \cup Displaced \cup dropped
    <3>1. m \in InTurns <=> \E f \in Flows : m \in InHand(f) \/ current[f] = m
      BY <2>6, SetsAssumption DEF SetsAssumption
    <3> QED
      BY <1>1, <3>1 DEF EntryOK, IsKept, Waits, Gone
  <2>3. ToSet(pending) \cup answered \cup settled \cup dropped \cup sent \subseteq Msgs
    BY <2>1, PendingIs DEF EntryType
  <2>4. Displaced \subseteq Msgs
    BY <2>1 DEF EntryType, Displaced
  <2>5. InTurns \subseteq Msgs
    BY <2>1, <2>6 DEF TypeOK, InHand
  <2> QED
    BY <2>2, <2>3, <2>4, <2>5 DEF EntriesKept
<1> QED
  BY <1>1, EntryAlways, PTL

\* An entry whose first segment of text has gone out is not pending, not in another turn, not given up, and
\* its own turn only sends the rest: its text is never sent a second time.
THEOREM AnswersAreGivenOnce == Spec => []AnsweredOnce
<1>1. ASSUME EntryOK PROVE AnsweredOnce
  <2>1. /\ answered \subseteq Msgs /\ ToSet(pending) \subseteq Msgs /\ TypeOK
    BY <1>1, PendingIs DEF EntryOK, EntryType
  <2>2. ASSUME NEW m \in answered
        PROVE  /\ m \notin ToSet(pending) \cup settled \cup Displaced \cup dropped
               /\ \A f \in Flows : m \notin InHand(f) /\ (current[f] = m => flow[f] = "send")
    BY <1>1, <2>1 DEF EntryOK, IsOnce, Waits, Gone
  <2> QED
    BY <2>2 DEF AnsweredOnce, InHand
<1> QED
  BY <1>1, EntryAlways, PTL

----------------------------------------------------------------------------
\* The generations that the replays used so far allow.
Allowed(d) == (MaxReplans + 1) * d

LEMMA AllowedIs ==
    ASSUME NEW d \in Nat
    PROVE  /\ Allowed(d) \in Nat /\ Allowed(0) = 0
           /\ Allowed(d + 1) = Allowed(d) + MaxReplans + 1
           /\ \A e \in Nat : d <= e => Allowed(d) <= Allowed(e)
<1> USE BoundsAssumption DEF BoundsAssumption
<1>1. Allowed(d) \in Nat /\ Allowed(0) = 0 /\ Allowed(d + 1) = Allowed(d) + MaxReplans + 1
  BY DEF Allowed
<1>2. ASSUME NEW e \in Nat, d <= e PROVE Allowed(d) <= Allowed(e)
  <2>1. PICK k \in Nat : e = d + k
    <3>1. e - d \in Nat /\ e = d + (e - d)
      BY <1>2
    <3> QED
      BY <3>1
  <2>2. Allowed(e) = Allowed(d) + (MaxReplans + 1) * k /\ (MaxReplans + 1) * k \in Nat
    BY <2>1 DEF Allowed
  <2> QED
    BY <1>1, <2>2
<1> QED
  BY <1>1, <1>2

\* While the process goes on, the generations of an entry are those of the replays it has used and
\* of the present round; in every state, one round more is allowed at most.
Bounded(m) ==
    /\ gens[m] <= Allowed(deferCount[m]) + MaxReplans + 1
    /\ ~ShuttingDown => /\ \A f \in Flows : current[f] = m =>
                              /\ flow[f] \in {"generate", "delay"} => gens[m] <= Allowed(deferCount[m]) + replans[f] + 1
                              /\ flow[f] \in {"quiet", "again"} => gens[m] <= Allowed(deferCount[m]) + replans[f]
                        /\ m \in answered \/ Gone(m) \/ (\E f \in Flows : current[f] = m)
                              \/ gens[m] <= Allowed(deferCount[m])
StormInv == EntryOK /\ \A m \in Msgs : Bounded(m)


\* A step that generates for m no further, and hands it to no other turn.
LEMMA StormStay ==
    ASSUME NEW m \in Msgs, Bounded(m),
           UNCHANGED <<gens[m], deferCount[m]>>, ShuttingDown => ShuttingDown',
           m \in answered => m \in answered', Gone(m) => Gone(m)',
           \A f \in Flows : current[f] = m => current'[f] = m \/ m \in answered' \/ Gone(m)',
           \A f \in Flows : current'[f] = m /\ flow'[f] \in {"generate", "delay", "quiet", "again"}
              => current[f] = m /\ flow'[f] = flow[f] /\ replans'[f] = replans[f]
    PROVE  Bounded(m)'
<1> HIDE DEF Gone, ShuttingDown
<1>1. UNCHANGED gens[m] /\ UNCHANGED Allowed(deferCount[m])
  BY DEF Allowed
<1> HIDE DEF Allowed
<1>2. (gens[m] <= Allowed(deferCount[m]) + MaxReplans + 1)'
  BY <1>1 DEF Bounded
<1>3. ASSUME NEW f \in Flows, current'[f] = m, ~ShuttingDown'
      PROVE  /\ flow'[f] \in {"generate", "delay"} => gens'[m] <= Allowed(deferCount'[m]) + replans'[f] + 1
             /\ flow'[f] \in {"quiet", "again"} => gens'[m] <= Allowed(deferCount'[m]) + replans'[f]
  BY <1>1, <1>3 DEF Bounded
<1>4. ~ShuttingDown' => \/ m \in answered' \/ Gone(m)' \/ (\E f \in Flows : current'[f] = m)
                        \/ gens'[m] <= Allowed(deferCount'[m])
  BY <1>1 DEF Bounded
<1> QED
  BY <1>2, <1>3, <1>4 DEF Bounded

LEMMA StormStep == StormInv /\ [Next]_vars => StormInv'
<1> SUFFICES ASSUME StormInv, [Next]_vars, NEW m \in Msgs PROVE Bounded(m)'
  BY EntryStep DEF StormInv
<1>0. EntryOK /\ EntryType /\ TypeOK /\ Bounded(m) /\ IsOnce(m)
  BY DEF StormInv, EntryOK, EntryType
<1> USE SetsAssumption DEF SetsAssumption, registry, left, flowVars, history
<1>t. /\ gens[m] \in Nat /\ deferCount[m] \in Nat /\ MaxReplans \in Nat
      /\ \A f \in Flows : replans[f] \in Nat /\ replans[f] <= MaxReplans
  BY <1>0, BoundsAssumption DEF BoundsAssumption, EntryType, TypeOK
<1>a. /\ Allowed(deferCount[m]) \in Nat
      /\ Allowed(deferCount[m] + 1) = Allowed(deferCount[m]) + MaxReplans + 1
  BY <1>t, AllowedIs
<1>1. ASSUME NEW n \in Msgs, Ingress(n) PROVE Bounded(m)'
  BY <1>0, <1>1, StormStay DEF Ingress, ShuttingDown, Gone, Displaced
<1>2. ASSUME NEW f \in Flows, StartTurn(f) \/ EndTurn(f) PROVE Bounded(m)'
  <2>1. UNCHANGED <<gens, deferCount, stopping, answered, settled, displaced, dropped, current, replans>>
    BY <1>2 DEF StartTurn, EndTurn
  <2>2. /\ flow'[f] \in {"turn", "off"} /\ \A g \in Flows \ {f} : flow'[g] = flow[g]
    BY <1>0, <1>2 DEF StartTurn, EndTurn, Step, TypeOK
  <2> QED
    BY <1>0, <2>1, <2>2, StormStay DEF ShuttingDown, Gone, Displaced
<1>4. ASSUME NEW f \in Flows, NEW n \in Msgs, Track(f, n) \/ RunCommandEntry(f, n) PROVE Bounded(m)'
  <2>1. /\ UNCHANGED <<gens, deferCount, stopping, displaced, dropped, flow, current, replans>>
        /\ answered \subseteq answered' /\ settled \subseteq settled'
    BY <1>4 DEF Track, RunCommandEntry
  <2> QED
    BY <1>0, <2>1, StormStay DEF ShuttingDown, Gone, Displaced
<1>5. ASSUME NEW f \in Flows, NEW n \in Msgs, Judge(f, n) PROVE Bounded(m)'
  <2>1. UNCHANGED <<deferCount, stopping, answered, settled, displaced, dropped>> /\ n \in todo[f]
    BY <1>5 DEF Judge
  <2>2. \A g \in Flows : /\ current'[g] = IF g = f THEN n ELSE current[g]
                         /\ flow'[g] = IF g = f THEN "generate" ELSE flow[g]
                         /\ replans'[g] = IF g = f THEN 0 ELSE replans[g]
    BY <1>0, <1>5 DEF Judge, Step, TypeOK
  <2>3. gens'[m] = IF ~ShuttingDown /\ m = n THEN gens[m] + 1 ELSE gens[m]
    BY <1>0, <1>5 DEF Judge, Counted, EntryType
  <2>4. current[f] = None
    BY <1>0, <1>5 DEF Judge, EntryType
  <2>5. CASE m # n
    BY <1>0, <2>1, <2>2, <2>3, <2>4, <2>5, StormStay DEF ShuttingDown, Gone, Displaced
  <2>6. CASE ShuttingDown
    BY <1>0, <2>1, <2>3, <2>6 DEF Bounded, ShuttingDown, Allowed
  <2>7. CASE m = n /\ ~ShuttingDown
    <3>1. m \notin answered /\ ~Gone(m) /\ \A g \in Flows : current[g] # m
      BY <1>0, <2>1, <2>7 DEF IsOnce, InHand
    <3>2. gens[m] <= Allowed(deferCount[m])
      BY <1>0, <2>7, <3>1 DEF Bounded
    <3>3. \A g \in Flows : current'[g] = m <=> g = f
      BY <2>2, <2>7, <3>1
    <3>4. UNCHANGED Allowed(deferCount[m]) /\ gens'[m] = gens[m] + 1 /\ flow'[f] = "generate" /\ replans'[f] = 0
      BY <2>1, <2>2, <2>3, <2>7 DEF Allowed
    <3> HIDE DEF Allowed
    <3> QED
      BY <1>t, <1>a, <3>2, <3>3, <3>4 DEF Bounded
  <2> QED
    BY <2>5, <2>6, <2>7
<1>7. ASSUME NEW f \in Flows, Complete(f) \/ SendFirst(f) \/ SendRest(f) \/ ShutdownRequeue(f) \/ BudgetDrop(f) \/ EndEntry(f)
      PROVE  Bounded(m)'
  <2>1. /\ UNCHANGED <<gens, deferCount, stopping, displaced, replans>>
        /\ answered \subseteq answered' /\ settled \subseteq settled' /\ dropped \subseteq dropped'
    BY <1>7 DEF Complete, SendFirst, SendRest, ShutdownRequeue, BudgetDrop, EndEntry
  <2>2. /\ flow'[f] \in {"turn", "send", "ending"} /\ \A g \in Flows \ {f} : flow'[g] = flow[g]
    BY <1>0, <1>7 DEF Complete, SendFirst, SendRest, ShutdownRequeue, GiveBack, BudgetDrop, EndEntry, Step, TypeOK
  <2>3. \A g \in Flows \ {f} : current'[g] = current[g]
    BY <1>0, <1>7 DEF Complete, SendFirst, SendRest, ShutdownRequeue, GiveBack, BudgetDrop, EndEntry, TypeOK
  <2>4. CASE ShutdownRequeue(f)
    BY <1>0, <2>1, <2>4 DEF Bounded, ShutdownRequeue, ShuttingDown, Allowed
  <2>5. CASE ~ShutdownRequeue(f)
    <3>1. \/ current'[f] = current[f] \/ current[f] \in settled' \cup dropped' \/ flow[f] = "send"
      BY <1>7, <2>5 DEF Complete, SendFirst, SendRest, BudgetDrop, EndEntry
    <3>2. current[f] = m => current'[f] = m \/ m \in answered' \/ Gone(m)'
      BY <1>0, <2>1, <3>1 DEF IsOnce, Gone
    <3> QED
      BY <1>0, <2>1, <2>2, <2>3, <3>2, StormStay DEF ShuttingDown, Gone, Displaced
  <2> QED
    BY <2>4, <2>5
<1>8. ASSUME NEW f \in Flows, BudgetRequeue(f) PROVE Bounded(m)'
  <2>1. UNCHANGED <<gens, stopping, answered, settled, displaced, dropped, replans>> /\ flow[f] \in {"generate", "delay"} /\ ~ShuttingDown
    BY <1>8 DEF BudgetRequeue, Throws
  <2>2. \A g \in Flows : /\ current'[g] = IF g = f THEN None ELSE current[g]
                         /\ flow'[g] = IF g = f THEN "ending" ELSE flow[g]
    BY <1>0, <1>8 DEF BudgetRequeue, GiveBack, Step, TypeOK
  <2>3. deferCount'[m] = IF m = current[f] THEN deferCount[m] + 1 ELSE deferCount[m]
    BY <1>0, <1>8 DEF BudgetRequeue, TypeOK
  <2>4. CASE m # current[f]
    BY <1>0, <2>1, <2>2, <2>3, <2>4, StormStay DEF ShuttingDown, Gone, Displaced
  <2>5. CASE m = current[f]
    <3>1. gens[m] <= Allowed(deferCount[m]) + replans[f] + 1
      BY <1>0, <2>1, <2>5 DEF Bounded
    <3>2. gens'[m] = gens[m] /\ Allowed(deferCount[m])' = Allowed(deferCount[m] + 1)
      BY <2>1, <2>3, <2>5 DEF Allowed
    <3>3. \A g \in Flows : current'[g] # m
      BY <1>0, <2>2, <2>5 DEF IsOnce
    <3> HIDE DEF Allowed
    <3>4. gens'[m] <= Allowed(deferCount[m])'
      BY <1>t, <1>a, <3>1, <3>2
    <3> QED
      BY <1>t, <1>a, <3>2, <3>3, <3>4 DEF Bounded
  <2> QED
    BY <2>4, <2>5
<1>3. ASSUME NEW f \in Flows, Deliver(f) PROVE Bounded(m)'
  <2>1. UNCHANGED <<gens, deferCount, stopping, answered, settled, displaced, dropped, current, replans>> /\ flow[f] = "generate"
    BY <1>3 DEF Deliver
  <2>2. \A g \in Flows : flow'[g] = IF g = f THEN "delay" ELSE flow[g]
    BY <1>0, <1>3 DEF Deliver, Step, TypeOK
  <2> HIDE DEF Gone
  <2>3. UNCHANGED <<Gone(m), ShuttingDown, Allowed(deferCount[m])>>
    BY <2>1 DEF Gone, Displaced, ShuttingDown, Allowed
  <2> QED
    BY <1>0, <2>1, <2>2, <2>3 DEF Bounded
<1>9. ASSUME NEW f \in Flows, Interrupted(f) PROVE Bounded(m)'
  <2>1. UNCHANGED <<gens, deferCount, stopping, answered, settled, displaced, dropped, current>> /\ flow[f] \in {"generate", "delay"}
        /\ ~ShuttingDown
    BY <1>9 DEF Interrupted, Throws
  <2>2. \A g \in Flows : /\ replans'[g] = IF g = f THEN replans[f] + 1 ELSE replans[g]
                         /\ flow'[g] = IF g = f THEN "quiet" ELSE flow[g]
    BY <1>0, <1>9 DEF Interrupted, Step, TypeOK
  <2>3. CASE m # current[f]
    BY <1>0, <2>1, <2>2, <2>3, StormStay DEF ShuttingDown, Gone, Displaced
  <2>4. CASE m = current[f]
    <3>1. gens[m] <= Allowed(deferCount[m]) + replans[f] + 1
      BY <1>0, <2>1, <2>4 DEF Bounded
    <3>2. UNCHANGED <<gens[m], Allowed(deferCount[m])>>
      BY <2>1 DEF Allowed
    <3>3. \A g \in Flows : current'[g] = m <=> g = f
      BY <1>0, <2>1, <2>4 DEF IsOnce
    <3> HIDE DEF Allowed
    <3>4. /\ gens'[m] <= Allowed(deferCount[m])' + MaxReplans + 1
          /\ gens'[m] <= Allowed(deferCount[m])' + replans'[f] /\ flow'[f] = "quiet"
      BY <1>t, <1>a, <2>2, <3>1, <3>2
    <3> QED
      BY <3>3, <3>4 DEF Bounded
  <2> QED
    BY <2>3, <2>4
<1>10. ASSUME NEW f \in Flows, Again(f) PROVE Bounded(m)'
  <2>1. UNCHANGED <<deferCount, stopping, answered, settled, displaced, dropped, current, replans>> /\ flow[f] = "again"
    BY <1>10 DEF Again
  <2>2. \A g \in Flows : flow'[g] = IF g = f THEN "generate" ELSE flow[g]
    BY <1>0, <1>10 DEF Again, Step, TypeOK
  <2>3. gens'[m] = IF ~ShuttingDown /\ m = current[f] THEN gens[m] + 1 ELSE gens[m]
    BY <1>0, <1>10 DEF Again, Counted, EntryType
  <2>4. CASE m # current[f]
    BY <1>0, <2>1, <2>2, <2>3, <2>4, StormStay DEF ShuttingDown, Gone, Displaced
  <2>5. CASE ShuttingDown
    BY <1>0, <2>1, <2>3, <2>5 DEF Bounded, ShuttingDown, Allowed
  <2>6. CASE m = current[f] /\ ~ShuttingDown
    <3>1. gens[m] <= Allowed(deferCount[m]) + replans[f]
      BY <1>0, <2>1, <2>6 DEF Bounded
    <3>2. UNCHANGED Allowed(deferCount[m]) /\ gens'[m] = gens[m] + 1
      BY <2>1, <2>3, <2>6 DEF Allowed
    <3>3. \A g \in Flows : current'[g] = m <=> g = f
      BY <1>0, <2>1, <2>6 DEF IsOnce
    <3> HIDE DEF Allowed
    <3>4. /\ gens'[m] <= Allowed(deferCount[m])' + MaxReplans + 1
          /\ gens'[m] <= Allowed(deferCount[m])' + replans'[f] + 1 /\ flow'[f] = "generate"
      BY <1>t, <1>a, <2>1, <2>2, <3>1, <3>2
    <3> QED
      BY <3>3, <3>4 DEF Bounded
  <2> QED
    BY <2>4, <2>5, <2>6
<1>11. ASSUME NEW f \in Flows, Replan(f) PROVE Bounded(m)'
  <2>1. PICK anchor : /\ anchor = Anchor(pending)
                      /\ anchor = None \/ anchor \in ToSet(pending) \cap (Msgs \ Commands)
    BY <1>0, PendingIs
  <2>2. /\ UNCHANGED <<gens, deferCount, stopping, dropped, replans, answered, settled>> /\ flow[f] = "quiet"
        /\ \A g \in Flows : flow'[g] = IF g = f THEN "again" ELSE flow[g]
    BY <1>0, <1>11 DEF Replan, Step, TypeOK
  <2>4. \A g \in Flows : current'[g] = IF g = f /\ anchor # None THEN anchor ELSE current[g]
    BY <1>0, <1>11, <2>1 DEF Replan, TypeOK
  <2>5. Displaced' = IF anchor = None THEN Displaced ELSE Displaced \cup {current[f]}
    <3>1. CASE anchor = None
      BY <1>11, <2>1, <3>1 DEF Replan, Displaced
    <3>2. CASE anchor # None
      BY <1>11, <2>1, <3>2, DisplacedIs DEF Replan
    <3> QED
      BY <3>1, <3>2
  <2>6. Gone(m) => Gone(m)'
    BY <2>2, <2>5 DEF Gone
  <2>7. CASE m # anchor /\ (anchor # None \/ m # current[f])
    <3>1. current[f] = m => Gone(m)'
      BY <2>5, <2>7 DEF Gone
    <3> QED
      BY <1>0, <2>2, <2>4, <2>6, <2>7, <3>1, StormStay DEF ShuttingDown
  <2>8. CASE m = anchor \/ (anchor = None /\ m = current[f])
    <3>1. ~ShuttingDown => gens[m] <= Allowed(deferCount[m]) + replans[f]
      <4>1. CASE m = anchor
        <5>1. ~ShuttingDown => gens[m] <= Allowed(deferCount[m])
          BY <1>0, <2>1, <4>1 DEF Bounded, IsOnce, Waits
        <5> HIDE DEF Allowed
        <5> QED
          BY <1>t, <1>a, <5>1
      <4>2. CASE anchor = None /\ m = current[f]
        BY <1>0, <2>2, <4>2 DEF Bounded
      <4> QED
        BY <2>8, <4>1, <4>2
    <3>2. \A g \in Flows : current'[g] = m <=> g = f
      BY <1>0, <2>1, <2>4, <2>8 DEF IsOnce, Waits
    <3>3. UNCHANGED <<gens[m], Allowed(deferCount[m]), ShuttingDown>> /\ replans'[f] = replans[f] /\ flow'[f] = "again"
      BY <2>2 DEF Allowed, ShuttingDown
    <3>4. gens[m] <= Allowed(deferCount[m]) + MaxReplans + 1
      BY <1>0 DEF Bounded
    <3> HIDE DEF Allowed, ShuttingDown
    <3> QED
      BY <3>1, <3>2, <3>3, <3>4 DEF Bounded
  <2> QED
    BY <2>7, <2>8
<1>12. ASSUME UNCHANGED <<gens, deferCount, answered, settled, displaced, dropped, flow, current, replans>>,
              ShuttingDown => ShuttingDown'
       PROVE  Bounded(m)'
  BY <1>0, <1>12, StormStay DEF Gone, Displaced
<1>13. ASSUME NEW w \in Follow, SelfContinue(w) PROVE Bounded(m)'
  BY <1>12, <1>13 DEF SelfContinue, StartFollow, Yield, StillQuiet, RegisterWeak, FollowWritten, FollowFails, FollowSends, ShuttingDown
<1>14. ASSUME AbortAllGenerations \/ DrainSelfContinuations \/ UNCHANGED vars PROVE Bounded(m)'
  BY <1>12, <1>14 DEF AbortAllGenerations, DrainSelfContinuations, vars, ShuttingDown
<1> QED
  BY <1>1, <1>2, <1>3, <1>4, <1>5, <1>7, <1>8, <1>9, <1>10, <1>11, <1>13, <1>14 DEF Next, Turn

\* However users interrupt and turns supersede one another, the bot generates for one entry at most
\* once for each replan of each replay, and once more per replay.
THEOREM StormsAreBounded == Spec => []StormBounded
<1>1. Init => StormInv
  <2>1. Init => \A m \in Msgs : gens[m] = 0 /\ deferCount[m] = 0 /\ \A f \in Flows : current[f] = None
    BY DEF Init
  <2>2. /\ 0 \in Nat /\ Allowed(0) = 0 /\ MaxReplans \in Nat
    BY AllowedIs, BoundsAssumption DEF BoundsAssumption
  <2> HIDE DEF Allowed
  <2>3. Init => \A m \in Msgs : Bounded(m)
    BY <2>1, <2>2, SetsAssumption DEF Bounded, SetsAssumption
  <2> QED
    BY <2>3, EntryInit DEF StormInv
<1>2. ASSUME StormInv PROVE StormBounded
  <2> SUFFICES ASSUME NEW m \in Msgs PROVE gens[m] <= (MaxReplans + 1) * (MaxReplays + 1)
    BY DEF StormBounded
  <2>1. /\ gens[m] \in Nat /\ deferCount[m] \in Nat /\ MaxReplans \in Nat /\ MaxReplays \in Nat
        /\ deferCount[m] <= MaxReplays
    BY <1>2, BoundsAssumption DEF BoundsAssumption, StormInv, EntryOK, EntryType, TypeOK
  <2>2. gens[m] <= Allowed(deferCount[m]) + MaxReplans + 1
    BY <1>2 DEF StormInv, Bounded
  <2>3. /\ Allowed(deferCount[m]) \in Nat /\ Allowed(MaxReplays) \in Nat
        /\ Allowed(deferCount[m]) <= Allowed(MaxReplays)
        /\ Allowed(MaxReplays + 1) = Allowed(MaxReplays) + MaxReplans + 1
    BY <2>1, AllowedIs
  <2>4. Allowed(MaxReplays + 1) = (MaxReplans + 1) * (MaxReplays + 1)
    BY DEF Allowed
  <2> HIDE DEF Allowed
  <2> QED
    BY <2>1, <2>2, <2>3, <2>4
<1> QED
  BY <1>1, <1>2, StormStep, PTL DEF Spec
=============================================================================
