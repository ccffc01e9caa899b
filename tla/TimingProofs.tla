---------------------------- MODULE TimingProofs ----------------------------
(***************************************************************************)
(* Proofs about the timing of one chat: WaitFsm, the waits a turn asks     *)
(* for, for any number of waits and any durations; and Burst, whom a turn  *)
(* hears, for any entries, limits and settings.                            *)
(***************************************************************************)
EXTENDS WaitFsm, Burst, FiniteSetTheorems, NaturalsInduction, WellFoundedInduction, SequenceTheorems, TLAPS

(* Least and greatest numbers.                                              *)

\* The induction by which facts about a recursive function are proved.
LEMMA LeastNumber ==
  ASSUME NEW T, T \subseteq Nat, T # {}
  PROVE  \E x \in T : \A y \in T : x <= y
<1> DEFINE Less == {p \in Nat \X Nat : p[1] < p[2]}
<1>1. Less = OpToRel(<, Nat)
  BY Zenon DEF OpToRel
<1>2. IsWellFoundedOn(Less, Nat)
  BY <1>1, NatLessThanWellFounded, Zenon
<1>3. \A x, y \in Nat : y < x => <<y, x>> \in Less
  OBVIOUS
<1> HIDE DEF Less
<1>4. PICK x \in T : \A y \in T : <<y, x>> \notin Less
  BY <1>2, WFMin
<1>5. ASSUME NEW y \in T PROVE x <= y
  <2>1. x \in Nat /\ y \in Nat
    BY <1>4
  <2>2. ~ (y < x)
    BY <1>3, <1>4, <2>1
  <2> QED
    BY <2>1, <2>2
<1> QED
  BY <1>4, <1>5

LEMMA MinIs ==
  ASSUME NEW S, S \subseteq Nat, S # {}
  PROVE  Min(S) \in S /\ \A y \in S : Min(S) <= y
<1>1. PICK x \in S : \A y \in S : x <= y
  BY LeastNumber
<1> QED
  BY <1>1 DEF Min

LEMMA MaxIs ==
  ASSUME NEW n \in Nat, NEW S, S \subseteq 0..n, S # {}
  PROVE  Max(S) \in S /\ \A y \in S : Max(S) >= y
<1> DEFINE T == {n - x : x \in S}
<1>1. T \subseteq Nat /\ T # {}
  <2>1. \A x \in S : n - x \in Nat
    OBVIOUS
  <2> QED
    BY <2>1
<1>2. PICK t \in T : \A y \in T : t <= y
  <2> HIDE DEF T
  <2> QED
    BY <1>1, LeastNumber
<1>3. PICK x \in S : t = n - x
  BY <1>2
<1>4. \A y \in S : n - x <= n - y
  BY <1>2, <1>3
<1>5. \A y \in S : x >= y
  BY <1>4
<1> QED
  BY <1>5 DEF Max

LEMMA MaxOfTwo ==
  ASSUME NEW a \in Int, NEW b \in Int
  PROVE  Max({a, b}) = IF a >= b THEN a ELSE b
<1>1. CASE a >= b
  BY <1>1 DEF Max
<1>2. CASE ~(a >= b)
  BY <1>2 DEF Max
<1> QED
  BY <1>1, <1>2
----------------------------------------------------------------------------
(* WaitFsm.                                                                 *)

LEMMA MinOfTwo ==
    ASSUME NEW a \in Int, NEW b \in Int
    PROVE  Min({a, b}) \in {a, b} /\ Min({a, b}) <= a /\ Min({a, b}) <= b
<1>1. \E x \in {a, b} : \A y \in {a, b} : x =< y
  <2>1. CASE a <= b
    BY <2>1
  <2>2. CASE b <= a
    BY <2>2
  <2> QED
    BY <2>1, <2>2
<1> QED
  BY <1>1 DEF Min

\* The two clamps of transitionToWait.
LEMMA BoundedIsShort ==
    ASSUME NEW s \in Nat
    PROVE  Bounded(s) \in Nat /\ Bounded(s) <= MaxWait
<1>1. /\ s \in Int /\ MinWait \in Int /\ MaxWait \in Int
      /\ 0 <= s /\ 0 <= MinWait /\ 0 <= MaxWait
  BY WaitAssumption DEF WaitAssumption
<1>2. Max({s, MinWait}) \in {s, MinWait}
  BY <1>1, MaxOfTwo
<1>3. /\ Min({Max({s, MinWait}), MaxWait}) \in {Max({s, MinWait}), MaxWait}
      /\ Min({Max({s, MinWait}), MaxWait}) <= MaxWait
  BY <1>1, <1>2, MinOfTwo
<1> QED
  BY <1>1, <1>2, <1>3 DEF Bounded

Longest == Max({MaxWait, Fallback})

LEMMA LongestBounds == Longest \in Nat /\ MaxWait <= Longest /\ Fallback <= Longest
  BY WaitAssumption, MaxOfTwo DEF WaitAssumption, Longest

\* A turn that is in a wait decision has a wait and its seconds, and an end it
\* clamped is a fallback window away at most.
Deciding ==
    /\ turn.at # "idle" => turn.wait \in Waits /\ sec[turn.wait] \in Nat
    /\ turn.until # None => turn.until <= now + Fallback

\* Before a turn writes a wait it has queued its job or clamped its end.
Queued == turn.at = "enter" /\ turn.until = None => job[turn.wait] # "none"

\* What a handler saw when it accepted was about to end.
NearItsEnd == \A w \in Waits : job[w] = "accepted" => snapshot[w] <= now + Tolerance

WaitInv ==
    /\ TypeOK /\ Deciding /\ Queued /\ NearItsEnd /\ UnqueuedWaitIsShort
    /\ state = "WAIT" => stored \in Waits

\* A wait that has not parked its anchor yet.
Unparked(w) == sec[w] = None \/ (turn.at = "park" /\ turn.wait = w)
InHand(w) == {v \in Waits : job[v] = "taken" /\ taken[v] = w}

\* Without a fault an anchor is parked once, and is then in one place only: in its
\* key, in one handler's hand, or replayed.
OncePlaced ==
    faults = 0 => \A w \in Waits :
        /\ job[w] \notin {"get", "del"}
        /\ Unparked(w) => anchor # w
        /\ Unparked(w) \/ anchor = w => InHand(w) = {} /\ replayed[w] = 0
        /\ InHand(w) # {} => replayed[w] = 0
        /\ \A u, v \in InHand(w) : u = v
        /\ replayed[w] <= 1

LEMMA WaitInit == Init => WaitInv /\ OncePlaced
<1> SUFFICES ASSUME Init PROVE WaitInv /\ OncePlaced
  OBVIOUS
<1> USE WaitAssumption DEF WaitAssumption, Init, Idle
<1>1. TypeOK
  BY LongestBounds DEF TypeOK, Longest
<1>2. Deciding /\ Queued /\ NearItsEnd /\ UnqueuedWaitIsShort
  BY DEF Deciding, Queued, NearItsEnd, UnqueuedWaitIsShort
<1>3. OncePlaced
  BY DEF OncePlaced, InHand
<1> QED
  BY <1>1, <1>2, <1>3 DEF WaitInv

LEMMA WaitStep == WaitInv /\ [Next]_vars => WaitInv'
<1> SUFFICES ASSUME WaitInv, [Next]_vars PROVE WaitInv'
  OBVIOUS
<1> USE WaitAssumption DEF WaitAssumption, WaitInv, TypeOK, Deciding, Queued, NearItsEnd,
      UnqueuedWaitIsShort, Idle, Fault, hashVars, anchorVars, turnVars, jobVars
<1>l. /\ Max({MaxWait, Fallback}) \in Nat /\ MaxWait <= Max({MaxWait, Fallback})
      /\ Fallback <= Max({MaxWait, Fallback})
  BY LongestBounds DEF Longest
<1>1. ASSUME NEW w \in Waits, NEW s \in Requested, DecideWait(w, s) PROVE WaitInv'
  BY <1>l, <1>1 DEF DecideWait
<1>2. ASSUME ParkAnchor PROVE WaitInv'
  BY <1>l, <1>2 DEF ParkAnchor
<1>3. ASSUME EnqueueResume PROVE WaitInv'
  <2>1. turn.wait \in Waits /\ Bounded(sec[turn.wait]) \in Nat
    BY <1>3, BoundedIsShort DEF EnqueueResume, AddResume
  <2>2. CASE UNCHANGED faults
    <3>1. /\ job' = [job EXCEPT ![turn.wait] = "delayed"]
          /\ due' = [due EXCEPT ![turn.wait] = now + Bounded(sec[turn.wait])]
          /\ turn' = [turn EXCEPT !.at = "enter"]
          /\ UNCHANGED <<now, hashVars, anchorVars, sec, snapshot, taken, replayed,
                         dropped>>
      BY <1>3, <2>2 DEF EnqueueResume, AddResume
    <3>2. due' \in [Waits -> Nat] /\ job'[turn.wait] = "delayed"
      BY <2>1, <3>1
    <3>3. /\ turn' \in [at : {"enter"}, wait : Waits, until : Nat \cup {None}]
          /\ turn'.wait = turn.wait /\ turn'.until = turn.until
      BY <2>1, <3>1
    <3>4. \A w \in Waits : job'[w] = job[w] \/ job'[w] = "delayed"
      BY <2>1, <3>1
    <3>5. TypeOK'
      BY <2>1, <2>2, <3>1, <3>2, <3>3
    <3>6. Deciding' /\ Queued'
      BY <1>3, <3>1, <3>2, <3>3 DEF EnqueueResume, AddResume
    <3>7. NearItsEnd'
      BY <3>1, <3>4
    <3>8. UnqueuedWaitIsShort' /\ (state' = "WAIT" => stored' \in Waits)
      BY <3>1, <3>4
    <3> QED
      BY <3>5, <3>6, <3>7, <3>8
  <2>3. CASE Fault
    <3>1. UNCHANGED <<now, hashVars, anchorVars, sec, jobVars>>
      BY <1>3, <2>3 DEF EnqueueResume, AddResume
    <3>2. CASE turn' = [turn EXCEPT !.at = "retry"]
      BY <1>3, <2>1, <2>3, <3>1, <3>2 DEF EnqueueResume, AddResume
    <3>3. CASE turn' = [turn EXCEPT !.at = "enter", !.until = now + Fallback]
      <4>1. now + Fallback \in Nat
        OBVIOUS
      <4>2. /\ turn' \in [at : {"enter"}, wait : Waits, until : Nat]
            /\ turn'.wait = turn.wait /\ turn'.until = now + Fallback
        BY <2>1, <3>3, <4>1
      <4>3. TypeOK'
        BY <2>3, <3>1, <4>2
      <4>4. Deciding' /\ Queued'
        BY <1>3, <3>1, <4>1, <4>2 DEF EnqueueResume, AddResume
      <4> QED
        BY <3>1, <4>3, <4>4
    <3> QED
      BY <1>3, <2>3, <3>2, <3>3 DEF EnqueueResume, AddResume
  <2> QED
    BY <1>3, <2>2, <2>3 DEF EnqueueResume, AddResume
<1>4. ASSUME EnterWait PROVE WaitInv'
  BY <1>l, <1>4, BoundedIsShort DEF EnterWait
<1>5. ASSUME TurnWakes PROVE WaitInv'
  BY <1>l, <1>5 DEF TurnWakes, ClearWait
<1>6. ASSUME TurnStops PROVE WaitInv'
  BY <1>l, <1>6 DEF TurnStops, ClearWait
<1>7. ASSUME NEW w \in Waits, ResumeFires(w) PROVE WaitInv'
  BY <1>l, <1>7 DEF ResumeFires, Dropped, Accepted, Reads, Distance
<1>8. ASSUME NEW w \in Waits, ResumeWakes(w) PROVE WaitInv'
  BY <1>l, <1>8 DEF ResumeWakes, ClearWait
<1>9. ASSUME NEW w \in Waits, TakeAnchor(w) PROVE WaitInv'
  BY <1>l, <1>9 DEF TakeAnchor
<1>10. ASSUME NEW w \in Waits, GetAnchor(w) PROVE WaitInv'
  BY <1>l, <1>10 DEF GetAnchor
<1>11. ASSUME NEW w \in Waits, DeleteAnchor(w) PROVE WaitInv'
  BY <1>l, <1>11 DEF DeleteAnchor
<1>12. ASSUME NEW w \in Waits, Replay(w) PROVE WaitInv'
  BY <1>l, <1>12 DEF Replay
<1>13. ASSUME AnchorExpires PROVE WaitInv'
  BY <1>l, <1>13 DEF AnchorExpires
<1>14. ASSUME Tick PROVE WaitInv'
  BY <1>l, <1>14 DEF Tick
<1>15. CASE UNCHANGED vars
  BY <1>15 DEF vars
<1> QED
  BY <1>1, <1>2, <1>3, <1>4, <1>5, <1>6, <1>7, <1>8, <1>9, <1>10, <1>11, <1>12, <1>13,
     <1>14, <1>15 DEF Next

LEMMA OnceStep == WaitInv /\ OncePlaced /\ [Next]_vars => OncePlaced'
<1> SUFFICES ASSUME WaitInv, OncePlaced, [Next]_vars, faults' = 0 PROVE OncePlaced'
  BY DEF OncePlaced
<1> USE WaitAssumption DEF WaitAssumption
<1>t. TypeOK /\ Deciding
  BY DEF WaitInv
<1>f. faults = 0 /\ ~Fault
  <2>1. faults \in Nat
    BY <1>t DEF TypeOK
  <2>2. faults' = faults \/ faults' = faults + 1
    BY DEF Next, vars, DecideWait, ParkAnchor, EnqueueResume, AddResume, EnterWait, TurnWakes,
       TurnStops,
           ResumeFires, ResumeWakes, TakeAnchor, GetAnchor, DeleteAnchor, Replay,
           AnchorExpires,
           Tick, Fault
  <2> QED
    BY <2>1, <2>2 DEF Fault
<1>o. \A w \in Waits :
        /\ job[w] \notin {"get", "del"}
        /\ Unparked(w) => anchor # w
        /\ Unparked(w) \/ anchor = w => InHand(w) = {} /\ replayed[w] = 0
        /\ InHand(w) # {} => replayed[w] = 0
        /\ \A u, v \in InHand(w) : u = v
        /\ replayed[w] <= 1
  BY <1>f DEF OncePlaced
\* A step after which no anchor is in more places than before.
<1>s. ASSUME /\ \A w \in Waits : job'[w] \notin {"get", "del"}
             /\ \A w \in Waits : Unparked(w)' => Unparked(w)
             /\ anchor' \in {anchor, None}
             /\ \A w \in Waits : InHand(w)' \subseteq InHand(w)
             /\ UNCHANGED replayed
      PROVE  OncePlaced'
  BY <1>s, <1>o DEF OncePlaced
<1>1. ASSUME NEW w \in Waits, NEW s \in Requested, DecideWait(w, s) PROVE OncePlaced'
  BY <1>t, <1>f, <1>o, <1>s, <1>1 DEF DecideWait, TypeOK, Deciding, Idle, Unparked, InHand,
     hashVars, anchorVars, turnVars, jobVars
<1>2. ASSUME ParkAnchor PROVE OncePlaced'
  BY <1>t, <1>f, <1>o, <1>2 DEF ParkAnchor, OncePlaced, TypeOK, Deciding, Unparked, InHand,
     hashVars, turnVars, jobVars
<1>3. ASSUME EnqueueResume PROVE OncePlaced'
  BY <1>t, <1>f, <1>o, <1>s, <1>3 DEF EnqueueResume, AddResume, TypeOK, Deciding, Idle, Unparked,
     InHand,
     hashVars, anchorVars, turnVars, jobVars
<1>4. ASSUME EnterWait PROVE OncePlaced'
  BY <1>t, <1>f, <1>o, <1>s, <1>4 DEF EnterWait, TypeOK, Deciding, Idle, Unparked, InHand,
     hashVars, anchorVars, turnVars, jobVars
<1>5. ASSUME TurnWakes PROVE OncePlaced'
  BY <1>t, <1>f, <1>o, <1>s, <1>5 DEF TurnWakes, ClearWait, TypeOK, Deciding, Idle,
     Unparked, InHand,
     hashVars, anchorVars, turnVars, jobVars
<1>6. ASSUME TurnStops PROVE OncePlaced'
  BY <1>t, <1>f, <1>o, <1>s, <1>6 DEF TurnStops, ClearWait, TypeOK, Deciding, Idle,
     Unparked, InHand,
     hashVars, anchorVars, turnVars, jobVars
<1>7. ASSUME NEW w \in Waits, ResumeFires(w) PROVE OncePlaced'
  BY <1>t, <1>f, <1>o, <1>s, <1>7 DEF ResumeFires, Dropped, Accepted, TypeOK, Deciding,
     Idle, Unparked, InHand,
     hashVars, anchorVars, turnVars, jobVars
<1>8. ASSUME NEW w \in Waits, ResumeWakes(w) PROVE OncePlaced'
  BY <1>t, <1>f, <1>o, <1>s, <1>8 DEF ResumeWakes, ClearWait, TypeOK, Deciding, Idle,
     Unparked, InHand,
     hashVars, anchorVars, turnVars, jobVars
<1>9. ASSUME NEW w \in Waits, TakeAnchor(w) PROVE OncePlaced'
  BY <1>t, <1>f, <1>o, <1>9 DEF TakeAnchor, OncePlaced, TypeOK, Unparked, InHand, hashVars,
     anchorVars, turnVars
<1>10. ASSUME NEW w \in Waits, Replay(w) PROVE OncePlaced'
  BY <1>t, <1>f, <1>o, <1>10 DEF Replay, OncePlaced, TypeOK, Unparked, InHand, hashVars,
     anchorVars, turnVars
<1>11. ASSUME NEW w \in Waits, GetAnchor(w) \/ DeleteAnchor(w) PROVE OncePlaced'
  BY <1>o, <1>11 DEF GetAnchor, DeleteAnchor
<1>12. ASSUME AnchorExpires PROVE OncePlaced'
  BY <1>t, <1>f, <1>o, <1>s, <1>12 DEF AnchorExpires, TypeOK, Deciding, Idle, Unparked,
     InHand,
     hashVars, anchorVars, turnVars, jobVars
<1>13. ASSUME Tick PROVE OncePlaced'
  BY <1>t, <1>f, <1>o, <1>s, <1>13 DEF Tick, TypeOK, Deciding, Idle, Unparked, InHand,
     hashVars, anchorVars, turnVars, jobVars
<1>14. CASE UNCHANGED vars
  BY <1>o, <1>s, <1>14 DEF vars, hashVars, anchorVars, turnVars, jobVars, Unparked, InHand
<1> QED
  BY <1>1, <1>2, <1>3, <1>4, <1>5, <1>6, <1>7, <1>8, <1>9, <1>10, <1>11, <1>12, <1>13,
     <1>14 DEF Next

LEMMA WaitAlways == Spec => [](WaitInv /\ OncePlaced)
<1>1. WaitInv /\ OncePlaced /\ [Next]_vars => (WaitInv /\ OncePlaced)'
  BY WaitStep, OnceStep
<1> QED
  BY WaitInit, <1>1, PTL DEF Spec

\* Types, and no wait longer than TIMING_WAIT_MAX_SEC or the fallback window.
THEOREM WaitTypes == Spec => []TypeOK
<1>1. WaitInv => TypeOK
  BY DEF WaitInv
<1> QED
  BY <1>1, WaitAlways, PTL

\* A wait without a resume job is over after the fallback window, although the
\* override passes through a turn's local and a second await (chat-runtime.ts 165-176).
THEOREM UnqueuedWaitsAreShort == Spec => []UnqueuedWaitIsShort
<1>1. WaitInv => UnqueuedWaitIsShort
  BY DEF WaitInv
<1> QED
  BY <1>1, WaitAlways, PTL

\* No handler ends the wait it looked at more than the tolerance early
\* (chat-runtime.ts 230-253).
THEOREM WaitsAreNotCutShort == Spec => NeverCutShort
<1>1. WaitInv => \A w \in Waits : job[w] = "accepted" /\ job'[w] = "awake" /\ Reads = "WAIT" =>
                     waitUntil <= now + Tolerance \/ waitUntil # snapshot[w]
  BY DEF WaitInv, NearItsEnd
<1> QED
  BY <1>1, WaitAlways, PTL DEF NeverCutShort

\* Without faults a parked entry comes back once at most, however many resume jobs are
\* in their handlers (buffer.ts 213-227).
THEOREM AnchorsAreReplayedOnce == Spec => []AnchorReplayedOnce
<1>1. OncePlaced => AnchorReplayedOnce
  BY DEF OncePlaced, AnchorReplayedOnce
<1> QED
  BY <1>1, WaitAlways, PTL
----------------------------------------------------------------------------
(* Burst.                                                                   *)

\* A finite set with a strict total order, R.

StrictOrder(A, R) ==
  /\ \A i \in A : <<i, i>> \notin R
  /\ \A i, j, k \in A : <<i, j>> \in R /\ <<j, k>> \in R => <<i, k>> \in R
  /\ \A i, j \in A : i = j \/ <<i, j>> \in R \/ <<j, i>> \in R
Preceding(A, R, i) == {j \in A : <<j, i>> \in R}

LEMMA FewerElements ==
  ASSUME NEW S, IsFiniteSet(S), NEW T, T \subseteq S
  PROVE  IsFiniteSet(T) /\ Cardinality(S) \in Nat /\ Cardinality(T) \in Nat /\ Cardinality(T) <= Cardinality(S)
<1>1. T \in SUBSET S
  OBVIOUS
<1> QED
  BY <1>1, FS_Subset, FS_CardinalityType

LEMMA OneLess ==
  ASSUME NEW S, IsFiniteSet(S), NEW x \in S, NEW T, T \subseteq S \ {x}
  PROVE  Cardinality(S) \in Nat /\ Cardinality(T) \in Nat /\ Cardinality(T) < Cardinality(S)
<1>1. IsFiniteSet(S \ {x}) /\ Cardinality(S \ {x}) = Cardinality(S) - 1
  BY FS_RemoveElement
<1>2. Cardinality(T) \in Nat /\ Cardinality(T) <= Cardinality(S \ {x})
  BY <1>1, FewerElements
<1>3. Cardinality(S) \in Nat
  BY FS_CardinalityType
<1> QED
  BY <1>1, <1>2, <1>3

\* What precedes an element has fewer elements before it.
LEMMA RankGrows ==
  ASSUME NEW A, IsFiniteSet(A), NEW R, StrictOrder(A, R), NEW i \in A, NEW j \in A, <<j, i>> \in R
  PROVE  /\ Cardinality(Preceding(A, R, i)) \in Nat /\ Cardinality(Preceding(A, R, j)) \in Nat
         /\ Cardinality(Preceding(A, R, j)) < Cardinality(Preceding(A, R, i))
<1>1. IsFiniteSet(Preceding(A, R, i))
  BY FewerElements DEF Preceding
<1>2. j \in Preceding(A, R, i) /\ Preceding(A, R, j) \subseteq Preceding(A, R, i) \ {j}
  BY DEF Preceding, StrictOrder
<1> QED
  BY <1>1, <1>2, OneLess

LEMMA RankType ==
  ASSUME NEW A, IsFiniteSet(A), NEW R, NEW i
  PROVE  /\ IsFiniteSet(Preceding(A, R, i)) /\ Cardinality(A) \in Nat
         /\ Cardinality(Preceding(A, R, i)) \in 0..Cardinality(A)
<1>1. Preceding(A, R, i) \subseteq A
  BY DEF Preceding
<1>2. /\ IsFiniteSet(Preceding(A, R, i)) /\ Cardinality(A) \in Nat
      /\ Cardinality(Preceding(A, R, i)) \in Nat /\ Cardinality(Preceding(A, R, i)) <= Cardinality(A)
  BY <1>1, FewerElements
<1> QED
  BY <1>2

LEMMA SomeFirst ==
  ASSUME NEW A, IsFiniteSet(A), A # {}, NEW R, StrictOrder(A, R)
  PROVE  \E m \in A : Preceding(A, R, m) = {}
<1> DEFINE T == {Cardinality(Preceding(A, R, i)) : i \in A}
<1>1. T \subseteq Nat /\ T # {}
  BY RankType
<1>2. PICK t \in T : \A y \in T : t <= y
  <2> HIDE DEF T
  <2> QED
    BY <1>1, LeastNumber
<1>3. PICK m \in A : t = Cardinality(Preceding(A, R, m))
  BY <1>2
<1>4. ASSUME NEW j \in Preceding(A, R, m) PROVE FALSE
  <2>1. j \in A /\ <<j, m>> \in R
    BY DEF Preceding
  <2>2. /\ t \in Nat /\ Cardinality(Preceding(A, R, j)) \in Nat
        /\ Cardinality(Preceding(A, R, j)) < t
    BY <1>3, <2>1, RankGrows
  <2>3. t <= Cardinality(Preceding(A, R, j))
    BY <1>2, <2>1
  <2> QED
    BY <2>2, <2>3
<1> QED
  BY <1>4

\* No more than k elements have fewer than k before them.
LEMMA FewBefore ==
  ASSUME NEW A, IsFiniteSet(A), NEW R, StrictOrder(A, R), NEW k \in Nat \ {0}
  PROVE  Cardinality({i \in A : Cardinality(Preceding(A, R, i)) < k}) <= k
<1> DEFINE S == {i \in A : Cardinality(Preceding(A, R, i)) < k}
           T == {Cardinality(Preceding(A, R, i)) : i \in S}
<1>1. CASE S = {}
  BY <1>1, FS_EmptySet
<1>2. CASE S # {}
  <2>1. T \subseteq 0..Cardinality(A) /\ T # {} /\ Cardinality(A) \in Nat
    BY <1>2, RankType
  <2>2. Max(T) \in T /\ \A y \in T : Max(T) >= y
    <3> HIDE DEF T
    <3> QED
      BY <2>1, MaxIs
  <2>3. PICK m \in S : Max(T) = Cardinality(Preceding(A, R, m))
    BY <2>2
  <2>4. ASSUME NEW j \in S, j # m PROVE j \in Preceding(A, R, m)
    <3>1. Max(T) >= Cardinality(Preceding(A, R, j))
      BY <2>2
    <3>2. ~(<<m, j>> \in R)
      <4> SUFFICES ASSUME <<m, j>> \in R PROVE FALSE
        OBVIOUS
      <4>1. /\ Cardinality(Preceding(A, R, j)) \in Nat /\ Cardinality(Preceding(A, R, m)) \in Nat
            /\ Cardinality(Preceding(A, R, m)) < Cardinality(Preceding(A, R, j))
        BY RankGrows
      <4> QED
        BY <2>3, <3>1, <4>1
    <3> QED
      BY <2>4, <3>2 DEF StrictOrder, Preceding
  <2>5. IsFiniteSet(S) /\ IsFiniteSet(Preceding(A, R, m))
    BY FewerElements, RankType
  <2>6. S \ {m} \subseteq Preceding(A, R, m)
    BY <2>4
  <2>7. Cardinality(S \ {m}) = Cardinality(S) - 1 /\ Cardinality(S) \in Nat
    <3> HIDE DEF S
    <3> QED
      BY <2>3, <2>5, FS_RemoveElement, FS_CardinalityType
  <2>8. /\ Cardinality(S \ {m}) <= Cardinality(Preceding(A, R, m))
        /\ Cardinality(Preceding(A, R, m)) \in Nat
    BY <2>5, <2>6, FewerElements
  <2>9. Cardinality(Preceding(A, R, m)) < k
    BY <2>3
  <2> HIDE DEF S
  <2>10. Cardinality(S) <= k
    BY <2>7, <2>8, <2>9
  <2> QED
    BY <2>10 DEF S
<1> QED
  BY <1>1, <1>2
----------------------------------------------------------------------------
(* What Only keeps.                                                         *)

\* The function that Only defines, up to k.
KeptUpTo(s, S, kept, k) ==
    kept = [n \in 0..k |->
              IF n = 0 THEN <<>> ELSE IF s[n] \in S THEN Append(kept[n - 1], s[n]) ELSE kept[n - 1]]

LEMMA KeptExists ==
  ASSUME NEW s, NEW S, NEW k \in Nat
  PROVE  \E kept : KeptUpTo(s, S, kept, k)
<1> DEFINE Without == {n \in Nat : ~ \E kept : KeptUpTo(s, S, kept, n)}
<1> SUFFICES ASSUME Without # {} PROVE FALSE
  OBVIOUS
<1>1. PICK n \in Without : \A i \in Without : n <= i
  BY LeastNumber
<1>2. n # 0
  <2>1. KeptUpTo(s, S, [i \in {0} |-> <<>>], 0)
    BY DEF KeptUpTo
  <2> QED
    BY <2>1
<1>3. PICK kept : KeptUpTo(s, S, kept, n - 1)
  BY <1>1, <1>2
<1> DEFINE more == [i \in 0..n |->
                      IF i < n THEN kept[i]
                      ELSE IF s[i] \in S THEN Append(kept[i - 1], s[i]) ELSE kept[i - 1]]
<1>4. KeptUpTo(s, S, more, n)
  <2>1. \A i \in 0..n : i < n => i \in 0..(n - 1) /\ (i # 0 => i - 1 \in 0..(n - 1))
    BY <1>1
  <2>2. \A i \in 0..(n - 1) : kept[i] = IF i = 0 THEN <<>>
                                        ELSE IF s[i] \in S THEN Append(kept[i - 1], s[i]) ELSE kept[i - 1]
    BY <1>3 DEF KeptUpTo
  <2>3. \A i \in 0..n : more[i] = IF i = 0 THEN <<>>
                                  ELSE IF s[i] \in S THEN Append(more[i - 1], s[i]) ELSE more[i - 1]
    BY <1>1, <1>2, <2>1, <2>2
  <2> QED
    BY <2>3 DEF KeptUpTo
<1> QED
  BY <1>1, <1>4

\* Place k of s, of which nothing in P follows up to n.
LastUpTo(s, P, k, n) == k \in 1..n /\ s[k] \in P /\ \A j \in (k + 1)..n : s[j] \notin P
LastIn(s, P, k) == LastUpTo(s, P, k, Len(s))

\* What r, made of the first n elements of s, keeps: those in S, and the last of those in P.
KeepsLast(s, r, T, S, P, n) ==
    /\ r \in Seq(T)
    /\ \A p \in 1..Len(r) : r[p] \in S
    /\ \A k \in 1..n : LastUpTo(s, P, k, n) => \E p \in 1..Len(r) : LastIn(r, P, p) /\ r[p] = s[k]

LEMMA KeepsNext ==
  ASSUME NEW T, NEW s \in Seq(T), NEW S, NEW P, P \subseteq S, NEW n \in 1..Len(s),
         NEW r, KeepsLast(s, r, T, S, P, n - 1)
  PROVE  KeepsLast(s, IF s[n] \in S THEN Append(r, s[n]) ELSE r, T, S, P, n)
<1>1. r \in Seq(T) /\ Len(r) \in Nat /\ s[n] \in T /\ Len(s) \in Nat
  BY DEF KeepsLast
<1>2. CASE s[n] \notin S
  <2>1. \A k \in 1..n : LastUpTo(s, P, k, n) => k \in 1..(n - 1) /\ LastUpTo(s, P, k, n - 1)
    BY <1>1, <1>2 DEF LastUpTo
  <2> QED
    BY <1>2, <2>1 DEF KeepsLast
<1>3. CASE s[n] \in S
  <2>1. PICK q : q = Append(r, s[n])
    OBVIOUS
  <2>2. /\ q \in Seq(T) /\ Len(q) = Len(r) + 1 /\ q[Len(r) + 1] = s[n]
        /\ \A p \in 1..Len(r) : q[p] = r[p]
    BY <1>1, <2>1
  <2>3. \A p \in 1..Len(q) : q[p] \in S
    <3> TAKE p \in 1..Len(q)
    <3>1. p \in 1..Len(r) \/ p = Len(r) + 1
      BY <1>1, <2>2
    <3> QED
      BY <1>3, <2>2, <3>1 DEF KeepsLast
  <2>4. ASSUME NEW k \in 1..n, LastUpTo(s, P, k, n)
        PROVE  \E p \in 1..Len(q) : LastIn(q, P, p) /\ q[p] = s[k]
    <3>1. CASE k = n
      <4>1. LastIn(q, P, Len(q)) /\ q[Len(q)] = s[k] /\ Len(q) \in 1..Len(q)
        BY <1>1, <2>2, <2>4, <3>1 DEF LastIn, LastUpTo
      <4> QED
        BY <4>1
    <3>2. CASE k # n
      <4>1. k \in 1..(n - 1) /\ LastUpTo(s, P, k, n - 1) /\ s[n] \notin P
        BY <1>1, <2>4, <3>2 DEF LastUpTo
      <4>2. PICK p \in 1..Len(r) : LastIn(r, P, p) /\ r[p] = s[k]
        BY <4>1 DEF KeepsLast
      <4>3. p \in 1..Len(q) /\ q[p] = s[k] /\ q[p] \in P
        BY <1>1, <2>2, <4>2 DEF LastIn, LastUpTo
      <4>4. ASSUME NEW j \in (p + 1)..Len(q) PROVE q[j] \notin P
        <5>1. j \in (p + 1)..Len(r) \/ j = Len(r) + 1
          BY <1>1, <2>2
        <5>2. j \in (p + 1)..Len(r) => q[j] = r[j]
          BY <1>1, <2>2
        <5> QED
          BY <2>2, <4>1, <4>2, <5>1, <5>2 DEF LastIn, LastUpTo
      <4> QED
        BY <4>3, <4>4 DEF LastIn, LastUpTo
    <3> QED
      BY <3>1, <3>2
  <2> QED
    BY <1>3, <2>1, <2>2, <2>3, <2>4 DEF KeepsLast
<1> QED
  BY <1>2, <1>3

\* Only keeps elements of S and nothing else, and the last element of s that is in P, a part
\* of S, is the last of what is kept.
LEMMA OnlyKeepsLast ==
  ASSUME NEW T, NEW s \in Seq(T), NEW S, NEW P, P \subseteq S
  PROVE  KeepsLast(s, Only(s, S), T, S, P, Len(s))
<1>1. Len(s) \in Nat
  OBVIOUS
<1>2. PICK kept : KeptUpTo(s, S, kept, Len(s)) /\ Only(s, S) = kept[Len(s)]
  <2>1. \E kept : KeptUpTo(s, S, kept, Len(s))
    BY <1>1, KeptExists
  <2> QED
    BY <2>1 DEF Only, KeptUpTo
<1>3. \A i \in 0..Len(s) : kept[i] = IF i = 0 THEN <<>>
                                     ELSE IF s[i] \in S THEN Append(kept[i - 1], s[i]) ELSE kept[i - 1]
  BY <1>2 DEF KeptUpTo
<1> DEFINE Good(n) == KeepsLast(s, kept[n], T, S, P, n)
           Bad == {n \in 0..Len(s) : ~Good(n)}
<1>4. Bad = {}
  <2> SUFFICES ASSUME Bad # {} PROVE FALSE
    OBVIOUS
  <2>1. PICK n \in Bad : \A i \in Bad : n <= i
    <3>1. Bad \subseteq Nat
      BY <1>1
    <3> HIDE DEF Bad
    <3> QED
      BY <3>1, LeastNumber
  <2>2. n # 0
    <3>1. kept[0] = <<>>
      BY <1>1, <1>3
    <3>2. Good(0)
      BY <3>1 DEF KeepsLast
    <3> QED
      BY <3>2
  <2>3. n \in 1..Len(s) /\ n - 1 \in 0..Len(s) /\ ~(n <= n - 1)
    BY <1>1, <2>1, <2>2
  <2>4. Good(n - 1)
    <3>1. n - 1 \notin Bad
      <4> HIDE DEF Bad
      <4> QED
        BY <2>1, <2>3
    <3> HIDE DEF Good
    <3> QED
      BY <2>3, <3>1
  <2>5. kept[n] = IF s[n] \in S THEN Append(kept[n - 1], s[n]) ELSE kept[n - 1]
    BY <1>3, <2>2, <2>3
  <2>6. Good(n)
    BY <2>3, <2>4, <2>5, KeepsNext
  <2> QED
    BY <2>1, <2>6
<1>5. Good(Len(s))
  <2> HIDE DEF Good
  <2> QED
    BY <1>1, <1>4
<1> QED
  BY <1>2, <1>5
----------------------------------------------------------------------------
(* The cut burst: it still has the entry that addressed the bot last.       *)

LEMMA LastOfIs ==
  ASSUME NEW T, NEW s \in Seq(T), NEW n \in Nat \ {0}
  PROVE  /\ LastOf(s, n) \in Seq(T) /\ Len(s) \in Nat
         /\ Len(s) > n => /\ Len(LastOf(s, n)) = n
                          /\ \A q \in 1..n : LastOf(s, n)[q] = s[Len(s) - n + q]
         /\ Len(s) > 0 => /\ Len(LastOf(s, n)) \in Nat \ {0}
                          /\ LastOf(s, n)[Len(LastOf(s, n))] = s[Len(s)]
<1>1. Len(s) \in Nat /\ Len(s) - n \in Int
  OBVIOUS
<1>2. PICK d : d = Max({0, Len(s) - n})
  OBVIOUS
<1>3. d = (IF Len(s) > n THEN Len(s) - n ELSE 0) /\ d \in Nat /\ d <= Len(s) /\ (Len(s) > 0 => d < Len(s))
  BY <1>1, <1>2, MaxOfTwo
<1>4. LastOf(s, n) = SubSeq(s, d + 1, Len(s))
  BY <1>2 DEF LastOf
<1>5. PICK r : r = LastOf(s, n)
  OBVIOUS
<1>6. /\ r \in Seq(T) /\ Len(r) = Len(s) - d
      /\ \A q \in 1..(Len(s) - d) : r[q] = s[d + q]
  <2>1. d + 1 \in 1..(Len(s) + 1) /\ Len(s) \in ((d + 1) - 1)..Len(s)
    BY <1>1, <1>3
  <2>2. /\ r \in Seq(T) /\ Len(r) = Len(s) - (d + 1) + 1
        /\ \A q \in 1..(Len(s) - (d + 1) + 1) : r[q] = s[(d + 1) + q - 1]
    BY <1>4, <1>5, <2>1, SubSeqProperties
  <2>3. Len(s) - (d + 1) + 1 = Len(s) - d /\ \A q \in 1..(Len(s) - d) : (d + 1) + q - 1 = d + q
    BY <1>1, <1>3
  <2> QED
    BY <2>2, <2>3
<1>7. ASSUME Len(s) > n PROVE Len(r) = n /\ \A q \in 1..n : r[q] = s[Len(s) - n + q]
  <2>1. d = Len(s) - n /\ Len(s) - d = n
    BY <1>1, <1>3, <1>7
  <2> QED
    BY <1>6, <2>1
<1>8. ASSUME Len(s) > 0 PROVE Len(r) \in Nat \ {0} /\ r[Len(r)] = s[Len(s)]
  <2>1. Len(s) - d \in 1..(Len(s) - d) /\ Len(s) - d \in Nat \ {0} /\ d + (Len(s) - d) = Len(s)
    BY <1>1, <1>3, <1>8
  <2>2. r[Len(s) - d] = s[d + (Len(s) - d)]
    BY <1>6, <2>1
  <2> QED
    BY <1>6, <2>1, <2>2
<1> QED
  BY <1>1, <1>5, <1>6, <1>7, <1>8

LEMMA GiveWayIs ==
  ASSUME NEW s \in Seq(Entries)
  PROVE  /\ GiveWay(s) \in Seq(Entries)
         /\ \A k \in 1..Len(s) : LastIn(s, Fresh \cap Addressed, k) =>
               \E p \in 1..Len(GiveWay(s)) : LastIn(GiveWay(s), Addressed, p) /\ GiveWay(s)[p] = s[k]
<1> DEFINE P == Fresh \cap Addressed
<1>1. KeepsLast(s, Only(s, Fresh), Entries, Fresh, P, Len(s))
  BY OnlyKeepsLast
<1>2. PICK r : r = Only(s, Fresh)
  OBVIOUS
<1>3. r \in Seq(Entries) /\ GiveWay(s) = IF r = <<>> THEN s ELSE r
  BY <1>1, <1>2 DEF KeepsLast, GiveWay
<1>4. ASSUME NEW k \in 1..Len(s), LastIn(s, P, k)
      PROVE  \E p \in 1..Len(GiveWay(s)) : LastIn(GiveWay(s), Addressed, p) /\ GiveWay(s)[p] = s[k]
  <2>1. PICK p \in 1..Len(r) : LastIn(r, P, p) /\ r[p] = s[k]
    BY <1>1, <1>2, <1>4 DEF KeepsLast, LastIn
  <2>2. r # <<>>
    BY <2>1
  <2>3. \A j \in 1..Len(r) : r[j] \in Fresh
    BY <1>1, <1>2 DEF KeepsLast
  <2>4. LastIn(r, Addressed, p)
    <3>1. \A j \in (p + 1)..Len(r) : j \in 1..Len(r)
      BY <1>3
    <3> QED
      BY <2>1, <2>3, <3>1 DEF LastIn, LastUpTo
  <2> QED
    BY <1>3, <2>1, <2>2, <2>4
<1> QED
  BY <1>3, <1>4

LEMMA CutIs ==
  ASSUME NEW s \in Seq(Entries)
  PROVE  /\ Cut(s) \in Seq(Entries)
         /\ \A k \in 1..Len(s) : LastIn(s, Addressed, k) => \E i \in 1..Len(Cut(s)) : Cut(s)[i] = s[k]
<1> DEFINE older == SubSeq(s, 1, Len(s) - MaxTurnBurst)
           directs == Only(older, Addressed)
           first == LastOf(directs, KeptDirects)
           recent == LastOf(s, MaxTurnBurst)
<1>1. Len(s) \in Nat /\ MaxTurnBurst \in Nat \ {0} /\ KeptDirects \in Nat \ {0}
  BY BurstAssumption DEF BurstAssumption
<1>2. CASE Len(s) <= MaxTurnBurst
  BY <1>1, <1>2 DEF Cut
<1>3. CASE Len(s) > MaxTurnBurst
  <2>1. Cut(s) = first \o recent
    BY <1>1, <1>3 DEF Cut
  <2>2. /\ older \in Seq(Entries) /\ Len(older) = Len(s) - MaxTurnBurst
        /\ \A j \in 1..(Len(s) - MaxTurnBurst) : older[j] = s[j]
    BY <1>1, <1>3
  <2> HIDE DEF older
  <2>3. KeepsLast(older, directs, Entries, Addressed, Addressed, Len(older))
    BY <2>2, OnlyKeepsLast
  <2> HIDE DEF directs
  <2>4. directs \in Seq(Entries)
    BY <2>3 DEF KeepsLast
  <2>5. /\ first \in Seq(Entries) /\ Len(directs) \in Nat
        /\ Len(directs) > 0 => Len(first) \in Nat \ {0} /\ first[Len(first)] = directs[Len(directs)]
    BY <1>1, <2>4, LastOfIs
  <2>6. /\ recent \in Seq(Entries) /\ Len(recent) = MaxTurnBurst
        /\ \A q \in 1..MaxTurnBurst : recent[q] = s[Len(s) - MaxTurnBurst + q]
    BY <1>1, <1>3, LastOfIs
  <2> HIDE DEF first, recent
  <2>7. /\ Cut(s) \in Seq(Entries) /\ Len(Cut(s)) = Len(first) + Len(recent) /\ Len(first) \in Nat
        /\ \A i \in 1..Len(first) : Cut(s)[i] = first[i]
        /\ \A q \in 1..Len(recent) : Cut(s)[Len(first) + q] = recent[q]
    BY <2>1, <2>5, <2>6
  <2>8. ASSUME NEW k \in 1..Len(s), LastIn(s, Addressed, k)
        PROVE  \E i \in 1..Len(Cut(s)) : Cut(s)[i] = s[k]
    <3>1. CASE k > Len(s) - MaxTurnBurst
      <4>1. PICK q \in 1..MaxTurnBurst : k = Len(s) - MaxTurnBurst + q
        <5>1. k - (Len(s) - MaxTurnBurst) \in 1..MaxTurnBurst
          BY <1>1, <3>1
        <5> QED
          BY <1>1, <5>1
      <4>2. Len(first) + q \in 1..(Len(first) + MaxTurnBurst)
        BY <1>1, <2>7, <4>1
      <4>3. Cut(s)[Len(first) + q] = recent[q] /\ recent[q] = s[k]
        BY <2>6, <2>7, <4>1
      <4> QED
        BY <2>6, <2>7, <4>2, <4>3
    <3>2. CASE ~(k > Len(s) - MaxTurnBurst)
      <4>1. k \in 1..Len(older) /\ older[k] = s[k]
        BY <1>1, <2>2, <3>2
      <4>2. LastIn(older, Addressed, k)
        <5>1. older[k] \in Addressed
          BY <2>8, <4>1 DEF LastIn, LastUpTo
        <5>2. \A j \in (k + 1)..Len(older) : j \in (k + 1)..Len(s) /\ older[j] = s[j]
          BY <1>1, <2>2
        <5> QED
          BY <2>8, <4>1, <5>1, <5>2 DEF LastIn, LastUpTo
      <4>3. PICK p \in 1..Len(directs) : LastIn(directs, Addressed, p) /\ directs[p] = s[k]
        BY <2>3, <4>1, <4>2 DEF KeepsLast, LastIn
      <4>4. p = Len(directs)
        <5>1. directs[Len(directs)] \in Addressed
          BY <2>3, <2>5, <4>3 DEF KeepsLast
        <5> QED
          BY <2>5, <4>3, <5>1 DEF LastIn, LastUpTo
      <4>5. Len(first) \in 1..Len(first) /\ first[Len(first)] = s[k]
        BY <2>5, <4>3, <4>4
      <4>6. Len(first) \in 1..(Len(first) + MaxTurnBurst)
        BY <1>1, <2>7, <4>5
      <4>7. Cut(s)[Len(first)] = s[k]
        BY <2>7, <4>5
      <4> QED
        BY <2>6, <2>7, <4>6, <4>7
    <3> QED
      BY <3>1, <3>2
  <2> QED
    BY <2>7, <2>8
<1> QED
  BY <1>1, <1>2, <1>3

\* What is left of a burst has the entry that addressed the bot last.
LEMMA BurstKeepsLast ==
  ASSUME NEW s \in Seq(Entries)
  PROVE  /\ Cut(GiveWay(s)) \in Seq(Entries)
         /\ \A k \in 1..Len(s) : LastIn(s, Fresh \cap Addressed, k) =>
               \E i \in 1..Len(Cut(GiveWay(s))) : Cut(GiveWay(s))[i] = s[k]
<1>1. PICK g : g = GiveWay(s)
  OBVIOUS
<1>2. /\ g \in Seq(Entries)
      /\ \A k \in 1..Len(s) : LastIn(s, Fresh \cap Addressed, k) =>
            \E p \in 1..Len(g) : LastIn(g, Addressed, p) /\ g[p] = s[k]
  BY <1>1, GiveWayIs
<1>3. /\ Cut(g) \in Seq(Entries)
      /\ \A p \in 1..Len(g) : LastIn(g, Addressed, p) => \E i \in 1..Len(Cut(g)) : Cut(g)[i] = g[p]
  BY <1>2, CutIs
<1>4. ASSUME NEW k \in 1..Len(s), LastIn(s, Fresh \cap Addressed, k)
      PROVE  \E i \in 1..Len(Cut(g)) : Cut(g)[i] = s[k]
  <2>1. PICK p \in 1..Len(g) : LastIn(g, Addressed, p) /\ g[p] = s[k]
    BY <1>2, <1>4
  <2> QED
    BY <1>3, <2>1
<1> QED
  BY <1>1, <1>3, <1>4
----------------------------------------------------------------------------
(* The anchors.                                                             *)

LEMMA EntryFacts ==
  ASSUME NEW s \in Seq(Entries)
  PROVE  /\ Len(s) \in Nat /\ DOMAIN s = 1..Len(s)
         /\ \A i \in DOMAIN s : /\ s[i] \in Entries /\ s[i].uid \in Uids /\ s[i].ts \in Nat
                                /\ s[i].direct \in BOOLEAN /\ s[i].replay \in BOOLEAN
<1>1. \A e \in Entries : e.uid \in Uids /\ e.ts \in Nat /\ e.direct \in BOOLEAN /\ e.replay \in BOOLEAN
  BY BurstAssumption DEF BurstAssumption
<1> QED
  BY <1>1

LEMMA AnchorIs ==
  ASSUME entries \in Seq(Entries), NEW I, I \subseteq DOMAIN entries
  PROVE  /\ AnchorOf(I) \subseteq I /\ \A i, j \in AnchorOf(I) : i = j
         /\ \A i \in I : entries[i].direct => \E a \in AnchorOf(I) : entries[a].direct
         /\ \A i \in I : ~entries[i].edit => AnchorOf(I) # {}
<1> DEFINE directs == {i \in I : entries[i].direct}
           posts == {i \in I : ~entries[i].edit}
<1>1. Len(entries) \in Nat /\ I \subseteq 0..Len(entries)
  BY EntryFacts
<1>2. directs \subseteq 0..Len(entries) /\ posts \subseteq 0..Len(entries)
  BY <1>1
<1>3. AnchorOf(I) = IF directs # {} THEN {Max(directs)} ELSE IF posts # {} THEN {Max(posts)} ELSE {}
  BY DEF AnchorOf
<1>4. directs # {} => Max(directs) \in directs
  <2> HIDE DEF directs
  <2> QED
    BY <1>1, <1>2, MaxIs
<1>5. posts # {} => Max(posts) \in posts
  <2> HIDE DEF posts
  <2> QED
    BY <1>1, <1>2, MaxIs
<1>6. CASE directs # {}
  BY <1>3, <1>4, <1>6
<1>7. CASE directs = {} /\ posts # {}
  BY <1>3, <1>5, <1>7
<1>8. CASE directs = {} /\ posts = {}
  BY <1>3, <1>8
<1> QED
  BY <1>6, <1>7, <1>8

AnchorsOf(I) == UNION {AnchorOf(GroupOf(I, u)) : u \in Uids}

LEMMA AnchorsAre ==
  ASSUME entries \in Seq(Entries), NEW I, I \subseteq DOMAIN entries
  PROVE  /\ AnchorsOf(I) \subseteq I /\ IsFiniteSet(AnchorsOf(I))
         /\ \A i, j \in AnchorsOf(I) : entries[i].uid = entries[j].uid => i = j
         /\ \A i \in I : entries[i].direct => \E a \in AnchorsOf(I) : entries[a].direct
         /\ \A i \in I : ~entries[i].edit => AnchorsOf(I) # {}
<1>1. \A u : GroupOf(I, u) \subseteq DOMAIN entries
  BY DEF GroupOf
<1>2. \A u : /\ AnchorOf(GroupOf(I, u)) \subseteq GroupOf(I, u)
             /\ \A i, j \in AnchorOf(GroupOf(I, u)) : i = j
             /\ \A i \in GroupOf(I, u) : entries[i].direct =>
                   \E a \in AnchorOf(GroupOf(I, u)) : entries[a].direct
             /\ \A i \in GroupOf(I, u) : ~entries[i].edit => AnchorOf(GroupOf(I, u)) # {}
  BY <1>1, AnchorIs
<1>3. \A i \in AnchorsOf(I) : i \in I /\ i \in AnchorOf(GroupOf(I, entries[i].uid))
  <2> TAKE i \in AnchorsOf(I)
  <2>1. PICK u \in Uids : i \in AnchorOf(GroupOf(I, u))
    BY DEF AnchorsOf
  <2>2. i \in GroupOf(I, u)
    BY <1>2, <2>1
  <2>3. i \in I /\ entries[i].uid = u
    BY <2>2 DEF GroupOf
  <2> QED
    BY <2>1, <2>3
<1>4. \A i \in I : entries[i].uid \in Uids /\ i \in GroupOf(I, entries[i].uid)
  BY EntryFacts DEF GroupOf
<1>5. \A i \in I : AnchorOf(GroupOf(I, entries[i].uid)) \subseteq AnchorsOf(I)
  BY <1>4 DEF AnchorsOf
<1>6. \A i, j \in AnchorsOf(I) : entries[i].uid = entries[j].uid => i = j
  BY <1>2, <1>3
<1>7. \A i \in I : entries[i].direct => \E a \in AnchorsOf(I) : entries[a].direct
  BY <1>2, <1>4, <1>5
<1>8. \A i \in I : ~entries[i].edit => AnchorsOf(I) # {}
  BY <1>2, <1>4, <1>5
<1>9. IsFiniteSet(AnchorsOf(I))
  <2>1. Len(entries) \in Nat /\ AnchorsOf(I) \subseteq 1..Len(entries)
    BY <1>3, EntryFacts
  <2>2. IsFiniteSet(1..Len(entries))
    BY <2>1, FS_Interval
  <2> QED
    BY <2>1, <2>2, FS_Subset
<1> QED
  BY <1>3, <1>6, <1>7, <1>8, <1>9

Ranks(I) == {r \in AnchorsOf(I) \X AnchorsOf(I) : Before(I, r[1], r[2])}

\* The order in which groups are considered has no ties.
LEMMA RanksIsOrder ==
  ASSUME entries \in Seq(Entries), NEW I, I \subseteq DOMAIN entries
  PROVE  StrictOrder(AnchorsOf(I), Ranks(I))
<1>1. PICK A : A = AnchorsOf(I)
  OBVIOUS
<1>2. PICK f : f = [k \in A |-> Min(GroupOf(I, entries[k].uid))]
  OBVIOUS
<1>3. A \subseteq I /\ \A i, j \in A : entries[i].uid = entries[j].uid => i = j
  BY <1>1, AnchorsAre
<1>4. \A k \in A : /\ entries[k].ts \in Nat /\ entries[k].direct \in BOOLEAN
                   /\ GroupOf(I, entries[k].uid) \subseteq Nat /\ GroupOf(I, entries[k].uid) # {}
  BY <1>3, EntryFacts DEF GroupOf
<1>5. \A k \in A : f[k] \in Nat /\ entries[f[k]].uid = entries[k].uid
  <2> TAKE k \in A
  <2>1. f[k] \in GroupOf(I, entries[k].uid)
    BY <1>2, <1>4, MinIs
  <2> QED
    BY <1>4, <2>1 DEF GroupOf
<1>6. \A i, j \in A : f[i] = f[j] => i = j
  BY <1>3, <1>5
<1>7. \A i, j \in A : <<i, j>> \in Ranks(I) <=>
        IF entries[i].direct # entries[j].direct THEN entries[i].direct
        ELSE IF entries[i].ts # entries[j].ts THEN entries[i].ts > entries[j].ts ELSE f[i] < f[j]
  BY <1>1, <1>2 DEF Ranks, Before
<1>8. \A i \in A : <<i, i>> \notin Ranks(I)
  BY <1>5, <1>7
<1>9. \A i, j \in A : i = j \/ <<i, j>> \in Ranks(I) \/ <<j, i>> \in Ranks(I)
  <2> TAKE i, j \in A
  <2>1. CASE entries[i].direct # entries[j].direct
    BY <1>4, <1>7, <2>1
  <2>2. CASE entries[i].direct = entries[j].direct
    <3>1. /\ <<i, j>> \in Ranks(I) <=> IF entries[i].ts # entries[j].ts THEN entries[i].ts > entries[j].ts
                                       ELSE f[i] < f[j]
          /\ <<j, i>> \in Ranks(I) <=> IF entries[j].ts # entries[i].ts THEN entries[j].ts > entries[i].ts
                                       ELSE f[j] < f[i]
      BY <1>7, <2>2
    <3>2. entries[i].ts \in Nat /\ entries[j].ts \in Nat /\ f[i] \in Nat /\ f[j] \in Nat
      BY <1>4, <1>5
    <3> QED
      BY <1>6, <3>1, <3>2
  <2> QED
    BY <2>1, <2>2
<1>10. \A i, j, k \in A : <<i, j>> \in Ranks(I) /\ <<j, k>> \in Ranks(I) => <<i, k>> \in Ranks(I)
  <2> SUFFICES ASSUME NEW i \in A, NEW j \in A, NEW k \in A,
                      <<i, j>> \in Ranks(I), <<j, k>> \in Ranks(I)
               PROVE  <<i, k>> \in Ranks(I)
    OBVIOUS
  <2>1. CASE entries[i].direct # entries[j].direct
    BY <1>4, <1>7, <2>1
  <2>2. CASE entries[j].direct # entries[k].direct
    BY <1>4, <1>7, <2>2
  <2>3. CASE entries[i].direct = entries[j].direct /\ entries[j].direct = entries[k].direct
    <3>1. /\ IF entries[i].ts # entries[j].ts THEN entries[i].ts > entries[j].ts ELSE f[i] < f[j]
          /\ IF entries[j].ts # entries[k].ts THEN entries[j].ts > entries[k].ts ELSE f[j] < f[k]
      BY <1>7, <2>3
    <3>2. /\ entries[i].ts \in Nat /\ entries[j].ts \in Nat /\ entries[k].ts \in Nat
          /\ f[i] \in Nat /\ f[j] \in Nat /\ f[k] \in Nat
      BY <1>4, <1>5
    <3>3. IF entries[i].ts # entries[k].ts THEN entries[i].ts > entries[k].ts ELSE f[i] < f[k]
      BY <3>1, <3>2
    <3> QED
      BY <1>7, <2>3, <3>3
  <2> QED
    BY <2>1, <2>2, <2>3
<1> QED
  BY <1>1, <1>8, <1>9, <1>10 DEF StrictOrder

LEMMA PickIs ==
  ASSUME entries \in Seq(Entries), NEW I, I \subseteq DOMAIN entries
  PROVE  /\ PickMultiAnchorGroups(I) \subseteq AnchorsOf(I)
         /\ Cardinality(PickMultiAnchorGroups(I)) <= MultiAnchorMax
         /\ AnchorsOf(I) # {} => PickMultiAnchorGroups(I) # {}
         /\ (\E a \in AnchorsOf(I) : entries[a].direct) =>
               \E a \in PickMultiAnchorGroups(I) : entries[a].direct
<1>1. PICK A, R : A = AnchorsOf(I) /\ R = Ranks(I)
  OBVIOUS
<1>2. IsFiniteSet(A) /\ StrictOrder(A, R) /\ A \subseteq I
  BY <1>1, AnchorsAre, RanksIsOrder
<1>3. \A i, j \in A : <<i, j>> \in R <=> Before(I, i, j)
  BY <1>1 DEF Ranks
<1>4. \A i \in A : {j \in A : Before(I, j, i)} = Preceding(A, R, i)
  BY <1>3 DEF Preceding
<1>5. PickMultiAnchorGroups(I) = {i \in A : Cardinality(Preceding(A, R, i)) < MultiAnchorMax}
  BY <1>1, <1>4 DEF PickMultiAnchorGroups, AnchorsOf
<1>6. MultiAnchorMax \in Nat \ {0}
  BY BurstAssumption DEF BurstAssumption
<1>7. Cardinality(PickMultiAnchorGroups(I)) <= MultiAnchorMax
  BY <1>2, <1>5, <1>6, FewBefore
<1>8. ASSUME A # {}
      PROVE  \E m \in PickMultiAnchorGroups(I) : \A a \in A : entries[a].direct => entries[m].direct
  <2>1. PICK m \in A : Preceding(A, R, m) = {}
    BY <1>2, <1>8, SomeFirst
  <2>2. m \in PickMultiAnchorGroups(I)
    <3>1. Cardinality(Preceding(A, R, m)) = 0
      BY <2>1, FS_EmptySet
    <3> QED
      BY <1>5, <1>6, <3>1
  <2>3. \A a \in A : entries[a].direct => entries[m].direct
    <3> SUFFICES ASSUME NEW a \in A, entries[a].direct, ~entries[m].direct PROVE FALSE
      OBVIOUS
    <3>1. entries[a].direct # entries[m].direct
      OBVIOUS
    <3>2. Before(I, a, m)
      BY <3>1 DEF Before
    <3> QED
      BY <1>3, <2>1, <3>2 DEF Preceding
  <2> QED
    BY <2>2, <2>3
<1>9. PickMultiAnchorGroups(I) \subseteq A
  BY <1>5
<1> QED
  BY <1>1, <1>7, <1>8, <1>9
----------------------------------------------------------------------------
(* The turn.                                                                *)

\* Who is judged, of whom is left: what Select computes.
Chosen == Commands \cup (IF Several(Candidates) THEN PickMultiAnchorGroups(Candidates)
                         ELSE AnchorOf(Candidates))
Stages == {"drained", "selecting", "judging"}

BurstInv ==
    /\ pending \in Seq(Entries) /\ drained \in Seq(Entries) /\ entries \in Seq(Entries)
    /\ at \in {"idle"} \cup Stages
    /\ at \in Stages => entries = Cut(GiveWay(drained))
    /\ at \in {"selecting", "judging"} =>
         ((\E i \in DOMAIN entries : entries[i].direct) => held = {})
    /\ at = "judging" => judged = Chosen

\* What is left of a burst, who is held and who is judged follow from what was drained, and
\* nobody is held when someone addressed the bot.
THEOREM BurstInvariant == BurstSpec => []BurstInv
<1>1. BurstInit => BurstInv
  BY DEF BurstInit, BurstInv, Stages
<1>2. ASSUME BurstInv, [BurstNext]_burstVars PROVE BurstInv'
  <2>1. ASSUME NEW e \in Entries, Append1(e) PROVE BurstInv'
    <3>1. pending' \in Seq(Entries)
      BY <1>2, <2>1 DEF BurstInv, Append1
    <3> QED
      BY <1>2, <2>1, <3>1 DEF BurstInv, Append1, Stages
  <2>2. ASSUME Drain PROVE BurstInv'
    <3>1. pending \in Seq(Entries)
      BY <1>2 DEF BurstInv
    <3>2. Cut(GiveWay(pending)) \in Seq(Entries)
      BY <3>1, BurstKeepsLast
    <3>3. entries' \in Seq(Entries) /\ entries' = Cut(GiveWay(pending))
      BY <2>2, <3>2 DEF Drain
    <3>4. drained' = pending /\ pending' = <<>> /\ at' = "drained"
      BY <2>2 DEF Drain
    <3> HIDE DEF GiveWay, Cut
    <3>5. Cut(GiveWay(drained))' = Cut(GiveWay(pending))
      BY <3>4 DEF Cut, GiveWay
    <3> QED
      BY <3>1, <3>3, <3>4, <3>5 DEF BurstInv, Stages
  <2>3. ASSUME ReadState PROVE BurstInv'
    <3>1. at = "drained" /\ at' = "selecting" /\ UNCHANGED <<pending, drained, entries, judged>>
      BY <2>3 DEF ReadState
    <3>2. (\E i \in DOMAIN entries : entries[i].direct) => held' = {}
      BY <2>3 DEF ReadState
    <3>3. Cut(GiveWay(drained))' = Cut(GiveWay(drained))
      BY <3>1 DEF Cut, GiveWay
    <3> QED
      BY <1>2, <3>1, <3>2, <3>3 DEF BurstInv, Stages
  <2>4. ASSUME Select PROVE BurstInv'
    <3>1. at = "selecting" /\ at' = "judging" /\ UNCHANGED <<pending, drained, entries, held>>
      BY <2>4 DEF Select
    <3>2. Chosen' = Chosen
      BY <3>1 DEF Chosen, Commands, Several, Candidates, PickMultiAnchorGroups, AnchorOf, GroupOf, Before
    <3>3. judged' = Chosen
      BY <2>4 DEF Select, Chosen
    <3>4. Cut(GiveWay(drained))' = Cut(GiveWay(drained))
      BY <3>1 DEF Cut, GiveWay
    <3> QED
      BY <1>2, <3>1, <3>2, <3>3, <3>4 DEF BurstInv, Stages
  <2>5. ASSUME EndTurn PROVE BurstInv'
    BY <1>2, <2>5 DEF BurstInv, EndTurn, Stages
  <2>6. CASE UNCHANGED <<pending, at, drained, entries, held, judged>>
    <3>1. Chosen' = Chosen
      BY <2>6 DEF Chosen, Commands, Several, Candidates, PickMultiAnchorGroups, AnchorOf, GroupOf, Before
    <3>2. Cut(GiveWay(drained))' = Cut(GiveWay(drained))
      BY <2>6 DEF Cut, GiveWay
    <3> QED
      BY <1>2, <2>6, <3>1, <3>2 DEF BurstInv, Stages
  <2>7. ASSUME NEW i \in judged, JudgedWaits(i) PROVE BurstInv'
    BY <2>6, <2>7 DEF JudgedWaits
  <2>8. CASE WaitRunsOut \/ Wakes \/ Stops \/ UNCHANGED burstVars
    BY <2>6, <2>8 DEF WaitRunsOut, Wakes, Stops, burstVars
  <2> QED
    BY <1>2, <2>1, <2>2, <2>3, <2>4, <2>5, <2>7, <2>8 DEF BurstNext
<1> QED
  BY <1>1, <1>2, PTL DEF BurstSpec

\* What Select chooses, commands aside.
LEMMA ChosenAre ==
  ASSUME entries \in Seq(Entries)
  PROVE  /\ Chosen \ Commands \subseteq Candidates
         /\ Cardinality(Chosen \ Commands) <= MultiAnchorMax
         /\ \A i, j \in Chosen \ Commands : entries[i].uid = entries[j].uid => i = j
         /\ \A i \in Candidates : entries[i].direct => \E a \in Chosen \ Commands : entries[a].direct
         /\ \A i \in Candidates : ~entries[i].edit => Chosen \ Commands # {}
<1>1. PICK I : I = Candidates
  OBVIOUS
<1>2. I \subseteq DOMAIN entries /\ I \cap Commands = {}
  BY <1>1 DEF Candidates, Commands
<1>3. MultiAnchorMax \in Nat \ {0}
  BY BurstAssumption DEF BurstAssumption
<1>4. CASE Several(I)
  <2>1. PICK picked : picked = PickMultiAnchorGroups(I)
    OBVIOUS
  <2>2. /\ picked \subseteq AnchorsOf(I) /\ Cardinality(picked) <= MultiAnchorMax
        /\ AnchorsOf(I) # {} => picked # {}
        /\ (\E a \in AnchorsOf(I) : entries[a].direct) => \E a \in picked : entries[a].direct
    BY <1>2, <2>1, PickIs
  <2>3. /\ AnchorsOf(I) \subseteq I
        /\ \A i, j \in AnchorsOf(I) : entries[i].uid = entries[j].uid => i = j
        /\ \A i \in I : entries[i].direct => \E a \in AnchorsOf(I) : entries[a].direct
        /\ \A i \in I : ~entries[i].edit => AnchorsOf(I) # {}
    BY <1>2, AnchorsAre
  <2>4. Chosen = Commands \cup picked
    BY <1>1, <1>4, <2>1 DEF Chosen
  <2>5. Chosen \ Commands = picked
    BY <1>2, <2>2, <2>3, <2>4
  <2> QED
    BY <1>1, <2>2, <2>3, <2>5
<1>5. CASE ~Several(I)
  <2>1. PICK picked : picked = AnchorOf(I)
    OBVIOUS
  <2>2. /\ picked \subseteq I /\ \A i, j \in picked : i = j
        /\ \A i \in I : entries[i].direct => \E a \in picked : entries[a].direct
        /\ \A i \in I : ~entries[i].edit => picked # {}
    BY <1>2, <2>1, AnchorIs
  <2>3. Chosen = Commands \cup picked
    BY <1>1, <1>5, <2>1 DEF Chosen
  <2>4. Chosen \ Commands = picked
    BY <1>2, <2>2, <2>3
  <2>5. Cardinality(picked) \in Nat /\ Cardinality(picked) <= 1
    <3>1. CASE picked = {}
      <4>1. Cardinality(picked) = 0
        BY <3>1, FS_EmptySet
      <4> QED
        BY <4>1
    <3>2. CASE picked # {}
      <4>1. PICK a \in picked : picked = {a}
        BY <2>2, <3>2
      <4>2. Cardinality({a}) = 1
        BY FS_Singleton
      <4> QED
        BY <4>1, <4>2
    <3> QED
      BY <3>1, <3>2
  <2>6. Cardinality(picked) <= MultiAnchorMax
    BY <1>3, <2>5
  <2> QED
    BY <1>1, <2>2, <2>4, <2>6
<1> QED
  BY <1>4, <1>5

\* Burst's OneAnswerEach, for every burst that may be drained.
THEOREM PeopleAreAnsweredOnce == BurstSpec => []OneAnswerEach
<1>1. ASSUME BurstInv PROVE OneAnswerEach
  <2>1. entries \in Seq(Entries) /\ (at = "judging" => judged = Chosen)
    BY <1>1 DEF BurstInv
  <2>2. /\ Cardinality(Chosen \ Commands) <= MultiAnchorMax
        /\ \A i, j \in Chosen \ Commands : entries[i].uid = entries[j].uid => i = j
    BY <2>1, ChosenAre
  <2> QED
    BY <2>1, <2>2 DEF OneAnswerEach, Anchors
<1> QED
  BY <1>1, BurstInvariant, PTL

\* OnlyWaitersAreSilent: a wait keeps those it waits for from being judged, and nobody else.
THEOREM WaitsSilenceWaiters == BurstSpec => []OnlyWaitersAreSilent
<1>1. ASSUME BurstInv PROVE OnlyWaitersAreSilent
  <2> SUFFICES ASSUME at = "judging"
               PROVE  /\ \A i \in Anchors : entries[i].uid \notin held
                      /\ (\E i \in DOMAIN entries :
                            ~entries[i].command /\ ~entries[i].edit /\ entries[i].uid \notin held)
                         => Anchors # {}
    BY DEF OnlyWaitersAreSilent
  <2>1. entries \in Seq(Entries) /\ Anchors = Chosen \ Commands
    BY <1>1 DEF BurstInv, Anchors
  <2>2. /\ Anchors \subseteq Candidates
        /\ \A i \in Candidates : ~entries[i].edit => Anchors # {}
    BY <2>1, ChosenAre
  <2> QED
    BY <2>2 DEF Candidates
<1> QED
  BY <1>1, BurstInvariant, PTL

\* AddressedIsHeard: replays that give way, a cut of any backlog, a wait, people who write
\* more: whoever addressed the bot last, someone who addressed it is judged.
THEOREM LastAddresseeIsHeard == BurstSpec => []AddressedIsHeard
<1>1. ASSUME BurstInv PROVE AddressedIsHeard
  <2> DEFINE addressed == {i \in DOMAIN drained : drained[i].direct /\ ~drained[i].replay}
  <2> SUFFICES ASSUME at = "judging", addressed # {}, ~drained[Max(addressed)].command
               PROVE  \E i \in Anchors : entries[i].direct
    BY DEF AddressedIsHeard
  <2>1. /\ entries \in Seq(Entries) /\ drained \in Seq(Entries) /\ entries = Cut(GiveWay(drained))
        /\ Anchors = Chosen \ Commands
        /\ ((\E i \in DOMAIN entries : entries[i].direct) => held = {})
    BY <1>1 DEF BurstInv, Stages, Anchors
  <2>2. /\ Len(drained) \in Nat /\ DOMAIN drained = 1..Len(drained)
        /\ \A i \in DOMAIN drained : drained[i] \in Entries
    BY <2>1, EntryFacts
  <2>3. PICK k : k = Max(addressed)
    OBVIOUS
  <2>4. k \in addressed /\ \A i \in addressed : k >= i
    <3>1. addressed \subseteq 0..Len(drained)
      BY <2>2
    <3> HIDE DEF addressed
    <3> QED
      BY <2>2, <2>3, <3>1, MaxIs
  <2>5. LastIn(drained, Fresh \cap Addressed, k)
    <3>1. k \in 1..Len(drained) /\ drained[k] \in Fresh \cap Addressed
      BY <2>2, <2>4 DEF Fresh, Addressed
    <3>2. ASSUME NEW j \in (k + 1)..Len(drained), drained[j] \in Fresh \cap Addressed PROVE FALSE
      <4>1. j \in 1..Len(drained) /\ j > k
        BY <2>2, <3>1
      <4>2. j \in addressed
        BY <2>2, <3>2, <4>1 DEF Fresh, Addressed
      <4> QED
        BY <2>2, <2>4, <3>1, <4>1, <4>2
    <3> QED
      BY <3>1, <3>2 DEF LastIn, LastUpTo
  <2>6. PICK i \in 1..Len(entries) : entries[i] = drained[k]
    <3>1. k \in 1..Len(drained)
      BY <2>2, <2>4
    <3> QED
      BY <2>1, <2>5, <3>1, BurstKeepsLast
  <2>7. i \in DOMAIN entries /\ entries[i].direct /\ ~entries[i].command
    BY <2>1, <2>3, <2>4, <2>6
  <2>8. i \in Candidates
    BY <2>1, <2>7 DEF Candidates
  <2> QED
    BY <2>1, <2>7, <2>8, ChosenAre
<1> QED
  BY <1>1, BurstInvariant, PTL
=============================================================================
