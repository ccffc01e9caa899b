---------------------------- MODULE OutboxProofs ----------------------------
(***************************************************************************)
(* Proofs about Outbox, for any events, workers, times and faults.         *)
(***************************************************************************)
EXTENDS Outbox, FiniteSetTheorems, NaturalsInduction, WellFoundedInduction, TLAPS

(* Numbers and sequences.                                                   *)

\* A set of numbers has a least one.
LEMMA MinIsIn ==
  ASSUME NEW S \in SUBSET Nat, S # {}
  PROVE  Min(S) \in S /\ \A y \in S : Min(S) <= y
<1> DEFINE Less == {ss \in Nat \X Nat : ss[1] < ss[2]}
<1>1. IsWellFoundedOn(Less, Nat)
  BY NatLessThanWellFounded, Zenon DEF OpToRel
<1> HIDE DEF Less
<1>2. \E x \in S : \A y \in S : ~ (<<y, x>> \in Less)
  BY <1>1, WFMin
<1>3. PICK x \in S : \A y \in S : ~ (<<y, x>> \in Less)
  BY <1>2
<1>4. ASSUME NEW y \in S PROVE x <= y
  <2>1. y \in Nat /\ x \in Nat
    OBVIOUS
  <2>2. ~ (<<y, x>> \in Less)
    BY <1>3
  <2>3. <<y, x>> \in Nat \X Nat
    BY <2>1
  <2>4. ~ (y < x)
    BY <2>2, <2>3 DEF Less
  <2> QED
    BY <2>1, <2>4
<1> QED
  BY <1>4 DEF Min

LEMMA SeqIntro ==
  ASSUME NEW S, NEW n \in Nat, NEW f, f \in [1..n -> S]
  PROVE  f \in Seq(S) /\ Len(f) = n
  OBVIOUS

LEMMA SeqElim ==
  ASSUME NEW S, NEW s \in Seq(S)
  PROVE  s \in [1..Len(s) -> S] /\ Len(s) \in Nat /\ DOMAIN s = 1..Len(s)
  OBVIOUS

\* A bounded set of numbers has a greatest one.
LEMMA MaxIsIn ==
  ASSUME NEW m \in Nat, NEW S \in SUBSET (1..m), S # {}
  PROVE  Max(S) \in S
<1> DEFINE T == {m - x : x \in S}
<1>1. T \in SUBSET Nat /\ T # {}
  <2>1. ASSUME NEW x \in S PROVE m - x \in Nat
    OBVIOUS
  <2> QED
    BY <2>1
<1>2. Min(T) \in T /\ \A y \in T : Min(T) <= y
  BY <1>1, MinIsIn
<1>3. PICK x \in S : Min(T) = m - x
  BY <1>2
<1>4. \A y \in S : m - x <= m - y
  BY <1>2, <1>3
<1>5. \A y \in S : x >= y
  BY <1>4
<1> QED
  BY <1>5 DEF Max
----------------------------------------------------------------------------
(* What the debts can become.                                               *)

\* es: the debts ds after some of the open ones were settled ...
Settled(ds, es) ==
    /\ es \in Seq(DebtType) /\ Len(es) = Len(ds)
    /\ \A n \in 1..Len(ds) : /\ es[n].source = ds[n].source
                             /\ ds[n].status # "open" => es[n] = ds[n]

\* ... and after the first debt of event i was opened, if there is one to open.
Opened(ds, es, i) ==
    /\ es \in Seq(DebtType)
    /\ \A n \in 1..Len(ds) : es[n].source = ds[n].source /\ (ds[n].status # "open" => es[n] = ds[n])
    /\ \/ Len(es) = Len(ds)
       \/ /\ Len(es) = Len(ds) + 1 /\ es[Len(es)].source = i
          /\ \A n \in 1..Len(ds) : ds[n].source # i

\* ... and after a debt of no event was opened.
Joined(ds, es) ==
    /\ es \in Seq(DebtType) /\ Len(es) = Len(ds) + 1 /\ \A n \in 1..Len(ds) : es[n] = ds[n]
    /\ es[Len(es)].source = 0 /\ es[Len(es)].by = 0 /\ es[Len(es)].kind = "unfinished_task"

LEMMA SettlesType ==
  ASSUME NEW d \in DebtType, NEW i \in Nat
  PROVE  Settles(d, i) \in DebtType /\ Settles(d, i).source = d.source
  BY DEF DebtType, Settles

LEMMA SettleAllSettles ==
  ASSUME NEW ds \in Seq(DebtType), NEW i \in Nat
  PROVE  Settled(ds, SettleAll(ds, i))
<1> DEFINE es == SettleAll(ds, i)
<1>1. \A n \in 1..Len(ds) : ds[n] \in DebtType
  OBVIOUS
<1>2. DOMAIN es = 1..Len(ds) /\ es = [n \in 1..Len(ds) |-> es[n]]
  BY DEF SettleAll
<1>3. \A n \in 1..Len(ds) : es[n] = IF ds[n].status = "open" THEN Settles(ds[n], i) ELSE ds[n]
  BY DEF SettleAll, IsOpen
<1> HIDE DEF es
<1>4. \A n \in 1..Len(ds) : es[n] \in DebtType /\ es[n].source = ds[n].source
  BY <1>1, <1>3, SettlesType
<1>5. es \in [1..Len(ds) -> DebtType]
  BY <1>2, <1>4
<1>6. es \in Seq(DebtType) /\ Len(es) = Len(ds)
  BY <1>5, SeqIntro
<1> QED
  BY <1>3, <1>4, <1>6 DEF Settled, es

LEMMA SettleNewestSettles ==
  ASSUME NEW ds \in Seq(DebtType), NEW i \in Nat
  PROVE  Settled(ds, SettleNewest(ds, i))
<1> DEFINE A == Answerable(ds, i)
<1>1. CASE A = {}
  BY <1>1 DEF SettleNewest, Settled
<1>2. CASE A # {}
  <2>1. A \in SUBSET (1..Len(ds))
    BY DEF Answerable
  <2> DEFINE m == Max(A)
  <2>2. m \in A
    <3> HIDE DEF A
    <3>1. Len(ds) \in Nat
      OBVIOUS
    <3> QED
      BY <1>2, <2>1, <3>1, MaxIsIn
  <2>3. m \in 1..Len(ds) /\ ds[m].status = "open"
    <3>1. \A n \in A : n \in 1..Len(ds) /\ ds[n].status = "open"
      BY DEF Answerable, IsOpen
    <3> QED
      BY <2>2, <3>1
  <2>4. SettleNewest(ds, i) = [ds EXCEPT ![m] = Settles(ds[m], i)]
    BY <1>2 DEF SettleNewest
  <2> HIDE DEF m
  <2>5. SettleNewest(ds, i) \in [1..Len(ds) -> DebtType]
    BY <2>3, <2>4, SettlesType
  <2>6. SettleNewest(ds, i) \in Seq(DebtType) /\ Len(SettleNewest(ds, i)) = Len(ds)
    BY <2>5, SeqIntro
  <2> QED
    BY <2>3, <2>4, <2>6, SettlesType DEF Settled
<1> QED
  BY <1>1, <1>2

LEMMA CreateDebtOpens ==
  ASSUME NEW ds \in Seq(DebtType), NEW i \in Nat, NEW k
  PROVE  Opened(ds, CreateDebt(ds, i, k), i)
<1> DEFINE d == [source |-> i, kind |-> DebtKind(k), status |-> "open", by |-> 0]
<1>1. CASE CreateDebt(ds, i, k) = ds
  BY <1>1 DEF Opened
<1>2. CASE CreateDebt(ds, i, k) # ds
  <2>1. CreateDebt(ds, i, k) = Append(ds, d) /\ \A n \in 1..Len(ds) : ds[n].source # i
    BY <1>2 DEF CreateDebt
  <2>2. d \in DebtType /\ d.source = i
    BY DEF DebtType, DebtKind
  <2> HIDE DEF d
  <2> QED
    BY <2>1, <2>2 DEF Opened
<1> QED
  BY <1>1, <1>2

LEMMA ProjectOpens ==
  ASSUME NEW ds \in Seq(DebtType), NEW i \in Nat
  PROVE  Opened(ds, Project(ds, i), i)
<1> DEFINE es == CreateDebt(ds, i, Kind[log[i]])  fs == Project(ds, i)
<1>1. Opened(ds, es, i) /\ es \in Seq(DebtType)
  BY CreateDebtOpens DEF Opened
<1>2. fs = es \/ Settled(es, fs)
  BY <1>1, SettleAllSettles, SettleNewestSettles DEF Project
<1> HIDE DEF es, fs
<1>3. ASSUME Settled(es, fs) PROVE Opened(ds, fs, i)
  BY <1>1, <1>3 DEF Opened, Settled
<1> QED
  BY <1>1, <1>2, <1>3 DEF fs
----------------------------------------------------------------------------
(* What the rows can become.                                                *)

LEMMA MinMaxOfTwo ==
  ASSUME NEW a \in Int, NEW b \in Int
  PROVE  /\ Min({a, b}) = IF a <= b THEN a ELSE b
         /\ Max({a, b}) = IF a >= b THEN a ELSE b
<1>1. CASE a <= b
  BY <1>1 DEF Min, Max
<1>2. CASE ~(a <= b)
  BY <1>2 DEF Min, Max
<1> QED
  BY <1>1, <1>2

\* rs: the rows after some of them changed.
Rewritten(rs) == rs \in Seq(RowType) /\ Len(rs) = Len(log)

LEMMA OlderRow ==
  ASSUME NEW r \in RowType
  PROVE  Older(r) \in RowType /\ Older(r).status = r.status /\ Older(r).attempts = r.attempts
<1> USE OutboxAssumption DEF OutboxAssumption, RowType, Statuses
<1> DEFINE a == r.age + 1  b == r.wait - 1
<1>a. a \in Nat /\ Lease \in Int /\ b \in Int /\ b <= Retry /\ 0 \in Int
  OBVIOUS
<1> HIDE DEF a, b
<1>1. Min({a, Lease}) \in 0..Lease
  BY <1>a, MinMaxOfTwo
<1>2. Max({b, 0}) \in 0..Retry
  <2>1. Max({b, 0}) = IF b >= 0 THEN b ELSE 0
    BY <1>a, MinMaxOfTwo
  <2> QED
    BY <1>a, <2>1
<1> USE DEF a, b
<1> QED
  BY <1>1, <1>2 DEF Older

LEMMA TickRows ==
  ASSUME TypeOK
  PROVE  Rewritten([i \in Rows |-> Older(row[i])])
<1>1. \A i \in 1..Len(log) : row[i] \in RowType
  BY DEF TypeOK
<1>2. [i \in Rows |-> Older(row[i])] \in [1..Len(log) -> RowType]
  BY <1>1, OlderRow DEF Rows, TypeOK
<1> QED
  BY <1>2, SeqIntro DEF Rewritten, TypeOK

LEMMA RowWritten ==
  ASSUME TypeOK, NEW i \in Rows, NEW r \in RowType
  PROVE  Rewritten([row EXCEPT ![i] = r])
<1>1. row \in [1..Len(log) -> RowType] /\ Len(log) \in Nat
  BY DEF TypeOK
<1>2. [row EXCEPT ![i] = r] \in [1..Len(log) -> RowType]
  BY <1>1
<1> QED
  BY <1>1, <1>2, SeqIntro DEF Rewritten

LEMMA RowRewritten ==
  ASSUME NEW r \in RowType, NEW st \in Statuses, NEW wt \in 0..Retry
  PROVE  /\ [r EXCEPT !.status = st, !.age = 0, !.owner = None] \in RowType
         /\ [r EXCEPT !.status = st, !.wait = wt, !.age = 0, !.owner = None] \in RowType
<1>1. 0 \in 0..Lease /\ None \in Workers \cup {None}
  BY OutboxAssumption DEF OutboxAssumption
<1> QED
  BY <1>1 DEF RowType

LEMMA AckedRows ==
  ASSUME TypeOK, NEW w \in Workers, NEW i \in Rows
  PROVE  Rewritten(Acked(w, i))
<1>1. row[i] \in RowType
  BY DEF TypeOK, Rows
<1>2. [row[i] EXCEPT !.status = "delivered", !.age = 0, !.owner = None] \in RowType
  <2>1. 0 \in 0..Retry /\ "delivered" \in Statuses
    BY OutboxAssumption DEF OutboxAssumption, Statuses
  <2> QED
    BY <1>1, <2>1, RowRewritten
<1> QED
  BY <1>2, RowWritten DEF Acked, Rewritten, TypeOK

LEMMA FailedRows ==
  ASSUME TypeOK, NEW w \in Workers, NEW i \in Rows
  PROVE  Rewritten(Failed(w, i))
<1>1. row[i] \in RowType
  BY DEF TypeOK, Rows
<1>2. ASSUME NEW st \in Statuses, NEW wt \in 0..Retry
      PROVE  [row[i] EXCEPT !.status = st, !.wait = wt, !.age = 0, !.owner = None] \in RowType
  BY <1>1, RowRewritten
<1>3. 0 \in 0..Retry /\ Retry \in 0..Retry
  BY OutboxAssumption DEF OutboxAssumption
<1> QED
  BY <1>2, <1>3, RowWritten DEF Failed, Rewritten, TypeOK, Statuses
----------------------------------------------------------------------------
(* Type correctness: what a worker has in hand, and what was handled, are   *)
(* rows of the log.                                                         *)

InHand ==
    /\ \A w \in Workers : batch[w] \subseteq Rows
    /\ handled \subseteq Rows /\ lost \subseteq Rows
TypeInv == TypeOK /\ InHand

LEMMA CurrentIsRow ==
  ASSUME TypeInv, NEW w \in Workers, batch[w] # {}
  PROVE  Current(w) \in batch[w] /\ Current(w) \in Rows /\ Current(w) \in Nat
<1>1. batch[w] \in SUBSET Nat /\ batch[w] \subseteq Rows
  BY DEF TypeInv, TypeOK, InHand
<1> QED
  BY <1>1, MinIsIn DEF Current

LEMMA RowClaimed ==
  ASSUME NEW r \in RowType, NEW w \in Workers
  PROVE  [r EXCEPT !.status = "processing", !.attempts = @ + 1, !.age = 0, !.owner = w] \in RowType
<1>1. 0 \in 0..Lease /\ "processing" \in Statuses
  BY OutboxAssumption DEF OutboxAssumption, Statuses
<1>2. ASSUME NEW n \in Nat
      PROVE  [r EXCEPT !.status = "processing", !.attempts = n, !.age = 0, !.owner = w] \in RowType
  BY <1>1, <1>2 DEF RowType
<1>3. r.attempts + 1 \in Nat
  BY DEF RowType
<1> QED
  BY <1>2, <1>3

LEMMA ClaimRows ==
  ASSUME TypeOK, NEW w \in Workers, Claim(w)
  PROVE  /\ Rewritten(row')
         /\ \A i \in Rows : row'[i] = IF i \in FirstDue
              THEN [row[i] EXCEPT !.status = "processing", !.attempts = @ + 1, !.age = 0, !.owner = w]
              ELSE row[i]
<1> DEFINE r(i) == [row[i] EXCEPT !.status = "processing", !.attempts = @ + 1, !.age = 0, !.owner = w]
<1>1. ASSUME NEW i \in Rows PROVE row[i] \in RowType /\ r(i) \in RowType
  <2>1. row[i] \in RowType
    BY DEF TypeOK, Rows
  <2> QED
    BY <2>1, RowClaimed
<1>2. row' = [i \in Rows |-> IF i \in FirstDue THEN r(i) ELSE row[i]]
  BY DEF Claim
<1>3. Rows = 1..Len(log) /\ Len(log) \in Nat
  BY DEF Rows, TypeOK
<1> HIDE DEF r
<1>4. row' \in [1..Len(log) -> RowType]
  BY <1>1, <1>2, <1>3
<1> QED
  BY <1>2, <1>3, <1>4, SeqIntro DEF Rewritten, r

LEMMA EmitRows ==
  ASSUME TypeOK, NEW e \in Emissions, Emit(e)
  PROVE  /\ log' \in Seq(Emissions) /\ row' \in Seq(RowType) /\ Len(row') = Len(log')
         /\ Rows \subseteq Rows' /\ \A i \in Rows : log'[i] = log[i] /\ row'[i] = row[i]
         /\ \/ UNCHANGED <<log, row>> /\ e \in ToSet(log)
            \/ /\ e \notin ToSet(log) /\ Len(log') = Len(log) + 1
               /\ log'[Len(log')] = e /\ row'[Len(log')] = NewRow
<1>1. NewRow \in RowType
  BY OutboxAssumption DEF OutboxAssumption, NewRow, RowType, Statuses
<1>2. log \in Seq(Emissions) /\ row \in Seq(RowType) /\ Len(row) = Len(log)
  BY DEF TypeOK
<1>3. CASE e \in ToSet(log)
  BY <1>2, <1>3 DEF Emit, Logged, Rows
<1>4. CASE e \notin ToSet(log)
  <2>1. log' = Append(log, e) /\ row' = Append(row, NewRow)
    BY <1>4 DEF Emit, Logged
  <2>2. log' \in Seq(Emissions) /\ Len(log') = Len(log) + 1 /\ log'[Len(log')] = e
        /\ \A i \in 1..Len(log) : log'[i] = log[i]
    BY <1>2, <2>1
  <2>3. row' \in Seq(RowType) /\ Len(row') = Len(log) + 1 /\ row'[Len(log')] = NewRow
        /\ \A i \in 1..Len(log) : row'[i] = row[i]
    BY <1>1, <1>2, <2>1
  <2>4. Rows = 1..Len(log) /\ Rows' = 1..Len(log') /\ Len(log) \in Nat
    BY <1>2, <2>2 DEF Rows
  <2> QED
    BY <1>4, <2>2, <2>3, <2>4
<1> QED
  BY <1>3, <1>4

LEMMA EmitDebts ==
  ASSUME TypeOK, NEW e \in Emissions, Emit(e)
  PROVE  \/ debts' = debts \/ Settled(debts, debts')
         \/ \E i \in Nat : Opened(debts, debts', i)
<1>1. \E i \in DOMAIN log' : log'[i] = e
  BY EmitRows DEF TypeOK, ToSet
<1>2. RowOf(e, log') \in DOMAIN log'
  BY <1>1 DEF RowOf
<1>3. RowOf(e, log') \in Nat
  BY <1>2, EmitRows
<1>4. debts \in Seq(DebtType)
  BY DEF TypeOK
<1> QED
  BY <1>3, <1>4, SettleAllSettles, CreateDebtOpens DEF Emit, Direct

LEMMA ExpireDebts ==
  ASSUME TypeOK, NEW n \in DOMAIN debts, ExpireDebt(n)
  PROVE  Settled(debts, debts')
<1>1. debts \in [1..Len(debts) -> DebtType] /\ Len(debts) \in Nat /\ n \in 1..Len(debts)
  BY DEF TypeOK
<1>2. [debts[n] EXCEPT !.status = "expired"] \in DebtType
  BY <1>1 DEF DebtType
<1>3. debts' = [debts EXCEPT ![n] = [debts[n] EXCEPT !.status = "expired"]] /\ debts[n].status = "open"
  BY DEF ExpireDebt, IsOpen
<1>4. debts' \in [1..Len(debts) -> DebtType]
  BY <1>1, <1>2, <1>3
<1>5. [debts[n] EXCEPT !.status = "expired"].source = debts[n].source
  BY <1>1 DEF DebtType
<1> QED
  BY <1>1, <1>3, <1>4, <1>5, SeqIntro DEF Settled

\* A stop's own settling: its row is in the log.
LEMMA SettleStopDebts ==
  ASSUME TypeOK, NEW e \in settling, SettleStop(e)
  PROVE  \E r \in Rows : /\ log[r] = e /\ Kind[e] = "stop" /\ r \in Nat /\ debts \in Seq(DebtType)
                         /\ debts' = SettleAll(debts, r) /\ Settled(debts, debts')
<1> DEFINE r == RowOf(e, log)
<1>1. e \in ToSet(log) /\ Kind[e] = "stop" /\ log \in Seq(Emissions) /\ debts \in Seq(DebtType)
  BY DEF TypeOK
<1>2. \E i \in DOMAIN log : log[i] = e
  BY <1>1 DEF ToSet
<1>3. r \in DOMAIN log /\ log[r] = e
  BY <1>2 DEF RowOf
<1>4. debts' = SettleAll(debts, r)
  BY DEF SettleStop
<1> HIDE DEF r
<1>5. r \in Rows /\ r \in Nat
  BY <1>1, <1>3 DEF Rows
<1> QED
  BY <1>1, <1>3, <1>4, <1>5, SettleAllSettles

LEMMA OwnDebtJoins ==
  ASSUME TypeOK, OwnDebt
  PROVE  Joined(debts, debts')
<1> DEFINE d == [source |-> 0, kind |-> "unfinished_task", status |-> "open", by |-> 0]
<1>1. d \in DebtType /\ d.source = 0 /\ d.by = 0 /\ d.kind = "unfinished_task"
  BY DEF DebtType
<1>2. debts \in Seq(DebtType) /\ debts' = Append(debts, d)
  BY DEF TypeOK, OwnDebt
<1> HIDE DEF d
<1> QED
  BY <1>1, <1>2 DEF Joined

LEMMA TypeInit == Init => TypeInv
  BY OutboxAssumption DEF OutboxAssumption, Init, TypeInv, TypeOK, InHand

LEMMA TypeStep == TypeInv /\ [Next]_vars => TypeInv'
<1> SUFFICES ASSUME TypeInv, [Next]_vars PROVE TypeInv'
  OBVIOUS
<1> DEFINE Small == /\ batch' \in [Workers -> SUBSET Nat] /\ done' \in [Workers -> BOOLEAN]
                    /\ handled' \in SUBSET Nat /\ lost' \in SUBSET Nat
                    /\ claimers' \in SUBSET Workers /\ faults' \in 0..MaxFaults
                    /\ stalls' \in 0..MaxStalls
<1> USE OutboxAssumption DEF OutboxAssumption
<1>1. ASSUME Small, Rewritten(row'), UNCHANGED log, debts' \in Seq(DebtType), settling' \subseteq settling,
             \A w \in Workers : batch'[w] \subseteq Rows, handled' \cup lost' \subseteq Rows
      PROVE  TypeInv'
  BY <1>1 DEF TypeInv, TypeOK, InHand, Rewritten, Rows
<1>2. Rewritten(row) /\ debts \in Seq(DebtType)
      /\ (\A w \in Workers : batch[w] \subseteq Rows) /\ handled \cup lost \subseteq Rows
  BY DEF TypeInv, TypeOK, InHand, Rewritten
<1>3. Rows \subseteq Nat
  BY DEF TypeInv, TypeOK, Rows
<1>4. ASSUME NEW e \in Emissions, Emit(e) PROVE TypeInv'
  <2>1. debts' \in Seq(DebtType)
    BY <1>4, EmitDebts DEF Settled, Opened, TypeInv, TypeOK
  <2>2. log' \in Seq(Emissions) /\ row' \in Seq(RowType) /\ Len(row') = Len(log') /\ Rows \subseteq Rows'
    BY <1>4, EmitRows DEF TypeInv
  <2>3. ToSet(log) \subseteq ToSet(log)' /\ e \in ToSet(log)'
    <3>1. log \in Seq(Emissions)
      BY DEF TypeInv, TypeOK
    <3>2. \A i \in Rows : i \in Rows' /\ log'[i] = log[i]
      BY <1>4, EmitRows DEF TypeInv
    <3>3. ToSet(log) \subseteq ToSet(log)'
      BY <3>1, <3>2 DEF ToSet, Rows
    <3>4. CASE e \in ToSet(log)
      BY <3>3, <3>4
    <3>5. CASE Len(log') = Len(log) + 1 /\ log'[Len(log')] = e
      <4>1. Len(log) \in Nat /\ DOMAIN log' = 1..Len(log')
        BY <2>2, <3>1
      <4>2. Len(log') \in DOMAIN log'
        BY <3>5, <4>1
      <4>3. e \in ToSet(log)'
        BY <3>5, <4>2 DEF ToSet
      <4> QED
        BY <3>3, <4>3
    <3> QED
      BY <1>4, <3>3, <3>4, <3>5, EmitRows DEF TypeInv
  <2>4. settling' \subseteq {f \in ToSet(log)' : Kind[f] = "stop"}
    BY <1>4, <2>3 DEF Emit, TypeInv, TypeOK
  <2> QED
    BY <1>4, <2>1, <2>2, <2>4 DEF Emit, TypeInv, TypeOK, InHand, work, history
<1>5. ASSUME NEW n \in DOMAIN debts, ExpireDebt(n) PROVE TypeInv'
  <2>1. debts' \in Seq(DebtType)
    BY <1>5, ExpireDebts DEF Settled, TypeInv
  <2> QED
    BY <1>5, <2>1 DEF ExpireDebt, TypeInv, TypeOK, InHand, work, history, Rows
<1>51. ASSUME NEW e \in settling, SettleStop(e) PROVE TypeInv'
  <2>1. debts' \in Seq(DebtType)
    BY <1>51, SettleStopDebts DEF Settled, TypeInv
  <2> QED
    BY <1>51, <2>1 DEF SettleStop, TypeInv, TypeOK, InHand, work, history, Rows
<1>52. ASSUME NEW e \in settling, StopCutShort(e) PROVE TypeInv'
  <2>1. faults' \in 0..MaxFaults
    BY <1>52 DEF StopCutShort, Fault, TypeInv, TypeOK
  <2> QED
    BY <1>52, <2>1 DEF StopCutShort, TypeInv, TypeOK, InHand, work, history, Rows
<1>53. CASE OwnDebt
  <2>1. debts' \in Seq(DebtType)
    BY <1>53, OwnDebtJoins DEF Joined, TypeInv
  <2> QED
    BY <1>53, <2>1 DEF OwnDebt, TypeInv, TypeOK, InHand, work, history, Rows
<1>6. ASSUME NEW w \in Workers, Claim(w) PROVE TypeInv'
  <2>1. Rewritten(row')
    BY <1>6, ClaimRows DEF TypeInv
  <2>2. FirstDue \subseteq Rows
    BY DEF FirstDue, Due
  <2>3. Small /\ \A v \in Workers : batch'[v] \subseteq Rows
    BY <1>2, <1>3, <1>6, <2>2 DEF Claim, TypeInv, TypeOK
  <2> QED
    BY <1>1, <1>2, <1>6, <2>1, <2>3 DEF Claim
<1>7. ASSUME NEW w \in Workers, Handle(w) PROVE TypeInv'
  <2>1. Current(w) \in Rows /\ Current(w) \in Nat
    BY <1>7, CurrentIsRow DEF Handle
  <2>2. debts' \in Seq(DebtType)
    BY <1>2, <1>7, <2>1, ProjectOpens DEF Handle, Opened
  <2>3. Small
    BY <1>7, <2>1 DEF Handle, TypeInv, TypeOK
  <2> QED
    BY <1>1, <1>2, <1>7, <2>1, <2>2, <2>3 DEF Handle, Rewritten
<1>8. ASSUME NEW w \in Workers, Advance(w)
      PROVE  /\ batch' \in [Workers -> SUBSET Nat] /\ done' \in [Workers -> BOOLEAN]
             /\ \A v \in Workers : batch'[v] \subseteq Rows
  BY <1>2, <1>8 DEF Advance, TypeInv, TypeOK
<1>9. ASSUME NEW w \in Workers, Ack(w) PROVE TypeInv'
  <2>1. Rewritten(row')
    BY <1>9, CurrentIsRow, AckedRows DEF Ack, TypeInv
  <2>2. Small
    BY <1>8, <1>9 DEF Ack, TypeInv, TypeOK, history
  <2> QED
    BY <1>1, <1>2, <1>8, <1>9, <2>1, <2>2 DEF Ack, history
<1>10. ASSUME NEW w \in Workers, Throw(w) PROVE TypeInv'
  <2>1. Rewritten(row')
    BY <1>10, CurrentIsRow, FailedRows DEF Throw, TypeInv
  <2>2. Small
    BY <1>8, <1>10 DEF Throw, Fault, TypeInv, TypeOK, history
  <2> QED
    BY <1>1, <1>2, <1>8, <1>10, <2>1, <2>2 DEF Throw, history
<1>11. ASSUME NEW w \in Workers, ProjectionFails(w) PROVE TypeInv'
  <2>1. Current(w) \in Rows /\ Current(w) \in Nat
    BY <1>11, CurrentIsRow DEF ProjectionFails
  <2>2. lost' \in SUBSET Nat
    BY <1>11, <2>1 DEF ProjectionFails, TypeInv, TypeOK
  <2>3. faults' \in 0..MaxFaults
    BY <1>11 DEF ProjectionFails, Fault, TypeInv, TypeOK
  <2>4. Small
    BY <1>11, <2>2, <2>3 DEF ProjectionFails, TypeInv, TypeOK
  <2> QED
    BY <1>1, <1>2, <1>11, <2>1, <2>4 DEF ProjectionFails, Rewritten
<1>12. ASSUME NEW w \in Workers, AckFails(w) PROVE TypeInv'
  <2>2. Small
    BY <1>8, <1>12 DEF AckFails, Fault, TypeInv, TypeOK, history
  <2> QED
    BY <1>1, <1>2, <1>8, <1>12, <2>2 DEF AckFails, history, Rewritten
<1>13. ASSUME NEW w \in Workers, Crash(w) PROVE TypeInv'
  <2>1. Small /\ \A v \in Workers : batch'[v] \subseteq Rows
    BY <1>2, <1>13 DEF Crash, Fault, TypeInv, TypeOK, history
  <2> QED
    BY <1>1, <1>2, <1>13, <2>1 DEF Crash, history, Rewritten
<1>14. CASE Tick
  <2>1. Rewritten(row')
    BY <1>14, TickRows DEF Tick, TypeInv
  <2>2. stalls' \in 0..MaxStalls
    <3>1. stalls' = stalls \/ (stalls < MaxStalls /\ stalls' = stalls + 1)
      BY <1>14 DEF Tick
    <3> QED
      BY <3>1 DEF TypeInv, TypeOK
  <2>3. Small
    BY <1>14, <2>2 DEF Tick, TypeInv, TypeOK, work, history
  <2> QED
    BY <1>1, <1>2, <1>14, <2>1, <2>3 DEF Tick, work, history
<1>15. CASE UNCHANGED vars
  BY <1>15 DEF vars, work, history, TypeInv, TypeOK, InHand, Rows
<1> QED
  BY <1>4, <1>5, <1>51, <1>52, <1>53, <1>6, <1>7, <1>9, <1>10, <1>11, <1>12, <1>13, <1>14, <1>15
     DEF Next, Drain, Faults

\* Type correctness of the outbox and of the debts.
THEOREM TypeCorrect == Spec => []TypeOK
<1>1. Spec => []TypeInv
  BY TypeInit, TypeStep, PTL DEF Spec
<1>2. TypeInv => TypeOK
  BY DEF TypeInv
<1> QED
  BY <1>1, <1>2, PTL
----------------------------------------------------------------------------
(* The debts: what a step may do to them, and what it never does.           *)

\* One debt for an event, in the log and among the debts.
LogUnique == \A i, j \in Rows : log[i] = log[j] => i = j
Unique(ds) == \A m, n \in 1..Len(ds) : ds[m].source = ds[n].source /\ ds[m].source # 0 => m = n

LEMMA DebtsStep ==
  ASSUME TypeInv, [Next]_vars
  PROVE  \/ UNCHANGED debts
         \/ Settled(debts, debts')
         \/ \E i \in Nat : Opened(debts, debts', i)
         \/ Joined(debts, debts')
<1>1. ASSUME NEW e \in Emissions, Emit(e)
      PROVE  UNCHANGED debts \/ Settled(debts, debts') \/ \E i \in Nat : Opened(debts, debts', i)
  BY <1>1, EmitDebts DEF TypeInv
<1>2. ASSUME NEW n \in DOMAIN debts, ExpireDebt(n) PROVE Settled(debts, debts')
  BY <1>2, ExpireDebts DEF TypeInv
<1>3. ASSUME NEW w \in Workers, Handle(w) PROVE \E i \in Nat : Opened(debts, debts', i)
  <2>1. Current(w) \in Rows /\ Current(w) \in Nat /\ debts \in Seq(DebtType)
    BY <1>3, CurrentIsRow DEF Handle, TypeInv, TypeOK
  <2> QED
    BY <1>3, <2>1, ProjectOpens DEF Handle
<1>4. ASSUME NEW w \in Workers, Claim(w) \/ Ack(w) \/ Faults(w) PROVE UNCHANGED debts
  BY <1>4 DEF Claim, Ack, Faults, Throw, ProjectionFails, AckFails, Crash
<1>5. CASE Tick \/ UNCHANGED vars
  BY <1>5 DEF Tick, vars
<1>6. ASSUME NEW e \in settling, SettleStop(e) PROVE Settled(debts, debts')
  BY <1>6, SettleStopDebts DEF TypeInv
<1>7. ASSUME NEW e \in settling, StopCutShort(e) PROVE UNCHANGED debts
  BY <1>7 DEF StopCutShort
<1>8. CASE OwnDebt
  BY <1>8, OwnDebtJoins DEF TypeInv
<1> QED
  BY <1>1, <1>2, <1>3, <1>4, <1>5, <1>6, <1>7, <1>8 DEF Next, Drain

LEMMA LogStep == TypeInv /\ LogUnique /\ [Next]_vars => LogUnique'
<1> SUFFICES ASSUME TypeInv, LogUnique, [Next]_vars PROVE LogUnique'
  OBVIOUS
<1>1. ASSUME NEW e \in Emissions, Emit(e) PROVE LogUnique'
  <2>1. CASE UNCHANGED log
    BY <2>1 DEF LogUnique, Rows
  <2>2. CASE e \notin ToSet(log) /\ Len(log') = Len(log) + 1 /\ log'[Len(log')] = e
    <3>1. log \in Seq(Emissions) /\ log' \in Seq(Emissions) /\ \A i \in Rows : log'[i] = log[i]
      BY <1>1, EmitRows DEF TypeInv, TypeOK
    <3>2. Rows = 1..Len(log) /\ Rows' = 1..(Len(log) + 1) /\ Len(log) \in Nat
      BY <2>2, <3>1 DEF Rows
    <3>3. \A i \in Rows : log[i] # e
      BY <2>2 DEF ToSet, Rows
    <3> QED
      BY <2>2, <3>1, <3>2, <3>3 DEF LogUnique
  <2> QED
    BY <1>1, <2>1, <2>2, EmitRows DEF TypeInv
<1>2. CASE UNCHANGED log
  BY <1>2 DEF LogUnique, Rows
<1> QED
  BY <1>1, <1>2 DEF Next, Drain, Faults, Claim, Handle, Ack, Throw, ProjectionFails, AckFails,
     Crash, Tick, ExpireDebt, SettleStop, StopCutShort, OwnDebt, vars

LEMMA UniqueStep ==
  ASSUME NEW ds \in Seq(DebtType), NEW es, NEW i \in Nat, Unique(ds),
         Settled(ds, es) \/ Opened(ds, es, i) \/ Joined(ds, es)
  PROVE  Unique(es)
<1>1. Len(ds) \in Nat /\ \A n \in 1..Len(ds) : es[n].source = ds[n].source
  BY DEF Settled, Opened, Joined
<1>2. CASE Len(es) = Len(ds)
  BY <1>1, <1>2 DEF Unique
<1>3. CASE /\ Len(es) = Len(ds) + 1 /\ es[Len(es)].source = i
           /\ \A n \in 1..Len(ds) : ds[n].source # i
  <2> SUFFICES ASSUME NEW m \in 1..Len(es), NEW n \in 1..Len(es), es[m].source = es[n].source,
                      es[m].source # 0
               PROVE  m = n
    BY DEF Unique
  <2>1. (m \in 1..Len(ds) \/ m = Len(es)) /\ (n \in 1..Len(ds) \/ n = Len(es))
    BY <1>1, <1>3
  <2> QED
    BY <1>1, <1>3, <2>1 DEF Unique
<1>4. CASE Len(es) = Len(ds) + 1 /\ es[Len(es)].source = 0
  <2> SUFFICES ASSUME NEW m \in 1..Len(es), NEW n \in 1..Len(es), es[m].source = es[n].source,
                      es[m].source # 0
               PROVE  m = n
    BY DEF Unique
  <2>1. m \in 1..Len(ds) /\ n \in 1..Len(ds)
    BY <1>1, <1>4
  <2> QED
    BY <1>1, <2>1 DEF Unique
<1> QED
  BY <1>2, <1>3, <1>4 DEF Settled, Opened, Joined

\* An event is in the log once and has one debt at most, however often it is appended,
\* claimed, handled again after a crash, or settled.
THEOREM OneDebt == Spec => []OneDebtPerEvent
<1> DEFINE I == TypeInv /\ LogUnique /\ Unique(debts)
<1>1. Init => I
  BY TypeInit DEF Init, LogUnique, Unique, Rows
<1>2. I /\ [Next]_vars => I'
  <2> SUFFICES ASSUME I, [Next]_vars PROVE I'
    OBVIOUS
  <2>1. debts \in Seq(DebtType) /\ Rows \subseteq Nat
    BY DEF TypeInv, TypeOK, Rows
  <2>2. Unique(debts')
    BY <2>1, DebtsStep, UniqueStep
  <2> QED
    BY <2>2, TypeStep, LogStep DEF Unique
<1>3. I => OneDebtPerEvent
  BY DEF OneDebtPerEvent, TypeInv, TypeOK, LogUnique, Unique
<1> QED
  BY <1>1, <1>2, <1>3, PTL DEF Spec

\* A debt that was settled or has expired stays as it is, and none is ever deleted.
THEOREM SettledStays == Spec => SettledIsFinal
<1> DEFINE Final == \A n \in DOMAIN debts :
                      /\ n \in DOMAIN debts'
                      /\ ~IsOpen(debts[n]) => debts'[n] = debts[n]
<1>1. Spec => []TypeInv
  BY TypeInit, TypeStep, PTL DEF Spec
<1>2. TypeInv /\ [Next]_vars => [Final]_debts
  <2> SUFFICES ASSUME TypeInv, [Next]_vars PROVE Final \/ UNCHANGED debts
    OBVIOUS
  <2>1. debts \in Seq(DebtType)
    BY DEF TypeInv, TypeOK
  <2>2. ASSUME NEW i, Settled(debts, debts') \/ Opened(debts, debts', i) \/ Joined(debts, debts')
        PROVE  Final
    BY <2>1, <2>2 DEF Settled, Opened, Joined, IsOpen
  <2> QED
    BY <2>2, DebtsStep
<1> QED
  BY <1>1, <1>2, PTL DEF Spec, SettledIsFinal
----------------------------------------------------------------------------
(* The rows: why one is settled.                                            *)

\* The row whose handler has returned was handled.
DoneIsHandled ==
    \A w \in Workers : done[w] => batch[w] # {} /\ Current(w) \in handled \cup lost
Reasons == SettledForAReason /\ DoneIsHandled

\* The only steps that settle a row: its worker acknowledges it or gives it up.
LEMMA RowSteps ==
  ASSUME TypeInv, DoneIsHandled, [Next]_vars, NEW i \in Rows
  PROVE  /\ i \in Rows' /\ handled \subseteq handled' /\ lost \subseteq lost'
         /\ row[i].status \in {"delivered", "failed"} =>
               row'[i].status = row[i].status /\ row'[i].attempts = row[i].attempts
         /\ row'[i].status = "delivered" => row[i].status = "delivered" \/ i \in handled \cup lost
         /\ row'[i].status = "failed" => row[i].status = "failed" \/ row'[i].attempts >= MaxAttempts
<1>1. row \in Seq(RowType) /\ DOMAIN row = Rows /\ row[i] \in RowType
  BY DEF TypeInv, TypeOK, Rows
<1>2. ASSUME NEW e \in Emissions, Emit(e)
      PROVE  i \in Rows' /\ row'[i] = row[i] /\ UNCHANGED <<handled, lost>>
  BY <1>2, EmitRows DEF TypeInv, Emit, history
<1>3. ASSUME NEW w \in Workers, Claim(w)
      PROVE  /\ UNCHANGED <<log, handled, lost>>
             /\ row'[i] # row[i] => /\ row[i].status \in {"pending", "processing"}
                                   /\ row'[i].status = "processing"
  <2>1. row'[i] = IF i \in FirstDue
          THEN [row[i] EXCEPT !.status = "processing", !.attempts = @ + 1, !.age = 0, !.owner = w]
          ELSE row[i]
    BY <1>3, ClaimRows DEF TypeInv
  <2>2. i \in FirstDue => row[i].status \in {"pending", "processing"}
    BY DEF FirstDue, Due, Claimable
  <2>3. i \in FirstDue => row'[i].status = "processing"
    BY <1>1, <2>1 DEF RowType
  <2> QED
    BY <1>3, <2>1, <2>2, <2>3 DEF Claim
<1>4. ASSUME NEW w \in Workers, Handle(w) \/ ProjectionFails(w) \/ AckFails(w) \/ Crash(w)
      PROVE  /\ UNCHANGED <<log, row>> /\ handled \subseteq handled' /\ lost \subseteq lost'
  BY <1>4 DEF Handle, ProjectionFails, AckFails, Crash, history
<1>5. ASSUME NEW w \in Workers, Ack(w)
      PROVE  /\ UNCHANGED <<log, handled, lost>>
             /\ row'[i] # row[i] => /\ row[i].status = "processing" /\ row'[i].status = "delivered"
                                   /\ i \in handled \cup lost
  <2>1. Current(w) \in handled \cup lost /\ UNCHANGED <<log, handled, lost>>
    BY <1>5 DEF Ack, DoneIsHandled, history
  <2>2. row'[i] # row[i] => i = Current(w) /\ row[i].status = "processing" /\ row'[i].status = "delivered"
    BY <1>1, <1>5 DEF Ack, Acked, Owns, RowType
  <2> QED
    BY <2>1, <2>2
<1>6. ASSUME NEW w \in Workers, Throw(w)
      PROVE  /\ UNCHANGED <<log, handled, lost>>
             /\ row'[i] # row[i] =>
                  /\ row[i].status = "processing"
                  /\ \/ row'[i].status = "pending"
                     \/ row'[i].status = "failed" /\ row'[i].attempts >= MaxAttempts
  <2>1. row'[i] # row[i] => row[i].status = "processing" /\ row'[i].attempts = row[i].attempts
            /\ row'[i].status = IF row[i].attempts >= MaxAttempts THEN "failed" ELSE "pending"
    BY <1>1, <1>6 DEF Throw, Failed, Owns, RowType
  <2> QED
    BY <1>6, <2>1 DEF Throw, history
<1>7. CASE Tick
  <2>1. row'[i] = Older(row[i])
    BY <1>7 DEF Tick
  <2> QED
    BY <1>1, <1>7, <2>1, OlderRow DEF Tick, history, Rows
<1>8. CASE \/ UNCHANGED vars \/ \E n \in DOMAIN debts : ExpireDebt(n)
           \/ OwnDebt \/ \E e \in settling : SettleStop(e) \/ StopCutShort(e)
  BY <1>8 DEF vars, history, ExpireDebt, OwnDebt, SettleStop, StopCutShort, Rows
<1> QED
  BY <1>1, <1>2, <1>3, <1>4, <1>5, <1>6, <1>7, <1>8 DEF Next, Drain, Faults, Rows

LEMMA NewRows ==
  ASSUME TypeInv, [Next]_vars
  PROVE  \A i \in Rows' \ Rows : row'[i].status = "pending"
<1>1. ASSUME NEW e \in Emissions, Emit(e) PROVE \A i \in Rows' \ Rows : row'[i].status = "pending"
  <2>1. CASE UNCHANGED <<log, row>>
    BY <2>1 DEF Rows
  <2>2. CASE Len(log') = Len(log) + 1 /\ row'[Len(log')] = NewRow
    <3>1. Rows = 1..Len(log) /\ Rows' = 1..(Len(log) + 1)
      BY <1>1, <2>2, EmitRows DEF Rows, TypeInv, TypeOK
    <3> QED
      BY <2>2, <3>1 DEF NewRow, TypeInv, TypeOK
  <2> QED
    BY <1>1, <2>1, <2>2, EmitRows DEF TypeInv
<1>2. CASE UNCHANGED log
  BY <1>2 DEF Rows
<1> QED
  BY <1>1, <1>2 DEF Next, Drain, Faults, Claim, Handle, Ack, Throw, ProjectionFails, AckFails,
     Crash, Tick, ExpireDebt, SettleStop, StopCutShort, OwnDebt, vars

LEMMA DoneStep == TypeInv /\ DoneIsHandled /\ [Next]_vars => DoneIsHandled'
<1> SUFFICES ASSUME TypeInv, DoneIsHandled, [Next]_vars PROVE DoneIsHandled'
  OBVIOUS
<1> DEFINE Fine(v) == done'[v] => batch'[v] # {} /\ Min(batch'[v]) \in handled' \cup lost'
<1>1. batch \in [Workers -> SUBSET Nat] /\ done \in [Workers -> BOOLEAN]
  BY DEF TypeInv, TypeOK
<1>2. ASSUME NEW v \in Workers, batch'[v] = batch[v], done'[v] = done[v],
             handled \subseteq handled', lost \subseteq lost'
      PROVE  Fine(v)
  BY <1>2 DEF DoneIsHandled, Current
<1>3. ASSUME NEW v \in Workers, done'[v] = FALSE PROVE Fine(v)
  BY <1>3
<1>4. ASSUME NEW w \in Workers, Claim(w) PROVE \A v \in Workers : Fine(v)
  <2>1. ~done[w]
    BY <1>4 DEF Claim, DoneIsHandled
  <2>2. \A v \in Workers \ {w} : batch'[v] = batch[v]
    BY <1>1, <1>4 DEF Claim
  <2> QED
    BY <1>2, <1>3, <1>4, <2>1, <2>2, Zenon DEF Claim
<1>5. ASSUME NEW w \in Workers, Handle(w) \/ ProjectionFails(w) PROVE \A v \in Workers : Fine(v)
  <2>1. batch' = batch /\ batch[w] # {} /\ Min(batch[w]) \in handled' \cup lost'
        /\ handled \subseteq handled' /\ lost \subseteq lost'
    BY <1>5 DEF Handle, ProjectionFails, Current
  <2>2. \A v \in Workers \ {w} : done'[v] = done[v]
    BY <1>1, <1>5 DEF Handle, ProjectionFails
  <2>3. Fine(w)
    BY <2>1
  <2> QED
    BY <1>2, <2>1, <2>2, <2>3
<1>6. ASSUME NEW w \in Workers, Ack(w) \/ Throw(w) \/ AckFails(w) \/ Crash(w)
      PROVE  \A v \in Workers : Fine(v)
  <2>1. UNCHANGED <<handled, lost>> /\ done'[w] = FALSE
    BY <1>1, <1>6 DEF Ack, Throw, AckFails, Crash, Advance, history
  <2>2. \A v \in Workers \ {w} : batch'[v] = batch[v] /\ done'[v] = done[v]
    BY <1>1, <1>6 DEF Ack, Throw, AckFails, Crash, Advance
  <2> QED
    BY <1>2, <1>3, <2>1, <2>2
<1>7. ASSUME UNCHANGED <<work, history>> PROVE \A v \in Workers : Fine(v)
  BY <1>2, <1>7 DEF work, history
<1>8. \A v \in Workers : Fine(v)
  BY <1>4, <1>5, <1>6, <1>7 DEF Next, Drain, Faults, Emit, ExpireDebt, SettleStop, StopCutShort, OwnDebt,
     Tick, vars
<1> QED
  BY <1>8 DEF DoneIsHandled, Current

\* A row is delivered only after its projection took effect or failed, and given up only
\* after its last attempt, whatever crashes, leases that run out and workers that overlap do.
THEOREM SettledWithReason == Spec => []SettledForAReason
<1> DEFINE I == TypeInv /\ Reasons
<1>1. Init => I
  BY TypeInit DEF Init, Reasons, SettledForAReason, DoneIsHandled, Rows
<1>2. I /\ [Next]_vars => I'
  <2> SUFFICES ASSUME I, [Next]_vars PROVE I'
    OBVIOUS
  <2>1. ASSUME NEW i \in Rows'
        PROVE  /\ row'[i].status = "delivered" => i \in handled' \cup lost'
               /\ row'[i].status = "failed" => row'[i].attempts >= MaxAttempts
    <3>1. CASE i \in Rows
      BY <3>1, RowSteps DEF Reasons, SettledForAReason
    <3>2. CASE i \notin Rows
      BY <2>1, <3>2, NewRows
    <3> QED
      BY <3>1, <3>2
  <2>2. SettledForAReason'
    BY <2>1 DEF SettledForAReason
  <2> QED
    BY <2>2, TypeStep, DoneStep DEF Reasons
<1>3. I => SettledForAReason
  BY DEF Reasons
<1> QED
  BY <1>1, <1>2, <1>3, PTL DEF Spec
----------------------------------------------------------------------------
(* Which debts an event touches.                                            *)

\* es: the debts ds after event i, of kind k, opened its debt, settled some, or both.
Touched(ds, es, i, k) ==
    /\ es \in Seq(DebtType) /\ Len(es) \in {Len(ds), Len(ds) + 1}
    /\ \A n \in 1..Len(ds) : es[n] = ds[n] \/ (ds[n].status = "open" /\ es[n] = Settles(ds[n], i))
    /\ Len(es) = Len(ds) + 1 =>
          /\ es[Len(es)].source = i /\ es[Len(es)].by \in {0, i} /\ es[Len(es)].kind = DebtKind(k)
          /\ k \notin {"callback", "direct", "verified"} /\ \A n \in 1..Len(ds) : ds[n].source # i

LEMMA SettlesIs ==
  ASSUME NEW d \in DebtType, NEW i \in Nat
  PROVE  /\ Settles(d, i) \in DebtType /\ Settles(d, i).source = d.source /\ Settles(d, i).kind = d.kind
         /\ Settles(d, i).by = i /\ Settles(d, i).status = "resolved"
  BY DEF DebtType, Settles

LEMMA AllTouches ==
  ASSUME NEW ds \in Seq(DebtType), NEW i \in Nat, NEW k
  PROVE  /\ Touched(ds, SettleAll(ds, i), i, k)
         /\ \A n \in DOMAIN SettleAll(ds, i) : ~IsOpen(SettleAll(ds, i)[n])
<1>1. /\ SettleAll(ds, i) \in Seq(DebtType) /\ Len(SettleAll(ds, i)) = Len(ds) /\ Len(ds) \in Nat
  BY SettleAllSettles DEF Settled
<1>2. \A n \in 1..Len(ds) : SettleAll(ds, i)[n] = IF ds[n].status = "open" THEN Settles(ds[n], i) ELSE ds[n]
  BY DEF SettleAll, IsOpen
<1>3. \A n \in 1..Len(ds) : ds[n] \in DebtType
  OBVIOUS
<1>4. \A n \in 1..Len(ds) : ~IsOpen(SettleAll(ds, i)[n])
  BY <1>2, <1>3, SettlesIs DEF IsOpen
<1> QED
  BY <1>1, <1>2, <1>4 DEF Touched

\* A callback settles one open failure, or nothing.
LEMMA NewestTouches ==
  ASSUME NEW ds \in Seq(DebtType), NEW i \in Nat, NEW k
  PROVE  /\ Touched(ds, SettleNewest(ds, i), i, k) /\ Len(SettleNewest(ds, i)) = Len(ds)
         /\ \E m \in Int : \A n \in 1..Len(ds) :
               SettleNewest(ds, i)[n] # ds[n] => n = m /\ ds[n].kind = "uncertainty"
<1> DEFINE A == Answerable(ds, i)
<1>1. CASE A = {}
  BY <1>1 DEF SettleNewest, Touched
<1>2. CASE A # {}
  <2>1. A \in SUBSET (1..Len(ds)) /\ \A n \in A : IsOpen(ds[n]) /\ ds[n].kind = "uncertainty"
    BY DEF Answerable
  <2> DEFINE m == Max(A)
  <2>2. m \in A
    <3> HIDE DEF A
    <3>1. Len(ds) \in Nat
      OBVIOUS
    <3> QED
      BY <1>2, <2>1, <3>1, MaxIsIn
  <2>3. SettleNewest(ds, i) = [ds EXCEPT ![m] = Settles(ds[m], i)]
    BY <1>2 DEF SettleNewest
  <2>4. m \in 1..Len(ds) /\ ds[m].status = "open" /\ ds[m].kind = "uncertainty"
    BY <2>1, <2>2 DEF IsOpen
  <2> HIDE DEF m, A
  <2>5. SettleNewest(ds, i) \in Seq(DebtType) /\ Len(SettleNewest(ds, i)) = Len(ds)
    BY SettleNewestSettles DEF Settled
  <2>6. \A n \in 1..Len(ds) : SettleNewest(ds, i)[n] = IF n = m THEN Settles(ds[m], i) ELSE ds[n]
    BY <2>3, <2>4
  <2>7. m \in Int /\ Len(ds) \in Nat /\ \A n \in 1..Len(ds) : SettleNewest(ds, i)[n] # ds[n] => n = m /\ ds[n].kind = "uncertainty"
    BY <2>4, <2>6
  <2>8. Touched(ds, SettleNewest(ds, i), i, k)
    <3>1. \A n \in 1..Len(ds) :
             SettleNewest(ds, i)[n] = ds[n] \/ (ds[n].status = "open" /\ SettleNewest(ds, i)[n] = Settles(ds[n], i))
      BY <2>4, <2>6
    <3>2. Len(ds) \in Nat /\ Len(ds) # Len(ds) + 1
      BY <2>7
    <3> QED
      BY <2>5, <3>1, <3>2 DEF Touched
  <2> QED
    BY <2>5, <2>7, <2>8
<1> QED
  BY <1>1, <1>2

LEMMA CreateTouches ==
  ASSUME NEW ds \in Seq(DebtType), NEW i \in Nat, NEW k
  PROVE  /\ Touched(ds, CreateDebt(ds, i, k), i, k)
         /\ \A n \in 1..Len(ds) : CreateDebt(ds, i, k)[n] = ds[n]
         /\ k \in {"callback", "direct", "verified"} => CreateDebt(ds, i, k) = ds
         /\ k = "failed" => \E n \in DOMAIN CreateDebt(ds, i, k) : CreateDebt(ds, i, k)[n].source = i
<1> DEFINE d == [source |-> i, kind |-> DebtKind(k), status |-> "open", by |-> 0]
<1>1. CASE CreateDebt(ds, i, k) = ds
  <2>1. k = "failed" => \E n \in DOMAIN ds : ds[n].source = i
    <3>1. Append(ds, d) # ds
      <4> HIDE DEF d
      <4>1. Len(ds) \in Nat /\ Len(Append(ds, d)) = Len(ds) + 1
        OBVIOUS
      <4> QED
        BY <4>1
    <3> QED
      BY <1>1, <3>1 DEF CreateDebt
  <2> QED
    BY <1>1, <2>1 DEF Touched
<1>2. CASE CreateDebt(ds, i, k) # ds
  <2>1. /\ CreateDebt(ds, i, k) = Append(ds, d) /\ \A n \in 1..Len(ds) : ds[n].source # i
        /\ k \in {"failure", "unfinished", "failed", "stop"}
    BY <1>2 DEF CreateDebt
  <2>2. d \in DebtType /\ d.source = i /\ d.by = 0 /\ d.kind = DebtKind(k)
    BY DEF DebtType, DebtKind
  <2> HIDE DEF d
  <2>3. /\ Append(ds, d) \in Seq(DebtType) /\ Len(Append(ds, d)) = Len(ds) + 1 /\ Len(ds) \in Nat
        /\ Append(ds, d)[Len(ds) + 1] = d /\ \A n \in 1..Len(ds) : Append(ds, d)[n] = ds[n]
    BY <2>2
  <2>4. DOMAIN Append(ds, d) = 1..(Len(ds) + 1)
    BY <2>2
  <2> QED
    BY <2>1, <2>2, <2>3, <2>4 DEF Touched
<1> QED
  BY <1>1, <1>2

LEMMA ProjectTouches ==
  ASSUME NEW ds \in Seq(DebtType), NEW i \in Nat
  PROVE  /\ Touched(ds, Project(ds, i), i, Kind[log[i]])
         /\ Kind[log[i]] \in {"stop", "verified"} => \A n \in DOMAIN Project(ds, i) : ~IsOpen(Project(ds, i)[n])
         /\ Kind[log[i]] = "callback" => Project(ds, i) = SettleNewest(ds, i)
<1> DEFINE k == Kind[log[i]]  es == CreateDebt(ds, i, k)
<1>1. /\ Touched(ds, es, i, k) /\ es \in Seq(DebtType) /\ \A n \in 1..Len(ds) : es[n] = ds[n]
      /\ k \in {"callback", "direct", "verified"} => es = ds
  <2>1. Touched(ds, es, i, k) => es \in Seq(DebtType)
    BY DEF Touched
  <2> QED
    BY <2>1, CreateTouches
<1>2. CASE k \in {"stop", "verified"}
  <2> DEFINE fs == SettleAll(es, i)
  <2>1. Project(ds, i) = fs
    BY <1>2 DEF Project
  <2>2. Touched(es, fs, i, k) /\ (\A n \in DOMAIN fs : ~IsOpen(fs[n])) /\ Len(fs) = Len(es)
    BY <1>1, AllTouches, SettleAllSettles DEF Settled
  <2>3. \A n \in 1..Len(es) : es[n] \in DebtType
    BY <1>1
  <2> HIDE DEF es, fs, k
  <2>4. Touched(ds, fs, i, k)
    <3>1. fs \in Seq(DebtType) /\ Len(fs) = Len(es) /\ Len(es) \in {Len(ds), Len(ds) + 1} /\ Len(ds) \in Nat
      BY <1>1, <2>2 DEF Touched
    <3>2. \A n \in 1..Len(ds) : fs[n] = ds[n] \/ (ds[n].status = "open" /\ fs[n] = Settles(ds[n], i))
      BY <1>1, <2>2, <3>1 DEF Touched
    <3>3. ASSUME Len(es) = Len(ds) + 1
          PROVE  fs[Len(es)].source = i /\ fs[Len(es)].by \in {0, i} /\ fs[Len(es)].kind = DebtKind(k)
      <4>1. /\ es[Len(es)].source = i /\ es[Len(es)].by \in {0, i} /\ es[Len(es)].kind = DebtKind(k)
            /\ Len(es) \in 1..Len(es)
        BY <1>1, <3>1, <3>3 DEF Touched
      <4>2. fs[Len(es)] = es[Len(es)] \/ fs[Len(es)] = Settles(es[Len(es)], i)
        BY <2>2, <4>1 DEF Touched
      <4> QED
        BY <2>3, <4>1, <4>2, SettlesIs
    <3> QED
      BY <1>1, <3>1, <3>2, <3>3 DEF Touched
  <2> QED
    BY <1>2, <2>1, <2>2, <2>4 DEF k
<1>3. CASE k = "callback"
  <2>1. Project(ds, i) = SettleNewest(ds, i)
    BY <1>1, <1>3 DEF Project
  <2> QED
    BY <1>3, <2>1, NewestTouches
<1>4. CASE k \notin {"stop", "verified", "callback"}
  <2>1. Project(ds, i) = es
    BY <1>4 DEF Project
  <2> QED
    BY <1>1, <1>4, <2>1
<1> QED
  BY <1>2, <1>3, <1>4

\* Emitting: the row of the event, and what the task does with its debts itself.
LEMMA EmitTouches ==
  ASSUME TypeInv, LogUnique, NEW e \in Emissions, Emit(e)
  PROVE  \E r \in Rows' :
            /\ log'[r] = e /\ (r \in Rows => log[r] = e) /\ (r \notin Rows => r = Len(log) + 1)
            /\ Rows' = Rows \cup {r}
            /\ debts' = debts \/ (Touched(debts, debts', r, Kind[e]) /\ Kind[e] # "callback")
            /\ Len(debts') = Len(debts) + 1 => Kind[e] = "failed"
            /\ Kind[e] = "failed" => \E n \in DOMAIN debts' : debts'[n].source = r
<1> DEFINE r == RowOf(e, log')
<1>1. \E i \in DOMAIN log' : log'[i] = e
  BY EmitRows DEF TypeInv, TypeOK, ToSet
<1>2. r \in DOMAIN log' /\ log'[r] = e
  BY <1>1 DEF RowOf
<1>3. /\ Rows = 1..Len(log) /\ Rows' = 1..Len(log') /\ Len(log) \in Nat /\ Len(log') \in Nat
      /\ \A i \in Rows : log'[i] = log[i]
  BY EmitRows DEF Rows, TypeInv, TypeOK
<1>4. debts' = Direct(debts, e, r) /\ debts \in Seq(DebtType)
  BY DEF Emit, TypeInv, TypeOK
<1> HIDE DEF r
<1>5. r \in Rows' /\ r \in Nat /\ (r \in Rows => log[r] = e)
  BY <1>2, <1>3 DEF Rows
<1>6. (r \notin Rows => r = Len(log) + 1) /\ Rows' = Rows \cup {r}
  <2>1. CASE UNCHANGED log
    BY <1>3, <1>5, <2>1
  <2>2. CASE e \notin ToSet(log) /\ Len(log') = Len(log) + 1
    <3>1. \A i \in Rows : log[i] # e
      BY <2>2 DEF ToSet, Rows
    <3> QED
      BY <1>3, <1>5, <2>2, <3>1
  <2> QED
    BY <2>1, <2>2, EmitRows DEF TypeInv
<1>7. /\ debts' = debts \/ (Touched(debts, debts', r, Kind[e]) /\ Kind[e] # "callback")
      /\ Len(debts') = Len(debts) + 1 => Kind[e] = "failed"
      /\ Kind[e] = "failed" => \E n \in DOMAIN debts' : debts'[n].source = r
  <2>1. CASE Kind[e] \in {"verified", "direct"}
    <3>1. debts' = SettleAll(debts, r)
      BY <1>4, <2>1 DEF Direct
    <3>2. Len(debts') = Len(debts) /\ Len(debts) \in Nat
      BY <1>4, <1>5, <3>1, SettleAllSettles DEF Settled
    <3> QED
      BY <1>4, <1>5, <2>1, <3>1, <3>2, AllTouches
  <2>2. CASE Kind[e] = "failed"
    <3>1. debts' = CreateDebt(debts, r, "failed")
      BY <1>4, <2>2 DEF Direct
    <3> QED
      BY <1>4, <1>5, <2>2, <3>1, CreateTouches
  <2>3. CASE Kind[e] \notin {"verified", "direct", "failed"}
    <3>1. debts' = debts
      BY <1>4, <2>3 DEF Direct
    <3>2. Len(debts) \in Nat
      BY <1>4
    <3> QED
      BY <2>3, <3>1, <3>2
  <2> QED
    BY <2>1, <2>2, <2>3
<1> QED
  BY <1>2, <1>5, <1>6, <1>7

LEMMA TouchedSeq ==
  ASSUME NEW ds \in Seq(DebtType), NEW es, NEW i \in Nat, NEW k, Touched(ds, es, i, k)
  PROVE  /\ es \in Seq(DebtType) /\ Len(ds) \in Nat /\ Len(es) \in {Len(ds), Len(ds) + 1}
         /\ 1..Len(ds) \subseteq 1..Len(es)
  BY DEF Touched

LEMMA TouchedOld ==
  ASSUME NEW ds \in Seq(DebtType), NEW es, NEW i \in Nat, NEW k, Touched(ds, es, i, k), NEW n \in 1..Len(ds)
  PROVE  /\ es[n].source = ds[n].source /\ es[n].kind = ds[n].kind
         /\ es[n] = ds[n] \/ (es[n].by = i /\ ~IsOpen(es[n]))
<1>1. ds[n] \in DebtType
  OBVIOUS
<1>2. CASE es[n] = ds[n]
  BY <1>2
<1>3. CASE es[n] = Settles(ds[n], i)
  BY <1>1, <1>3, SettlesIs DEF IsOpen
<1> QED
  BY <1>2, <1>3 DEF Touched

LEMMA TouchedNew ==
  ASSUME NEW ds \in Seq(DebtType), NEW es, NEW i \in Nat, NEW k, Touched(ds, es, i, k),
         NEW n \in 1..Len(es), n \notin 1..Len(ds)
  PROVE  /\ n = Len(es) /\ Len(es) = Len(ds) + 1
         /\ es[n].source = i /\ es[n].by \in {0, i} /\ es[n].kind = DebtKind(k)
<1>1. n = Len(es) /\ Len(es) = Len(ds) + 1
  BY TouchedSeq
<1> QED
  BY <1>1 DEF Touched

\* Handling a row, and a debt that expires.
LEMMA HandleTouches ==
  ASSUME TypeInv, NEW w \in Workers, Handle(w), NEW c, c = Current(w), NEW k, k = Kind[log[c]]
  PROVE  /\ c \in Rows /\ c \in Nat /\ c \in batch[w] /\ debts \in Seq(DebtType)
         /\ Touched(debts, debts', c, k)
         /\ k \in {"stop", "verified"} => \A n \in 1..Len(debts') : ~IsOpen(debts'[n])
         /\ k = "callback" =>
               /\ Len(debts') = Len(debts)
               /\ \E m \in Int : \A n \in 1..Len(debts) :
                     debts'[n] # debts[n] => n = m /\ debts[n].kind = "uncertainty"
<1>1. c \in Rows /\ c \in Nat /\ c \in batch[w]
  BY CurrentIsRow DEF Handle
<1>2. debts \in Seq(DebtType) /\ debts' = Project(debts, c)
  BY DEF Handle, TypeInv, TypeOK
<1>3. Touched(debts, debts', c, k)
  BY <1>1, <1>2, ProjectTouches
<1>4. DOMAIN debts' = 1..Len(debts')
  BY <1>1, <1>2, <1>3, TouchedSeq
<1>5. k \in {"stop", "verified"} => \A n \in 1..Len(debts') : ~IsOpen(debts'[n])
  BY <1>1, <1>2, <1>4, ProjectTouches
<1>6. k = "callback" => debts' = SettleNewest(debts, c)
  BY <1>1, <1>2, ProjectTouches
<1> QED
  BY <1>1, <1>2, <1>3, <1>5, <1>6, NewestTouches

LEMMA ExpireTouches ==
  ASSUME TypeInv, NEW m \in DOMAIN debts, ExpireDebt(m)
  PROVE  /\ debts \in Seq(DebtType) /\ Len(debts) \in Nat /\ Len(debts') = Len(debts)
         /\ DOMAIN debts = 1..Len(debts) /\ DOMAIN debts' = DOMAIN debts
         /\ \A n \in DOMAIN debts :
               /\ debts'[n].source = debts[n].source /\ debts'[n].by = debts[n].by
               /\ debts'[n].kind = debts[n].kind /\ (IsOpen(debts'[n]) => IsOpen(debts[n]))
<1>1. debts \in Seq(DebtType) /\ Len(debts) \in Nat /\ DOMAIN debts = 1..Len(debts)
  BY DEF TypeInv, TypeOK
<1>2. debts' = [debts EXCEPT ![m].status = "expired"]
  BY DEF ExpireDebt
<1>3. debts' \in Seq(DebtType) /\ Len(debts') = Len(debts) /\ DOMAIN debts' = DOMAIN debts
  BY <1>1, <1>2, ExpireDebts DEF Settled, TypeInv
<1>4. ASSUME NEW n \in DOMAIN debts
      PROVE  /\ debts'[n].source = debts[n].source /\ debts'[n].by = debts[n].by
             /\ debts'[n].kind = debts[n].kind /\ (IsOpen(debts'[n]) => IsOpen(debts[n]))
  <2>1. debts[n] \in DebtType /\ debts[m] \in DebtType
    BY <1>1
  <2>2. debts'[n] = IF n = m THEN [debts[m] EXCEPT !.status = "expired"] ELSE debts[n]
    BY <1>2
  <2> QED
    BY <2>1, <2>2 DEF DebtType, IsOpen
<1> QED
  BY <1>1, <1>3, <1>4

\* A stop's own settling.
LEMMA StopTouches ==
  ASSUME TypeInv, NEW e \in settling, SettleStop(e)
  PROVE  \E r \in Rows : /\ log[r] = e /\ Kind[e] = "stop" /\ r \in Nat /\ debts \in Seq(DebtType)
                         /\ Touched(debts, debts', r, Kind[e]) /\ Len(debts') = Len(debts)
                         /\ Len(debts) \in Nat
<1>1. PICK r \in Rows : /\ log[r] = e /\ Kind[e] = "stop" /\ r \in Nat /\ debts \in Seq(DebtType)
                       /\ debts' = SettleAll(debts, r) /\ Settled(debts, debts')
  BY SettleStopDebts DEF TypeInv
<1>2. Touched(debts, debts', r, Kind[e])
  BY <1>1, AllTouches
<1>3. Len(debts') = Len(debts) /\ Len(debts) \in Nat
  BY <1>1 DEF Settled
<1> QED
  BY <1>1, <1>2, <1>3

\* A step that does not touch the debts, or the log.
LEMMA OtherSteps ==
  ASSUME [Next]_vars
  PROVE  \/ \E e \in Emissions : Emit(e)
         \/ \E e \in settling : SettleStop(e)
         \/ OwnDebt
         \/ \E m \in DOMAIN debts : ExpireDebt(m)
         \/ \E w \in Workers : Handle(w)
         \/ UNCHANGED <<log, debts, handled>>
<1>1. ASSUME NEW w \in Workers, Claim(w) \/ Ack(w) \/ Faults(w) PROVE UNCHANGED <<log, debts, handled>>
  BY <1>1 DEF Claim, Ack, Faults, Throw, ProjectionFails, AckFails, Crash, history
<1>2. CASE Tick \/ UNCHANGED vars \/ \E e \in settling : StopCutShort(e)
  BY <1>2 DEF Tick, StopCutShort, vars, history
<1> QED
  BY <1>1, <1>2 DEF Next, Drain
----------------------------------------------------------------------------
(* Where the debts come from: their sources and what settled them are rows; *)
(* an uncertainty is the debt of a failure that was handled; a task that    *)
(* failed has its debt.                                                     *)

Sourced(d) ==
    /\ d.source \in Rows \cup {0} /\ d.by \in Rows \cup {0}
    /\ d.kind = "uncertainty" => d.source \in handled /\ Kind[log[d.source]] = "failure"
DebtSources ==
    /\ \A n \in DOMAIN debts : Sourced(debts[n])
    /\ \A i \in Rows : Kind[log[i]] = "failed" => \E n \in DOMAIN debts : debts[n].source = i

\* A debt keeps its source's rows when the log grows and more is handled.
LEMMA SourcesStep ==
  TypeInv /\ LogUnique /\ DebtSources /\ [Next]_vars => DebtSources'
<1> SUFFICES ASSUME TypeInv, LogUnique, DebtSources, [Next]_vars PROVE DebtSources'
  OBVIOUS
<1>1. debts \in Seq(DebtType) /\ Len(debts) \in Nat /\ DOMAIN debts = 1..Len(debts) /\ 0 \notin Rows
      /\ Rows \subseteq Nat /\ handled \subseteq Rows
  BY DEF TypeInv, TypeOK, InHand, Rows
\* The debts of a step in which row r opens or settles some.
<1>2. ASSUME NEW r \in Nat, NEW k, Touched(debts, debts', r, k), r \in Rows', Rows \subseteq Rows',
             handled \subseteq handled', \A i \in Rows : log'[i] = log[i],
             Len(debts') = Len(debts) + 1 /\ DebtKind(k) = "uncertainty" =>
                r \in handled' /\ Kind[log'[r]] = "failure"
      PROVE  \A n \in DOMAIN debts' : Sourced(debts[n])'
  <2>1. debts' \in Seq(DebtType) /\ DOMAIN debts' = 1..Len(debts') /\ 1..Len(debts) \subseteq 1..Len(debts')
    <3>1. debts \in Seq(DebtType) /\ r \in Nat /\ Touched(debts, debts', r, k)
      BY <1>1, <1>2
    <3>2. debts' \in Seq(DebtType) /\ 1..Len(debts) \subseteq 1..Len(debts')
      BY <3>1, TouchedSeq
    <3> QED
      BY <3>2
  <2>2. ASSUME NEW n \in 1..Len(debts) PROVE Sourced(debts[n])'
    <3>1. /\ debts'[n].source = debts[n].source /\ debts'[n].kind = debts[n].kind
          /\ debts'[n].by \in {debts[n].by, r}
      <4>1. debts \in Seq(DebtType) /\ r \in Nat /\ Touched(debts, debts', r, k)
        BY <1>1, <1>2
      <4>2. /\ debts'[n].source = debts[n].source /\ debts'[n].kind = debts[n].kind
            /\ debts'[n] = debts[n] \/ (debts'[n].by = r /\ ~IsOpen(debts'[n]))
        BY <4>1, TouchedOld
      <4> QED
        BY <4>2
    <3>2. Sourced(debts[n])
      BY <1>1 DEF DebtSources
    <3>3. debts[n].kind = "uncertainty" =>
             debts[n].source \in handled' /\ Kind[log'[debts[n].source]] = "failure"
      BY <1>1, <1>2, <3>2 DEF Sourced
    <3> QED
      BY <1>2, <3>1, <3>2, <3>3 DEF Sourced
  <2>3. ASSUME NEW n \in 1..Len(debts'), n \notin 1..Len(debts) PROVE Sourced(debts[n])'
    <3>1. debts'[n].source = r /\ debts'[n].by \in {0, r} /\ debts'[n].kind = DebtKind(k)
          /\ Len(debts') = Len(debts) + 1
      BY <1>1, <1>2, <2>3, TouchedNew
    <3>2. debts'[n].source \in Rows' \cup {0} /\ debts'[n].by \in Rows' \cup {0}
      BY <1>2, <3>1
    <3>3. debts'[n].kind = "uncertainty" =>
             debts'[n].source \in handled' /\ Kind[log'[debts'[n].source]] = "failure"
      BY <1>2, <3>1
    <3> QED
      BY <3>2, <3>3 DEF Sourced
  <2> QED
    BY <2>1, <2>2, <2>3
<1>3. ASSUME NEW e \in Emissions, Emit(e) PROVE DebtSources'
  <2>1. PICK r \in Rows' :
            /\ log'[r] = e /\ (r \in Rows => log[r] = e) /\ (r \notin Rows => r = Len(log) + 1)
            /\ Rows' = Rows \cup {r}
            /\ debts' = debts \/ (Touched(debts, debts', r, Kind[e]) /\ Kind[e] # "callback")
            /\ Len(debts') = Len(debts) + 1 => Kind[e] = "failed"
            /\ Kind[e] = "failed" => \E n \in DOMAIN debts' : debts'[n].source = r
    BY <1>3, EmitTouches
  <2>2. /\ \A i \in Rows : log'[i] = log[i]
        /\ handled' = handled /\ Rows \subseteq Rows' /\ r \in Nat
    <3>1. Rows' \subseteq Nat
      BY <1>3, EmitRows DEF TypeInv, Rows
    <3> QED
      BY <1>3, <2>1, <3>1, EmitRows DEF TypeInv, Emit, history
  <2>3. \A n \in DOMAIN debts' : Sourced(debts[n])'
    <3>1. CASE debts' = debts
      <4> TAKE n \in DOMAIN debts'
      <4>1. Sourced(debts[n]) /\ debts'[n] = debts[n]
        BY <3>1 DEF DebtSources
      <4>2. debts[n].kind = "uncertainty" =>
               debts[n].source \in handled' /\ Kind[log'[debts[n].source]] = "failure"
        BY <1>1, <2>2, <4>1 DEF Sourced
      <4> QED
        BY <2>2, <4>1, <4>2 DEF Sourced
    <3>2. CASE Touched(debts, debts', r, Kind[e])
      <4>1. Len(debts') = Len(debts) + 1 => DebtKind(Kind[e]) # "uncertainty"
        BY <2>1 DEF DebtKind
      <4> QED
        BY <1>2, <2>1, <2>2, <3>2, <4>1
    <3> QED
      BY <2>1, <3>1, <3>2
  <2>4. ASSUME NEW n \in DOMAIN debts PROVE n \in DOMAIN debts' /\ debts'[n].source = debts[n].source
    <3>1. CASE debts' = debts
      BY <3>1
    <3>2. CASE Touched(debts, debts', r, Kind[e])
      BY <1>1, <2>2, <3>2, TouchedSeq, TouchedOld
    <3> QED
      BY <2>1, <3>1, <3>2
  <2>5. ASSUME NEW i \in Rows', Kind[log'[i]] = "failed"
        PROVE  \E n \in DOMAIN debts' : debts'[n].source = i
    <3>1. CASE i = r
      BY <2>1, <2>5, <3>1
    <3>2. CASE i \in Rows
      <4>1. PICK n \in DOMAIN debts : debts[n].source = i
        BY <2>2, <2>5, <3>2 DEF DebtSources
      <4> QED
        BY <2>4, <4>1
    <3> QED
      BY <2>1, <3>1, <3>2
  <2> QED
    BY <2>3, <2>5 DEF DebtSources
<1>4. ASSUME NEW m \in DOMAIN debts, ExpireDebt(m) PROVE DebtSources'
  <2>1. /\ DOMAIN debts' = DOMAIN debts
        /\ \A n \in DOMAIN debts : /\ debts'[n].source = debts[n].source /\ debts'[n].by = debts[n].by
                                   /\ debts'[n].kind = debts[n].kind
    BY <1>4, ExpireTouches
  <2>2. UNCHANGED <<log, handled>> /\ Rows' = Rows
    BY <1>4 DEF ExpireDebt, history, Rows
  <2> QED
    BY <2>1, <2>2 DEF DebtSources, Sourced
<1>5. ASSUME NEW w \in Workers, Handle(w) PROVE DebtSources'
  <2>1. PICK c : c = Current(w)
    OBVIOUS
  <2>2. PICK k : k = Kind[log[c]]
    OBVIOUS
  <2>3. c \in Rows /\ c \in Nat /\ Touched(debts, debts', c, k)
    BY <1>5, <2>1, <2>2, HandleTouches
  <2>4. UNCHANGED log /\ Rows' = Rows /\ handled' = handled \cup {c}
    BY <1>5, <2>1 DEF Handle, Rows
  <2>5. Len(debts') = Len(debts) + 1 /\ DebtKind(k) = "uncertainty" => Kind[log[c]] = "failure"
    BY <2>2 DEF DebtKind
  <2>6. \A n \in DOMAIN debts' : Sourced(debts[n])'
    BY <1>2, <2>3, <2>4, <2>5
  <2>7. ASSUME NEW n \in DOMAIN debts PROVE n \in DOMAIN debts' /\ debts'[n].source = debts[n].source
    <3>1. n \in 1..Len(debts)
      BY <1>1
    <3>2. debts' \in Seq(DebtType) /\ n \in 1..Len(debts') /\ debts'[n].source = debts[n].source
      BY <1>1, <2>3, <3>1, TouchedSeq, TouchedOld
    <3> QED
      BY <3>2
  <2>8. \A i \in Rows : Kind[log[i]] = "failed" => \E n \in DOMAIN debts' : debts'[n].source = i
    BY <2>7 DEF DebtSources
  <2> QED
    BY <2>4, <2>6, <2>8 DEF DebtSources
<1>6. CASE UNCHANGED <<log, debts, handled>>
  BY <1>6 DEF DebtSources, Sourced, Rows
<1>7. ASSUME NEW e \in settling, SettleStop(e) PROVE DebtSources'
  <2>1. PICK r \in Rows : /\ r \in Nat /\ Touched(debts, debts', r, Kind[e]) /\ Len(debts') = Len(debts)
                         /\ Len(debts) \in Nat
    BY <1>7, StopTouches
  <2>2. UNCHANGED <<log, handled>> /\ Rows' = Rows
    BY <1>7 DEF SettleStop, history, Rows
  <2>3. \A n \in DOMAIN debts' : Sourced(debts[n])'
    BY <1>2, <2>1, <2>2
  <2>4. ASSUME NEW n \in DOMAIN debts PROVE n \in DOMAIN debts' /\ debts'[n].source = debts[n].source
    BY <1>1, <2>1, TouchedSeq, TouchedOld
  <2>5. \A i \in Rows : Kind[log[i]] = "failed" => \E n \in DOMAIN debts' : debts'[n].source = i
    BY <2>4 DEF DebtSources
  <2> QED
    BY <2>2, <2>3, <2>5 DEF DebtSources
<1>8. CASE OwnDebt
  <2>1. Joined(debts, debts')
    BY <1>8, OwnDebtJoins DEF TypeInv
  <2>2. UNCHANGED <<log, handled>> /\ Rows' = Rows
    BY <1>8 DEF OwnDebt, history, Rows
  <2>3. DOMAIN debts' = 1..(Len(debts) + 1) /\ debts' \in Seq(DebtType)
    BY <1>1, <2>1 DEF Joined
  <2>4. ASSUME NEW n \in DOMAIN debts' PROVE Sourced(debts[n])'
    <3>1. CASE n \in DOMAIN debts
      BY <1>1, <2>1, <2>2, <3>1 DEF Joined, DebtSources, Sourced
    <3>2. CASE n = Len(debts')
      BY <2>1, <2>2, <3>2 DEF Joined, Sourced
    <3> QED
      BY <1>1, <2>1, <2>3, <3>1, <3>2 DEF Joined
  <2>5. ASSUME NEW n \in DOMAIN debts PROVE n \in DOMAIN debts' /\ debts'[n] = debts[n]
    BY <1>1, <2>1, <2>3 DEF Joined
  <2>6. \A i \in Rows : Kind[log[i]] = "failed" => \E n \in DOMAIN debts' : debts'[n].source = i
    BY <2>5 DEF DebtSources
  <2> QED
    BY <2>2, <2>4, <2>6 DEF DebtSources
<1> QED
  BY <1>3, <1>4, <1>5, <1>6, <1>7, <1>8, OtherSteps
----------------------------------------------------------------------------
(* Deliveries: a row's attempts pay for the debts it settled and for the    *)
(* workers that are still to handle it.                                     *)

LEMMA FewerElements ==
  ASSUME NEW S, IsFiniteSet(S), NEW T, T \subseteq S
  PROVE  IsFiniteSet(T) /\ Cardinality(S) \in Nat /\ Cardinality(T) \in Nat /\ Cardinality(T) <= Cardinality(S)
<1>1. T \in SUBSET S
  OBVIOUS
<1> QED
  BY <1>1, FS_Subset, FS_CardinalityType

LEMMA OneMore ==
  ASSUME NEW S, IsFiniteSet(S), NEW x, NEW T, T \subseteq S \cup {x}
  PROVE  IsFiniteSet(T) /\ Cardinality(S) \in Nat /\ Cardinality(T) \in Nat /\ Cardinality(T) <= Cardinality(S) + 1
<1>1. IsFiniteSet(S \cup {x}) /\ Cardinality(S \cup {x}) \in {Cardinality(S), Cardinality(S) + 1}
  BY FS_AddElement
<1>2. IsFiniteSet(T) /\ Cardinality(T) \in Nat /\ Cardinality(T) <= Cardinality(S \cup {x})
  BY <1>1, FewerElements
<1>3. Cardinality(S) \in Nat
  BY FS_CardinalityType
<1> QED
  BY <1>1, <1>2, <1>3

LEMMA OneLess ==
  ASSUME NEW S, IsFiniteSet(S), NEW x \in S, NEW T, T \subseteq S \ {x}
  PROVE  IsFiniteSet(T) /\ Cardinality(S) \in Nat /\ Cardinality(T) \in Nat /\ Cardinality(T) + 1 <= Cardinality(S)
<1>1. IsFiniteSet(S \ {x}) /\ Cardinality(S \ {x}) = Cardinality(S) - 1
  BY FS_RemoveElement
<1>2. IsFiniteSet(T) /\ Cardinality(T) \in Nat /\ Cardinality(T) <= Cardinality(S \ {x})
  BY <1>1, FewerElements
<1>3. Cardinality(S) \in Nat
  BY FS_CardinalityType
<1> QED
  BY <1>1, <1>2, <1>3

\* The workers that have row i in hand and have yet to run its handler.
Awaits(w, i) == i \in batch[w] /\ ~(done[w] /\ i = Current(w))
Yet(i) == {w \in Workers : Awaits(w, i)}
SettledBy(i) == {n \in DOMAIN debts : debts[n].by = i}
Paid(i) ==
    /\ IsFiniteSet(Yet(i)) /\ IsFiniteSet(SettledBy(i))
    /\ Kind[log[i]] = "callback" => Cardinality(SettledBy(i)) + Cardinality(Yet(i)) <= row[i].attempts
DeliveryInv == \A i \in Rows : Paid(i)

LEMMA RowIs ==
  ASSUME TypeInv, NEW i \in Rows
  PROVE  row[i] \in RowType /\ row[i].attempts \in Nat /\ i \in Nat \ {0}
<1>1. row[i] \in RowType /\ i \in Nat \ {0}
  BY DEF TypeInv, TypeOK, Rows
<1>2. \A r \in RowType : r.attempts \in Nat
  BY DEF RowType
<1> QED
  BY <1>1, <1>2

\* Nobody more awaits row i, and it settles nothing.
LEMMA PaidStays ==
  ASSUME NEW i, Paid(i), Yet(i)' \subseteq Yet(i), SettledBy(i)' \subseteq SettledBy(i),
         row[i].attempts \in Nat, row'[i].attempts = row[i].attempts, log'[i] = log[i]
  PROVE  Paid(i)'
<1>1. IsFiniteSet(Yet(i)') /\ Cardinality(Yet(i)) \in Nat /\ Cardinality(Yet(i)') \in Nat
      /\ Cardinality(Yet(i)') <= Cardinality(Yet(i))
  BY FewerElements DEF Paid
<1>2. IsFiniteSet(SettledBy(i)') /\ Cardinality(SettledBy(i)) \in Nat /\ Cardinality(SettledBy(i)') \in Nat
      /\ Cardinality(SettledBy(i)') <= Cardinality(SettledBy(i))
  BY FewerElements DEF Paid
<1> QED
  BY <1>1, <1>2 DEF Paid

\* A worker claims row i.
LEMMA PaidByAttempt ==
  ASSUME NEW i, Paid(i), NEW w, Yet(i)' \subseteq Yet(i) \cup {w}, SettledBy(i)' \subseteq SettledBy(i),
         row[i].attempts \in Nat, row'[i].attempts = row[i].attempts + 1, log'[i] = log[i]
  PROVE  Paid(i)'
<1>1. IsFiniteSet(Yet(i)') /\ Cardinality(Yet(i)) \in Nat /\ Cardinality(Yet(i)') \in Nat
      /\ Cardinality(Yet(i)') <= Cardinality(Yet(i)) + 1
  BY OneMore DEF Paid
<1>2. IsFiniteSet(SettledBy(i)') /\ Cardinality(SettledBy(i)) \in Nat /\ Cardinality(SettledBy(i)') \in Nat
      /\ Cardinality(SettledBy(i)') <= Cardinality(SettledBy(i))
  BY FewerElements DEF Paid
<1> QED
  BY <1>1, <1>2 DEF Paid

\* Its handler settles one debt at most.
LEMMA PaidByHandler ==
  ASSUME NEW i, Paid(i), NEW w \in Yet(i), Yet(i)' \subseteq Yet(i) \ {w}, IsFiniteSet(SettledBy(i)'),
         Kind[log[i]] = "callback" => \E m : SettledBy(i)' \subseteq SettledBy(i) \cup {m},
         row[i].attempts \in Nat, row'[i].attempts = row[i].attempts, log'[i] = log[i]
  PROVE  Paid(i)'
<1>1. IsFiniteSet(Yet(i)') /\ Cardinality(Yet(i)) \in Nat /\ Cardinality(Yet(i)') \in Nat
      /\ Cardinality(Yet(i)') + 1 <= Cardinality(Yet(i))
  BY OneLess DEF Paid
<1>2. CASE Kind[log[i]] = "callback"
  <2>1. PICK m : SettledBy(i)' \subseteq SettledBy(i) \cup {m}
    BY <1>2
  <2>2. Cardinality(SettledBy(i)) \in Nat /\ Cardinality(SettledBy(i)') \in Nat
        /\ Cardinality(SettledBy(i)') <= Cardinality(SettledBy(i)) + 1
    BY <2>1, OneMore DEF Paid
  <2> QED
    BY <1>1, <2>2 DEF Paid
<1>3. CASE Kind[log[i]] # "callback"
  BY <1>1, <1>3 DEF Paid
<1> QED
  BY <1>2, <1>3

\* What a worker awaits depends on what it has in hand.
LEMMA AwaitsSame ==
  ASSUME NEW v, batch'[v] = batch[v], done'[v] = done[v], NEW i
  PROVE  Awaits(v, i)' <=> Awaits(v, i)
  BY DEF Awaits, Current

LEMMA FiniteSettledBy ==
  ASSUME debts' \in Seq(DebtType), NEW i
  PROVE  IsFiniteSet(SettledBy(i)')
<1>1. IsFiniteSet(1..Len(debts')) /\ SettledBy(i)' \in SUBSET (1..Len(debts'))
  BY FS_Interval DEF SettledBy
<1> QED
  BY <1>1, FS_Subset

\* Row r is the only one for which a debt may be settled in a step that touches debts for r.
LEMMA TouchedSettles ==
  ASSUME debts \in Seq(DebtType), NEW r \in Nat, NEW k, Touched(debts, debts', r, k),
         NEW i \in Nat \ {0}, i # r
  PROVE  SettledBy(i)' \subseteq SettledBy(i)
<1> SUFFICES ASSUME NEW n \in SettledBy(i)' PROVE n \in SettledBy(i)
  OBVIOUS
<1>1. debts' \in Seq(DebtType) /\ DOMAIN debts = 1..Len(debts)
  BY TouchedSeq
<1>2. n \in 1..Len(debts') /\ debts'[n].by = i
  BY <1>1 DEF SettledBy
<1>3. n \in 1..Len(debts)
  BY <1>2, TouchedNew
<1>4. debts'[n] = debts[n]
  BY <1>2, <1>3, TouchedOld
<1> QED
  BY <1>1, <1>2, <1>3, <1>4 DEF SettledBy

LEMMA ClaimPays ==
  ASSUME TypeInv, DeliveryInv, NEW w \in Workers, Claim(w), NEW i \in Rows
  PROVE  Paid(i)'
<1>1. row[i] \in RowType /\ row[i].attempts \in Nat /\ Paid(i) /\ UNCHANGED <<log, debts>>
  BY RowIs DEF DeliveryInv, Claim
<1>2. SettledBy(i)' \subseteq SettledBy(i)
  BY <1>1 DEF SettledBy
<1>3. \A v \in Workers \ {w} : batch'[v] = batch[v] /\ done'[v] = done[v]
  BY DEF Claim, TypeInv, TypeOK
<1>4. \A v \in Workers \ {w} : Awaits(v, i)' <=> Awaits(v, i)
  BY <1>3, AwaitsSame
<1>5. row'[i] = IF i \in FirstDue
        THEN [row[i] EXCEPT !.status = "processing", !.attempts = @ + 1, !.age = 0, !.owner = w]
        ELSE row[i]
  BY ClaimRows DEF TypeInv
<1>6. CASE i \in FirstDue
  <2>1. Yet(i)' \subseteq Yet(i) \cup {w}
    BY <1>4 DEF Yet
  <2>2. row'[i].attempts = row[i].attempts + 1
    BY <1>1, <1>5, <1>6 DEF RowType
  <2> QED
    BY <1>1, <1>2, <2>1, <2>2, PaidByAttempt
<1>7. CASE i \notin FirstDue
  <2>1. ~Awaits(w, i)'
    BY <1>7 DEF Claim, Awaits, TypeInv, TypeOK
  <2>2. Yet(i)' \subseteq Yet(i)
    BY <1>4, <2>1 DEF Yet
  <2> QED
    BY <1>1, <1>2, <1>5, <1>7, <2>2, PaidStays
<1> QED
  BY <1>6, <1>7

LEMMA HandlePays ==
  ASSUME TypeInv, DeliveryInv, NEW w \in Workers, Handle(w), NEW i \in Rows
  PROVE  Paid(i)'
<1> DEFINE c == Current(w)
<1>1. row[i] \in RowType /\ row[i].attempts \in Nat /\ Paid(i) /\ UNCHANGED <<log, row, batch>>
      /\ i \in Nat \ {0}
  BY RowIs DEF DeliveryInv, Handle
<1>2. PICK k : k = Kind[log[c]]
  OBVIOUS
<1>3. /\ c \in Rows /\ c \in Nat /\ c \in batch[w] /\ debts \in Seq(DebtType)
      /\ Touched(debts, debts', c, k)
      /\ k = "callback" =>
            /\ Len(debts') = Len(debts)
            /\ \E m \in Int : \A n \in 1..Len(debts) : debts'[n] # debts[n] => n = m
  BY <1>2, HandleTouches
<1>4. \A v \in Workers \ {w} : batch'[v] = batch[v] /\ done'[v] = done[v]
  BY DEF Handle, TypeInv, TypeOK
<1>5. \A v \in Workers \ {w} : Awaits(v, i)' <=> Awaits(v, i)
  BY <1>4, AwaitsSame
<1>6. done'[w] /\ Current(w)' = c /\ ~done[w] /\ batch'[w] = batch[w]
  BY DEF Handle, Current, TypeInv, TypeOK
<1> HIDE DEF c
<1>7. CASE i = c
  <2>1. Awaits(w, i) /\ ~Awaits(w, i)'
    BY <1>3, <1>6, <1>7 DEF Awaits, c
  <2>2. w \in Yet(i) /\ Yet(i)' \subseteq Yet(i) \ {w}
    BY <1>5, <2>1 DEF Yet
  <2>3. debts' \in Seq(DebtType)
    BY <1>3 DEF Touched
  <2>4. IsFiniteSet(SettledBy(i)')
    BY <2>3, FiniteSettledBy
  <2>5. ASSUME Kind[log[i]] = "callback" PROVE \E m : SettledBy(i)' \subseteq SettledBy(i) \cup {m}
    <3>1. PICK m \in Int : \A n \in 1..Len(debts) : debts'[n] # debts[n] => n = m
      BY <1>2, <1>3, <1>7, <2>5
    <3>2. DOMAIN debts' = DOMAIN debts /\ DOMAIN debts = 1..Len(debts)
      BY <1>2, <1>3, <1>7, <2>3, <2>5
    <3>3. SettledBy(i)' \subseteq SettledBy(i) \cup {m}
      BY <3>1, <3>2 DEF SettledBy
    <3> QED
      BY <3>3
  <2> QED
    BY <1>1, <2>2, <2>4, <2>5, PaidByHandler
<1>8. CASE i # c
  <2>1. Awaits(w, i)' => Awaits(w, i)
    BY <1>6 DEF Awaits
  <2>2. Yet(i)' \subseteq Yet(i)
    BY <1>5, <2>1 DEF Yet
  <2>3. SettledBy(i)' \subseteq SettledBy(i)
    BY <1>1, <1>3, <1>8, TouchedSettles
  <2> QED
    BY <1>1, <2>2, <2>3, PaidStays
<1> QED
  BY <1>7, <1>8

\* A worker that moves on awaits nothing it did not await before.
LEMMA AdvancePays ==
  ASSUME TypeInv, NEW w \in Workers, NEW i,
         Advance(w) \/ (batch' = [batch EXCEPT ![w] = {}] /\ done' = [done EXCEPT ![w] = FALSE])
  PROVE  Yet(i)' \subseteq Yet(i)
<1>1. \A v \in Workers \ {w} : batch'[v] = batch[v] /\ done'[v] = done[v]
  BY DEF Advance, TypeInv, TypeOK
<1>2. \A v \in Workers \ {w} : Awaits(v, i)' <=> Awaits(v, i)
  BY <1>1, AwaitsSame
<1>3. Awaits(w, i)' => Awaits(w, i)
  BY DEF Advance, TypeInv, TypeOK, Awaits
<1> QED
  BY <1>2, <1>3 DEF Yet

LEMMA WrittenAttempts ==
  ASSUME TypeInv, NEW w \in Workers, NEW c \in Rows, NEW i \in Rows
  PROVE  Acked(w, c)[i].attempts = row[i].attempts /\ Failed(w, c)[i].attempts = row[i].attempts
<1>1. row[i] \in RowType /\ row[c] \in RowType
  BY RowIs
<1>2. ASSUME NEW st, NEW wt
      PROVE  /\ [row[c] EXCEPT !.status = st, !.age = 0, !.owner = None].attempts = row[c].attempts
             /\ [row[c] EXCEPT !.status = st, !.wait = wt, !.age = 0, !.owner = None].attempts = row[c].attempts
  BY <1>1 DEF RowType
<1>3. ASSUME NEW r, r.attempts = row[c].attempts PROVE [row EXCEPT ![c] = r][i].attempts = row[i].attempts
  BY <1>3 DEF TypeInv, TypeOK, Rows
<1>4. Acked(w, c)[i].attempts = row[i].attempts
  BY <1>2, <1>3 DEF Acked
<1>5. Failed(w, c)[i].attempts = row[i].attempts
  BY <1>2, <1>3 DEF Failed
<1> QED
  BY <1>4, <1>5

LEMMA DeliveryStep ==
  TypeInv /\ LogUnique /\ DebtSources /\ DeliveryInv /\ [Next]_vars => DeliveryInv'
<1> SUFFICES ASSUME TypeInv, LogUnique, DebtSources, DeliveryInv, [Next]_vars PROVE DeliveryInv'
  OBVIOUS
<1>1. ASSUME NEW i \in Rows PROVE row[i] \in RowType /\ row[i].attempts \in Nat /\ Paid(i) /\ i \in Nat \ {0}
  BY RowIs DEF DeliveryInv
<1>2. ASSUME NEW e \in Emissions, Emit(e) PROVE DeliveryInv'
  <2>1. PICK r \in Rows' :
            /\ log'[r] = e /\ (r \in Rows => log[r] = e) /\ (r \notin Rows => r = Len(log) + 1)
            /\ Rows' = Rows \cup {r}
            /\ debts' = debts \/ (Touched(debts, debts', r, Kind[e]) /\ Kind[e] # "callback")
    BY <1>2, EmitTouches
  <2>2. /\ \A i \in Rows : log'[i] = log[i] /\ row'[i] = row[i]
        /\ UNCHANGED <<batch, done>> /\ r \in Nat /\ debts \in Seq(DebtType)
        /\ row' \in Seq(RowType) /\ Len(row') = Len(log')
    <3>1. Rows' \subseteq Nat
      BY <1>2, EmitRows DEF TypeInv, Rows
    <3> QED
      BY <1>2, <2>1, <3>1, EmitRows DEF TypeInv, TypeOK, Emit, work
  <2>3. \A v \in Workers : \A i : Awaits(v, i)' <=> Awaits(v, i)
    BY <2>2, AwaitsSame
  <2>4. \A i : Yet(i)' = Yet(i)
    BY <2>3 DEF Yet
  <2>5. ASSUME NEW i \in Rows PROVE Paid(i)'
    <3>1. CASE i # r \/ debts' = debts
      <4>1. SettledBy(i)' \subseteq SettledBy(i)
        <5>1. CASE debts' = debts
          BY <5>1 DEF SettledBy
        <5>2. CASE debts' # debts
          BY <1>1, <2>1, <2>2, <3>1, <5>2, TouchedSettles
        <5> QED
          BY <5>1, <5>2
      <4> QED
        BY <1>1, <2>2, <2>4, <4>1, PaidStays
    <3>2. CASE i = r /\ debts' # debts
      <4>1. Kind[log'[i]] # "callback"
        BY <2>1, <3>2
      <4>2. debts' \in Seq(DebtType)
        BY <2>1, <3>2 DEF Touched
      <4>3. IsFiniteSet(SettledBy(i)')
        BY <4>2, FiniteSettledBy
      <4>4. IsFiniteSet(Yet(i)')
        BY <1>1, <2>4 DEF Paid
      <4> QED
        BY <4>1, <4>3, <4>4 DEF Paid
    <3> QED
      BY <3>1, <3>2
  <2>6. ASSUME NEW i \in Rows', i \notin Rows PROVE Paid(i)'
    <3>1. i = r /\ Yet(i)' = {}
      <4>1. Yet(i) = {}
        BY <2>6 DEF Yet, Awaits, TypeInv, InHand
      <4> QED
        BY <2>1, <2>4, <2>6, <4>1
    <3>2. debts' \in Seq(DebtType)
      BY <2>1, <2>2 DEF Touched
    <3>3. IsFiniteSet(SettledBy(i)')
      BY <3>2, FiniteSettledBy
    <3>4. CASE Kind[log'[i]] # "callback"
      BY <3>1, <3>3, <3>4, FS_EmptySet DEF Paid
    <3>5. CASE Kind[log'[i]] = "callback"
      <4>1. debts' = debts
        BY <2>1, <3>1, <3>5
      <4>2. i # 0
        BY <2>1, <2>2, <2>6, <3>1 DEF TypeInv, TypeOK
      <4>3. SettledBy(i) = {}
        BY <2>6, <4>2 DEF SettledBy, DebtSources, Sourced
      <4>4. SettledBy(i)' = {}
        BY <4>1, <4>3 DEF SettledBy
      <4>5. row'[i].attempts \in Nat
        <5>1. row'[i] \in RowType
          BY <2>2, <2>6 DEF Rows
        <5>2. \A r0 \in RowType : r0.attempts \in Nat
          BY DEF RowType
        <5> QED
          BY <5>1, <5>2
      <4> QED
        BY <3>1, <4>4, <4>5, FS_EmptySet DEF Paid
    <3> QED
      BY <3>4, <3>5
  <2> QED
    BY <2>5, <2>6 DEF DeliveryInv
<1>3. ASSUME NEW m \in DOMAIN debts, ExpireDebt(m) PROVE DeliveryInv'
  <2>1. UNCHANGED <<log, row, batch, done>> /\ Rows' = Rows
    BY <1>3 DEF ExpireDebt, work, Rows
  <2>2. ASSUME NEW i \in Rows PROVE Paid(i)'
    <3>1. SettledBy(i)' \subseteq SettledBy(i)
      BY <1>3, ExpireTouches DEF SettledBy
    <3>2. Yet(i)' \subseteq Yet(i)
      BY <2>1, AwaitsSame DEF Yet
    <3> QED
      BY <1>1, <2>1, <3>1, <3>2, PaidStays
  <2> QED
    BY <2>1, <2>2 DEF DeliveryInv
<1>4. ASSUME NEW w \in Workers, Claim(w) \/ Handle(w) PROVE DeliveryInv'
  <2>1. Rows' = Rows
    BY <1>4 DEF Claim, Handle, Rows
  <2> QED
    BY <1>4, <2>1, ClaimPays, HandlePays DEF DeliveryInv
<1>5. ASSUME UNCHANGED <<log, debts>>, \A i \in Rows : row'[i].attempts = row[i].attempts,
             \A i \in Rows : Yet(i)' \subseteq Yet(i)
      PROVE  DeliveryInv'
  <2>1. ASSUME NEW i \in Rows PROVE Paid(i)'
    <3>1. SettledBy(i)' \subseteq SettledBy(i)
      BY <1>5 DEF SettledBy
    <3> QED
      BY <1>1, <1>5, <3>1, PaidStays
  <2> QED
    BY <1>5, <2>1 DEF DeliveryInv, Rows
<1>6. ASSUME NEW w \in Workers, Ack(w) \/ Throw(w) \/ AckFails(w) \/ Crash(w) PROVE DeliveryInv'
  <2>1. UNCHANGED <<log, debts>>
    BY <1>6 DEF Ack, Throw, AckFails, Crash
  <2>2. \A i \in Rows : Yet(i)' \subseteq Yet(i)
    BY <1>6, AdvancePays DEF Ack, Throw, AckFails, Crash
  <2>3. batch[w] # {} /\ Current(w) \in Rows
    BY <1>6, CurrentIsRow DEF Ack, Throw, AckFails, Crash
  <2>4. row' \in {row, Acked(w, Current(w)), Failed(w, Current(w))}
    BY <1>6 DEF Ack, Throw, AckFails, Crash
  <2>5. \A i \in Rows : row'[i].attempts = row[i].attempts
    BY <2>3, <2>4, WrittenAttempts
  <2> QED
    BY <1>5, <2>1, <2>2, <2>5
<1>7. ASSUME NEW w \in Workers, ProjectionFails(w) PROVE DeliveryInv'
  <2>1. UNCHANGED <<log, debts, row, batch>> /\ done' = [done EXCEPT ![w] = TRUE] /\ ~done[w]
    BY <1>7 DEF ProjectionFails
  <2>2. \A v \in Workers : \A i : Awaits(v, i)' => Awaits(v, i)
    BY <2>1 DEF Awaits, Current, TypeInv, TypeOK
  <2>3. \A i \in Rows : Yet(i)' \subseteq Yet(i)
    BY <2>2 DEF Yet
  <2> QED
    BY <1>5, <2>1, <2>3
<1>8. CASE Tick \/ UNCHANGED vars
  <2>1. UNCHANGED <<log, debts, batch, done>>
    BY <1>8 DEF Tick, vars, work
  <2>2. \A i \in Rows : row'[i].attempts = row[i].attempts
    BY <1>1, <1>8, OlderRow DEF Tick, vars
  <2>3. \A i \in Rows : Yet(i)' \subseteq Yet(i)
    BY <2>1, AwaitsSame DEF Yet
  <2> QED
    BY <1>5, <2>1, <2>2, <2>3
<1>9. ASSUME NEW e \in settling, SettleStop(e) PROVE DeliveryInv'
  <2>1. PICK r \in Rows : /\ log[r] = e /\ Kind[e] = "stop" /\ r \in Nat /\ debts \in Seq(DebtType)
                         /\ Touched(debts, debts', r, Kind[e])
    BY <1>9, StopTouches
  <2>2. UNCHANGED <<log, row, batch, done>> /\ Rows' = Rows
    BY <1>9 DEF SettleStop, work, Rows
  <2>3. \A i : Yet(i)' \subseteq Yet(i)
    BY <2>2, AwaitsSame DEF Yet
  <2>4. ASSUME NEW i \in Rows PROVE Paid(i)'
    <3>1. CASE i # r
      <4>1. SettledBy(i)' \subseteq SettledBy(i)
        BY <1>1, <2>1, <3>1, TouchedSettles
      <4> QED
        BY <1>1, <2>2, <2>3, <4>1, PaidStays
    <3>2. CASE i = r
      <4>1. Kind[log'[i]] # "callback"
        BY <2>1, <2>2, <3>2
      <4>2. debts' \in Seq(DebtType)
        BY <2>1 DEF Touched
      <4>3. IsFiniteSet(SettledBy(i)')
        BY <4>2, FiniteSettledBy
      <4>4. IsFiniteSet(Yet(i)')
        BY <1>1, <2>3, FewerElements DEF Paid
      <4> QED
        BY <4>1, <4>3, <4>4 DEF Paid
    <3> QED
      BY <3>1, <3>2
  <2> QED
    BY <2>2, <2>4 DEF DeliveryInv
<1>10. CASE OwnDebt
  <2>1. Joined(debts, debts') /\ debts \in Seq(DebtType)
    BY <1>10, OwnDebtJoins DEF TypeInv, TypeOK
  <2>2. UNCHANGED <<log, row, batch, done>> /\ Rows' = Rows
    BY <1>10 DEF OwnDebt, work, Rows
  <2>3. ASSUME NEW i \in Rows PROVE Paid(i)'
    <3>1. SettledBy(i)' \subseteq SettledBy(i)
      <4> SUFFICES ASSUME NEW n \in DOMAIN debts', debts'[n].by = i
                   PROVE  n \in DOMAIN debts /\ debts[n].by = i
        BY DEF SettledBy
      <4>1. n # Len(debts')
        BY <1>1, <2>1 DEF Joined
      <4>2. n \in 1..Len(debts)
        BY <2>1, <4>1 DEF Joined
      <4> QED
        BY <2>1, <4>2 DEF Joined
    <3>2. Yet(i)' \subseteq Yet(i)
      BY <2>2, AwaitsSame DEF Yet
    <3> QED
      BY <1>1, <2>2, <3>1, <3>2, PaidStays
  <2> QED
    BY <2>2, <2>3 DEF DeliveryInv
<1>11. ASSUME NEW e \in settling, StopCutShort(e) PROVE DeliveryInv'
  <2>1. UNCHANGED <<log, debts, row, batch, done>>
    BY <1>11 DEF StopCutShort, work
  <2>2. \A i \in Rows : Yet(i)' \subseteq Yet(i)
    BY <2>1, AwaitsSame DEF Yet
  <2> QED
    BY <1>5, <2>1, <2>2
<1> QED
  BY <1>2, <1>3, <1>4, <1>6, <1>7, <1>8, <1>9, <1>10, <1>11 DEF Next, Drain, Faults

\* A callback settles no more failures than it was delivered times: what lets it settle two
\* is redelivery and nothing else, whoever crashes or overlaps.
THEOREM SettlementsAreDeliveries == Spec => []SettlesPerDelivery
<1> DEFINE I == TypeInv /\ LogUnique /\ DebtSources /\ DeliveryInv
<1>1. Init => I
  BY TypeInit DEF Init, LogUnique, DebtSources, DeliveryInv, Rows
<1>2. I /\ [Next]_vars => I'
  BY TypeStep, LogStep, SourcesStep, DeliveryStep
<1>3. I => SettlesPerDelivery
  <2> SUFFICES ASSUME I, NEW i \in Rows, Kind[log[i]] = "callback"
               PROVE  Cardinality(SettledBy(i)) <= row[i].attempts
    BY DEF SettlesPerDelivery, SettledBy
  <2>1. Paid(i) /\ row[i].attempts \in Nat
    BY RowIs DEF DeliveryInv
  <2>2. Cardinality(SettledBy(i)) \in Nat /\ Cardinality(Yet(i)) \in Nat
    BY <2>1, FS_CardinalityType DEF Paid
  <2> QED
    BY <2>1, <2>2 DEF Paid
<1> QED
  BY <1>1, <1>2, <1>3, PTL DEF Spec
----------------------------------------------------------------------------
(* Order: with one worker and no fault, rows are claimed, handled and       *)
(* delivered in the order of their ids.                                     *)

Calm == faults = 0 /\ stalls = 0 /\ \A v, w \in claimers : v = w

Held(i) == \E w \in Workers : i \in batch[w]
InFlight(i) == \E w \in Workers : done[w] /\ i = Current(w)

InOrderRow(i) ==
    /\ row[i].wait = 0 /\ row[i].age = 0
    /\ row[i].status \in {"pending", "processing", "delivered"}
    /\ row[i].status = "processing" <=> Held(i)
    /\ i \in handled <=> row[i].status = "delivered" \/ InFlight(i)
    /\ \A w \in Workers : i \in batch[w] => row[i].owner = w

Behind(j, i) ==
    /\ row[i].status # "pending" => row[j].status # "pending"
    /\ row[i].status = "delivered" => row[j].status = "delivered"

RowsInOrder ==
    /\ \A w \in Workers : batch[w] # {} => w \in claimers
    /\ \A i \in Rows : InOrderRow(i)
    /\ \A i, j \in Rows : j < i => Behind(j, i)

\* Nothing else is in hand when a worker has something.
LEMMA OneWorker ==
  ASSUME Calm, RowsInOrder, DoneIsHandled, NEW w \in Workers, w \in claimers
  PROVE  /\ \A v \in Workers : batch[v] # {} => v = w
         /\ \A v \in Workers : done[v] => v = w
  BY DEF Calm, RowsInOrder, DoneIsHandled

\* The rows that a worker has yet to settle follow the delivered ones.
LEMMA BeforeCurrent ==
  ASSUME TypeInv, Calm, RowsInOrder, DoneIsHandled, NEW w \in Workers, batch[w] # {}, NEW c, c = Current(w)
  PROVE  /\ c \in Rows /\ c \in batch[w] /\ row[c].status = "processing" /\ row[c].owner = w
         /\ \A j \in Rows : j < c => row[j].status = "delivered"
         /\ \A i \in Rows : row[i].status = "delivered" => i < c
         /\ \A i : InFlight(i) <=> (done[w] /\ i = c)
<1>1. c \in Rows /\ c \in Nat /\ c \in batch[w] /\ w \in claimers
  BY CurrentIsRow DEF RowsInOrder
<1>2. /\ \A v \in Workers : batch[v] # {} => v = w
      /\ \A v \in Workers : done[v] => v = w
  BY <1>1, OneWorker
<1>3. row[c].status = "processing" /\ row[c].owner = w
  BY <1>1 DEF RowsInOrder, InOrderRow, Held
<1>4. \A j \in batch[w] : c <= j
  BY MinIsIn DEF Current, TypeInv, TypeOK
<1>5. Rows \subseteq Nat
  BY DEF TypeInv, TypeOK, Rows
<1>6. ASSUME NEW j \in Rows, j < c PROVE row[j].status = "delivered"
  <2>1. row[j].status # "pending" /\ row[j].status \in {"pending", "processing", "delivered"}
    BY <1>1, <1>3, <1>6 DEF RowsInOrder, Behind, InOrderRow
  <2>2. j \notin batch[w]
    BY <1>1, <1>4, <1>5, <1>6
  <2>3. ~Held(j)
    BY <1>2, <2>2 DEF Held
  <2>4. row[j].status # "processing"
    BY <2>3 DEF RowsInOrder, InOrderRow
  <2> QED
    BY <2>1, <2>4
<1>7. ASSUME NEW i \in Rows, row[i].status = "delivered" PROVE i < c
  <2>1. i # c
    BY <1>3, <1>7
  <2>2. ~(c < i)
    BY <1>1, <1>3, <1>7 DEF RowsInOrder, Behind
  <2> QED
    BY <1>1, <1>5, <2>1, <2>2
<1>8. \A i : InFlight(i) <=> (done[w] /\ i = c)
  BY <1>2 DEF InFlight
<1> QED
  BY <1>1, <1>3, <1>6, <1>7, <1>8

\* What was handled has nothing unhandled before it.
LEMMA HandledIsPrefix ==
  ASSUME TypeInv, Calm, RowsInOrder, DoneIsHandled, NEW i \in handled
  PROVE  1..i \subseteq handled
<1>1. i \in Rows /\ Rows = 1..Len(log) /\ Len(log) \in Nat
  BY DEF TypeInv, TypeOK, InHand, Rows
<1>2. 1..i \subseteq Rows
  BY <1>1
<1>3. \A j \in Rows : row[j].status = "delivered" => j \in handled
  BY DEF RowsInOrder, InOrderRow
<1>4. CASE row[i].status = "delivered"
  <2> SUFFICES ASSUME NEW j \in 1..i PROVE j \in handled
    OBVIOUS
  <2>1. j = i \/ j < i
    BY <1>1
  <2> QED
    BY <1>1, <1>2, <1>3, <1>4, <2>1 DEF RowsInOrder, Behind
<1>5. CASE InFlight(i)
  <2>1. PICK w \in Workers : done[w] /\ i = Current(w)
    BY <1>5 DEF InFlight
  <2>2. batch[w] # {}
    BY <2>1 DEF DoneIsHandled
  <2>3. \A j \in Rows : j < i => row[j].status = "delivered"
    BY <2>1, <2>2, BeforeCurrent
  <2> SUFFICES ASSUME NEW j \in 1..i PROVE j \in handled
    OBVIOUS
  <2>4. j = i \/ j < i
    BY <1>1
  <2> QED
    BY <1>2, <1>3, <2>3, <2>4
<1> QED
  BY <1>1, <1>4, <1>5 DEF RowsInOrder, InOrderRow

\* A row and its predecessors that a step leaves alone.
LEMMA RowsSame ==
  ASSUME RowsInOrder, UNCHANGED <<log, row, batch, done, handled>>, claimers \subseteq claimers'
  PROVE  RowsInOrder'
<1>1. Rows' = Rows
  BY DEF Rows
<1>2. \A i : (Held(i)' <=> Held(i)) /\ (InFlight(i)' <=> InFlight(i))
  BY DEF Held, InFlight, Current
<1>3. \A i \in Rows : InOrderRow(i)'
  BY <1>2 DEF RowsInOrder, InOrderRow
<1>4. \A i, j \in Rows : j < i => Behind(j, i)'
  BY DEF RowsInOrder, Behind
<1>5. \A w \in Workers : batch'[w] # {} => w \in claimers'
  BY DEF RowsInOrder
<1> QED
  BY <1>1, <1>3, <1>4, <1>5 DEF RowsInOrder

LEMMA EmitInOrder ==
  ASSUME TypeInv, RowsInOrder, DoneIsHandled, NEW e \in Emissions, Emit(e)
  PROVE  RowsInOrder'
<1>1. UNCHANGED <<batch, done, handled, claimers>>
  BY DEF Emit, work, history
<1>2. CASE UNCHANGED <<log, row>>
  BY <1>1, <1>2, RowsSame
<1>3. CASE Len(log') = Len(log) + 1 /\ row'[Len(log')] = NewRow
  <2>0. PICK l : l = Len(log')
    OBVIOUS
  <2>1. Rows = 1..Len(log) /\ Rows' = Rows \cup {l} /\ Len(log) \in Nat /\ l = Len(log) + 1
        /\ \A i \in Rows : row'[i] = row[i] /\ i < l
    BY <1>3, <2>0, EmitRows DEF Rows, TypeInv, TypeOK
  <2>2. l \notin Rows
    BY <2>1
  <2>3. row'[l] = NewRow
    BY <1>3, <2>0
  <2>4. \A i : (Held(i)' <=> Held(i)) /\ (InFlight(i)' <=> InFlight(i))
    BY <1>1 DEF Held, InFlight, Current
  <2>5. ASSUME NEW i \in Rows PROVE InOrderRow(i)'
    <3>1. InOrderRow(i) /\ row'[i] = row[i]
      BY <2>1 DEF RowsInOrder
    <3> QED
      BY <1>1, <2>4, <3>1 DEF InOrderRow
  <2>6. InOrderRow(l)'
    <3>1. ~Held(l) /\ l \notin handled
      BY <2>2 DEF Held, TypeInv, InHand
    <3>2. ~InFlight(l)
      <4> SUFFICES ASSUME NEW w \in Workers, done[w], l = Current(w) PROVE FALSE
        BY DEF InFlight
      <4> QED
        BY <2>2, CurrentIsRow DEF DoneIsHandled
    <3>3. \A w \in Workers : l \notin batch[w]
      BY <3>1 DEF Held
    <3> QED
      BY <1>1, <2>3, <2>4, <3>1, <3>2, <3>3 DEF InOrderRow, NewRow
  <2>7. ASSUME NEW i \in Rows', NEW j \in Rows', j < i PROVE Behind(j, i)'
    <3>1. CASE i = l
      BY <2>3, <3>1 DEF Behind, NewRow
    <3>2. CASE i \in Rows
      <4>1. j \in Rows
        BY <2>1, <2>7, <3>2
      <4>2. Behind(j, i) /\ row'[i] = row[i] /\ row'[j] = row[j]
        BY <2>1, <2>7, <3>2, <4>1 DEF RowsInOrder
      <4> QED
        BY <4>2 DEF Behind
    <3> QED
      BY <2>1, <3>1, <3>2
  <2>8. \A w \in Workers : batch'[w] # {} => w \in claimers'
    BY <1>1 DEF RowsInOrder
  <2>9. \A i \in Rows' : InOrderRow(i)'
    BY <2>1, <2>5, <2>6
  <2> QED
    BY <2>7, <2>8, <2>9 DEF RowsInOrder
<1> QED
  BY <1>2, <1>3, EmitRows DEF TypeInv

\* The rows claimed are the first of those pending.
LEMMA FirstDueFirst ==
  ASSUME TypeInv, NEW i \in FirstDue, NEW j \in Due, j < i
  PROVE  j \in FirstDue
<1> DEFINE A == {k \in Due : k < j}  B == {k \in Due : k < i}
<1>1. Due \subseteq 1..Len(log) /\ Len(log) \in Nat /\ FirstDue \subseteq Due
  BY DEF Due, FirstDue, Rows, TypeInv, TypeOK
<1>2. IsFiniteSet(1..Len(log)) /\ B \subseteq 1..Len(log)
  <2>1. IsFiniteSet(1..Len(log))
    BY <1>1, FS_Interval
  <2>2. B \subseteq Due
    OBVIOUS
  <2> QED
    BY <1>1, <2>1, <2>2
<1>3. IsFiniteSet(B)
  BY <1>2, FewerElements
<1>4. A \subseteq B
  <2>1. \A k \in Due : k \in Int
    BY <1>1
  <2>2. i \in Due
    BY <1>1
  <2> QED
    BY <2>1, <2>2
<1>5. Cardinality(B) < BatchSize
  BY DEF FirstDue
<1> HIDE DEF A, B
<1>6. Cardinality(A) \in Nat /\ Cardinality(B) \in Nat /\ Cardinality(A) <= Cardinality(B)
  BY <1>3, <1>4, FewerElements
<1>7. Cardinality(A) < BatchSize
  BY <1>5, <1>6, OutboxAssumption DEF OutboxAssumption
<1> QED
  BY <1>7 DEF FirstDue, A

LEMMA ClaimInOrder ==
  ASSUME TypeInv, Calm, Calm', RowsInOrder, DoneIsHandled, NEW w \in Workers, Claim(w)
  PROVE  RowsInOrder'
<1>1. UNCHANGED <<log, done, handled>> /\ batch[w] = {} /\ claimers' = claimers \cup {w} /\ Rows' = Rows
  BY DEF Claim, Rows
<1>2. \A v \in Workers : batch[v] = {} /\ ~done[v]
  BY <1>1 DEF Calm, RowsInOrder, DoneIsHandled
<1>3. \A i : ~Held(i) /\ ~InFlight(i) /\ ~InFlight(i)'
  BY <1>1, <1>2 DEF Held, InFlight
<1>4. \A v \in Workers : batch'[v] = IF v = w THEN FirstDue ELSE {}
  BY <1>2 DEF Claim, TypeInv, TypeOK
<1>5. \A i : Held(i)' <=> i \in FirstDue
  BY <1>4 DEF Held
<1>6. \A i \in Rows : i \in Due <=> row[i].status = "pending"
  BY <1>3 DEF Due, Claimable, RowsInOrder, InOrderRow
<1>7. FirstDue \subseteq Due /\ Due \subseteq Rows
  BY DEF FirstDue, Due
<1>8. ASSUME NEW i \in Rows
      PROVE  /\ i \notin FirstDue => row'[i] = row[i]
             /\ i \in FirstDue => /\ row'[i].status = "processing" /\ row'[i].age = 0
                                  /\ row'[i].owner = w /\ row'[i].wait = row[i].wait
  <2>1. row'[i] = IF i \in FirstDue
          THEN [row[i] EXCEPT !.status = "processing", !.attempts = @ + 1, !.age = 0, !.owner = w]
          ELSE row[i]
    BY ClaimRows DEF TypeInv
  <2>2. row[i] \in RowType
    BY RowIs
  <2> QED
    BY <2>1, <2>2 DEF RowType
<1>9. ASSUME NEW i \in Rows PROVE InOrderRow(i)'
  <2>1. InOrderRow(i)
    BY DEF RowsInOrder
  <2>2. CASE i \in FirstDue
    <3>1. row[i].status = "pending" /\ row[i].wait = 0
      BY <1>6, <1>7, <2>1, <2>2 DEF InOrderRow
    <3>2. i \notin handled
      BY <1>3, <2>1, <3>1 DEF InOrderRow
    <3>3. \A v \in Workers : i \in batch'[v] => row'[i].owner = v
      BY <1>4, <1>8, <2>2
    <3> QED
      BY <1>1, <1>3, <1>5, <1>8, <2>2, <3>1, <3>2, <3>3 DEF InOrderRow
  <2>3. CASE i \notin FirstDue
    <3>1. row'[i] = row[i] /\ ~Held(i)' /\ \A v \in Workers : i \notin batch'[v]
      BY <1>4, <1>5, <1>8, <2>3
    <3> QED
      BY <1>1, <1>3, <2>1, <3>1 DEF InOrderRow
  <2> QED
    BY <2>2, <2>3
<1>10. ASSUME NEW i \in Rows, NEW j \in Rows, j < i PROVE Behind(j, i)'
  <2>1. Behind(j, i)
    BY <1>10 DEF RowsInOrder
  <2>2. i \in FirstDue => (row[j].status = "pending" => j \in FirstDue)
    BY <1>6, <1>10, FirstDueFirst
  <2>3. j \in FirstDue => row[j].status = "pending"
    BY <1>6, <1>7
  <2> QED
    BY <1>8, <2>1, <2>2, <2>3 DEF Behind
<1>11. \A v \in Workers : batch'[v] # {} => v \in claimers'
  BY <1>1, <1>4
<1> QED
  BY <1>1, <1>9, <1>10, <1>11 DEF RowsInOrder

LEMMA HandleInOrder ==
  ASSUME TypeInv, Calm, RowsInOrder, DoneIsHandled, NEW w \in Workers, Handle(w)
  PROVE  RowsInOrder'
<1> DEFINE c == Current(w)
<1>1. UNCHANGED <<log, row, batch, claimers>> /\ handled' = handled \cup {c} /\ Rows' = Rows /\ batch[w] # {}
  BY DEF Handle, Rows
<1>2. \A v \in Workers : done'[v] = (v = w \/ done[v])
  BY DEF Handle, TypeInv, TypeOK
<1>3. \A v : Current(v)' = Current(v)
  BY <1>1 DEF Current
<1>4. \A i : Held(i)' <=> Held(i)
  BY <1>1 DEF Held
<1>5. \A i : InFlight(i)' <=> InFlight(i) \/ i = c
  BY <1>2, <1>3 DEF InFlight
<1> HIDE DEF c
<1>6. \A i \in Rows : InOrderRow(i)'
  BY <1>1, <1>4, <1>5 DEF RowsInOrder, InOrderRow
<1>7. \A i, j \in Rows : j < i => Behind(j, i)'
  BY <1>1 DEF RowsInOrder, Behind
<1>8. \A v \in Workers : batch'[v] # {} => v \in claimers'
  BY <1>1 DEF RowsInOrder
<1> QED
  BY <1>1, <1>6, <1>7, <1>8 DEF RowsInOrder

LEMMA AckInOrder ==
  ASSUME TypeInv, Calm, RowsInOrder, DoneIsHandled, NEW w \in Workers, Ack(w)
  PROVE  RowsInOrder'
<1>1. PICK c : c = Current(w)
  OBVIOUS
<1>2. UNCHANGED <<log, handled, claimers>> /\ Rows' = Rows /\ batch[w] # {} /\ done[w]
  BY DEF Ack, Rows, history
<1>3. /\ c \in Rows /\ c \in batch[w] /\ row[c].status = "processing" /\ row[c].owner = w
      /\ \A j \in Rows : j < c => row[j].status = "delivered"
      /\ \A i : InFlight(i) <=> i = c
  BY <1>1, <1>2, BeforeCurrent
<1>4. /\ \A v \in Workers : batch[v] # {} => v = w
      /\ \A v \in Workers : done[v] => v = w
  BY <1>2, OneWorker DEF RowsInOrder
<1>5. /\ \A v \in Workers : batch'[v] = IF v = w THEN batch[w] \ {c} ELSE batch[v]
      /\ \A v \in Workers : ~done'[v]
  BY <1>1, <1>4 DEF Ack, Advance, TypeInv, TypeOK
<1>6. \A i : Held(i)' <=> Held(i) /\ i # c
  BY <1>4, <1>5 DEF Held
<1>7. \A i : ~InFlight(i)'
  BY <1>5 DEF InFlight
<1>8. \A i \in Rows : row[i] \in RowType
  BY RowIs
<1>9. ASSUME NEW i \in Rows
      PROVE  /\ i # c => row'[i] = row[i]
             /\ i = c => row'[i].status = "delivered" /\ row'[i].age = 0 /\ row'[i].wait = row[i].wait
  <2>1. row' = [row EXCEPT ![c] = [row[c] EXCEPT !.status = "delivered", !.age = 0, !.owner = None]]
    BY <1>1, <1>3 DEF Ack, Acked, Owns
  <2>2. row'[i] = IF i = c THEN [row[c] EXCEPT !.status = "delivered", !.age = 0, !.owner = None] ELSE row[i]
    BY <2>1 DEF TypeInv, TypeOK, Rows
  <2> QED
    BY <1>3, <1>8, <2>2 DEF RowType
<1>10. ASSUME NEW i \in Rows PROVE InOrderRow(i)'
  <2>1. InOrderRow(i)
    BY DEF RowsInOrder
  <2>2. CASE i = c
    <3>1. i \in handled /\ ~Held(i)'
      BY <1>3, <1>6, <2>1, <2>2 DEF InOrderRow
    <3>2. \A v \in Workers : i \notin batch'[v]
      BY <3>1 DEF Held
    <3> QED
      BY <1>2, <1>9, <2>1, <2>2, <3>1, <3>2 DEF InOrderRow
  <2>3. CASE i # c
    <3>1. row'[i] = row[i] /\ (Held(i)' <=> Held(i)) /\ ~InFlight(i) /\ ~InFlight(i)'
      BY <1>3, <1>6, <1>7, <1>9, <2>3
    <3>2. \A v \in Workers : i \in batch'[v] => i \in batch[v]
      BY <1>5
    <3> QED
      BY <1>2, <2>1, <3>1, <3>2 DEF InOrderRow
  <2> QED
    BY <2>2, <2>3
<1>11. ASSUME NEW i \in Rows, NEW j \in Rows, j < i PROVE Behind(j, i)'
  <2>1. Behind(j, i)
    BY <1>11 DEF RowsInOrder
  <2> QED
    BY <1>3, <1>9, <1>11, <2>1 DEF Behind
<1>12. \A v \in Workers : batch'[v] # {} => v \in claimers'
  BY <1>2, <1>5 DEF RowsInOrder
<1> QED
  BY <1>2, <1>10, <1>11, <1>12 DEF RowsInOrder

\* Nothing is in hand when time passes, and no row waits.
LEMMA TickInOrder ==
  ASSUME TypeInv, Calm, Calm', RowsInOrder, Tick
  PROVE  RowsInOrder'
<1>1. \A v \in Workers : batch[v] = {}
  BY DEF Tick, Calm
<1>2. UNCHANGED <<log, batch, done, handled, claimers>> /\ row' = [i \in Rows |-> Older(row[i])]
  BY DEF Tick, work, history
<1>3. ASSUME NEW i \in Rows PROVE Older(row[i]) = row[i]
  <2>1. InOrderRow(i) /\ ~Held(i)
    BY <1>1 DEF RowsInOrder, Held
  <2>2. row[i].wait = 0 /\ row[i].status \in {"pending", "delivered"}
    BY <2>1 DEF InOrderRow
  <2>3. Max({0 - 1, 0}) = 0
    BY MinMaxOfTwo
  <2>4. row[i] \in RowType
    BY RowIs
  <2>5. [row[i] EXCEPT !.wait = 0] = row[i]
    BY <2>2, <2>4 DEF RowType
  <2>6. row[i].wait - 1 = 0 - 1
    BY <2>2
  <2> QED
    BY <2>2, <2>3, <2>5, <2>6 DEF Older
<1>4. row' = row
  BY <1>2, <1>3 DEF TypeInv, TypeOK, Rows
<1> QED
  BY <1>2, <1>4, RowsSame

\* Calm ends with the first fault, the first late tick and the second worker, for good.
LEMMA CalmBefore ==
  ASSUME TypeInv, [Next]_vars, Calm'
  PROVE  /\ Calm /\ \A w \in Workers : ~Faults(w)
         /\ \A e \in settling : ~StopCutShort(e)
<1>1. faults \in Nat /\ stalls \in Nat
  BY OutboxAssumption DEF OutboxAssumption, TypeInv, TypeOK
<1>2. ASSUME NEW w \in Workers, Faults(w) PROVE FALSE
  BY <1>1, <1>2 DEF Faults, Throw, ProjectionFails, AckFails, Crash, Fault, Calm
<1>5. ASSUME NEW e \in settling, StopCutShort(e) PROVE FALSE
  BY <1>1, <1>5 DEF StopCutShort, Fault, Calm
<1>3. faults' = faults /\ claimers \subseteq claimers'
  BY <1>2, <1>5 DEF Next, Drain, Emit, SettleStop, OwnDebt, ExpireDebt, Claim, Handle, Ack, Tick, vars, history
<1>4. stalls' = stalls \/ stalls' = stalls + 1
  BY <1>2, <1>5 DEF Next, Drain, Emit, SettleStop, OwnDebt, ExpireDebt, Claim, Handle, Ack, Tick, vars, history
<1> QED
  BY <1>1, <1>2, <1>3, <1>4, <1>5 DEF Calm

LEMMA RowsOrderStep ==
  ASSUME TypeInv, Calm, Calm', RowsInOrder, DoneIsHandled, [Next]_vars
  PROVE  RowsInOrder'
<1>1. ASSUME NEW m \in DOMAIN debts, ExpireDebt(m) PROVE RowsInOrder'
  BY <1>1, RowsSame DEF ExpireDebt, work, history
<1>2. CASE UNCHANGED vars
  BY <1>2, RowsSame DEF vars, work, history
<1>3. ASSUME OwnDebt \/ \E e \in settling : SettleStop(e) PROVE RowsInOrder'
  BY <1>3, RowsSame DEF OwnDebt, SettleStop, work, history
<1> QED
  BY <1>1, <1>2, <1>3, EmitInOrder, ClaimInOrder, HandleInOrder, AckInOrder, TickInOrder, CalmBefore
     DEF Next, Drain
----------------------------------------------------------------------------
(* The order of the rows is the order of what they do to the debts.         *)

\* What a callback settled is older, and an end leaves nothing older open.
Ends(i) == Kind[log[i]] \in {"stop", "verified"}
Earlier(d) == d.by # 0 /\ Kind[log[d.by]] = "callback" => d.source < d.by
DebtsInOrder ==
    /\ \A n \in DOMAIN debts : Earlier(debts[n])
    /\ \A i \in handled : Ends(i) =>
          \A n \in DOMAIN debts : debts[n].source \in 1..i => ~IsOpen(debts[n])

LEMMA EmitDebtsInOrder ==
  ASSUME TypeInv, LogUnique, DebtSources, DebtsInOrder, NEW e \in Emissions, Emit(e)
  PROVE  DebtsInOrder'
<1>1. PICK r \in Rows' :
          /\ log'[r] = e /\ (r \in Rows => log[r] = e) /\ (r \notin Rows => r = Len(log) + 1)
          /\ debts' = debts \/ (Touched(debts, debts', r, Kind[e]) /\ Kind[e] # "callback")
          /\ Len(debts') = Len(debts) + 1 => Kind[e] = "failed"
  BY EmitTouches
<1>2. /\ \A i \in Rows : log'[i] = log[i]
      /\ handled' = handled /\ handled \subseteq Rows /\ r \in Nat
      /\ debts \in Seq(DebtType) /\ DOMAIN debts = 1..Len(debts) /\ Rows = 1..Len(log) /\ Len(log) \in Nat
  <2>1. Rows' \subseteq Nat
    BY EmitRows DEF TypeInv, Rows
  <2>2. /\ handled \subseteq Rows /\ debts \in Seq(DebtType) /\ Rows = 1..Len(log) /\ Len(log) \in Nat
        /\ DOMAIN debts = 1..Len(debts)
    BY DEF TypeInv, TypeOK, InHand, Rows
  <2>3. \A i \in Rows : log'[i] = log[i]
    BY EmitRows DEF TypeInv
  <2> QED
    BY <1>1, <2>1, <2>2, <2>3 DEF Emit, history
<1>3. \A n \in DOMAIN debts : debts[n].by # 0 => debts[n].by \in Rows
  BY DEF DebtSources, Sourced
<1>4. CASE debts' = debts
  <2>1. \A n \in DOMAIN debts' : Earlier(debts[n])'
    BY <1>2, <1>3, <1>4 DEF DebtsInOrder, Earlier
  <2>2. \A i \in handled : Ends(i)' => Ends(i)
    BY <1>2 DEF Ends
  <2> QED
    BY <1>2, <1>4, <2>1, <2>2 DEF DebtsInOrder
<1>5. CASE Touched(debts, debts', r, Kind[e]) /\ Kind[e] # "callback"
  <2>1. DOMAIN debts' = 1..Len(debts')
    BY <1>2, <1>5, TouchedSeq
  <2>2. ASSUME NEW n \in DOMAIN debts', n \notin DOMAIN debts
        PROVE  debts'[n].source = r /\ debts'[n].by \in {0, r} /\ r \notin Rows /\ r = Len(log) + 1
    <3>1. debts'[n].source = r /\ debts'[n].by \in {0, r} /\ Len(debts') = Len(debts) + 1
      <4>1. n \in 1..Len(debts') /\ n \notin 1..Len(debts)
        BY <1>2, <2>1, <2>2
      <4>2. debts \in Seq(DebtType) /\ r \in Nat
        BY <1>2
      <4> QED
        BY <1>5, <4>1, <4>2, TouchedNew
    <3>2. Kind[e] = "failed" /\ \A m \in DOMAIN debts : debts[m].source # r
      BY <1>1, <1>2, <1>5, <3>1 DEF Touched
    <3>3. r \notin Rows
      BY <1>1, <3>2 DEF DebtSources
    <3> QED
      BY <1>1, <3>1, <3>3
  <2>3. ASSUME NEW n \in DOMAIN debts', n \in DOMAIN debts
        PROVE  /\ debts'[n].source = debts[n].source
               /\ debts'[n] = debts[n] \/ (debts'[n].by = r /\ ~IsOpen(debts'[n]))
    BY <1>2, <1>5, <2>3, TouchedOld
  <2>4. ASSUME NEW n \in DOMAIN debts' PROVE Earlier(debts[n])'
    <3>1. CASE debts'[n].by = r \/ debts'[n].by = 0
      BY <1>1, <1>5, <3>1 DEF Earlier
    <3>2. CASE debts'[n].by # r /\ debts'[n].by # 0
      <4>1. n \in DOMAIN debts /\ debts'[n] = debts[n]
        BY <2>2, <2>3, <3>2
      <4>2. log'[debts[n].by] = log[debts[n].by] /\ Earlier(debts[n])
        BY <1>2, <1>3, <3>2, <4>1 DEF DebtsInOrder
      <4> QED
        BY <4>1, <4>2 DEF Earlier
    <3> QED
      BY <3>1, <3>2
  <2>5. ASSUME NEW i \in handled, Ends(i)', NEW n \in DOMAIN debts', debts'[n].source \in 1..i
        PROVE  ~IsOpen(debts'[n])
    <3>1. Ends(i) /\ i \in 1..Len(log)
      BY <1>2, <2>5 DEF Ends
    <3>2. n \in DOMAIN debts
      <4> SUFFICES ASSUME n \notin DOMAIN debts PROVE FALSE
        OBVIOUS
      <4>1. debts'[n].source = Len(log) + 1
        BY <2>2
      <4> QED
        BY <1>2, <2>5, <3>1, <4>1
    <3>3. debts[n].source \in 1..i
      BY <2>3, <2>5, <3>2
    <3>4. ~IsOpen(debts[n])
      BY <3>1, <3>2, <3>3 DEF DebtsInOrder
    <3> QED
      BY <2>3, <3>2, <3>4
  <2> QED
    BY <1>2, <2>4, <2>5 DEF DebtsInOrder
<1> QED
  BY <1>1, <1>4, <1>5

LEMMA HandleDebtsInOrder ==
  ASSUME TypeInv, Calm, RowsInOrder, DoneIsHandled, DebtSources, DebtsInOrder, NEW w \in Workers, Handle(w)
  PROVE  DebtsInOrder'
<1>1. PICK c : c = Current(w)
  OBVIOUS
<1>2. PICK k : k = Kind[log[c]]
  OBVIOUS
<1>3. /\ c \in Rows /\ c \in Nat /\ debts \in Seq(DebtType) /\ Touched(debts, debts', c, k)
      /\ k \in {"stop", "verified"} => \A n \in 1..Len(debts') : ~IsOpen(debts'[n])
      /\ k = "callback" => \E m \in Int : \A n \in 1..Len(debts) :
            debts'[n] # debts[n] => n = m /\ debts[n].kind = "uncertainty"
  BY <1>1, <1>2, HandleTouches
<1>4. UNCHANGED log /\ handled' = handled \cup {c} /\ batch[w] # {} /\ ~done[w] /\ handled \subseteq Rows
      /\ Rows \subseteq Nat
  BY <1>1 DEF Handle, TypeInv, TypeOK, InHand, Rows
<1>5. \A i \in handled : i < c
  <2>1. /\ \A i \in Rows : row[i].status = "delivered" => i < c
        /\ \A i : ~InFlight(i)
    BY <1>1, <1>4, BeforeCurrent
  <2> QED
    BY <1>4, <2>1 DEF RowsInOrder, InOrderRow
<1>6. DOMAIN debts' = 1..Len(debts') /\ DOMAIN debts = 1..Len(debts)
  BY <1>3, TouchedSeq
<1>7. ASSUME NEW n \in DOMAIN debts', n \notin DOMAIN debts
      PROVE  debts'[n].source = c /\ debts'[n].by \in {0, c} /\ k # "callback"
  <2>1. debts'[n].source = c /\ debts'[n].by \in {0, c} /\ Len(debts') = Len(debts) + 1
    <3>1. n \in 1..Len(debts') /\ n \notin 1..Len(debts)
      BY <1>6, <1>7
    <3>2. debts \in Seq(DebtType) /\ c \in Nat /\ Touched(debts, debts', c, k)
      BY <1>3
    <3> QED
      BY <3>1, <3>2, TouchedNew
  <2> QED
    BY <1>3, <2>1 DEF Touched
<1>8. ASSUME NEW n \in DOMAIN debts', n \in DOMAIN debts
      PROVE  /\ debts'[n].source = debts[n].source
             /\ debts'[n] = debts[n] \/ (debts'[n].by = c /\ ~IsOpen(debts'[n]))
  BY <1>3, <1>6, <1>8, TouchedOld
<1>9. ASSUME NEW n \in DOMAIN debts' PROVE Earlier(debts[n])'
  <2>1. CASE n \notin DOMAIN debts
    BY <1>2, <1>4, <1>7, <2>1 DEF Earlier
  <2>2. CASE n \in DOMAIN debts /\ debts'[n] = debts[n]
    BY <1>4, <2>2 DEF Earlier, DebtsInOrder
  <2>3. CASE n \in DOMAIN debts /\ debts'[n] # debts[n] /\ k = "callback"
    <3>1. debts[n].kind = "uncertainty"
      BY <1>3, <1>6, <2>3
    <3>2. debts[n].source \in handled
      BY <2>3, <3>1 DEF DebtSources, Sourced
    <3>3. debts'[n].source < c /\ debts'[n].by = c
      BY <1>5, <1>8, <2>3, <3>2
    <3> QED
      BY <3>3 DEF Earlier
  <2>4. CASE n \in DOMAIN debts /\ debts'[n] # debts[n] /\ k # "callback"
    <3>1. debts'[n].by = c
      BY <1>8, <2>4
    <3> QED
      BY <1>2, <1>4, <2>4, <3>1 DEF Earlier
  <2> QED
    BY <2>1, <2>2, <2>3, <2>4
<1>10. ASSUME NEW i \in handled', Ends(i)', NEW n \in DOMAIN debts', debts'[n].source \in 1..i
       PROVE  ~IsOpen(debts'[n])
  <2>1. CASE i = c
    <3>1. k \in {"stop", "verified"}
      BY <1>2, <1>4, <1>10, <2>1 DEF Ends
    <3> QED
      BY <1>3, <1>6, <3>1
  <2>2. CASE i \in handled /\ n \notin DOMAIN debts
    <3>1. i < c /\ c <= i /\ i \in Nat
      BY <1>4, <1>5, <1>7, <1>10, <2>2
    <3> QED
      BY <1>3, <3>1
  <2>3. CASE i \in handled /\ n \in DOMAIN debts
    <3>1. Ends(i) /\ debts[n].source \in 1..i
      BY <1>4, <1>8, <1>10, <2>3 DEF Ends
    <3>2. ~IsOpen(debts[n])
      BY <2>3, <3>1 DEF DebtsInOrder
    <3> QED
      BY <1>8, <2>3, <3>2
  <2> QED
    BY <1>4, <1>10, <2>1, <2>2, <2>3
<1> QED
  BY <1>9, <1>10 DEF DebtsInOrder

LEMMA DebtsOrderStep ==
  ASSUME TypeInv, LogUnique, DebtSources, DoneIsHandled, Calm, RowsInOrder, DebtsInOrder, [Next]_vars
  PROVE  DebtsInOrder'
<1>1. ASSUME NEW m \in DOMAIN debts, ExpireDebt(m) PROVE DebtsInOrder'
  <2>1. /\ DOMAIN debts' = DOMAIN debts
        /\ \A n \in DOMAIN debts : /\ debts'[n].source = debts[n].source /\ debts'[n].by = debts[n].by
                                   /\ (IsOpen(debts'[n]) => IsOpen(debts[n]))
    BY <1>1, ExpireTouches
  <2>2. UNCHANGED <<log, handled>>
    BY <1>1 DEF ExpireDebt, history
  <2>3. \A n \in DOMAIN debts' : Earlier(debts[n])'
    BY <2>1, <2>2 DEF DebtsInOrder, Earlier
  <2>4. \A i \in handled : Ends(i)' => Ends(i)
    BY <2>2 DEF Ends
  <2> QED
    BY <2>1, <2>2, <2>3, <2>4 DEF DebtsInOrder
<1>2. CASE UNCHANGED <<log, debts, handled>>
  BY <1>2 DEF DebtsInOrder, Earlier, Ends
<1>3. debts \in Seq(DebtType) /\ Len(debts) \in Nat /\ DOMAIN debts = 1..Len(debts) /\ 0 \notin Rows
  BY DEF TypeInv, TypeOK, Rows
<1>4. ASSUME NEW e \in settling, SettleStop(e) PROVE DebtsInOrder'
  <2>1. PICK r \in Rows : /\ log[r] = e /\ Kind[e] = "stop" /\ r \in Nat
                         /\ Touched(debts, debts', r, Kind[e]) /\ Len(debts') = Len(debts)
    BY <1>4, StopTouches
  <2>2. UNCHANGED <<log, handled>>
    BY <1>4 DEF SettleStop, history
  <2>3. DOMAIN debts' = DOMAIN debts
    BY <1>3, <2>1, TouchedSeq
  <2>4. ASSUME NEW n \in DOMAIN debts
        PROVE  /\ debts'[n].source = debts[n].source
               /\ debts'[n] = debts[n] \/ (debts'[n].by = r /\ ~IsOpen(debts'[n]))
    BY <1>3, <2>1, TouchedOld
  <2>5. ASSUME NEW n \in DOMAIN debts' PROVE Earlier(debts[n])'
    <3>1. CASE debts'[n] = debts[n]
      BY <2>2, <2>3, <3>1 DEF DebtsInOrder, Earlier
    <3>2. CASE debts'[n].by = r
      BY <2>1, <2>2, <3>2 DEF Earlier
    <3> QED
      BY <2>3, <2>4, <3>1, <3>2
  <2>6. ASSUME NEW i \in handled, Ends(i), NEW n \in DOMAIN debts, debts'[n].source \in 1..i
        PROVE  ~IsOpen(debts'[n])
    BY <2>4, <2>6 DEF DebtsInOrder
  <2>7. \A i \in handled : Ends(i)' => Ends(i)
    BY <2>2 DEF Ends
  <2> QED
    BY <2>2, <2>3, <2>5, <2>6, <2>7 DEF DebtsInOrder
<1>5. CASE OwnDebt
  <2>1. Joined(debts, debts')
    BY <1>5, OwnDebtJoins DEF TypeInv
  <2>2. UNCHANGED <<log, handled>>
    BY <1>5 DEF OwnDebt, history
  <2>3. DOMAIN debts' = 1..(Len(debts) + 1) /\ Len(debts') = Len(debts) + 1
    BY <1>3, <2>1 DEF Joined
  <2>4. ASSUME NEW n \in DOMAIN debts'
        PROVE  \/ n \in DOMAIN debts /\ debts'[n] = debts[n]
               \/ debts'[n].source = 0 /\ debts'[n].by = 0
    <3>1. n \in 1..Len(debts) \/ n = Len(debts')
      BY <1>3, <2>3
    <3> QED
      BY <1>3, <2>1, <3>1 DEF Joined
  <2>5. ASSUME NEW n \in DOMAIN debts' PROVE Earlier(debts[n])'
    BY <2>2, <2>4 DEF DebtsInOrder, Earlier
  <2>6. ASSUME NEW i \in handled, Ends(i), NEW n \in DOMAIN debts', debts'[n].source \in 1..i
        PROVE  ~IsOpen(debts'[n])
    <3>1. debts'[n].source # 0
      BY <2>6
    <3> QED
      BY <2>4, <2>6, <3>1 DEF DebtsInOrder
  <2>7. \A i \in handled : Ends(i)' => Ends(i)
    BY <2>2 DEF Ends
  <2> QED
    BY <2>2, <2>5, <2>6, <2>7 DEF DebtsInOrder
<1> QED
  BY <1>1, <1>2, <1>4, <1>5, EmitDebtsInOrder, HandleDebtsInOrder, OtherSteps

LEMMA ClaimersStep ==
  IsFiniteSet(claimers) /\ [Next]_vars => IsFiniteSet(claimers')
<1> SUFFICES ASSUME IsFiniteSet(claimers), [Next]_vars PROVE IsFiniteSet(claimers')
  OBVIOUS
<1>1. claimers' = claimers \/ \E w \in Workers : claimers' = claimers \cup {w}
  BY DEF Next, Drain, Faults, Emit, SettleStop, StopCutShort, OwnDebt, ExpireDebt, Claim, Handle, Ack, Throw,
     ProjectionFails, AckFails, Crash, Tick, vars, history
<1> QED
  BY <1>1, FS_AddElement

\* A set of one element at most.
LEMMA QuietIsCalm ==
  ASSUME IsFiniteSet(claimers), Quiet
  PROVE  Calm
<1>1. Cardinality(claimers) \in Nat /\ Cardinality(claimers) <= 1
  BY FS_CardinalityType DEF Quiet
<1>2. claimers = {} \/ \E w : claimers = {w}
  BY <1>1, FS_EmptySet, FS_Singleton
<1> QED
  BY <1>2 DEF Calm, Quiet

\* With one worker and no fault, events take effect in the order in which they were appended:
\* nothing is handled before an earlier row, a callback settles an earlier failure only, and a
\* stop or a verified end leaves nothing open behind it.
THEOREM EventsInOrder == Spec => []InOrder
<1> DEFINE I == /\ TypeInv /\ LogUnique /\ DebtSources /\ DoneIsHandled /\ IsFiniteSet(claimers)
                /\ Calm => RowsInOrder /\ DebtsInOrder
<1>1. Init => I
  <2> SUFFICES ASSUME Init PROVE I
    OBVIOUS
  <2>1. TypeInv
    BY TypeInit
  <2>2. Rows = {} /\ DOMAIN debts = {}
    BY DEF Init, Rows
  <2>3. IsFiniteSet(claimers)
    BY FS_EmptySet DEF Init
  <2>4. DoneIsHandled /\ \A w \in Workers : batch[w] = {}
    BY DEF Init, DoneIsHandled
  <2> QED
    BY <2>1, <2>2, <2>3, <2>4 DEF Init, LogUnique, DebtSources, RowsInOrder, DebtsInOrder
<1>2. I /\ [Next]_vars => I'
  <2> SUFFICES ASSUME I, [Next]_vars PROVE I'
    OBVIOUS
  <2>1. TypeInv' /\ LogUnique' /\ DebtSources' /\ DoneIsHandled' /\ IsFiniteSet(claimers')
    BY TypeStep, LogStep, SourcesStep, DoneStep, ClaimersStep
  <2>2. ASSUME Calm' PROVE RowsInOrder' /\ DebtsInOrder'
    <3>1. Calm
      BY <2>2, CalmBefore
    <3> QED
      BY <2>2, <3>1, RowsOrderStep, DebtsOrderStep
  <2> QED
    BY <2>1, <2>2
<1>3. I => InOrder
  <2> SUFFICES ASSUME I, Quiet
               PROVE  /\ \A i \in handled : 1..i \subseteq handled
                      /\ DebtsInOrder
    BY DEF InOrder, DebtsInOrder, Earlier, Ends
  <2>1. Calm
    BY QuietIsCalm
  <2> QED
    BY <2>1, HandledIsPrefix
<1> QED
  BY <1>1, <1>2, <1>3, PTL DEF Spec
----------------------------------------------------------------------------
(* The outbox implements the safety of its promise.                         *)

Seen == {log[i] : i \in handled \cup lost}
GivenUp == RowsWith("failed")
Over == RowsWith("failed") \cup RowsWith("delivered")

\* Steps that settle nothing and handle nothing change nothing that was promised.
LEMMA QuietStep ==
  ASSUME UNCHANGED <<log, handled, lost>>,
         \A i \in Rows : \A st \in {"delivered", "failed"} : row'[i].status = st <=> row[i].status = st
  PROVE  UNCHANGED Promise!vars
<1>1. UNCHANGED <<GivenUp, Over>>
  BY DEF GivenUp, Over, RowsWith, Rows
<1>2. UNCHANGED <<Seen, ToSet(log)>>
  BY DEF Seen, ToSet
<1> QED
  BY <1>1, <1>2 DEF Promise!vars, Seen, GivenUp, Over

LEMMA EmitMaps ==
  ASSUME TypeInv, NEW e \in Emissions, Emit(e)
  PROVE  Promise!Append(e) \/ UNCHANGED Promise!vars
<1>1. UNCHANGED <<handled, lost>>
  BY DEF Emit, history
<1>2. CASE UNCHANGED <<log, row>>
  BY <1>1, <1>2, QuietStep
<1>3. CASE e \notin ToSet(log) /\ Len(log') = Len(log) + 1 /\ log'[Len(log')] = e
           /\ row'[Len(log')] = NewRow
  <2>1. Rows = 1..Len(log) /\ Rows' = 1..(Len(log) + 1) /\ Len(log) \in Nat
        /\ \A i \in Rows : log'[i] = log[i] /\ row'[i] = row[i]
    BY <1>3, EmitRows DEF Rows, TypeInv, TypeOK
  <2>2. ToSet(log)' = ToSet(log) \cup {e}
    BY <1>3, <2>1 DEF ToSet, Rows
  <2>3. Seen' = Seen
    BY <1>1, <2>1 DEF Seen, TypeInv, InHand
  <2>4. NewRow.status = "pending"
    BY DEF NewRow
  <2>5. \A st \in {"delivered", "failed"} :
           {j \in Rows' : row'[j].status = st} = {j \in Rows : row[j].status = st}
    BY <1>3, <2>1, <2>4
  <2>6. \A st \in {"delivered", "failed"} : RowsWith(st)' = RowsWith(st)
    BY <2>1, <2>5 DEF RowsWith
  <2>7. UNCHANGED <<GivenUp, Over>>
    BY <2>6 DEF GivenUp, Over
  <2> QED
    BY <1>3, <2>2, <2>3, <2>7 DEF Promise!Append, Seen, GivenUp, Over
<1> QED
  BY <1>2, <1>3, EmitRows DEF TypeInv

\* Handling a row again, or failing to, adds nothing to what was promised.
LEMMA HandleMaps ==
  ASSUME TypeInv, NEW w \in Workers, Handle(w) \/ ProjectionFails(w)
  PROVE  Promise!Next \/ UNCHANGED Promise!vars
<1> DEFINE i == Current(w)
<1>1. i \in Rows /\ log[i] \in Emissions /\ log[i] \in ToSet(log)
  BY CurrentIsRow DEF Handle, ProjectionFails, TypeInv, TypeOK, Rows, ToSet
<1>2. UNCHANGED <<log, row>> /\ handled' \cup lost' = handled \cup lost \cup {i}
  BY DEF Handle, ProjectionFails
<1> HIDE DEF i
<1>3. Seen' = Seen \cup {log[i]}
  BY <1>2 DEF Seen
<1>4. UNCHANGED <<GivenUp, Over, ToSet(log)>>
  BY <1>2 DEF GivenUp, Over, RowsWith, Rows, ToSet
<1>5. PICK e \in Emissions : e = log[i]
  BY <1>1
<1>6. Promise!Handle(e) \/ UNCHANGED Promise!vars
  BY <1>1, <1>3, <1>4, <1>5 DEF Promise!Handle, Promise!vars, Seen, GivenUp, Over
<1> QED
  BY <1>6 DEF Promise!Next, Promise!Deal

\* A row that was in hand is settled, and its event was not settled before.
LEMMA SettleMaps ==
  ASSUME TypeInv, LogUnique, NEW i \in Rows, NEW st \in {"delivered", "failed"}, NEW e, e = log[i],
         UNCHANGED <<log, handled, lost>>, row[i].status = "processing", row'[i].status = st,
         \A j \in Rows : j # i => row'[j] = row[j],
         st = "delivered" => i \in handled \cup lost
  PROVE  Promise!Settle(e) \/ Promise!GiveUp(e)
<1>1. e \notin Over /\ e \in ToSet(log)
  BY DEF LogUnique, Over, RowsWith, ToSet, Rows
<1>2. UNCHANGED <<Seen, ToSet(log)>>
  BY DEF Seen, ToSet
<1>3. Rows' = Rows
  BY DEF Rows
<1>4. CASE st = "delivered"
  <2>1. RowsWith("delivered")' = RowsWith("delivered") \cup {e} /\ RowsWith("failed")' = RowsWith("failed")
    BY <1>3, <1>4 DEF RowsWith
  <2>2. e \in Seen
    BY <1>4 DEF Seen
  <2> QED
    BY <1>1, <1>2, <2>1, <2>2 DEF Promise!Settle, Seen, GivenUp, Over
<1>5. CASE st = "failed"
  <2>1. RowsWith("failed")' = RowsWith("failed") \cup {e} /\ RowsWith("delivered")' = RowsWith("delivered")
    BY <1>3, <1>5 DEF RowsWith
  <2> QED
    BY <1>1, <1>2, <2>1 DEF Promise!GiveUp, Seen, GivenUp, Over
<1> QED
  BY <1>4, <1>5

LEMMA StepMaps ==
  ASSUME TypeInv, DoneIsHandled, LogUnique, [Next]_vars
  PROVE  Promise!Next \/ UNCHANGED Promise!vars
<1>1. ASSUME NEW i \in Rows PROVE log[i] \in Emissions /\ row[i] \in RowType
  BY DEF TypeInv, TypeOK, Rows
<1>2. ASSUME NEW e \in Emissions, Emit(e) PROVE Promise!Next \/ UNCHANGED Promise!vars
  BY <1>2, EmitMaps DEF Promise!Next
<1>3. ASSUME NEW w \in Workers, Claim(w) PROVE UNCHANGED Promise!vars
  <2>1. ASSUME NEW i \in Rows
        PROVE  row'[i] = row[i] \/ (/\ row[i].status \in {"pending", "processing"}
                                    /\ row'[i].status = "processing")
    <3>1. i \in FirstDue => row[i].status \in {"pending", "processing"}
      BY DEF FirstDue, Due, Claimable
    <3> QED
      BY <1>1, <1>3, <3>1, ClaimRows DEF TypeInv, RowType
  <2> QED
    BY <1>3, <2>1, QuietStep DEF Claim
<1>4. ASSUME NEW w \in Workers, Handle(w) \/ ProjectionFails(w) PROVE Promise!Next \/ UNCHANGED Promise!vars
  BY <1>4, HandleMaps
<1>5. ASSUME NEW w \in Workers, Ack(w) PROVE Promise!Next \/ UNCHANGED Promise!vars
  <2> DEFINE i == Current(w)
  <2>1. i \in Rows /\ i \in handled \cup lost /\ UNCHANGED <<log, handled, lost>>
    BY <1>5, CurrentIsRow DEF Ack, DoneIsHandled, history
  <2> HIDE DEF i
  <2>2. CASE Owns(w, i)
    <3>1. row[i].status = "processing" /\ row'[i].status = "delivered" /\ \A j \in Rows : j # i => row'[j] = row[j]
      BY <1>1, <1>5, <2>1, <2>2 DEF Ack, Acked, Owns, RowType, i, TypeInv, TypeOK, Rows
    <3>2. PICK e \in Emissions : e = log[i]
      BY <1>1, <2>1
    <3>3. Promise!Settle(e) \/ Promise!GiveUp(e)
      BY <2>1, <3>1, <3>2, SettleMaps
    <3> QED
      BY <3>3 DEF Promise!Next, Promise!Deal
  <2>3. CASE ~Owns(w, i)
    BY <1>5, <2>1, <2>3, QuietStep DEF Ack, Acked, i
  <2> QED
    BY <2>2, <2>3
<1>6. ASSUME NEW w \in Workers, Throw(w) PROVE Promise!Next \/ UNCHANGED Promise!vars
  <2> DEFINE i == Current(w)
  <2>1. i \in Rows /\ UNCHANGED <<log, handled, lost>>
    BY <1>6, CurrentIsRow DEF Throw, history
  <2> HIDE DEF i
  <2>2. CASE Owns(w, i)
    <3>1. /\ row[i].status = "processing" /\ row'[i].status \in {"failed", "pending"}
          /\ \A j \in Rows : j # i => row'[j] = row[j]
      BY <1>1, <1>6, <2>1, <2>2 DEF Throw, Failed, Owns, RowType, i, TypeInv, TypeOK, Rows
    <3>2. CASE row'[i].status = "failed"
      <4>1. PICK e \in Emissions : e = log[i]
        BY <1>1, <2>1
      <4>2. Promise!Settle(e) \/ Promise!GiveUp(e)
        BY <2>1, <3>1, <3>2, <4>1, SettleMaps
      <4> QED
        BY <4>2 DEF Promise!Next, Promise!Deal
    <3>3. CASE row'[i].status = "pending"
      BY <2>1, <3>1, <3>3, QuietStep
    <3> QED
      BY <3>1, <3>2, <3>3
  <2>3. CASE ~Owns(w, i)
    BY <1>6, <2>1, <2>3, QuietStep DEF Throw, Failed, i
  <2> QED
    BY <2>2, <2>3
<1>7. CASE Tick
  <2>1. UNCHANGED <<log, handled, lost>> /\ \A i \in Rows : row'[i].status = row[i].status
    BY <1>1, <1>7, OlderRow DEF Tick, history
  <2> QED
    BY <2>1, QuietStep
<1>8. ASSUME UNCHANGED <<log, row, handled, lost>> PROVE UNCHANGED Promise!vars
  BY <1>8, QuietStep
<1> QED
  BY <1>2, <1>3, <1>4, <1>5, <1>6, <1>7, <1>8
     DEF Next, Drain, Faults, AckFails, Crash, SettleStop, StopCutShort, OwnDebt, ExpireDebt, history, vars

\* Appended once, handled before it is settled unless it was given up, and settled once.
THEOREM PromiseKept == Spec => Promise!Spec
<1> DEFINE I == TypeInv /\ DoneIsHandled /\ LogUnique
<1>1. Init => I
  BY TypeInit DEF Init, DoneIsHandled, LogUnique, Rows
<1>2. I /\ [Next]_vars => I'
  BY TypeStep, DoneStep, LogStep
<1>3. Init => Promise!Init
  BY DEF Init, Promise!Init, RowsWith, Rows, ToSet
<1>4. I /\ [Next]_vars => [Promise!Next]_(Promise!vars)
  BY StepMaps
<1> QED
  BY <1>1, <1>2, <1>3, <1>4, PTL DEF Spec, Promise!Spec
=============================================================================
