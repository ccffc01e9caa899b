-------------------------- MODULE AgencyRunsProofs --------------------------
(***************************************************************************)
(* Proofs about AgencyRuns, for any keys, calls and crashes.               *)
(***************************************************************************)
EXTENDS AgencyRuns, TLAPS

\* A call that is about to write a receipt has seen its run end, and an adapter was
\* started by a call.
ReceiptDue == \A p \in Calls :
    /\ pc[p] = "receipt" => status[key[p]] \in Final
    /\ adapter[p] # "off" => pc[p] # "new"
TypeInv == TypeOK /\ ReceiptDue

LEMMA TypeInit == Init => TypeInv
  BY AgencyAssumption DEF AgencyAssumption, Init, TypeInv, TypeOK, ReceiptDue, Open, Final

LEMMA TypeStep == TypeInv /\ [Next]_vars => TypeInv'
<1> SUFFICES ASSUME TypeInv, [Next]_vars PROVE TypeInv'
  OBVIOUS
<1> USE AgencyAssumption DEF AgencyAssumption, TypeInv, TypeOK, ReceiptDue, Open, Final, Goto, Tell, Becomes, Settle, rows, calls
<1>1. ASSUME NEW p \in Calls, NEW k \in Keys, Create(p, k) PROVE TypeInv'
  BY <1>1 DEF Create
<1>2. ASSUME NEW p \in Calls, NEW k \in Keys, Cancel(p, k) PROVE TypeInv'
  BY <1>2 DEF Cancel
<1>3. ASSUME NEW p \in Calls, AlreadyOver(p) PROVE TypeInv'
  BY <1>3 DEF AlreadyOver
<1>4. ASSUME NEW p \in Calls, Defer(p) PROVE TypeInv'
  BY <1>4 DEF Defer, Dispatching
<1>5. ASSUME NEW p \in Calls, Expire(p) PROVE TypeInv'
  BY <1>5 DEF Expire, Dispatching
<1>6. ASSUME NEW p \in Calls, AlreadyClaimed(p) PROVE TypeInv'
  BY <1>6 DEF AlreadyClaimed
<1>7. ASSUME NEW p \in Calls, Claim(p) PROVE TypeInv'
  BY <1>7 DEF Claim, Dispatching, Claims, Claimable
<1>8. ASSUME NEW p \in Calls, NoAdapter(p) PROVE TypeInv'
  BY <1>8 DEF NoAdapter, Dispatching, Claims, Claimable
<1>9. ASSUME NEW p \in Calls, ObserveClaim(p) PROVE TypeInv'
  BY <1>9 DEF ObserveClaim, Claims, Claimable
<1>10. ASSUME NEW p \in Calls, ObserveSettle(p) PROVE TypeInv'
  BY <1>10 DEF ObserveSettle
<1>11. ASSUME NEW p \in Calls, Succeed(p) PROVE TypeInv'
  BY <1>11 DEF Succeed
<1>12. ASSUME NEW p \in Calls, Fail(p) PROVE TypeInv'
  BY <1>12 DEF Fail
<1>13. ASSUME NEW p \in Calls, Timeout(p) PROVE TypeInv'
  BY <1>13 DEF Timeout, TimedOut
<1>14. ASSUME NEW p \in Calls, WriteReceipt(p) PROVE TypeInv'
  BY <1>14 DEF WriteReceipt, Receipt
<1>15. ASSUME NEW p \in Calls, Deliver(p) PROVE TypeInv'
  BY <1>15 DEF Deliver
<1>16. ASSUME NEW p \in Calls, Throw(p) PROVE TypeInv'
  BY <1>16 DEF Throw
<1>17. ASSUME NEW k \in Keys, PassExpiry(k) PROVE TypeInv'
  BY <1>17 DEF PassExpiry
<1>18. CASE Crash
  BY <1>18 DEF Crash
<1>19. CASE UNCHANGED vars
  BY <1>19 DEF vars
<1> QED
  BY <1>1, <1>2, <1>3, <1>4, <1>5, <1>6, <1>7, <1>8, <1>9, <1>10, <1>11, <1>12, <1>13, <1>14,
     <1>15, <1>16, <1>17, <1>18, <1>19 DEF Next, Step

\* Type correctness of the runs and of the calls that ask for them.
THEOREM TypeCorrect == Spec => []TypeOK
<1>1. Spec => []TypeInv
  BY TypeInit, TypeStep, PTL DEF Spec
<1>2. TypeInv => TypeOK
  BY DEF TypeInv
<1> QED
  BY <1>1, <1>2, PTL
----------------------------------------------------------------------------
(* The receipts.                                                            *)

LEMMA ReceiptsStep == TypeInv /\ ReceiptsAgree /\ [Next]_vars => ReceiptsAgree'
<1> SUFFICES ASSUME TypeInv, ReceiptsAgree, [Next]_vars PROVE ReceiptsAgree'
  OBVIOUS
<1> USE AgencyAssumption DEF AgencyAssumption, TypeInv, TypeOK, ReceiptDue, Open, Final
\* A run that is over does not change, and no other has a receipt.
<1>1. ASSUME \A k \in Keys : status[k] \in Final => status'[k] = status[k] /\ attempt'[k] = attempt[k],
             receipts' = receipts
      PROVE  \A r \in receipts' : status'[r.key] = r.status /\ attempt'[r.key] = r.no
  BY <1>1 DEF ReceiptsAgree
<1>2. ASSUME NEW p \in Calls, NEW k \in Keys, Create(p, k) PROVE ReceiptsAgree'
  BY <1>1, <1>2 DEF ReceiptsAgree, Receipt, Create, Becomes, Goto
<1>3. ASSUME NEW p \in Calls, NEW k \in Keys, Cancel(p, k) PROVE ReceiptsAgree'
  BY <1>1, <1>3 DEF ReceiptsAgree, Receipt, Cancel, Settle, Becomes, Goto, Tell
<1>4. ASSUME NEW p \in Calls, AlreadyOver(p) PROVE ReceiptsAgree'
  BY <1>4 DEF ReceiptsAgree, Receipt, AlreadyOver, Goto, Tell, rows
<1>5. ASSUME NEW p \in Calls, Defer(p) PROVE ReceiptsAgree'
  BY <1>1, <1>5 DEF ReceiptsAgree, Receipt, Defer, Dispatching, Becomes, Goto, Tell
<1>6. ASSUME NEW p \in Calls, Expire(p) PROVE ReceiptsAgree'
  BY <1>1, <1>6 DEF ReceiptsAgree, Receipt, Expire, Dispatching, Settle, Becomes, Goto, Tell
<1>7. ASSUME NEW p \in Calls, AlreadyClaimed(p) PROVE ReceiptsAgree'
  BY <1>7 DEF ReceiptsAgree, Receipt, AlreadyClaimed, Goto, Tell, rows
<1>8. ASSUME NEW p \in Calls, Claim(p) PROVE ReceiptsAgree'
  BY <1>1, <1>8 DEF ReceiptsAgree, Receipt, Claim, Dispatching, Claims, Claimable, Becomes, Goto
<1>9. ASSUME NEW p \in Calls, NoAdapter(p) PROVE ReceiptsAgree'
  BY <1>1, <1>9 DEF ReceiptsAgree, Receipt, NoAdapter, Dispatching, Claims, Claimable, Becomes, Goto
<1>10. ASSUME NEW p \in Calls, ObserveClaim(p) PROVE ReceiptsAgree'
  BY <1>1, <1>10 DEF ReceiptsAgree, Receipt, ObserveClaim, Claims, Claimable, Becomes, Goto
<1>11. ASSUME NEW p \in Calls, ObserveSettle(p) PROVE ReceiptsAgree'
  BY <1>1, <1>11 DEF ReceiptsAgree, Receipt, ObserveSettle, Settle, Becomes, Goto, Tell
<1>12. ASSUME NEW p \in Calls, Succeed(p) PROVE ReceiptsAgree'
  BY <1>1, <1>12 DEF ReceiptsAgree, Receipt, Succeed, Settle, Becomes, Goto, Tell
<1>13. ASSUME NEW p \in Calls, Fail(p) PROVE ReceiptsAgree'
  BY <1>1, <1>13 DEF ReceiptsAgree, Receipt, Fail, Settle, Becomes, Goto, Tell
<1>14. ASSUME NEW p \in Calls, Timeout(p) PROVE ReceiptsAgree'
  BY <1>1, <1>14 DEF ReceiptsAgree, Receipt, Timeout, TimedOut, Settle, Becomes, Goto, Tell
<1>15. ASSUME NEW p \in Calls, WriteReceipt(p) PROVE ReceiptsAgree'
  BY <1>15 DEF ReceiptsAgree, Receipt, WriteReceipt, Goto, Tell
<1>16. ASSUME NEW p \in Calls, Deliver(p) \/ Throw(p) PROVE ReceiptsAgree'
  BY <1>16 DEF ReceiptsAgree, Receipt, Deliver, Throw, rows
<1>17. ASSUME NEW k \in Keys, PassExpiry(k) PROVE ReceiptsAgree'
  BY <1>17 DEF ReceiptsAgree, Receipt, PassExpiry, rows, calls
<1>18. CASE Crash
  BY <1>18 DEF ReceiptsAgree, Receipt, Crash, rows
<1>19. CASE UNCHANGED vars
  BY <1>19 DEF ReceiptsAgree, Receipt, vars, rows, calls
<1> QED
  BY <1>2, <1>3, <1>4, <1>5, <1>6, <1>7, <1>8, <1>9, <1>10, <1>11, <1>12, <1>13, <1>14,
     <1>15, <1>16, <1>17, <1>18, <1>19 DEF Next, Step

\* The receipts say what the rows say, and a run that is over has its receipt.
THEOREM ReceiptsCorrect == Spec => []ReceiptsAgree
<1>1. Init => ReceiptsAgree
  BY DEF Init, ReceiptsAgree, Final
<1>2. Spec => []TypeInv
  BY TypeInit, TypeStep, PTL DEF Spec
<1> QED
  BY <1>1, <1>2, ReceiptsStep, PTL DEF Spec
----------------------------------------------------------------------------
(* The ledger: the inductive invariant says who may still carry an action   *)
(* out.                                                                     *)

RowInv == \A k \in Keys :
    /\ attempt[k] \in 0..1 /\ times[k] \in 0..1
    /\ status[k] \in {"none", "pending", "waiting"} => attempt[k] = 0
    /\ status[k] = "running" => attempt[k] = 1
    /\ status[k] = "succeeded" => attempt[k] = 1 /\ times[k] = 1
    /\ k \in Observed => times[k] = 1
    /\ k \notin Observed /\ attempt[k] = 0 => times[k] = 0

CallInv == \A p \in Calls :
    /\ adapter[p] # "off" =>
          key[p] \in Keys \ Observed /\ attempt[key[p]] = 1
    /\ adapter[p] = "running" => times[key[p]] = 0
    /\ adapter[p] = "sent" => times[key[p]] = 1
    /\ pc[p] = "run" => adapter[p] # "off"
    /\ pc[p] = "observe" => key[p] \in Observed /\ attempt[key[p]] = 1
    /\ \A q \in Calls : adapter[p] # "off" /\ adapter[q] # "off" /\ key[p] = key[q] => p = q

LedgerInv == RowInv /\ CallInv

LEMMA LedgerInit == Init => LedgerInv
  BY AgencyAssumption DEF AgencyAssumption, Init, LedgerInv, RowInv, CallInv

LEMMA LedgerStep == TypeInv /\ LedgerInv /\ [Next]_vars => LedgerInv'
<1> SUFFICES ASSUME TypeInv, LedgerInv, [Next]_vars PROVE LedgerInv'
  OBVIOUS
<1> USE AgencyAssumption DEF AgencyAssumption, TypeInv, TypeOK, ReceiptDue, Open, Final,
        Goto, Tell, Becomes, Settle, rows, calls, LedgerInv
<1>1. ASSUME NEW p \in Calls, NEW k \in Keys, Create(p, k) PROVE LedgerInv'
  <2>1. RowInv'
    BY <1>1 DEF RowInv, CallInv, Create
  <2>2. CallInv'
    BY <1>1 DEF RowInv, CallInv, Create
  <2> QED
    BY <2>1, <2>2
<1>2. ASSUME NEW p \in Calls, NEW k \in Keys, Cancel(p, k) PROVE LedgerInv'
  <2>1. RowInv'
    BY <1>2 DEF RowInv, CallInv, Cancel
  <2>2. CallInv'
    BY <1>2 DEF RowInv, CallInv, Cancel
  <2> QED
    BY <2>1, <2>2
<1>3. ASSUME NEW p \in Calls, AlreadyOver(p) PROVE LedgerInv'
  <2>1. RowInv'
    BY <1>3 DEF RowInv, CallInv, AlreadyOver
  <2>2. CallInv'
    BY <1>3 DEF RowInv, CallInv, AlreadyOver
  <2> QED
    BY <2>1, <2>2
<1>4. ASSUME NEW p \in Calls, Defer(p) PROVE LedgerInv'
  <2>1. RowInv'
    BY <1>4 DEF RowInv, CallInv, Defer, Dispatching
  <2>2. CallInv'
    BY <1>4 DEF RowInv, CallInv, Defer, Dispatching
  <2> QED
    BY <2>1, <2>2
<1>5. ASSUME NEW p \in Calls, Expire(p) PROVE LedgerInv'
  <2>1. RowInv'
    BY <1>5 DEF RowInv, CallInv, Expire, Dispatching
  <2>2. CallInv'
    BY <1>5 DEF RowInv, CallInv, Expire, Dispatching
  <2> QED
    BY <2>1, <2>2
<1>6. ASSUME NEW p \in Calls, AlreadyClaimed(p) PROVE LedgerInv'
  <2>1. RowInv'
    BY <1>6 DEF RowInv, CallInv, AlreadyClaimed
  <2>2. CallInv'
    BY <1>6 DEF RowInv, CallInv, AlreadyClaimed
  <2> QED
    BY <2>1, <2>2
<1>7. ASSUME NEW p \in Calls, Claim(p) PROVE LedgerInv'
  <2>1. RowInv'
    BY <1>7 DEF RowInv, CallInv, Claim, Dispatching, Claims, Claimable
  <2>2. CallInv'
    BY <1>7 DEF RowInv, CallInv, Claim, Dispatching, Claims, Claimable
  <2> QED
    BY <2>1, <2>2
<1>8. ASSUME NEW p \in Calls, NoAdapter(p) PROVE LedgerInv'
  <2>1. RowInv'
    BY <1>8 DEF RowInv, CallInv, NoAdapter, Dispatching, Claims, Claimable
  <2>2. CallInv'
    BY <1>8 DEF RowInv, CallInv, NoAdapter, Dispatching, Claims, Claimable
  <2> QED
    BY <2>1, <2>2
<1>9. ASSUME NEW p \in Calls, ObserveClaim(p) PROVE LedgerInv'
  <2>1. RowInv'
    BY <1>9 DEF RowInv, CallInv, ObserveClaim, Claims, Claimable
  <2>2. CallInv'
    BY <1>9 DEF RowInv, CallInv, ObserveClaim, Claims, Claimable
  <2> QED
    BY <2>1, <2>2
<1>10. ASSUME NEW p \in Calls, ObserveSettle(p) PROVE LedgerInv'
  <2>1. RowInv'
    BY <1>10 DEF RowInv, CallInv, ObserveSettle
  <2>2. CallInv'
    BY <1>10 DEF RowInv, CallInv, ObserveSettle
  <2> QED
    BY <2>1, <2>2
<1>11. ASSUME NEW p \in Calls, Succeed(p) PROVE LedgerInv'
  <2>1. RowInv'
    BY <1>11 DEF RowInv, CallInv, Succeed
  <2>2. CallInv'
    BY <1>11 DEF RowInv, CallInv, Succeed
  <2> QED
    BY <2>1, <2>2
<1>12. ASSUME NEW p \in Calls, Fail(p) PROVE LedgerInv'
  <2>1. RowInv'
    BY <1>12 DEF RowInv, CallInv, Fail
  <2>2. CallInv'
    BY <1>12 DEF RowInv, CallInv, Fail
  <2> QED
    BY <2>1, <2>2
<1>13. ASSUME NEW p \in Calls, Timeout(p) PROVE LedgerInv'
  <2>1. RowInv'
    BY <1>13 DEF RowInv, CallInv, Timeout, TimedOut
  <2>2. CallInv'
    BY <1>13 DEF RowInv, CallInv, Timeout, TimedOut
  <2> QED
    BY <2>1, <2>2
<1>14. ASSUME NEW p \in Calls, WriteReceipt(p) PROVE LedgerInv'
  <2>1. RowInv'
    BY <1>14 DEF RowInv, CallInv, WriteReceipt
  <2>2. CallInv'
    BY <1>14 DEF RowInv, CallInv, WriteReceipt
  <2> QED
    BY <2>1, <2>2
<1>15. ASSUME NEW p \in Calls, Deliver(p) PROVE LedgerInv'
  <2>1. RowInv'
    BY <1>15 DEF RowInv, CallInv, Deliver
  <2>2. CallInv'
    BY <1>15 DEF RowInv, CallInv, Deliver
  <2> QED
    BY <2>1, <2>2
<1>16. ASSUME NEW p \in Calls, Throw(p) PROVE LedgerInv'
  <2>1. RowInv'
    BY <1>16 DEF RowInv, CallInv, Throw
  <2>2. CallInv'
    BY <1>16 DEF RowInv, CallInv, Throw
  <2> QED
    BY <2>1, <2>2
<1>17. ASSUME NEW k \in Keys, PassExpiry(k) PROVE LedgerInv'
  <2>1. RowInv'
    BY <1>17 DEF RowInv, CallInv, PassExpiry
  <2>2. CallInv'
    BY <1>17 DEF RowInv, CallInv, PassExpiry
  <2> QED
    BY <2>1, <2>2
<1>18. CASE Crash
  BY <1>18 DEF RowInv, CallInv, Crash
<1>19. CASE UNCHANGED vars
  BY <1>19 DEF RowInv, CallInv, vars
<1> QED
  BY <1>1, <1>2, <1>3, <1>4, <1>5, <1>6, <1>7, <1>8, <1>9, <1>10,
     <1>11, <1>12, <1>13, <1>14, <1>15, <1>16, <1>17, <1>18, <1>19 DEF Next, Step
----------------------------------------------------------------------------
(* The runs implement the ledger: what each write means to it.              *)

LEMMA StutterMaps == UNCHANGED <<status, attempt, times>> => UNCHANGED Ledger!vars
  BY DEF Ledger!vars, Outcome

LEMMA OpenMaps ==
  ASSUME TypeOK, NEW k \in Keys, NEW s \in Open, status[k] \in Open, Becomes(k, s),
         UNCHANGED <<attempt, times>>
  PROVE  UNCHANGED Ledger!vars
<1> USE DEF TypeOK, Open, Final, Becomes
<1>1. \A j \in Keys : status'[j] # "none" <=> status[j] # "none"
  OBVIOUS
<1>2. \A j \in Keys : Outcome(j)' = Outcome(j)
  BY DEF Outcome
<1> QED
  BY <1>1, <1>2 DEF Ledger!vars

LEMMA GiveUpMaps ==
  ASSUME TypeOK, NEW k \in Keys, NEW s \in Final \ {"succeeded"}, status[k] \in Open,
         Becomes(k, s), UNCHANGED times,
         UNCHANGED attempt \/ attempt' = [attempt EXCEPT ![k] = @ + 1]
  PROVE  Ledger!GiveUp(k)
<1> USE DEF TypeOK, Open, Final, Becomes
<1>1. \A j \in Keys : status'[j] # "none" <=> status[j] # "none"
  OBVIOUS
<1>2. Outcome(k) = "open" /\ Outcome(k)' = "not"
  BY DEF Outcome
<1>3. \A j \in Keys \ {k} : Outcome(j)' = Outcome(j)
  BY DEF Outcome
<1>4. \/ \A j \in Keys : attempt'[j] > 0 <=> attempt[j] > 0
      \/ \A j \in Keys : attempt'[j] > 0 <=> attempt[j] > 0 \/ j = k
  OBVIOUS
<1>5. [j \in Keys |-> Outcome(j)]' = [[j \in Keys |-> Outcome(j)] EXCEPT ![k] = "not"]
  BY <1>2, <1>3
<1>6. {j \in Keys : status[j] # "none"}' = {j \in Keys : status[j] # "none"}
  BY <1>1
<1>7. {j \in Keys : attempt[j] > 0}' \in {{j \in Keys : attempt[j] > 0}, {j \in Keys : attempt[j] > 0} \cup {k}}
  BY <1>4
<1> QED
  BY <1>2, <1>5, <1>6, <1>7 DEF Ledger!GiveUp

LEMMA SucceedMaps ==
  ASSUME TypeOK, NEW k \in Keys, status[k] \in Open, attempt[k] = 1, times[k] = 1,
         Becomes(k, "succeeded"), UNCHANGED <<attempt, times>>
  PROVE  Ledger!Succeed(k)
<1> USE DEF TypeOK, Open, Final, Becomes
<1>1. \A j \in Keys : status'[j] # "none" <=> status[j] # "none"
  OBVIOUS
<1>2. Outcome(k) = "open" /\ Outcome(k)' = "ok"
  BY DEF Outcome
<1>3. \A j \in Keys \ {k} : Outcome(j)' = Outcome(j)
  BY DEF Outcome
<1>4. [j \in Keys |-> Outcome(j)]' = [[j \in Keys |-> Outcome(j)] EXCEPT ![k] = "ok"]
  BY <1>2, <1>3
<1>5. {j \in Keys : status[j] # "none"}' = {j \in Keys : status[j] # "none"}
  BY <1>1
<1> QED
  BY <1>2, <1>4, <1>5 DEF Ledger!Succeed

LEMMA ClaimMaps ==
  ASSUME TypeOK, NEW k \in Keys, status[k] \in {"pending", "waiting"}, attempt[k] = 0,
         Becomes(k, "running"), attempt' = [attempt EXCEPT ![k] = @ + 1], UNCHANGED times
  PROVE  Ledger!Claim(k)
<1> USE DEF TypeOK, Open, Final, Becomes
<1>1. \A j \in Keys : status'[j] # "none" <=> status[j] # "none"
  OBVIOUS
<1>2. \A j \in Keys : Outcome(j)' = Outcome(j)
  BY DEF Outcome
<1>3. Outcome(k) = "open"
  BY DEF Outcome
<1>4. \A j \in Keys : attempt'[j] > 0 <=> attempt[j] > 0 \/ j = k
  OBVIOUS
<1> QED
  BY <1>1, <1>2, <1>3, <1>4 DEF Ledger!Claim

LEMMA EnterMaps ==
  ASSUME TypeOK, NEW k \in Keys, status[k] = "none", Becomes(k, "pending"),
         UNCHANGED <<attempt, times>>
  PROVE  Ledger!Enter(k)
<1> USE DEF TypeOK, Open, Final, Becomes
<1>1. \A j \in Keys : status'[j] # "none" <=> status[j] # "none" \/ j = k
  OBVIOUS
<1>2. \A j \in Keys : Outcome(j)' = Outcome(j)
  BY DEF Outcome
<1> QED
  BY <1>1, <1>2 DEF Ledger!Enter

LEMMA StepMaps == TypeInv /\ LedgerInv /\ [Next]_vars => [Ledger!Next]_(Ledger!vars)
<1> SUFFICES ASSUME TypeInv, LedgerInv, [Next]_vars PROVE Ledger!Next \/ UNCHANGED Ledger!vars
  OBVIOUS
<1> USE AgencyAssumption DEF AgencyAssumption, TypeInv
<1>1. ASSUME NEW p \in Calls, pc[p] # "new" PROVE key[p] \in Keys
  BY <1>1 DEF TypeOK
<1>2. ASSUME NEW p \in Calls, NEW k \in Keys, Create(p, k)
      PROVE  Ledger!Next \/ UNCHANGED Ledger!vars
  BY <1>2, EnterMaps, StutterMaps DEF Create, Ledger!Next
<1>3. ASSUME NEW p \in Calls, NEW k \in Keys, Cancel(p, k)
      PROVE  Ledger!Next \/ UNCHANGED Ledger!vars
  BY <1>3, GiveUpMaps, StutterMaps DEF Cancel, Settle, Final, Ledger!Next
<1>4. ASSUME NEW p \in Calls, AlreadyOver(p) \/ AlreadyClaimed(p) PROVE UNCHANGED Ledger!vars
  BY <1>4, StutterMaps DEF AlreadyOver, AlreadyClaimed, rows
<1>5. ASSUME NEW p \in Calls, Defer(p) PROVE UNCHANGED Ledger!vars
  BY <1>1, <1>5, OpenMaps, StutterMaps DEF Defer, Dispatching, Open
<1>6. ASSUME NEW p \in Calls, Expire(p) PROVE Ledger!Next \/ UNCHANGED Ledger!vars
  BY <1>1, <1>6, GiveUpMaps, StutterMaps DEF Expire, Dispatching, Settle, Open, Final, Ledger!Next
<1>7. ASSUME NEW p \in Calls, Claim(p) \/ ObserveClaim(p) PROVE Ledger!Next
  BY <1>1, <1>7, ClaimMaps DEF Claim, ObserveClaim, Dispatching, Claims, Claimable,
       LedgerInv, RowInv, Ledger!Next
<1>8. ASSUME NEW p \in Calls, NoAdapter(p) PROVE Ledger!Next
  BY <1>1, <1>8, GiveUpMaps DEF NoAdapter, Dispatching, Claims, Claimable, Open, Final, Ledger!Next
<1>9. ASSUME NEW p \in Calls, ObserveSettle(p) PROVE Ledger!Next \/ UNCHANGED Ledger!vars
  <2>1. key[p] \in Keys /\ attempt[key[p]] = 1 /\ times[key[p]] = 1 /\ UNCHANGED <<attempt, times>>
    BY <1>1, <1>9 DEF ObserveSettle, LedgerInv, RowInv, CallInv
  <2>2. CASE status[key[p]] = "running" /\ Becomes(key[p], "succeeded")
    BY <2>1, <2>2, SucceedMaps DEF Open, Ledger!Next
  <2>3. CASE status[key[p]] = "running" /\ Becomes(key[p], "failed")
    BY <2>1, <2>3, GiveUpMaps DEF Open, Final, Ledger!Next
  <2>4. CASE UNCHANGED status
    BY <2>1, <2>4, StutterMaps
  <2> QED
    BY <1>9, <2>2, <2>3, <2>4 DEF ObserveSettle, Settle
<1>10. ASSUME NEW p \in Calls, Succeed(p) PROVE Ledger!Next \/ UNCHANGED Ledger!vars
  BY <1>1, <1>10, SucceedMaps, StutterMaps
     DEF Succeed, Settle, Open, LedgerInv, RowInv, CallInv, Ledger!Next
<1>11. ASSUME NEW p \in Calls, Fail(p) \/ Timeout(p) PROVE Ledger!Next \/ UNCHANGED Ledger!vars
  BY <1>1, <1>11, GiveUpMaps, StutterMaps DEF Fail, Timeout, TimedOut, Settle, Open, Final, Ledger!Next
<1>12. ASSUME NEW p \in Calls, Deliver(p) PROVE Ledger!Next
  <2>1. key[p] \in Keys /\ attempt[key[p]] = 1 /\ times[key[p]] = 0
    BY <1>12 DEF Deliver, LedgerInv, CallInv
  <2>2. times' = [times EXCEPT ![key[p]] = 1] /\ UNCHANGED <<status, attempt>>
    BY <1>12, <2>1 DEF Deliver, rows
  <2>3. \A j \in Keys : Outcome(j)' = Outcome(j)
    BY <2>2 DEF Outcome
  <2>4. Ledger!Happen(key[p])
    BY <2>1, <2>2, <2>3 DEF Ledger!Happen
  <2> QED
    BY <2>1, <2>4 DEF Ledger!Next
<1>13. ASSUME NEW p \in Calls, WriteReceipt(p) \/ Throw(p) PROVE UNCHANGED Ledger!vars
  BY <1>13, StutterMaps DEF WriteReceipt, Throw, rows
<1>14. CASE Crash \/ (\E k \in Keys : PassExpiry(k)) \/ UNCHANGED vars
  BY <1>14, StutterMaps DEF Crash, PassExpiry, vars, rows
<1> QED
  BY <1>2, <1>3, <1>4, <1>5, <1>6, <1>7, <1>8, <1>9, <1>10, <1>11, <1>12, <1>13, <1>14
     DEF Next, Step

\* Any number of calls, timeouts, cancellations and crashes carry an action out at most
\* once, never change its outcome, and call it a success only when it was carried out.
THEOREM LedgerKept == Spec => KeepsLedger
<1>1. Init => Ledger!Init
  BY DEF Init, Ledger!Init, Outcome, Final
<1>2. Spec => [](TypeInv /\ LedgerInv)
  BY TypeInit, TypeStep, LedgerInit, LedgerStep, PTL DEF Spec
<1> QED
  BY <1>1, <1>2, StepMaps, PTL DEF Spec, KeepsLedger, Ledger!Spec
=============================================================================
