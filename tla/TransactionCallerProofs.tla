------------------------ MODULE TransactionCallerProofs ------------------------
(***************************************************************************)
(* Proofs about TransactionCaller for every retry descriptor and either    *)
(* value of retry_on_transaction_fail: the type invariant, and that Ok is  *)
(* returned only for a mined, successful transaction.                      *)
(***************************************************************************)
EXTENDS TLAPS, TransactionCaller

-----------------------------------------------------------------------------
(* The inductive invariant *)

\* RetryIf has returned exactly when the call is done, and an awaited
\* receipt belongs to a transaction the call broadcast.
PhaseInv ==
    /\ result = "none" <=> phase # "done"
    /\ phase = "await" => cur \in TxIds

IInv ==
    /\ TypeOK
    /\ PhaseInv
    /\ OkMeansMined

-----------------------------------------------------------------------------
(* Lemmas *)

\* What Fail(e) does, on each branch of RetryIf.
LEMMA FailRetries ==
    ASSUME NEW e, Fail(e), Retryable(e) /\ DelayLeft
    PROVE  /\ lastErr' = e /\ phase' = "send" /\ attempt' = attempt + 1
           /\ result' = result
BY DEF Fail

LEMMA FailReturns ==
    ASSUME NEW e, Fail(e), ~(Retryable(e) /\ DelayLeft)
    PROVE  /\ lastErr' = e /\ phase' = "done" /\ result' = e
           /\ attempt' = attempt
BY DEF Fail

\* Receipt, split along the receipt the chain holds.
LEMMA ReceiptCases ==
    ASSUME Receipt
    PROVE  /\ phase = "await" /\ UNCHANGED <<cur, txs, published>>
           /\ \/ txs[cur] = "dropped" /\ Fail("NoTransactionReceipt") /\ UNCHANGED okTx
              \/ txs[cur] = "reverted" /\ Fail("TransactionFailed") /\ UNCHANGED okTx
              \/ /\ txs[cur] = "success"
                 /\ phase' = "done" /\ result' = "Ok" /\ okTx' = cur
                 /\ UNCHANGED <<attempt, delays, lastErr>>
BY Zenon DEF Receipt

\* An attempt that fails, in send() or in the receipt, keeps the invariant
\* whichever branch RetryIf takes.
LEMMA FailIInv ==
    ASSUME IInv, NEW e \in Errors, Fail(e), phase \in {"send", "await"},
           UNCHANGED <<cur, okTx, txs, published>>
    PROVE  IInv'
<1> USE BackoffAssumption, CallerAssumption
<1>1. result = "none"
  BY DEF IInv, PhaseInv
<1>2. CASE Retryable(e) /\ DelayLeft
  <2>1. /\ lastErr' = e /\ phase' = "send" /\ attempt' = attempt + 1
        /\ result' = result
    BY <1>2, FailRetries
  <2>2. attempt + 1 \in 1..(MaxAttempts + 1)
    BY <1>2 DEF IInv, TypeOK, DelayLeft, DelayLeftAfter
  <2>3. TypeOK'
    BY <2>1, <2>2 DEF IInv, TypeOK, Errors
  <2>4. QED
    BY <1>1, <2>1, <2>3 DEF IInv, PhaseInv, OkMeansMined
<1>3. CASE ~(Retryable(e) /\ DelayLeft)
  <2>1. /\ lastErr' = e /\ phase' = "done" /\ result' = e /\ attempt' = attempt
    BY <1>3, FailReturns
  <2>2. QED
    BY <2>1 DEF IInv, TypeOK, Errors, PhaseInv, OkMeansMined
<1>4. QED
  BY <1>2, <1>3

LEMMA NextIInv == IInv /\ [Next]_vars => IInv'
<1> SUFFICES ASSUME IInv, [Next]_vars PROVE IInv'
  OBVIOUS
<1> USE BackoffAssumption, CallerAssumption
<1>1. CASE SendError
  BY <1>1, FailIInv DEF SendError, Fail, Errors
<1>2. CASE SendReverted
  BY <1>2, FailIInv DEF SendReverted, Errors
<1>3. CASE Broadcast
  <2>1. attempt \in TxIds
    BY DEF IInv, TypeOK, TxIds
  <2>2. QED
    BY <1>3, <2>1 DEF Broadcast, IInv, TypeOK, TxIds, TxStatus, PhaseInv,
                      OkMeansMined
<1>4. CASE ReceiptError
  BY <1>4, FailIInv DEF ReceiptError, Errors
<1>5. CASE ReceiptNotFound
  BY <1>5, FailIInv DEF ReceiptNotFound, Errors
<1>6. CASE Receipt
  <2>1. phase = "await" /\ UNCHANGED <<cur, txs, published>>
    BY <1>6, ReceiptCases
  <2>2. CASE txs[cur] = "dropped" /\ Fail("NoTransactionReceipt") /\ UNCHANGED okTx
    BY <2>1, <2>2, FailIInv DEF Errors
  <2>3. CASE txs[cur] = "reverted" /\ Fail("TransactionFailed") /\ UNCHANGED okTx
    BY <2>1, <2>3, FailIInv DEF Errors
  <2>4. CASE /\ txs[cur] = "success"
             /\ phase' = "done" /\ result' = "Ok" /\ okTx' = cur
             /\ UNCHANGED <<attempt, delays, lastErr>>
    <3>1. cur \in TxIds
      BY <2>1 DEF IInv, PhaseInv
    <3>2. QED
      BY <2>1, <2>4, <3>1 DEF IInv, TypeOK, TxIds, PhaseInv, OkMeansMined
  <2>5. QED
    BY <1>6, <2>2, <2>3, <2>4, ReceiptCases
<1>7. ASSUME NEW t \in TxIds, Mine(t)
      PROVE  IInv'
  <2>1. okTx # 0 /\ result = "Ok" => t # okTx
    BY <1>7 DEF Mine, IInv, OkMeansMined
  <2>2. QED
    BY <1>7, <2>1 DEF Mine, IInv, TypeOK, TxStatus, PhaseInv, OkMeansMined
<1>8. ASSUME NEW t \in TxIds, Drop(t)
      PROVE  IInv'
  <2>1. okTx # 0 /\ result = "Ok" => t # okTx
    BY <1>8 DEF Drop, IInv, OkMeansMined
  <2>2. QED
    BY <1>8, <2>1 DEF Drop, IInv, TypeOK, TxStatus, PhaseInv, OkMeansMined
<1>9. CASE UNCHANGED vars
  BY <1>9 DEF vars, IInv, TypeOK, PhaseInv, OkMeansMined
<1>10. QED
  BY <1>1, <1>2, <1>3, <1>4, <1>5, <1>6, <1>7, <1>8, <1>9 DEF Next

LEMMA InitIInv == Init => IInv
<1> SUFFICES ASSUME Init PROVE IInv
  OBVIOUS
<1>1. txs \in [TxIds -> TxStatus]
  BY DEF Init, TxStatus
<1>2. attempt \in 1..(MaxAttempts + 1) /\ cur \in 0..(MaxAttempts + 1)
      /\ okTx \in 0..(MaxAttempts + 1)
  BY BackoffAssumption DEF Init
<1>3. TypeOK
  BY <1>1, <1>2 DEF Init, TypeOK, TxIds
<1>4. QED
  BY <1>3 DEF Init, IInv, PhaseInv, OkMeansMined

-----------------------------------------------------------------------------
(* Theorems *)

\* The inductive invariant holds in every reachable state.
THEOREM IInvInvariant == Spec => []IInv
BY InitIInv, NextIInv, PTL DEF Spec

\* Every reachable state is well typed.
THEOREM TypeCorrect == Spec => []TypeOK
BY IInvInvariant, PTL DEF IInv

\* call_contract_transaction returns Ok(hash) only for a transaction the
\* chain has mined with success status, whatever the retries, drops,
\* reverts and lost receipts before it: the receipt's status is checked,
\* and a mined transaction's status never changes.
THEOREM OkMeansMinedHolds == Spec => []OkMeansMined
BY IInvInvariant, PTL DEF IInv

=============================================================================
