-------------------------- MODULE TransactionCaller --------------------------
(***************************************************************************)
(* One call of TransactionCaller::call_contract_transaction, as the        *)
(* coordinator client's publish() makes it (retry_on_transaction_fail =    *)
(* false in the code; a constant here), against the Coordinator contract,  *)
(* which stores one publication per participant and phase and reverts a   *)
(* second one ("share existed").                                           *)
(*                                                                         *)
(* The retry loop is tokio_retry::RetryIf over                             *)
(* ExponentialBackoff::from_millis(base).factor(factor)                    *)
(*   .map(jitter if use_jitter).take(max_attempts):                        *)
(* the first attempt runs at once, and each error the condition accepts   *)
(* takes the next delay of the strategy; when none is left, or the         *)
(* condition refuses the error, RetryIf returns that error.                *)
(***************************************************************************)
EXTENDS RetryBackoff

CONSTANT RetryOnTxFail  \* the retry_on_transaction_fail argument

ASSUME CallerAssumption == RetryOnTxFail \in BOOLEAN

VARIABLES
    phase,      \* "send", "await", "done"
    attempt,    \* attempts of the closure started so far
    cur,        \* transaction the current attempt broadcast
    delays,     \* sequence of the delays slept before each retry
    lastErr,    \* ContractClientError of the last failed attempt
    result,     \* "none", "Ok" or the error RetryIf returned
    okTx,       \* the transaction whose hash Ok carries (0: none)
    txs,        \* chain: status of each transaction the call broadcast
    published   \* chain: the contract holds this participant's publication

vars == <<phase, attempt, cur, delays, lastErr, result, okTx, txs, published>>

-----------------------------------------------------------------------------

TxIds == 1..(MaxAttempts + 1)

TxStatus == {"none", "pending", "success", "reverted", "dropped"}

\* "Reverted": the ContractError of a send() whose gas estimation reverts.
Errors == {"Provider", "Reverted", "NoTransactionReceipt", "TransactionFailed"}

\* The RetryIf condition of call_contract_transaction.
Retryable(e) == RetryOnTxFail \/ e # "TransactionFailed"

\* Mutant: one more retry than the strategy has delays.
DelayLeftOffByOne == attempt - 1 <= MaxAttempts

\* attempt - 1 delays have been taken so far.
DelayLeft == DelayLeftAfter(attempt - 1)

-----------------------------------------------------------------------------

Init ==
    /\ phase = "send"
    /\ attempt = 1
    /\ cur = 0
    /\ delays = <<>>
    /\ lastErr = "none"
    /\ result = "none"
    /\ okTx = 0
    /\ txs = [t \in TxIds |-> "none"]
    /\ published = FALSE

\* An attempt fails with error e: RetryIf sleeps the next delay and runs the
\* closure again, or returns Err(e).
Fail(e) ==
    /\ lastErr' = e
    /\ IF Retryable(e) /\ DelayLeft
         THEN /\ \E d \in DelayChoices(attempt - 1) : delays' = Append(delays, d)
              /\ phase' = "send"
              /\ attempt' = attempt + 1
              /\ UNCHANGED result
         ELSE /\ phase' = "done"
              /\ result' = e
              /\ UNCHANGED <<attempt, delays>>

\* call.send(): the node fails to hand the transaction to the provider.
SendError ==
    /\ phase = "send"
    /\ Fail("Provider")
    /\ UNCHANGED <<cur, okTx, txs, published>>

\* call.send() estimates gas first: once the contract holds this
\* participant's publication the estimation reverts ("share existed", the
\* error the coordinator test expects of a second publish).
SendReverted ==
    /\ phase = "send"
    /\ published
    /\ Fail("Reverted")
    /\ UNCHANGED <<cur, okTx, txs, published>>

\* call.send() returns a PendingTransaction: the transaction is broadcast.
\* Its gas estimation passed, so the publication was not yet on the chain.
Broadcast ==
    /\ phase = "send"
    /\ ~published
    /\ txs' = [txs EXCEPT ![attempt] = "pending"]
    /\ cur' = attempt
    /\ phase' = "await"
    /\ UNCHANGED <<attempt, delays, lastErr, result, okTx, published>>

\* pending_tx.await fails (connection, timeout); the transaction stays
\* wherever it is on the chain.
ReceiptError ==
    /\ phase = "await"
    /\ Fail("Provider")
    /\ UNCHANGED <<cur, okTx, txs, published>>

\* pending_tx.await resolves to None although the transaction is still in
\* a mempool (the provider did not find it when it polled): ok_or turns it
\* into NoTransactionReceipt, and the transaction may still be mined.
ReceiptNotFound ==
    /\ phase = "await"
    /\ txs[cur] = "pending"
    /\ Fail("NoTransactionReceipt")
    /\ UNCHANGED <<cur, okTx, txs, published>>

\* Mutant: a dropped transaction's receipt is awaited for ever instead of
\* ending the attempt with NoTransactionReceipt.
ReceiptWaitsOnDropped ==
    /\ phase = "await"
    /\ txs[cur] \in {"success", "reverted"}
    /\ IF txs[cur] = "reverted"
         THEN /\ Fail("TransactionFailed")
              /\ UNCHANGED okTx
         ELSE /\ phase' = "done"
              /\ result' = "Ok"
              /\ okTx' = cur
              /\ UNCHANGED <<attempt, delays, lastErr>>
    /\ UNCHANGED <<cur, txs, published>>

\* Mutant: receipt.status is not checked.
ReceiptNoStatusCheck ==
    /\ phase = "await"
    /\ txs[cur] \in {"success", "reverted", "dropped"}
    /\ IF txs[cur] = "dropped"
         THEN /\ Fail("NoTransactionReceipt")
              /\ UNCHANGED okTx
         ELSE /\ phase' = "done"
              /\ result' = "Ok"
              /\ okTx' = cur
              /\ UNCHANGED <<attempt, delays, lastErr>>
    /\ UNCHANGED <<cur, txs, published>>

\* The receipt of the current transaction: None when it was dropped, status
\* 0 when it reverted, else Ok(receipt.transaction_hash).
Receipt ==
    /\ phase = "await"
    /\ txs[cur] \in {"success", "reverted", "dropped"}
    /\ CASE txs[cur] = "dropped"  -> /\ Fail("NoTransactionReceipt")
                                     /\ UNCHANGED okTx
         [] txs[cur] = "reverted" -> /\ Fail("TransactionFailed")
                                     /\ UNCHANGED okTx
         [] OTHER                 -> /\ phase' = "done"
                                     /\ result' = "Ok"
                                     /\ okTx' = cur
                                     /\ UNCHANGED <<attempt, delays, lastErr>>
    /\ UNCHANGED <<cur, txs, published>>

\* The chain mines a pending transaction: Coordinator.publish stores the
\* data once and reverts when the participant already published.
Mine(t) ==
    /\ txs[t] = "pending"
    /\ txs' = [txs EXCEPT ![t] = IF published THEN "reverted" ELSE "success"]
    /\ published' = TRUE
    /\ UNCHANGED <<phase, attempt, cur, delays, lastErr, result, okTx>>

\* A pending transaction leaves the mempool without being mined.
Drop(t) ==
    /\ txs[t] = "pending"
    /\ txs' = [txs EXCEPT ![t] = "dropped"]
    /\ UNCHANGED <<phase, attempt, cur, delays, lastErr, result, okTx, published>>

Next ==
    \/ SendError \/ SendReverted \/ Broadcast \/ ReceiptError \/ ReceiptNotFound
    \/ Receipt
    \/ \E t \in TxIds : Mine(t) \/ Drop(t)

Spec == Init /\ [][Next]_vars

\* call.send() returns (a PendingTransaction or an error), and the closure
\* reads a receipt once the chain has one.  pending_tx.await has no timeout
\* of its own: it returns because the chain eventually mines or drops each
\* pending transaction, which is assumed here and nowhere guaranteed by the
\* code.  Provider errors and lost receipts get no fairness.
Fairness ==
    /\ WF_vars(SendError \/ SendReverted \/ Broadcast)
    /\ WF_vars(Receipt)
    /\ \A t \in TxIds : WF_vars(Mine(t) \/ Drop(t))

FairSpec == Spec /\ Fairness

-----------------------------------------------------------------------------
(* Properties *)

TypeOK ==
    /\ phase \in {"send", "await", "done"}
    /\ attempt \in 1..(MaxAttempts + 1)
    /\ cur \in 0..(MaxAttempts + 1)
    /\ lastErr \in Errors \cup {"none"}
    /\ result \in Errors \cup {"none", "Ok"}
    /\ okTx \in 0..(MaxAttempts + 1)
    /\ txs \in [TxIds -> TxStatus]
    /\ published \in BOOLEAN

\* Ok(hash) is returned only for a transaction the chain mined with success
\* status: the caller checks receipt.status before reporting success.
OkMeansMined ==
    result = "Ok" => okTx # 0 /\ txs[okTx] = "success"

\* Every call_contract_transaction returns, Ok or Err, once the chain
\* settles the transactions it broadcast: the strategy's take(max_attempts)
\* bounds the retries, and a dropped transaction ends its attempt.
CallReturns == <>(phase = "done")

\* An Err(TransactionFailed) from publish means the node's data is not on
\* the chain (spec 4.7: a failed receipt is a committed on-chain failure).
FailedMeansNotPublished ==
    result = "TransactionFailed" => ~published

=============================================================================
