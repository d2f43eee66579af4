----------------------------- MODULE ViewCaller -----------------------------
(***************************************************************************)
(* One call of ViewCaller::call_contract_view, as the Coordinator views    *)
(* (get_shares, get_responses, get_justifications, get_participants,      *)
(* get_dkg_keys, in_phase) make it: tokio_retry::Retry retries every       *)
(* error while the strategy has a delay left.  The value a view returns   *)
(* is abstracted away: only whether the call succeeded matters here.       *)
(***************************************************************************)
EXTENDS RetryBackoff

VARIABLES
    attempt,   \* attempts of the closure started so far
    delays,    \* delays slept before each retry
    result     \* "none", "Ok" or "Err"

vars == <<attempt, delays, result>>

Init ==
    /\ attempt = 1
    /\ delays = <<>>
    /\ result = "none"

\* Mutant: the strategy is built with one delay more.
ViewDelayLeftLong == DelayLeftAfter(attempt - 2)

\* attempt - 1 delays of the strategy have been taken.
ViewDelayLeft == DelayLeftAfter(attempt - 1)

\* call.call() fails (provider error, timeout): Retry sleeps the next delay
\* and calls again, or returns the error when the strategy is exhausted.
CallError ==
    /\ result = "none"
    /\ IF ViewDelayLeft
         THEN /\ \E d \in DelayChoices(attempt - 1) : delays' = Append(delays, d)
              /\ attempt' = attempt + 1
              /\ UNCHANGED result
         ELSE /\ result' = "Err"
              /\ UNCHANGED <<attempt, delays>>

\* call.call() returns the contract's value.
CallOk ==
    /\ result = "none"
    /\ result' = "Ok"
    /\ UNCHANGED <<attempt, delays>>

Next == CallError \/ CallOk

Spec == Init /\ [][Next]_vars

\* Type invariant: the call makes at most one attempt per delay of the
\* strategy plus one, and every delay Retry sleeps is a natural number of ms.
TypeOK ==
    /\ attempt \in 1..(MaxAttempts + 1)
    /\ delays \in Seq(Nat)
    /\ result \in {"none", "Ok", "Err"}

\* The spec's retry bound (section 8): no retryable operation performs more
\* than max_attempts attempts.
RetryBound ==
    attempt <= MaxAttempts

=============================================================================
