---------------------------- MODULE RetryBackoff ----------------------------
(***************************************************************************)
(* The retry strategy both contract callers build from an                  *)
(* ExponentialBackoffRetryDescriptor:                                      *)
(*   ExponentialBackoff::from_millis(base).factor(factor)                  *)
(*     .map(jitter if use_jitter).take(max_attempts)                       *)
(* run by tokio_retry: the first attempt is immediate and every retry      *)
(* sleeps the next delay of the strategy.                                  *)
(***************************************************************************)
EXTENDS Naturals, Sequences

CONSTANTS
    Base,          \* retry descriptor .base
    Factor,        \* retry descriptor .factor
    MaxAttempts,   \* retry descriptor .max_attempts
    UseJitter      \* retry descriptor .use_jitter

ASSUME BackoffAssumption ==
    /\ Base \in Nat \ {0}
    /\ Factor \in Nat \ {0}
    /\ MaxAttempts \in Nat
    /\ UseJitter \in BOOLEAN

\* The k-th delay (k = 0, 1, ...) of tokio_retry's ExponentialBackoff:
\* it starts at current = base, returns current * factor and then
\* multiplies current by base.
BackoffDelay(k) == Factor * Base ^ (k + 1)

\* jitter(d) = d.mul_f64(U[0.5, 1.0]): any duration from d/2 to d.
Jitter(d) == {x \in 0..d : 2 * x >= d}

DelayChoices(k) == IF UseJitter THEN Jitter(BackoffDelay(k))
                                ELSE {BackoffDelay(k)}

\* take(max_attempts): after `taken` delays, another is left.
DelayLeftAfter(taken) == taken < MaxAttempts

=============================================================================
