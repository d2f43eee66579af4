--------------------------- MODULE ViewCallerProofs ---------------------------
(***************************************************************************)
(* Proofs about ViewCaller for every retry descriptor: every state is     *)
(* well typed, and the k-th delay Retry sleeps is one the strategy offers  *)
(* for its k-th slot.                                                      *)
(***************************************************************************)
EXTENDS TLAPS, ViewCaller

-----------------------------------------------------------------------------
(* The inductive invariant *)

\* Retry has slept one delay before each attempt after the first, the k-th
\* drawn from the strategy's k-th delay.
DelaysTaken ==
    /\ Len(delays) = attempt - 1
    /\ \A k \in 1..Len(delays) : delays[k] \in DelayChoices(k - 1)

\* TypeOK without its claim that every delay is a natural number: that
\* needs Factor * Base^(k + 1) \in Nat, a fact about exponentiation the
\* provers do not have.  Each delay is one the strategy offers.
ViewType ==
    /\ attempt \in 1..(MaxAttempts + 1)
    /\ delays \in Seq(UNION {DelayChoices(k) : k \in Nat})
    /\ result \in {"none", "Ok", "Err"}

IInv ==
    /\ ViewType
    /\ DelaysTaken

-----------------------------------------------------------------------------
(* Initiation and consecution *)

LEMMA InitIInv == Init => IInv
BY BackoffAssumption DEF Init, IInv, ViewType, DelaysTaken

\* A retry appends a delay of the strategy's next slot; nothing else moves
\* attempt or delays.
LEMMA NextIInv == IInv /\ [Next]_vars => IInv'
<1> SUFFICES ASSUME IInv, [Next]_vars PROVE IInv'
  OBVIOUS
<1> USE BackoffAssumption
<1>1. CASE CallError /\ ViewDelayLeft
  <2> PICK d \in DelayChoices(attempt - 1) : delays' = Append(delays, d)
    BY <1>1 DEF CallError
  <2>1. attempt' = attempt + 1 /\ result' = result
    BY <1>1 DEF CallError
  <2>2. attempt - 1 \in Nat /\ attempt - 1 < MaxAttempts
    BY <1>1 DEF IInv, ViewType, ViewDelayLeft, DelayLeftAfter
  <2>3. ViewType'
    BY <2>1, <2>2 DEF IInv, ViewType
  <2>4. DelaysTaken'
    <3>1. Len(delays') = Len(delays) + 1 /\ delays'[Len(delays) + 1] = d
      BY DEF IInv, ViewType
    <3>2. \A k \in 1..Len(delays) : delays'[k] = delays[k]
      BY DEF IInv, ViewType
    <3>3. QED
      BY <2>1, <3>1, <3>2 DEF IInv, DelaysTaken, ViewType
  <2>5. QED
    BY <2>3, <2>4 DEF IInv
<1>2. CASE CallError /\ ~ViewDelayLeft
  <2>1. result' = "Err" /\ UNCHANGED <<attempt, delays>>
    BY <1>2 DEF CallError
  <2>2. QED
    BY <2>1 DEF IInv, ViewType, DelaysTaken
<1>3. CASE CallOk
  BY <1>3 DEF CallOk, IInv, ViewType, DelaysTaken
<1>4. CASE UNCHANGED vars
  BY <1>4 DEF vars, IInv, ViewType, DelaysTaken
<1>5. QED
  BY <1>1, <1>2, <1>3, <1>4 DEF Next

-----------------------------------------------------------------------------
(* The delays are numbers *)

\* Powers of the descriptor's base are naturals.  The provers know no law of
\* ^ beyond constant instances, so TypeCorrect takes this fact of
\* arithmetic as a hypothesis.
BasePowers == \A n \in Nat : Base ^ n \in Nat

LEMMA MulNat ==
    ASSUME NEW a \in Nat, NEW b \in Nat PROVE a * b \in Nat
OBVIOUS

\* A jittered delay is never negative, whatever it jitters.
LEMMA JitterNat ==
    ASSUME NEW d PROVE Jitter(d) \subseteq Nat
BY DEF Jitter

\* Every delay the strategy offers is a number of milliseconds.
LEMMA DelayChoicesNat ==
    BasePowers => \A k \in Nat : DelayChoices(k) \subseteq Nat
<1> SUFFICES ASSUME BasePowers, NEW k \in Nat PROVE DelayChoices(k) \subseteq Nat
  OBVIOUS
<1>1. k + 1 \in Nat
  OBVIOUS
<1>2. Base ^ (k + 1) \in Nat
  BY <1>1, Zenon DEF BasePowers
<1>3. Factor \in Nat
  BY BackoffAssumption
<1>4. BackoffDelay(k) \in Nat
  BY <1>2, <1>3, MulNat, Zenon DEF BackoffDelay
<1>5. Jitter(BackoffDelay(k)) \subseteq Nat
  BY JitterNat
<1>6. QED
  BY <1>4, <1>5, Zenon DEF DelayChoices

\* The invariant gives the type: the k-th delay is one of DelayChoices(k - 1).
LEMMA IInvType == BasePowers /\ IInv => TypeOK
<1> SUFFICES ASSUME BasePowers, IInv PROVE TypeOK
  OBVIOUS
<1>1. \A k \in 1..Len(delays) : delays[k] \in DelayChoices(k - 1)
  BY DEF IInv, DelaysTaken
<1>2. \A k \in 1..Len(delays) : k - 1 \in Nat
  BY DEF IInv, ViewType
<1>3. \A k \in 1..Len(delays) : delays[k] \in Nat
  BY <1>1, <1>2, DelayChoicesNat, Zenon
<1>4. delays \in Seq(Nat)
  BY <1>3 DEF IInv, ViewType
<1>5. QED
  BY <1>4 DEF IInv, ViewType, TypeOK

-----------------------------------------------------------------------------
(* Theorems *)

\* The inductive invariant holds in every reachable state.
THEOREM IInvInvariant == Spec => []IInv
BY InitIInv, NextIInv, PTL DEF Spec

\* Every reachable state of call_contract_view is well typed: in particular
\* each delay Retry sleeps is a number of milliseconds.  The hypothesis is
\* that powers of the base are naturals, which the provers cannot derive.
THEOREM TypeCorrect == BasePowers => (Spec => []TypeOK)
<1> SUFFICES ASSUME BasePowers PROVE Spec => []TypeOK
  OBVIOUS
<1>1. IInv => TypeOK
  BY IInvType
<1>2. QED
  BY <1>1, IInvInvariant, PTL

=============================================================================
