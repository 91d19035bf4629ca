---------------------------- MODULE CircuitBreaker ----------------------------
(***************************************************************************)
(* The per-endpoint circuit breaker (providers/resilience.py).  Its methods *)
(* never await, so each is one atomic operation.  opened_at is modelled by  *)
(* the age of the opening; the failure count and that age are only ever     *)
(* compared with a threshold, and stop there.                               *)
(***************************************************************************)
EXTENDS Integers

CONSTANTS
  FailureThreshold,  \* failure_threshold
  ResetTimeout       \* reset_timeout_seconds, in ticks

ASSUME BreakerAssumption == FailureThreshold \in Nat \ {0} /\ ResetTimeout \in Nat \ {0}

VARIABLES
  failures,       \* _failures, up to FailureThreshold
  opened,         \* _opened_at is not None
  openedFor,      \* clock() - _opened_at, up to ResetTimeout
  trialInFlight   \* _trial_in_flight

breaker == <<failures, opened, openedFor, trialInFlight>>

BreakerInit == failures = 0 /\ opened = FALSE /\ openedFor = 0 /\ trialInFlight = FALSE

BreakerType ==
  /\ failures \in 0 .. FailureThreshold
  /\ openedFor \in 0 .. ResetTimeout
  /\ opened \in BOOLEAN /\ trialInFlight \in BOOLEAN

HalfOpen == opened /\ (trialInFlight \/ openedFor >= ResetTimeout)

\* before_call lets a call through and says whether it is the trial; in every
\* other state it raises CircuitOpenError and changes nothing.
Mut_BeforeCall(trial) ==
  \/ ~opened /\ ~trial /\ UNCHANGED breaker
  \/ HalfOpen /\ trial /\ trialInFlight' = TRUE /\ UNCHANGED <<failures, opened, openedFor>>
BeforeCall(trial) ==
  \/ ~opened /\ ~trial /\ UNCHANGED breaker
  \/ /\ HalfOpen /\ ~trialInFlight /\ trial
     /\ trialInFlight' = TRUE
     /\ UNCHANGED <<failures, opened, openedFor>>

RecordSuccess ==
  failures' = 0 /\ opened' = FALSE /\ openedFor' = 0 /\ trialInFlight' = FALSE

RecordFailure ==
  /\ failures' = IF failures < FailureThreshold THEN failures + 1 ELSE failures
  /\ trialInFlight' = FALSE
  /\ IF trialInFlight \/ failures + 1 >= FailureThreshold
     THEN opened' = TRUE /\ openedFor' = 0
     ELSE UNCHANGED <<opened, openedFor>>

ReleaseTrial == trialInFlight' = FALSE /\ UNCHANGED <<failures, opened, openedFor>>

BreakerTick ==
  /\ openedFor' = IF opened /\ openedFor < ResetTimeout THEN openedFor + 1 ELSE openedFor
  /\ UNCHANGED <<failures, opened, trialInFlight>>
=============================================================================
