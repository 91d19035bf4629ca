------------------------- MODULE EndpointClient_proofs -------------------------
(***************************************************************************)
(* Proofs about EndpointClient, for every number of callers and sessions,  *)
(* every threshold, every timeout and every number of attempts.            *)
(*                                                                         *)
(* The argument: Remaining(c) bounds the time a call still takes and never *)
(* grows, so a call that was let through while the breaker was closed is   *)
(* over CallMax after the opening at the latest (OverInTime).  When the    *)
(* reset timeout is longer than that, nothing but the trial runs while the *)
(* breaker is half open, and only the trial can clear the flag it set      *)
(* (TrialAlone).                                                           *)
(***************************************************************************)
EXTENDS EndpointClient, FiniteSetTheorems, TLAPS

USE DEF breaker, session, caller

(* The initial state is well typed.                                        *)
LEMMA InitType == Init => TypeOK
<1> SUFFICES ASSUME Init PROVE TypeOK
  OBVIOUS
<1>1. failures \in 0 .. FailureThreshold /\ openedFor \in 0 .. ResetTimeout
  BY BreakerAssumption DEF Init, BreakerInit
<1>2. opened \in BOOLEAN /\ trialInFlight \in BOOLEAN
  BY Zenon DEF Init, BreakerInit
<1>3. QED
  BY <1>1, <1>2, SessionAssumption, CallAssumption DEF Init, SessionInit, TypeOK, BreakerType

(* The breaker's methods keep its state in range.                          *)
LEMMA BreakerStepType ==
  ASSUME BreakerType,
         (\E trial \in BOOLEAN : BeforeCall(trial)) \/ RecordSuccess \/ RecordFailure
           \/ ReleaseTrial \/ BreakerTick \/ UNCHANGED breaker
  PROVE  BreakerType'
<1> USE BreakerAssumption DEF BreakerType
<1>1. CASE \E trial \in BOOLEAN : BeforeCall(trial)
  BY <1>1 DEF BeforeCall
<1>2. CASE RecordSuccess
  <2>1. failures' \in 0 .. FailureThreshold /\ openedFor' \in 0 .. ResetTimeout
    BY <1>2 DEF RecordSuccess
  <2>2. opened' \in BOOLEAN /\ trialInFlight' \in BOOLEAN
    BY <1>2, Zenon DEF RecordSuccess
  <2>3. QED
    BY <2>1, <2>2
<1>3. CASE RecordFailure
  <2>1. failures' \in 0 .. FailureThreshold
    BY <1>3 DEF RecordFailure
  <2>2. opened' \in BOOLEAN /\ openedFor' \in 0 .. ResetTimeout /\ trialInFlight' \in BOOLEAN
    <3>1. CASE trialInFlight \/ failures + 1 >= FailureThreshold
      <4>1. openedFor' = 0
        BY <1>3, <3>1 DEF RecordFailure
      <4>2. opened' \in BOOLEAN /\ trialInFlight' \in BOOLEAN
        BY <1>3, <3>1, Zenon DEF RecordFailure
      <4>3. QED
        BY <4>1, <4>2
    <3>2. CASE ~(trialInFlight \/ failures + 1 >= FailureThreshold)
      BY <1>3, <3>2 DEF RecordFailure
    <3>3. QED
      BY <3>1, <3>2
  <2>3. QED
    BY <2>1, <2>2
<1>4. CASE ReleaseTrial
  BY <1>4 DEF ReleaseTrial
<1>5. CASE BreakerTick
  BY <1>5 DEF BreakerTick
<1>6. QED
  BY <1>1, <1>2, <1>3, <1>4, <1>5

(* Ending an attempt keeps the caller and the breaker well typed.          *)
LEMMA AfterResetType ==
  ASSUME TypeOK, NEW c \in Callers, AfterReset(c)
  PROVE  /\ BreakerType'
         /\ pc' \in [Callers -> {"idle", "locking", "opening", "calling", "closing", "sleeping"}]
         /\ attempt' \in [Callers -> 1 .. MaxAttempts]
         /\ left' \in [Callers -> Nat]
         /\ isTrial' \in [Callers -> BOOLEAN]
         /\ using' \in [Callers -> Sessions \cup {NoSession}]
         /\ \A d \in Callers : pc'[d] \in {"opening", "calling", "closing"} => using'[d] \in Sessions
         /\ \A d \in Callers : pc'[d] = "sleeping" => attempt'[d] < MaxAttempts
<1>0. BreakerType /\ 1 \in 1 .. MaxAttempts
  BY CallAssumption DEF TypeOK
<1>1. CASE attempt[c] < MaxAttempts
  BY <1>0, <1>1, CallAssumption, BreakerStepType DEF AfterReset, TypeOK, Goto
<1>2. CASE ~(attempt[c] < MaxAttempts)
  <2>1. RecordFailure /\ Return(c)
    BY <1>2 DEF AfterReset
  <2>2. BreakerType'
    BY <1>0, <2>1, BreakerStepType
  <2>3. QED
    BY <1>0, <2>1, <2>2 DEF TypeOK, Goto, Return
<1>3. QED
  BY <1>1, <1>2

(* Every step keeps every variable in its type.                            *)
LEMMA TypePreserved == TypeOK /\ [Next]_vars => TypeOK'
<1> SUFFICES ASSUME TypeOK, [Next]_vars PROVE TypeOK'
  OBVIOUS
<1> USE SessionAssumption, CallAssumption
<1>0. BreakerType /\ 1 \in 1 .. MaxAttempts
  BY DEF TypeOK
<1>1. ASSUME NEW c \in Callers, Begin(c) PROVE TypeOK'
  <2>1. BreakerType'
    BY <1>0, <1>1, BreakerStepType DEF Begin
  <2>2. QED
    BY <1>1, <2>1 DEF Begin, Goto, TypeOK
<1>2. ASSUME NEW c \in Callers, Acquire(c) PROVE TypeOK'
  <2>1. BreakerType'
    BY <1>0, <1>2, BreakerStepType DEF Acquire
  <2>2. QED
    BY <1>2, <2>1 DEF Acquire, Usable, Goto, TypeOK
<1>3. ASSUME NEW c \in Callers, Opened(c) PROVE TypeOK'
  <2>1. BreakerType'
    BY <1>0, <1>3, BreakerStepType DEF Opened
  <2>2. QED
    BY <1>3, <2>1 DEF Opened, Goto, TypeOK
<1>4. ASSUME NEW c \in Callers, Answered(c) PROVE TypeOK'
  <2>1. BreakerType'
    BY <1>0, <1>4, BreakerStepType DEF Answered
  <2>2. QED
    BY <1>0, <1>4, <2>1 DEF Answered, Goto, Return, TypeOK
<1>5. ASSUME NEW c \in Callers, AttemptFails(c) PROVE TypeOK'
  <2>1. sess' \in [Sessions -> {"opening", "open", "stopping", "closed", "failed"}]
    BY <1>5 DEF AttemptFails, Stopped, TypeOK
  <2>2. current' \in Sessions \cup {NoSession} /\ lock' \in Callers \cup {Nobody}
    BY <1>5 DEF AttemptFails, Unlock, TypeOK
  <2>3. CASE current = NoSession
    <3>1. AfterReset(c)
      BY <1>5, <2>3 DEF AttemptFails
    <3>2. QED
      BY <2>1, <2>2, <3>1, AfterResetType DEF TypeOK
  <2>4. CASE current # NoSession
    <3>1. BreakerType'
      BY <1>0, <1>5, <2>4, BreakerStepType DEF AttemptFails
    <3>2. QED
      BY <1>5, <2>1, <2>2, <2>4, <3>1 DEF AttemptFails, Goto, TypeOK
  <2>5. QED
    BY <2>3, <2>4
<1>6. ASSUME NEW c \in Callers, ResetReturns(c) PROVE TypeOK'
  <2>1. sess' \in [Sessions -> {"opening", "open", "stopping", "closed", "failed"}]
    BY <1>6 DEF ResetReturns, TypeOK
  <2>2. UNCHANGED <<current, lock>> /\ AfterReset(c)
    BY <1>6 DEF ResetReturns
  <2>3. QED
    BY <2>1, <2>2, AfterResetType DEF TypeOK
<1>7. ASSUME NEW c \in Callers, Retry(c) PROVE TypeOK'
  <2>1. BreakerType'
    BY <1>0, <1>7, BreakerStepType DEF Retry
  <2>2. QED
    BY <1>7, <2>1 DEF Retry, Goto, TypeOK
<1>8. ASSUME NEW c \in Callers, Cancel(c) PROVE TypeOK'
  <2>1. BreakerType'
    BY <1>0, <1>8, BreakerStepType DEF Cancel, GiveUp
  <2>2. QED
    BY <1>0, <1>8, <2>1 DEF Cancel, Stopped, Unlock, Goto, Return, TypeOK
<1>9. ASSUME NEW s \in Sessions, OwnerStep(s) PROVE TypeOK'
  <2>1. BreakerType'
    BY <1>0, <1>9, BreakerStepType DEF OwnerStep
  <2>2. QED
    BY <1>9, <2>1 DEF OwnerStep, Ready, OwnerEnds, TypeOK
<1>10. CASE Tick
  <2>1. BreakerType'
    BY <1>0, <1>10, BreakerStepType DEF Tick
  <2>2. QED
    BY <1>10, <2>1 DEF Tick, Running, TypeOK
<1>11. CASE UNCHANGED vars
  BY <1>11 DEF vars, TypeOK, BreakerType
<1>12. QED
  BY <1>1, <1>2, <1>3, <1>4, <1>5, <1>6, <1>7, <1>8, <1>9, <1>10, <1>11 DEF Next, CallStep

(* Every variable keeps its type: attempts stay within the retry budget     *)
(* (call_tool, RetryPolicy.max_attempts).                                   *)
THEOREM TypeCorrect == Spec => []TypeOK
<1>1. QED
  BY InitType, TypePreserved, PTL DEF Spec

-----------------------------------------------------------------------------
(* How long a call still takes.                                            *)

RoundsLeft(c) == (MaxAttempts - attempt[c]) * Round

Remaining(c) ==
  CASE pc[c] \in {"locking", "opening", "calling"} -> left[c] + CloseTimeout + MaxDelay + RoundsLeft(c)
    [] pc[c] = "closing" -> left[c] + MaxDelay + RoundsLeft(c)
    [] pc[c] = "sleeping" -> left[c] + RoundsLeft(c)
    [] OTHER -> 0

(* No call takes longer than CallMax, and one the breaker let through before *)
(* it opened is over that long after the opening.                           *)
OverInTime ==
  \A c \in Callers : Running(c) =>
    /\ Remaining(c) <= CallMax
    /\ opened /\ ~isTrial[c] => openedFor + Remaining(c) <= CallMax

(* The rounds left are a number, and each attempt uses one up.              *)
LEMMA Rounds ==
  /\ Round \in Nat /\ CallMax \in Nat
  /\ CallMax = Round + (MaxAttempts - 1) * Round
  /\ \A a \in 1 .. MaxAttempts :
       /\ (MaxAttempts - a) * Round \in Nat
       /\ a < MaxAttempts => (MaxAttempts - a) * Round = Round + (MaxAttempts - (a + 1)) * Round
<1> DEFINE R == Round
<1>1. R \in Nat
  BY CallAssumption DEF Round
<1>2. \A n \in Nat : n * R \in Nat /\ (n + 1) * R = R + n * R
  <2> HIDE DEF R
  <2> QED
    BY <1>1
<1>3. MaxAttempts - 1 \in Nat /\ MaxAttempts = (MaxAttempts - 1) + 1
  BY CallAssumption
<1>4. CallMax = R + (MaxAttempts - 1) * R /\ CallMax \in Nat
  <2>1. CallMax = ((MaxAttempts - 1) + 1) * R
    BY <1>3 DEF CallMax
  <2> HIDE DEF R
  <2>2. QED
    BY <2>1, <1>1, <1>2, <1>3
<1>5. ASSUME NEW a \in 1 .. MaxAttempts
      PROVE  /\ (MaxAttempts - a) * R \in Nat
             /\ a < MaxAttempts => (MaxAttempts - a) * R = R + (MaxAttempts - (a + 1)) * R
  <2>1. MaxAttempts - a \in Nat
    BY CallAssumption
  <2>2. ASSUME a < MaxAttempts
        PROVE MaxAttempts - (a + 1) \in Nat /\ MaxAttempts - a = (MaxAttempts - (a + 1)) + 1
    BY <2>2, CallAssumption
  <2> HIDE DEF R
  <2>3. QED
    BY <2>1, <2>2, <1>2
<1>6. QED
  BY <1>1, <1>4, <1>5

(* The remaining time is a number of ticks.                                 *)
LEMMA RemainingType ==
  ASSUME TypeOK, NEW c \in Callers
  PROVE  Remaining(c) \in Nat /\ RoundsLeft(c) \in Nat
<1>1. RoundsLeft(c) \in Nat
  BY Rounds DEF TypeOK, RoundsLeft
<1>2. left[c] \in Nat /\ CloseTimeout \in Nat /\ MaxDelay \in Nat
  BY CallAssumption DEF TypeOK
<1>3. QED
  BY <1>1, <1>2 DEF Remaining

(* What AfterReset does to the caller: it sleeps for at most the backoff, or *)
(* its call is over.                                                        *)
LEMMA AfterResetShape ==
  ASSUME TypeOK, NEW c \in Callers, AfterReset(c)
  PROVE  /\ \A d \in Callers \ {c} : /\ pc'[d] = pc[d] /\ left'[d] = left[d]
                                     /\ attempt'[d] = attempt[d] /\ isTrial'[d] = isTrial[d]
         /\ \/ /\ pc'[c] = "sleeping" /\ left'[c] \in 0 .. MaxDelay
               /\ UNCHANGED <<breaker, attempt, isTrial>>
            \/ pc'[c] = "idle" /\ ~isTrial'[c] /\ RecordFailure
<1>1. CASE attempt[c] < MaxAttempts
  BY <1>1 DEF AfterReset, Goto, TypeOK
<1>2. CASE ~(attempt[c] < MaxAttempts)
  <2>1. RecordFailure /\ Return(c)
    BY <1>2 DEF AfterReset
  <2>2. QED
    BY <2>1 DEF Return, Goto, TypeOK
<1>3. QED
  BY <1>1, <1>2

(* A step of one caller, as the breaker and the clocks see it: it begins a   *)
(* call, goes on with it, or ends it with a verdict or without one.         *)
Others(c) ==
  \A d \in Callers \ {c} : /\ pc'[d] = pc[d] /\ left'[d] = left[d]
                           /\ attempt'[d] = attempt[d] /\ isTrial'[d] = isTrial[d]
Begins(c) ==
  /\ ~Running(c) /\ Running(c)' /\ Remaining(c)' <= CallMax
  /\ BeforeCall(isTrial'[c])
GoesOn(c) ==
  /\ Running(c) /\ Running(c)' /\ Remaining(c)' <= Remaining(c)
  /\ UNCHANGED breaker /\ isTrial'[c] = isTrial[c]
Ends(c) ==
  /\ Running(c) /\ ~Running(c)'
  /\ RecordSuccess \/ RecordFailure \/ GiveUp(c)

(* Every step of a caller is one of the three.                              *)
LEMMA CallerView ==
  ASSUME TypeOK, TypeOK', NEW c \in Callers, CallStep(c)
  PROVE  Others(c) /\ (Begins(c) \/ GoesOn(c) \/ Ends(c))
<1> USE CallAssumption
<1>0. /\ left[c] \in Nat /\ left'[c] \in Nat /\ attempt[c] \in 1 .. MaxAttempts
      /\ CloseTimeout \in Nat /\ MaxDelay \in Nat /\ Timeout \in Nat
      /\ RoundsLeft(c) \in Nat /\ RoundsLeft(c)' \in Nat
      /\ pc[c] \in {"idle", "locking", "opening", "calling", "closing", "sleeping"}
  BY Rounds DEF TypeOK, RoundsLeft
<1>r. attempt' = attempt => RoundsLeft(c)' = RoundsLeft(c)
  BY DEF RoundsLeft
<1>1. CASE Begin(c)
  <2>1. pc[c] = "idle" /\ pc'[c] = "locking" /\ left'[c] = Timeout /\ attempt' = attempt
    BY <1>1 DEF Begin, Goto, TypeOK
  <2>2. RoundsLeft(c)' <= (MaxAttempts - 1) * Round
    <3>1. attempt[c] = 1 \/ attempt[c] > 1
      BY <1>0
    <3>2. Round \in Nat /\ MaxAttempts - attempt[c] \in Nat /\ MaxAttempts - attempt[c] <= MaxAttempts - 1
      BY <1>0, Rounds
    <3>3. \A m, n, r \in Nat : m <= n => m * r <= n * r
      BY SMT
    <3>4. QED
      BY <1>r, <2>1, <3>2, <3>3, CallAssumption DEF RoundsLeft
  <2>3. Remaining(c)' = Timeout + CloseTimeout + MaxDelay + RoundsLeft(c)'
    BY <2>1 DEF Remaining
  <2>4. Remaining(c)' <= CallMax
    <3>1. (MaxAttempts - 1) * Round \in Nat
      BY Rounds
    <3>2. QED
      BY <1>0, <2>2, <2>3, <3>1, Rounds DEF Round
  <2>5. Others(c) /\ BeforeCall(isTrial'[c])
    BY <1>1 DEF Begin, Goto, Others, TypeOK
  <2>6. QED
    BY <2>1, <2>4, <2>5 DEF Begins, Running
<1>2. CASE Acquire(c) \/ Opened(c)
  <2>1. /\ pc[c] \in {"locking", "opening"} /\ pc'[c] \in {"opening", "calling"}
        /\ left'[c] = left[c] /\ UNCHANGED <<breaker, attempt, isTrial>>
    BY <1>2 DEF Acquire, Opened, Goto, TypeOK
  <2>2. Remaining(c)' = Remaining(c)
    BY <2>1, <1>r DEF Remaining
  <2>3. Remaining(c) \in Nat
    BY RemainingType
  <2>4. Others(c)
    BY <1>2 DEF Acquire, Opened, Goto, TypeOK, Others
  <2>5. QED
    BY <2>1, <2>2, <2>3, <2>4 DEF GoesOn, Running
<1>3. CASE Answered(c)
  <2>1. pc[c] \in {"calling", "opening"} /\ pc'[c] = "idle" /\ RecordSuccess
    BY <1>3 DEF Answered, Return, Goto, TypeOK
  <2>2. Others(c)
    BY <1>3 DEF Answered, Return, Goto, TypeOK, Others
  <2>3. QED
    BY <2>1, <2>2 DEF Ends, Running
<1>4. ASSUME AfterReset(c), pc[c] \in {"locking", "opening", "calling", "closing"}
      PROVE  Others(c) /\ (GoesOn(c) \/ Ends(c))
  <2>1. Others(c)
    BY <1>4, AfterResetShape DEF Others
  <2>2. CASE pc'[c] = "idle" /\ RecordFailure
    BY <1>4, <2>1, <2>2 DEF Ends, Running
  <2>3. CASE /\ pc'[c] = "sleeping" /\ left'[c] \in 0 .. MaxDelay
             /\ UNCHANGED <<breaker, attempt, isTrial>>
    <3>1. Remaining(c)' = left'[c] + RoundsLeft(c)
      BY <1>r, <2>3 DEF Remaining
    <3>2. MaxDelay + RoundsLeft(c) <= Remaining(c)
      BY <1>0, <1>4 DEF Remaining
    <3>3. Remaining(c)' <= Remaining(c)
      BY <1>0, <2>3, <3>1, <3>2, RemainingType
    <3>4. QED
      BY <1>4, <2>1, <2>3, <3>3 DEF GoesOn, Running
  <2>4. QED
    BY <1>4, <2>2, <2>3, AfterResetShape
<1>5. CASE AttemptFails(c)
  <2>0. pc[c] \in {"locking", "opening", "calling"}
    BY <1>5 DEF AttemptFails
  <2>1. CASE current = NoSession
    BY <1>4, <1>5, <2>0, <2>1 DEF AttemptFails
  <2>2. CASE current # NoSession
    <3>1. /\ pc'[c] = "closing" /\ left'[c] = CloseTimeout
          /\ UNCHANGED <<breaker, attempt, isTrial>>
      BY <1>5, <2>2 DEF AttemptFails, Goto, TypeOK
    <3>2. Remaining(c)' = CloseTimeout + MaxDelay + RoundsLeft(c)
      BY <1>r, <3>1 DEF Remaining
    <3>3. Remaining(c) = left[c] + CloseTimeout + MaxDelay + RoundsLeft(c)
      BY <2>0 DEF Remaining
    <3>4. Remaining(c)' <= Remaining(c)
      BY <1>0, <3>2, <3>3
    <3>5. Others(c)
      BY <1>5, <2>2 DEF AttemptFails, Goto, TypeOK, Others
    <3>6. QED
      BY <2>0, <3>1, <3>4, <3>5 DEF GoesOn, Running
  <2>3. QED
    BY <2>1, <2>2
<1>6. CASE ResetReturns(c)
  BY <1>4, <1>6 DEF ResetReturns
<1>7. CASE Retry(c)
  <2>1. /\ pc[c] = "sleeping" /\ left[c] = 0 /\ pc'[c] = "locking" /\ left'[c] = Timeout
        /\ attempt'[c] = attempt[c] + 1 /\ UNCHANGED <<breaker, isTrial>>
    BY <1>7 DEF Retry, Goto, TypeOK
  <2>2. attempt[c] < MaxAttempts
    BY <2>1 DEF TypeOK
  <2>3. RoundsLeft(c) = Round + RoundsLeft(c)'
    BY <1>0, <2>1, <2>2, Rounds DEF RoundsLeft
  <2>4. /\ Remaining(c) = left[c] + RoundsLeft(c)
        /\ Remaining(c)' = Timeout + CloseTimeout + MaxDelay + RoundsLeft(c)'
    BY <2>1 DEF Remaining
  <2>5. Remaining(c)' <= Remaining(c)
    BY <1>0, <2>1, <2>3, <2>4 DEF Round
  <2>6. Others(c)
    BY <1>7 DEF Retry, Goto, TypeOK, Others
  <2>7. QED
    BY <2>1, <2>5, <2>6 DEF GoesOn, Running
<1>8. CASE Cancel(c)
  <2>1. pc[c] # "idle" /\ pc'[c] = "idle" /\ GiveUp(c)
    BY <1>8 DEF Cancel, Return, Goto, TypeOK
  <2>2. Others(c)
    BY <1>8 DEF Cancel, Return, Goto, TypeOK, Others
  <2>3. QED
    BY <2>1, <2>2 DEF Ends, Running
<1>9. QED
  BY <1>1, <1>2, <1>3, <1>5, <1>6, <1>7, <1>8 DEF CallStep

(* The time bound survives every step: the breaker lets a call that is no    *)
(* trial through only while it is closed, and every opening starts at zero. *)
LEMMA TimePreserved == TypeOK /\ TypeOK' /\ OverInTime /\ [Next]_vars => OverInTime'
<1> SUFFICES ASSUME TypeOK, TypeOK', OverInTime, [Next]_vars, NEW d \in Callers, Running(d)'
             PROVE  /\ Remaining(d)' <= CallMax
                    /\ opened' /\ ~isTrial'[d] => openedFor' + Remaining(d)' <= CallMax
  BY DEF OverInTime
<1>0. /\ Remaining(d) \in Nat /\ Remaining(d)' \in Nat /\ CallMax \in Nat
      /\ openedFor \in Nat /\ openedFor' \in Nat
  <2>1. RoundsLeft(d)' \in Nat
    BY Rounds DEF TypeOK, RoundsLeft
  <2>2. left'[d] \in Nat /\ CloseTimeout \in Nat /\ MaxDelay \in Nat
    BY CallAssumption DEF TypeOK
  <2>3. Remaining(d)' \in Nat
    BY <2>1, <2>2 DEF Remaining
  <2>4. openedFor \in Nat /\ openedFor' \in Nat
    BY BreakerAssumption DEF TypeOK, BreakerType
  <2>5. QED
    BY <2>3, <2>4, RemainingType, Rounds
<1>1. ASSUME NEW c \in Callers, CallStep(c)
      PROVE  /\ Remaining(d)' <= CallMax
             /\ opened' /\ ~isTrial'[d] => openedFor' + Remaining(d)' <= CallMax
  <2>0. Others(c) /\ (Begins(c) \/ GoesOn(c) \/ Ends(c))
    BY <1>1, CallerView
  <2>1. CASE c = d /\ Begins(c)
    BY <1>0, <2>1 DEF Begins, BeforeCall
  <2>2. \/ Remaining(d)' <= Remaining(d) /\ Running(d) /\ isTrial'[d] = isTrial[d]
        \/ c = d /\ Begins(c)
    <3>1. CASE c = d
      BY <2>0, <3>1 DEF GoesOn, Ends
    <3>2. CASE c # d
      <4>1. Remaining(d)' = Remaining(d) /\ Running(d)' = Running(d) /\ isTrial'[d] = isTrial[d]
        BY <2>0, <3>2 DEF Others, Remaining, RoundsLeft, Running
      <4>2. QED
        BY <1>0, <4>1
    <3>3. QED
      BY <3>1, <3>2
  <2>3. opened' => openedFor' = 0 \/ (opened /\ openedFor' = openedFor)
    BY <2>0 DEF Begins, GoesOn, Ends, BeforeCall, RecordSuccess, RecordFailure, GiveUp, ReleaseTrial
  <2>4. QED
    BY <1>0, <2>1, <2>2, <2>3 DEF OverInTime
<1>2. ASSUME NEW s \in Sessions, OwnerStep(s)
      PROVE  /\ Remaining(d)' <= CallMax
             /\ opened' /\ ~isTrial'[d] => openedFor' + Remaining(d)' <= CallMax
  BY <1>2 DEF OwnerStep, OverInTime, Running, Remaining, RoundsLeft
<1>3. CASE Tick
  <2>1. /\ Running(d) /\ left[d] > 0 /\ left'[d] = left[d] - 1
        /\ UNCHANGED <<pc, attempt, isTrial, opened>>
        /\ openedFor' \in {openedFor, openedFor + 1}
    BY <1>3 DEF Tick, BreakerTick, Running
  <2>2. Remaining(d)' = Remaining(d) - 1
    BY <2>1, RemainingType, CallAssumption DEF Remaining, RoundsLeft, Running, TypeOK
  <2>3. QED
    BY <1>0, <2>1, <2>2 DEF OverInTime
<1>4. CASE UNCHANGED vars
  BY <1>4 DEF vars, OverInTime, Running, Remaining, RoundsLeft
<1>5. QED
  BY <1>1, <1>2, <1>3, <1>4 DEF Next

Timed == TypeOK /\ OverInTime

(* The types and the time bound hold in every reachable state.              *)
LEMMA TimedInvariant == Spec => []Timed
<1>1. Init => Timed
  <2>1. Init => OverInTime
    BY DEF Init, OverInTime, Running
  <2>2. QED
    BY <2>1, InitType DEF Timed
<1>2. Timed /\ [Next]_vars => Timed'
  BY TypePreserved, TimePreserved DEF Timed
<1>3. QED
  BY <1>1, <1>2, PTL DEF Spec

(* "stop hammering a dead endpoint": CallMax after an opening only a trial   *)
(* is under way, whatever the timeouts (before_call, record_failure).        *)
THEOREM DeadEndpointLeftAlone == Spec => []EndpointLeftAlone
<1>1. Timed => EndpointLeftAlone
  <2> SUFFICES ASSUME Timed, opened, openedFor > CallMax, NEW c \in Callers, Running(c), ~isTrial[c]
               PROVE FALSE
    BY DEF EndpointLeftAlone
  <2>1. openedFor + Remaining(c) <= CallMax
    BY DEF Timed, OverInTime
  <2>2. Remaining(c) \in Nat /\ CallMax \in Nat /\ openedFor \in Nat
    BY RemainingType, Rounds, BreakerAssumption DEF Timed, TypeOK, BreakerType
  <2>3. QED
    BY <2>1, <2>2
<1>2. QED
  BY <1>1, TimedInvariant, PTL

-----------------------------------------------------------------------------
(* The half-open trial, when no call outlives the reset timeout.           *)

(* A trial runs alone, and exactly while the flag is set.                   *)
TrialAlone ==
  /\ trialInFlight => opened
  /\ trialInFlight => \E c \in Callers : Running(c) /\ isTrial[c]
  /\ \A c \in Callers : Running(c) /\ isTrial[c] =>
       trialInFlight /\ \A d \in Callers : Running(d) => d = c

(* A trial starts when all earlier calls are over, and only its own end      *)
(* clears the flag.                                                         *)
LEMMA TrialPreserved ==
  ASSUME CallMax < ResetTimeout
  PROVE  Timed /\ Timed' /\ TrialAlone /\ [Next]_vars => TrialAlone'
<1> SUFFICES ASSUME Timed, Timed', TrialAlone, [Next]_vars PROVE TrialAlone'
  OBVIOUS
<1>1. ASSUME NEW c \in Callers, CallStep(c) PROVE TrialAlone'
  <2>0. Others(c) /\ (Begins(c) \/ GoesOn(c) \/ Ends(c))
    BY <1>1, CallerView DEF Timed
  <2>o. \A d \in Callers \ {c} : Running(d)' = Running(d) /\ isTrial'[d] = isTrial[d]
    BY <2>0 DEF Others, Running
  <2>1. CASE Begins(c) /\ ~isTrial'[c]
    <3>1. ~opened /\ UNCHANGED breaker
      BY <2>1 DEF Begins, BeforeCall
    <3>2. QED
      BY <2>o, <2>1, <3>1 DEF TrialAlone
  <2>2. CASE Begins(c) /\ isTrial'[c]
    <3>1. /\ opened /\ openedFor >= ResetTimeout /\ ~trialInFlight
          /\ trialInFlight' /\ opened' /\ ~Running(c) /\ Running(c)'
      BY <2>2 DEF Begins, BeforeCall, HalfOpen
    <3>2. \A d \in Callers : ~Running(d)
      <4> SUFFICES ASSUME NEW d \in Callers, Running(d) PROVE FALSE
        OBVIOUS
      <4>1. ~isTrial[d]
        BY <3>1 DEF TrialAlone
      <4>2. openedFor + Remaining(d) <= CallMax
        BY <3>1, <4>1 DEF Timed, OverInTime
      <4>3. Remaining(d) \in Nat /\ CallMax \in Nat /\ openedFor \in Nat /\ ResetTimeout \in Nat
        BY RemainingType, Rounds, BreakerAssumption DEF Timed, TypeOK, BreakerType
      <4>4. QED
        BY <3>1, <4>2, <4>3
    <3>3. QED
      BY <2>o, <2>2, <3>1, <3>2 DEF TrialAlone
  <2>3. CASE GoesOn(c)
    BY <2>o, <2>3 DEF GoesOn, TrialAlone
  <2>4. CASE Ends(c)
    <3>1. Running(c) /\ ~Running(c)'
      BY <2>4 DEF Ends
    <3>2. CASE isTrial[c]
      <4>1. ~trialInFlight'
        BY <2>4, <3>2 DEF Ends, RecordSuccess, RecordFailure, GiveUp, ReleaseTrial
      <4>2. \A d \in Callers : ~Running(d)'
        BY <2>o, <3>1, <3>2 DEF TrialAlone
      <4>3. QED
        BY <4>1, <4>2 DEF TrialAlone
    <3>3. CASE ~isTrial[c]
      <4>1. \A d \in Callers : ~(Running(d) /\ isTrial[d])
        BY <3>1, <3>3 DEF TrialAlone
      <4>2. ~trialInFlight'
        BY <2>4, <3>3, <4>1 DEF Ends, RecordSuccess, RecordFailure, GiveUp, TrialAlone
      <4>3. QED
        BY <2>o, <3>1, <4>1, <4>2 DEF TrialAlone
    <3>4. QED
      BY <3>2, <3>3
  <2>5. QED
    BY <2>0, <2>1, <2>2, <2>3, <2>4
<1>2. ASSUME NEW s \in Sessions, OwnerStep(s) PROVE TrialAlone'
  BY <1>2 DEF OwnerStep, TrialAlone, Running
<1>3. CASE Tick
  BY <1>3 DEF Tick, BreakerTick, TrialAlone, Running
<1>4. CASE UNCHANGED vars
  BY <1>4 DEF vars, TrialAlone, Running
<1>5. QED
  BY <1>1, <1>2, <1>3, <1>4 DEF Next

(* "lets exactly one trial call through (half-open)", and never loses track  *)
(* of it: true of the breaker as long as the reset timeout is longer than    *)
(* any call (before_call, record_success, record_failure, release_trial).    *)
THEOREM OneTrial ==
  ASSUME CallMax < ResetTimeout
  PROVE  Spec => []ExactlyOneTrial
<1>1. Init => TrialAlone
  BY DEF Init, BreakerInit, TrialAlone, Running
<1>2. TrialAlone => ExactlyOneTrial
  <2> SUFFICES ASSUME TrialAlone PROVE ExactlyOneTrial
    OBVIOUS
  <2>1. trialInFlight <=> Trials # {}
    BY DEF TrialAlone, Trials
  <2>2. Trials = {} \/ \E c \in Callers : Trials = {c}
    BY DEF TrialAlone, Trials
  <2>3. Cardinality({}) = 0 /\ \A c \in Callers : Cardinality({c}) = 1
    BY FS_EmptySet, FS_Singleton
  <2>4. QED
    BY <2>1, <2>2, <2>3 DEF ExactlyOneTrial
<1>3. QED
  BY <1>1, <1>2, TimedInvariant, TrialPreserved, PTL DEF Spec

-----------------------------------------------------------------------------
(* One open session.                                                       *)

Live(s) == sess[s] \in {"opening", "open"}
NoOrphanSession == \A s \in Sessions : sess[s] \in {"opening", "open"} => s = current \/ (lock # Nobody /\ using[lock] = s)

(* The lock is held exactly by the caller that opens a session, and only     *)
(* while there is none to use; every open session is accounted for.         *)
Owned ==
  /\ \A c \in Callers : lock = c <=> pc[c] = "opening"
  /\ lock # Nobody => ~Usable
  /\ NoOrphanSession

(* No caller leaves an open session behind or opens a second one.           *)
LEMMA OwnedPreserved == TypeOK /\ TypeOK' /\ Owned /\ [Next]_vars => Owned'
<1> SUFFICES ASSUME TypeOK, TypeOK', Owned, [Next]_vars PROVE Owned'
  OBVIOUS
<1> USE SessionAssumption, CallAssumption
<1>0. /\ lock \in Callers \cup {Nobody} /\ current \in Sessions \cup {NoSession}
      /\ \A s \in Sessions : Live(s) => s = current \/ (lock # Nobody /\ using[lock] = s)
      /\ \A s \in Sessions : Live(s) => ~Done(s)
  BY DEF TypeOK, Owned, NoOrphanSession, Live, Done
<1>u. ASSUME NEW c \in Callers, pc[c] # "opening", lock' = lock, current' = current, sess' = sess,
             \A d \in Callers \ {c} : pc'[d] = pc[d] /\ using'[d] = using[d],
             pc'[c] # "opening"
      PROVE  Owned'
  <2>1. \A d \in Callers : lock' = d <=> pc'[d] = "opening"
    BY <1>u DEF Owned
  <2>2. lock' # Nobody => lock # Nobody /\ using'[lock'] = using[lock]
    BY <1>0, <1>u DEF Owned
  <2>3. NoOrphanSession'
    BY <1>0, <1>u, <2>2 DEF NoOrphanSession, Live
  <2>4. lock' # Nobody => ~Usable'
    BY <1>u, <2>2 DEF Owned, Usable, Done
  <2>5. QED
    BY <2>1, <2>3, <2>4 DEF Owned
<1>1. ASSUME NEW c \in Callers, Begin(c) \/ Retry(c) PROVE Owned'
  BY <1>1, <1>u DEF Begin, Retry, Goto, TypeOK
<1>2. ASSUME NEW c \in Callers, Acquire(c) PROVE Owned'
  <2>1. pc[c] = "locking" /\ lock = Nobody
    BY <1>2 DEF Acquire
  <2>2. CASE Usable
    BY <1>2, <1>u, <2>1, <2>2 DEF Acquire, Goto, TypeOK
  <2>3. CASE ~Usable
    <3>1. PICK s \in Sessions : /\ Unused(s) /\ sess' = [sess EXCEPT ![s] = "opening"]
                                /\ using' = [using EXCEPT ![c] = s]
      BY <1>2, <2>3 DEF Acquire
    <3>2. /\ lock' = c /\ current' = current /\ using'[c] = s /\ s # current
          /\ \A d \in Callers : pc'[d] = IF d = c THEN "opening" ELSE pc[d]
      BY <1>2, <2>3, <3>1 DEF Acquire, Unused, Goto, TypeOK
    <3>3. \A t \in Sessions : Live(t)' => t = s \/ Live(t)
      BY <3>1 DEF Live, TypeOK
    <3>4. \A t \in Sessions : Live(t) => FALSE
      BY <1>0, <2>1, <2>3 DEF Usable
    <3>5. NoOrphanSession'
      BY <3>2, <3>3, <3>4 DEF NoOrphanSession, Live
    <3>6. ~Usable'
      BY <1>0, <2>3, <3>1, <3>2 DEF Usable, Done, TypeOK
    <3>7. QED
      BY <2>1, <3>2, <3>5, <3>6 DEF Owned
  <2>4. QED
    BY <2>2, <2>3
<1>3. ASSUME NEW c \in Callers, Opened(c) PROVE Owned'
  <2>1. /\ lock = c /\ lock' = Nobody /\ current' = using[c] /\ sess' = sess
        /\ \A d \in Callers : pc'[d] = IF d = c THEN "calling" ELSE pc[d]
    BY <1>3 DEF Opened, Goto, TypeOK, Owned
  <2>2. NoOrphanSession'
    BY <1>0, <2>1 DEF NoOrphanSession, Owned, Usable, Live
  <2>3. QED
    BY <2>1, <2>2 DEF Owned
<1>4. ASSUME NEW c \in Callers, Answered(c) PROVE Owned'
  <2>1. /\ UNCHANGED <<sess, current>>
        /\ \A d \in Callers : pc'[d] = IF d = c THEN "idle" ELSE pc[d]
        /\ \A d \in Callers \ {c} : using'[d] = using[d]
    BY <1>4 DEF Answered, Return, Goto, TypeOK
  <2>2. CASE pc[c] = "calling" /\ UNCHANGED lock
    BY <1>u, <2>1, <2>2
  <2>3. CASE pc[c] = "opening" /\ sess[using[c]] = "failed" /\ lock' = Nobody
    <3>1. lock = c
      BY <2>3 DEF Owned
    <3>2. NoOrphanSession'
      BY <1>0, <2>1, <2>3, <3>1 DEF NoOrphanSession, Live
    <3>3. QED
      BY <2>1, <2>3, <3>1, <3>2 DEF Owned
  <2>4. QED
    BY <1>4, <2>2, <2>3 DEF Answered
<1>5. ASSUME NEW c \in Callers, AttemptFails(c) \/ Cancel(c) PROVE Owned'
  <2>1. /\ \A d \in Callers \ {c} : pc'[d] = pc[d] /\ using'[d] = using[d]
        /\ pc'[c] # "opening"
    BY <1>5 DEF AttemptFails, AfterReset, Cancel, Return, Goto, TypeOK
  <2>2. lock' = IF lock = c THEN Nobody ELSE lock
    BY <1>5 DEF AttemptFails, Cancel, Unlock
  <2>3. \A s \in Sessions : Live(s)' => Live(s) /\ s \notin Abandoned(c)
    BY <1>0, <1>5 DEF AttemptFails, Cancel, Stopped, Closing, Live
  <2>4. current' = current \/ (current' = NoSession /\ \A s \in Sessions : Live(s)' => s # current)
    BY <1>0, <1>5 DEF AttemptFails, Cancel, Stopped, Closing, Live
  <2>5. \A d \in Callers : lock' = d <=> pc'[d] = "opening"
    BY <2>1, <2>2 DEF Owned
  <2>6. NoOrphanSession'
    <3> SUFFICES ASSUME NEW s \in Sessions, Live(s)'
                 PROVE s = current' \/ (lock' # Nobody /\ using'[lock'] = s)
      BY DEF NoOrphanSession, Live
    <3>1. CASE s = current
      BY <2>4, <3>1
    <3>2. CASE s # current /\ lock # Nobody /\ using[lock] = s
      <4>1. lock # c
        BY <2>3, <3>2 DEF Abandoned, Owned
      <4>2. QED
        BY <1>0, <2>1, <2>2, <3>2, <4>1
    <3>3. QED
      BY <1>0, <2>3, <3>1, <3>2
  <2>7. lock' # Nobody => ~Usable'
    <3>1. ASSUME NEW s \in Sessions, Done(s) PROVE sess'[s] \in {"closed", "failed"}
      BY <1>5, <3>1 DEF AttemptFails, Cancel, Stopped, Done
    <3>2. QED
      BY <1>0, <2>2, <2>4, <3>1 DEF Owned, Usable, Done
  <2>8. QED
    BY <2>5, <2>6, <2>7 DEF Owned
<1>6. ASSUME NEW c \in Callers, ResetReturns(c) PROVE Owned'
  <2>1. /\ \A d \in Callers \ {c} : pc'[d] = pc[d] /\ using'[d] = using[d]
        /\ pc[c] = "closing" /\ pc'[c] # "opening" /\ UNCHANGED <<current, lock>>
    BY <1>6 DEF ResetReturns, AfterReset, Return, Goto, TypeOK
  <2>2. \A s \in Sessions : Done(s) => Done(s)'
    BY <1>6 DEF ResetReturns, Done, TypeOK
  <2>3. \A s \in Sessions : Live(s)' => Live(s)
    BY <1>6 DEF ResetReturns, Live, TypeOK
  <2>4. \A d \in Callers : lock' = d <=> pc'[d] = "opening"
    BY <2>1 DEF Owned
  <2>5. NoOrphanSession'
    BY <1>0, <2>1, <2>3, <2>4 DEF NoOrphanSession, Live
  <2>6. QED
    BY <1>0, <2>1, <2>2, <2>4, <2>5 DEF Owned, Usable, Done
<1>7. ASSUME NEW s \in Sessions, OwnerStep(s) PROVE Owned'
  <2>1. UNCHANGED <<pc, using, current, lock>> /\ \A t \in Sessions : (Live(t)' => Live(t)) /\ (Done(t) => Done(t)')
    BY <1>7 DEF OwnerStep, Ready, OwnerEnds, Live, Done, TypeOK
  <2>2. NoOrphanSession'
    BY <1>0, <2>1 DEF NoOrphanSession, Live
  <2>3. QED
    BY <1>0, <2>1, <2>2 DEF Owned, Usable, Done
<1>8. CASE Tick
  BY <1>8 DEF Tick, Owned, NoOrphanSession, Usable, Done
<1>9. CASE UNCHANGED vars
  BY <1>9 DEF vars, Owned, NoOrphanSession, Usable, Done
<1>10. QED
  BY <1>1, <1>2, <1>3, <1>4, <1>5, <1>6, <1>7, <1>8, <1>9 DEF Next, CallStep

(* "One session per endpoint": every open session is the current one or is   *)
(* being opened under the lock, and there is at most one (get, reset).       *)
THEOREM OneSession == Spec => []OneOpenSession
<1>1. Init => Owned
  BY SessionAssumption, CallAssumption DEF Init, SessionInit, Owned, NoOrphanSession, Usable
<1>2. TypeOK /\ Owned => OneOpenSession
  <2> SUFFICES ASSUME TypeOK, Owned PROVE OneOpenSession
    OBVIOUS
  <2> DEFINE Open == {s \in Sessions : sess[s] \in {"opening", "open"}}
  <2>0. \A s \in Open : Live(s) /\ ~Done(s) /\ (s = current \/ (lock # Nobody /\ using[lock] = s))
    BY DEF Owned, NoOrphanSession, Live, Done
  <2>1. \A s, t \in Open : s = t
    <3>1. CASE lock = Nobody
      BY <2>0, <3>1
    <3>2. CASE lock # Nobody
      BY <2>0, <3>2, SessionAssumption DEF Owned, Usable
    <3>3. QED
      BY <3>1, <3>2
  <2>2. Open = {} \/ \E s \in Sessions : Open = {s}
    BY <2>1
  <2>3. Cardinality({}) = 0 /\ \A s \in Sessions : Cardinality({s}) = 1
    BY FS_EmptySet, FS_Singleton
  <2>4. Cardinality(Open) <= 1
    BY <2>2, <2>3
  <2>5. \A s \in Open : Closable(s)
    BY <2>0 DEF Closable
  <2>6. QED
    BY <2>4, <2>5 DEF OneOpenSession
<1>3. QED
  BY <1>1, <1>2, TypeCorrect, OwnedPreserved, PTL DEF Spec
=============================================================================
