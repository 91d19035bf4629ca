---------------------------- MODULE EndpointClient ----------------------------
(***************************************************************************)
(* MCPEndpointClient.call_tool: concurrent callers (the agents of all the   *)
(* incidents in flight) of one telemetry endpoint, which share its circuit  *)
(* breaker and its session.  Each attempt is bounded by the timeout, each   *)
(* close of a session by a timeout of its own, each retry by its backoff.   *)
(***************************************************************************)
EXTENDS CircuitBreaker, EndpointSession, FiniteSets

CONSTANTS
  Callers,
  MaxAttempts,   \* retry.max_attempts
  Timeout,       \* timeout_seconds
  CloseTimeout,  \* the 2 s reset() waits for the owner task
  MaxDelay       \* the longest RetryPolicy.delay

ASSUME CallAssumption ==
  /\ MaxAttempts \in Nat \ {0} /\ Timeout \in Nat \ {0}
  /\ CloseTimeout \in Nat /\ MaxDelay \in Nat /\ Nobody \notin Callers

VARIABLES
  pc,        \* where each caller is suspended
  attempt,   \* its attempt
  left,      \* ticks before it stops waiting
  isTrial,   \* is_trial
  using      \* the session it opens, uses or closes

caller == <<pc, attempt, left, isTrial, using>>
vars == <<breaker, session, caller>>

Running(c) == pc[c] # "idle"
Trials == {c \in Callers : Running(c) /\ isTrial[c]}

\* The longest a call can take.
Round == Timeout + CloseTimeout + MaxDelay
CallMax == MaxAttempts * Round

Init ==
  /\ BreakerInit /\ SessionInit
  /\ pc = [c \in Callers |-> "idle"]
  /\ attempt = [c \in Callers |-> 1]
  /\ left = [c \in Callers |-> 0]
  /\ isTrial = [c \in Callers |-> FALSE]
  /\ using = [c \in Callers |-> NoSession]

Goto(c, stage, ticks) ==
  /\ pc' = [pc EXCEPT ![c] = stage]
  /\ left' = [left EXCEPT ![c] = ticks]

\* The call is over; the caller may make another one.
Return(c) ==
  /\ Goto(c, "idle", 0)
  /\ attempt' = [attempt EXCEPT ![c] = 1]
  /\ isTrial' = [isTrial EXCEPT ![c] = FALSE]
  /\ using' = [using EXCEPT ![c] = NoSession]

Begin(c) ==
  /\ pc[c] = "idle"
  /\ \E trial \in BOOLEAN :
       BeforeCall(trial) /\ isTrial' = [isTrial EXCEPT ![c] = trial]
  /\ Goto(c, "locking", Timeout)
  /\ UNCHANGED <<session, attempt, using>>

Unused(s) == Done(s) /\ s # current /\ \A c \in Callers : using[c] # s

\* _SessionOwner.get: under the lock, take the current session or open one.
Acquire(c) ==
  /\ pc[c] = "locking" /\ lock = Nobody
  /\ \/ /\ Usable
        /\ using' = [using EXCEPT ![c] = current]
        /\ Goto(c, "calling", left[c])
        /\ UNCHANGED session
     \/ /\ ~Usable
        /\ \E s \in {s \in Sessions : Unused(s)} :
             /\ sess' = [sess EXCEPT ![s] = "opening"]
             /\ using' = [using EXCEPT ![c] = s]
        /\ lock' = c
        /\ Goto(c, "opening", left[c])
        /\ UNCHANGED current
  /\ UNCHANGED <<breaker, attempt, isTrial>>

\* get: `client = await ready` returns; the task may have ended since.
Opened(c) ==
  /\ pc[c] = "opening" /\ sess[using[c]] \in {"open", "closed"}
  /\ current' = using[c] /\ lock' = Nobody
  /\ Goto(c, "calling", left[c])
  /\ UNCHANGED <<breaker, sess, attempt, isTrial, using>>

\* The endpoint answers, with a result or with an error of its own; or the
\* session could not be opened for a reason that is not the transport's.
Answered(c) ==
  /\ \/ pc[c] = "calling" /\ ~Done(using[c]) /\ UNCHANGED lock
     \/ pc[c] = "opening" /\ sess[using[c]] = "failed" /\ lock' = Nobody
  /\ RecordSuccess
  /\ Return(c)
  /\ UNCHANGED <<sess, current>>

\* What an attempt that is abandoned while it opens a session leaves behind.
Abandoned(c) == IF pc[c] = "opening" THEN {using[c]} ELSE {}
Unlock(c) == lock' = IF lock = c THEN Nobody ELSE lock

\* call_tool after reset(): another attempt, or the verdict.
Mut_AfterReset(c) ==
  IF attempt[c] <= MaxAttempts
  THEN /\ \E d \in 0 .. MaxDelay : Goto(c, "sleeping", d)
       /\ using' = [using EXCEPT ![c] = NoSession]
       /\ UNCHANGED <<breaker, attempt, isTrial>>
  ELSE RecordFailure /\ Return(c)
AfterReset(c) ==
  IF attempt[c] < MaxAttempts
  THEN /\ \E d \in 0 .. MaxDelay : Goto(c, "sleeping", d)
       /\ using' = [using EXCEPT ![c] = NoSession]
       /\ UNCHANGED <<breaker, attempt, isTrial>>
  ELSE RecordFailure /\ Return(c)

\* reset() stops whatever session is current, which need not be the one the
\* attempt failed on.
Mut_Closing(c) == Abandoned(c)
Closing(c) == Abandoned(c) \cup {current}

\* A transport error or the timeout ends the attempt, and reset() begins.
AttemptFails(c) ==
  /\ \/ pc[c] = "calling"
     \/ pc[c] = "opening" /\ sess[using[c]] = "failed"
     \/ pc[c] \in {"locking", "opening"} /\ left[c] = 0
  /\ sess' = Stopped(Closing(c))
  /\ current' = NoSession
  /\ Unlock(c)
  /\ IF current = NoSession
     THEN AfterReset(c)
     ELSE /\ Goto(c, "closing", CloseTimeout)
          /\ using' = [using EXCEPT ![c] = current]
          /\ UNCHANGED <<breaker, attempt, isTrial>>

\* reset() returns: the owner task ended, or it is cancelled because the wait
\* timed out or the caller was cancelled, which suppress(BaseException) hides.
ResetReturns(c) ==
  /\ pc[c] = "closing"
  /\ sess' = [sess EXCEPT ![using[c]] = IF Done(using[c]) THEN @ ELSE "closed"]
  /\ AfterReset(c)
  /\ UNCHANGED <<current, lock>>

Mut_Retry(c) ==
  /\ pc[c] = "sleeping" /\ left[c] = 0
  /\ Goto(c, "locking", Timeout)
  /\ UNCHANGED <<breaker, session, attempt, isTrial, using>>
Retry(c) ==
  /\ pc[c] = "sleeping" /\ left[c] = 0
  /\ attempt' = [attempt EXCEPT ![c] = @ + 1]
  /\ Goto(c, "locking", Timeout)
  /\ UNCHANGED <<breaker, session, isTrial, using>>

\* The `finally` of call_tool.
GiveUp(c) == IF isTrial[c] THEN ReleaseTrial ELSE UNCHANGED breaker

\* The caller is cancelled anywhere but in reset().
Cancel(c) ==
  /\ pc[c] \in {"locking", "opening", "calling", "sleeping"}
  /\ sess' = Stopped(Abandoned(c))
  /\ Unlock(c)
  /\ GiveUp(c)
  /\ Return(c)
  /\ UNCHANGED current

\* Time passes while every caller still waits for something.
Tick ==
  /\ \A c \in Callers : Running(c) => left[c] > 0
  /\ left' = [c \in Callers |-> IF Running(c) THEN left[c] - 1 ELSE left[c]]
  /\ BreakerTick
  /\ UNCHANGED <<session, pc, attempt, isTrial, using>>

CallStep(c) ==
  \/ Begin(c) \/ Acquire(c) \/ Opened(c) \/ Answered(c) \/ AttemptFails(c)
  \/ ResetReturns(c) \/ Retry(c) \/ Cancel(c)
OwnerStep(s) == (Ready(s) \/ OwnerEnds(s)) /\ UNCHANGED <<breaker, caller>>

Next ==
  \/ \E c \in Callers : CallStep(c)
  \/ \E s \in Sessions : OwnerStep(s)
  \/ Tick

Spec == Init /\ [][Next]_vars

\* Only finitely much happens in a tick (strong fairness of Tick would not say
\* so: two callers at the end of their backoff can hand the zero to each other).
\* Between calls the clients may rest for ever.
TimePasses == []<><<Tick>>_vars \/ []<>(\A c \in Callers : ~Running(c))

\* Time does not stop, and the event loop delivers timeouts; nothing is assumed
\* of the endpoint, the owner tasks or the lock.
FairSpec ==
  /\ Spec
  /\ TimePasses
  /\ \A c \in Callers :
       WF_vars(AttemptFails(c) /\ left[c] = 0) /\ WF_vars(ResetReturns(c)) /\ WF_vars(Retry(c))

-----------------------------------------------------------------------------
TypeOK ==
  /\ BreakerType
  /\ sess \in [Sessions -> {"opening", "open", "stopping", "closed", "failed"}]
  /\ current \in Sessions \cup {NoSession}
  /\ lock \in Callers \cup {Nobody}
  /\ pc \in [Callers -> {"idle", "locking", "opening", "calling", "closing", "sleeping"}]
  /\ attempt \in [Callers -> 1 .. MaxAttempts]
  /\ left \in [Callers -> Nat]
  /\ isTrial \in [Callers -> BOOLEAN]
  /\ using \in [Callers -> Sessions \cup {NoSession}]
  /\ \A c \in Callers : pc[c] \in {"opening", "calling", "closing"} => using[c] \in Sessions
  /\ \A c \in Callers : pc[c] = "sleeping" => attempt[c] < MaxAttempts

(* "lets exactly one trial call through (half-open)" (CircuitBreaker), and    *)
(* its flag is never left behind by a trial that was cancelled or timed out,  *)
(* which would shut the endpoint off for ever, nor cleared under a trial that *)
(* still runs (before_call, release_trial).                                  *)
ExactlyOneTrial == Cardinality(Trials) <= 1 /\ (trialInFlight <=> Trials # {})

(* "stop hammering a dead endpoint" (module docstring): once the calls that  *)
(* were under way when the breaker opened have ended, only a trial reaches   *)
(* the endpoint until a call succeeds (before_call, record_failure).         *)
EndpointLeftAlone ==
  opened /\ openedFor > CallMax => \A c \in Callers : Running(c) => isTrial[c]

\* The current session, or the one the holder of the lock is opening.
Closable(s) == s = current \/ (lock # Nobody /\ using[lock] = s)

(* "One session per endpoint": never two that nobody told to stop, though    *)
(* callers close sessions without the lock and give up while opening one; and *)
(* the open one can still be closed: it is the current session, or the one    *)
(* the holder of the lock is opening (_SessionOwner.get, reset).             *)
OneOpenSession ==
  LET open == {s \in Sessions : sess[s] \in {"opening", "open"}}
  IN Cardinality(open) <= 1 /\ \A s \in open : Closable(s)

(* Every call returns or raises, whatever the endpoint, its owner tasks and  *)
(* the other callers do (call_tool, _SessionOwner.get).                      *)
CallsEnd == \A c \in Callers : Running(c) ~> ~Running(c)
=============================================================================
