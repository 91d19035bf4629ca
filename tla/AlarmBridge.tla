----------------------------- MODULE AlarmBridge -----------------------------
(***************************************************************************)
(* The SQS -> POST /incidents bridge (ingestion/sqs_alarm_bridge.py) with  *)
(* its environment: the SQS queue (at-least-once, visibility timeout) and  *)
(* the webhook it POSTs to.                                                *)
(*                                                                         *)
(* The bridge is one coroutine: it polls, deletes what it ignores, decides *)
(* whether the burst is due, POSTs it and deletes the receipts.  A crash   *)
(* can fall between any two of these steps and takes the buffer, the       *)
(* receipts and the set of seen ids with it.  Time passes only where the   *)
(* coroutine is suspended in a long poll or in the POST.                   *)
(***************************************************************************)
EXTENDS Integers, FiniteSets

CONSTANTS
  Messages,     \* SQS messages
  Alarms,       \* EventBridge ids of events whose state is ALARM
  EventOf,      \* the alarm a message carries; NoAlarm for anything else
  NoAlarm,
  MaxBatch,     \* MaxNumberOfMessages of one receive_message
  Quiet,        \* quiet_seconds, in ticks
  MaxGroup,     \* max_group_seconds
  Retry,        \* RETRY_SECONDS, 30 in the code
  PollOpen,     \* WaitTimeSeconds while a burst is open
  PollIdle,     \* WaitTimeSeconds otherwise
  EarlyExpiry,  \* may the visibility timeout elapse while the bridge holds a message?
  MaxCrashes,   \* bound on crashes
  MaxLost       \* bound on POSTs that NetCortex serves but whose answer is lost

ASSUME EventOfAssumption == EventOf \in [Messages -> Alarms \cup {NoAlarm}] /\ NoAlarm \notin Alarms
ASSUME TimingAssumption ==
  /\ Quiet \in Nat /\ MaxGroup \in Nat /\ Retry \in Nat \ {0}
  /\ PollOpen \in Nat \ {0} /\ PollIdle \in Nat \ {0}
ASSUME BoundsAssumption ==
  MaxBatch \in Nat \ {0} /\ MaxCrashes \in Nat /\ MaxLost \in Nat /\ EarlyExpiry \in BOOLEAN

VARIABLES
  sqs,        \* where each message is
  pc,         \* what the bridge's coroutine is doing
  buffer,     \* _events, as the set of alarms they carry
  receipts,   \* _receipts, as the messages they belong to
  seen,       \* _seen_ids
  ignored,    \* receipts collected by the running poll_once for deletion
  age,        \* clock - _first, capped at MaxGroup
  still,      \* clock - _last, capped at Quiet
  backoff,    \* ticks until _retry_at
  wait,       \* ticks left of the long poll
  incidents,  \* incidents NetCortex opened for each alarm
  crashes, lost,
  overdue     \* history: ticks of polling since the burst became due

vars == <<sqs, pc, buffer, receipts, seen, ignored, age, still, backoff, wait,
          incidents, crashes, lost, overdue>>
memory == <<buffer, receipts, seen>>
clocks == <<age, still, backoff>>

MessagesOf(a) == {m \in Messages : EventOf[m] = a}
AlarmsIn(B) == {EventOf[m] : m \in B} \cap Alarms

\* SqsAlarmBridge.due
Due == buffer # {} /\ backoff = 0 /\ (still >= Quiet \/ age >= MaxGroup)

Init ==
  /\ sqs = [m \in Messages |-> "unsent"]
  /\ pc = "polling" /\ wait = PollIdle
  /\ buffer = {} /\ receipts = {} /\ seen = {} /\ ignored = {}
  /\ age = 0 /\ still = 0 /\ backoff = 0
  /\ incidents = [a \in Alarms |-> 0]
  /\ crashes = 0 /\ lost = 0 /\ overdue = 0

-----------------------------------------------------------------------------
(* The queue                                                               *)

Send(m) ==
  /\ sqs[m] = "unsent"
  /\ sqs' = [sqs EXCEPT ![m] = "visible"]
  /\ UNCHANGED <<pc, memory, ignored, clocks, wait, incidents, crashes, lost, overdue>>

Held == receipts \cup ignored

\* The visibility timeout of a received message elapses.
Expire(m) ==
  /\ sqs[m] = "inflight"
  /\ m \in Held => EarlyExpiry
  /\ sqs' = [sqs EXCEPT ![m] = "visible"]
  /\ UNCHANGED <<pc, memory, ignored, clocks, wait, incidents, crashes, lost, overdue>>

\* delete_message_batch may leave entries undeleted; _delete ignores "Failed".
Delete(R) ==
  \E D \in SUBSET R : sqs' = [m \in Messages |-> IF m \in D THEN "deleted" ELSE sqs[m]]

-----------------------------------------------------------------------------
(* The bridge                                                              *)

\* The loop of run(): the length of the next long poll.
Mut_PollAgain == wait' = PollIdle
PollAgain == wait' = IF buffer' # {} THEN PollOpen ELSE PollIdle

\* What poll_once deletes at once: all it does not buffer.
Mut_Ignored(batch, kept) == batch
Ignored(batch, kept) == batch \ kept

\* poll_once up to its first await after the receive.  Of the messages of one
\* batch that carry the same new alarm, the first in the batch is buffered.
Receive(batch, kept) ==
  LET fresh == AlarmsIn(batch) \ seen IN
  /\ pc = "polling"
  /\ batch # {} /\ Cardinality(batch) <= MaxBatch
  /\ \A m \in batch : sqs[m] = "visible"
  /\ kept \subseteq batch
  /\ AlarmsIn(kept) = fresh /\ \A m \in kept : EventOf[m] \in fresh
  /\ \A m, n \in kept : EventOf[m] = EventOf[n] => m = n
  /\ sqs' = [m \in Messages |-> IF m \in batch THEN "inflight" ELSE sqs[m]]
  /\ seen' = seen \cup fresh
  /\ buffer' = buffer \cup fresh
  /\ receipts' = receipts \cup kept
  /\ ignored' = Ignored(batch, kept)
  /\ age' = IF buffer = {} THEN 0 ELSE age
  /\ still' = IF fresh # {} THEN 0 ELSE still
  /\ pc' = IF ignored' = {} THEN "deciding" ELSE "deleting"
  /\ wait' = 0 /\ overdue' = 0
  /\ UNCHANGED <<backoff, incidents, crashes, lost>>

\* A long poll that received nothing.
ReceiveNothing ==
  /\ pc = "polling" /\ wait = 0
  /\ pc' = "deciding"
  /\ overdue' = 0
  /\ UNCHANGED <<sqs, memory, ignored, clocks, wait, incidents, crashes, lost>>

DeleteIgnored ==
  /\ pc = "deleting"
  /\ Delete(ignored)
  /\ ignored' = {}
  /\ pc' = "deciding"
  /\ UNCHANGED <<memory, clocks, wait, incidents, crashes, lost, overdue>>

Decide ==
  /\ pc = "deciding"
  /\ UNCHANGED memory
  /\ \/ Due /\ pc' = "posting" /\ UNCHANGED wait
     \/ ~Due /\ pc' = "polling" /\ PollAgain
  /\ UNCHANGED <<sqs, ignored, clocks, incidents, crashes, lost, overdue>>

OpenIncident == incidents' = [a \in Alarms |-> IF a \in buffer THEN incidents[a] + 1 ELSE incidents[a]]

\* flush: the POST succeeds.
PostSucceeds ==
  /\ pc = "posting"
  /\ OpenIncident
  /\ pc' = "answered"
  /\ UNCHANGED <<sqs, memory, ignored, clocks, wait, crashes, lost, overdue>>

\* A failed POST keeps the burst for the retry.
Mut_KeepBurst == buffer' = {} /\ receipts' = {} /\ seen' = seen
KeepBurst == UNCHANGED memory

\* flush: httpx.HTTPError.  The request may have been served all the same.
PostFails ==
  /\ pc = "posting"
  /\ \/ UNCHANGED <<incidents, lost>>
     \/ lost < MaxLost /\ lost' = lost + 1 /\ OpenIncident
  /\ KeepBurst
  /\ backoff' = Retry
  /\ pc' = "polling" /\ PollAgain
  /\ UNCHANGED <<sqs, ignored, age, still, crashes, overdue>>

\* flush: the buffer is emptied and the ids stay seen.
Mut_ClearBurstAndSeen == buffer' = {} /\ receipts' = {} /\ seen' = {}
ClearBurst == buffer' = {} /\ receipts' = {} /\ UNCHANGED seen

\* flush: the report is saved, the receipts are deleted.
Finish ==
  /\ pc = "answered"
  /\ Delete(receipts)
  /\ ClearBurst
  /\ backoff' = 0
  /\ pc' = "polling" /\ PollAgain
  /\ UNCHANGED <<ignored, age, still, incidents, crashes, lost, overdue>>

\* The process dies, or an exception escapes run(): SQS errors of poll_once,
\* resp.json(), writing the record, SQS errors of the final _delete.
Crash ==
  /\ pc # "down" /\ crashes < MaxCrashes
  /\ crashes' = crashes + 1
  /\ pc' = "down"
  /\ buffer' = {} /\ receipts' = {} /\ seen' = {} /\ ignored' = {}
  /\ age' = 0 /\ still' = 0 /\ backoff' = 0 /\ wait' = 0 /\ overdue' = 0
  /\ UNCHANGED <<sqs, incidents, lost>>

Restart ==
  /\ pc = "down"
  /\ pc' = "polling" /\ wait' = PollIdle
  /\ UNCHANGED <<sqs, memory, ignored, clocks, incidents, crashes, lost, overdue>>

UpTo(cap, n) == IF n < cap THEN n + 1 ELSE n

Tick ==
  /\ \/ /\ pc = "polling" /\ wait > 0
        /\ wait' = wait - 1
        /\ overdue' = IF Due THEN overdue + 1 ELSE 0
     \/ /\ pc = "posting"
        /\ UNCHANGED <<wait, overdue>>
  /\ age' = IF buffer = {} THEN age ELSE UpTo(MaxGroup, age)
  /\ still' = IF buffer = {} THEN still ELSE UpTo(Quiet, still)
  /\ backoff' = IF backoff > 0 THEN backoff - 1 ELSE 0
  /\ UNCHANGED <<sqs, pc, memory, ignored, incidents, crashes, lost>>

ReceiveSome == \E batch \in SUBSET Messages : \E kept \in SUBSET batch : Receive(batch, kept)

Next ==
  \/ \E m \in Messages : Send(m) \/ Expire(m)
  \/ ReceiveSome \/ ReceiveNothing \/ DeleteIgnored \/ Decide
  \/ PostSucceeds \/ PostFails \/ Finish
  \/ Crash \/ Restart \/ Tick

Spec == Init /\ [][Next]_vars

(* The coroutine keeps running and is restarted after a crash, SQS returns  *)
(* what is visible and lets invisible messages reappear, and a webhook that *)
(* is asked again and again answers in the end.  Deletion works in the end. *)
Progress ==
  /\ WF_vars(ReceiveNothing) /\ WF_vars(Decide) /\ WF_vars(Restart) /\ WF_vars(Tick)
  /\ WF_vars(DeleteIgnored) /\ WF_vars(Finish)
  /\ \A m \in Messages : WF_vars(Expire(m))
  /\ \A m \in Messages : SF_vars(ReceiveSome /\ sqs[m] = "visible" /\ sqs'[m] = "inflight")
  /\ SF_vars(PostSucceeds)
  /\ \A m \in Messages : SF_vars((DeleteIgnored \/ Finish) /\ m \in Held /\ sqs'[m] = "deleted")

FairSpec == Spec /\ Progress

-----------------------------------------------------------------------------
(* "Messages are deleted only after a successful POST" (module docstring):   *)
(* SQS holds a copy of an alarm until NetCortex has opened an incident.      *)
DeletedOnlyAfterPost ==
  \A a \in Alarms :
    MessagesOf(a) # {} /\ (\A m \in MessagesOf(a) : sqs[m] = "deleted") => incidents[a] > 0

(* Until the first crash an alarm is always somewhere: still in the queue,   *)
(* in the buffer, or in an incident, whatever the webhook and the visibility *)
(* timeout do (poll_once, flush).                                            *)
NoAlarmLost ==
  crashes = 0 => \A a \in Alarms :
    \/ MessagesOf(a) = {} \/ \E m \in MessagesOf(a) : sqs[m] # "deleted"
    \/ a \in buffer
    \/ incidents[a] > 0

(* Redelivered and duplicated messages open no second incident: only a       *)
(* crash (which forgets the seen ids) or a POST whose answer was lost can.   *)
DuplicatesAccountedFor == \A a \in Alarms : incidents[a] <= 1 + crashes + lost

(* "Short polls while a burst is open so it is flushed on time" (run): a due *)
(* burst waits less than one short poll before it is POSTed.                 *)
BurstFlushedOnTime == overdue < PollOpen

(* Every alarm sent ends up in an incident, through webhook outages, crashes *)
(* and redeliveries, and no message circulates for ever: noise, duplicates   *)
(* and reported alarms leave the queue (poll_once, flush).                   *)
EveryAlarmPosted ==
  /\ \A a \in Alarms : (\E m \in MessagesOf(a) : sqs[m] = "visible") ~> incidents[a] > 0
  /\ \A m \in Messages : sqs[m] = "visible" ~> sqs[m] = "deleted"
=============================================================================
