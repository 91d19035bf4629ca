-------------------------- MODULE AlarmBridge_proofs --------------------------
(***************************************************************************)
(* Proofs about AlarmBridge, for every set of messages and alarms, every   *)
(* timing and every number of crashes, outages and lost answers.           *)
(*                                                                         *)
(* The argument: an id the bridge has seen is either buffered or reported  *)
(* (SeenIsKept).  With a visibility timeout longer than any hold, each     *)
(* buffered alarm keeps its message in flight (HeldIsInFlight), so no      *)
(* deletion of ignored copies can remove the last one.                     *)
(***************************************************************************)
EXTENDS AlarmBridge, TLAPS

USE DEF memory, clocks

Reported(a) == incidents[a] > 0

(* The part of the types the invariants below rest on.                     *)
Shape ==
  /\ sqs \in [Messages -> {"unsent", "visible", "inflight", "deleted"}]
  /\ buffer \subseteq seen /\ seen \subseteq Alarms
  /\ receipts \subseteq Messages /\ ignored \subseteq Messages
  /\ \A m \in receipts : EventOf[m] \in buffer
  /\ \A a \in buffer : \E m \in receipts : EventOf[m] = a
  /\ incidents \in [Alarms -> Nat]
  /\ crashes \in Nat /\ lost \in Nat

(* Every id the bridge has seen is buffered or reported; after the answer   *)
(* to a POST all it buffers is reported.                                    *)
SeenIsKept ==
  /\ \A a \in seen : a \in buffer \/ Reported(a)
  /\ pc = "answered" => \A a \in buffer : Reported(a)

(* What poll_once is about to delete is noise or something already seen.    *)
IgnoredIsSeen == \A m \in ignored : EventOf[m] \in Alarms => EventOf[m] \in seen

Core == Shape /\ SeenIsKept /\ IgnoredIsSeen

(* The initial state satisfies the common part of the invariants.           *)
LEMMA InitCore == Init => Core
  BY EventOfAssumption DEF Init, Core, Shape, SeenIsKept, IgnoredIsSeen, Reported

(* Opening an incident for the buffer counts up its alarms and no others.   *)
LEMMA OpenIncidentCounts ==
  ASSUME Shape, OpenIncident
  PROVE  /\ incidents' \in [Alarms -> Nat]
         /\ \A a \in buffer : incidents'[a] = incidents[a] + 1
         /\ \A a \in Alarms \ buffer : incidents'[a] = incidents[a]
  BY DEF Shape, OpenIncident

(* A partial deletion touches only the receipts it was given.               *)
LEMMA DeleteOnlyThose ==
  ASSUME Shape, NEW R \in SUBSET Messages, Delete(R)
  PROVE  /\ sqs' \in [Messages -> {"unsent", "visible", "inflight", "deleted"}]
         /\ \A m \in Messages \ R : sqs'[m] = sqs[m]
         /\ \A m \in R : sqs'[m] \in {sqs[m], "deleted"}
  BY DEF Shape, Delete

(* Every step keeps the common part of the invariants.                      *)
LEMMA CorePreserved == Core /\ [Next]_vars => Core'
<1> SUFFICES ASSUME Core, [Next]_vars PROVE Core'
  OBVIOUS
<1> USE EventOfAssumption DEF Core, Shape, SeenIsKept, IgnoredIsSeen, Reported
<1>1. ASSUME NEW m \in Messages, Send(m) \/ Expire(m) PROVE Core'
  BY <1>1 DEF Send, Expire
<1>2. ASSUME NEW batch \in SUBSET Messages, NEW kept \in SUBSET batch, Receive(batch, kept) PROVE Core'
  <2> DEFINE fresh == AlarmsIn(batch) \ seen
  <2>0. fresh \subseteq Alarms
    BY DEF AlarmsIn
  <2>1. Shape'
    <3>1. \A a \in fresh : \E m \in kept : EventOf[m] = a
      BY <1>2 DEF Receive, AlarmsIn
    <3>2. sqs' \in [Messages -> {"unsent", "visible", "inflight", "deleted"}]
      BY <1>2 DEF Receive
    <3>3. /\ buffer' \subseteq seen' /\ seen' \subseteq Alarms
          /\ receipts' \subseteq Messages
      BY <1>2, <2>0 DEF Receive
    <3>4. ignored' \subseteq Messages
      BY <1>2 DEF Receive, Ignored
    <3>5. \A m \in receipts' : EventOf[m] \in buffer'
      BY <1>2, <2>0 DEF Receive
    <3>6. \A a \in buffer' : \E m \in receipts' : EventOf[m] = a
      <4> SUFFICES ASSUME NEW a \in buffer' PROVE \E m \in receipts' : EventOf[m] = a
        OBVIOUS
      <4>1. CASE a \in buffer
        BY <1>2, <4>1 DEF Receive
      <4>2. CASE a \in fresh
        BY <1>2, <3>1, <4>2 DEF Receive
      <4>3. QED
        BY <1>2, <4>1, <4>2 DEF Receive
    <3>7. UNCHANGED <<incidents, crashes, lost>>
      BY <1>2 DEF Receive
    <3>8. QED
      BY <3>2, <3>3, <3>4, <3>5, <3>6, <3>7
  <2>2. SeenIsKept'
    BY <1>2, <2>0 DEF Receive
  <2>3. IgnoredIsSeen'
    BY <1>2 DEF Receive, Ignored, AlarmsIn
  <2>4. QED
    BY <2>1, <2>2, <2>3
<1>3. CASE ReceiveNothing \/ Decide \/ Restart \/ Tick
  BY <1>3 DEF ReceiveNothing, Decide, Restart, Tick
<1>4. CASE DeleteIgnored
  BY <1>4, DeleteOnlyThose DEF DeleteIgnored
<1>5. CASE PostSucceeds
  BY <1>5, OpenIncidentCounts DEF PostSucceeds
<1>6. CASE PostFails
  BY <1>6, OpenIncidentCounts DEF PostFails, KeepBurst
<1>7. CASE Finish
  BY <1>7, DeleteOnlyThose DEF Finish, ClearBurst
<1>8. CASE Crash
  BY <1>8 DEF Crash
<1>9. CASE UNCHANGED vars
  BY <1>9 DEF vars
<1>10. QED
  BY <1>1, <1>2, <1>3, <1>4, <1>5, <1>6, <1>7, <1>8, <1>9 DEF Next, ReceiveSome

(* The common part holds in every reachable state.                         *)
LEMMA CoreInvariant == Spec => []Core
<1>1. QED
  BY InitCore, CorePreserved, PTL DEF Spec

-----------------------------------------------------------------------------
(* Deletion only after a successful POST.                                  *)

(* What the bridge holds is in flight, and no message is held twice.       *)
HeldIsInFlight ==
  /\ \A m \in receipts \cup ignored : sqs[m] = "inflight"
  /\ receipts \cap ignored = {}

(* The inductive form of DeletedOnlyAfterPost.                             *)
Safe == Core /\ HeldIsInFlight /\ DeletedOnlyAfterPost

(* The initial state deletes nothing.                                      *)
LEMMA InitSafe == Init => Safe
  BY InitCore DEF Init, Safe, HeldIsInFlight, DeletedOnlyAfterPost, MessagesOf

(* With no early expiry a step keeps a held message in flight, and deletes  *)
(* the last copy of an alarm only when it has been reported.                *)
LEMMA SafePreserved ==
  ASSUME ~EarlyExpiry PROVE Safe /\ [Next]_vars => Safe'
<1> SUFFICES ASSUME Safe, [Next]_vars PROVE Safe'
  OBVIOUS
<1> USE EventOfAssumption DEF Safe
<1>0. Core'
  BY CorePreserved
<1>s. Shape /\ SeenIsKept /\ IgnoredIsSeen /\ HeldIsInFlight /\ DeletedOnlyAfterPost
  BY DEF Core
<1> DEFINE Kept(a) == \E m \in MessagesOf(a) : sqs[m] # "deleted"
<1>d. ASSUME NEW a \in Alarms, MessagesOf(a) # {} PROVE Kept(a) \/ Reported(a)
  BY <1>s, <1>d DEF DeletedOnlyAfterPost, Reported
<1>q. ASSUME \A a \in Alarms : MessagesOf(a) # {} => Kept(a)' \/ Reported(a)'
      PROVE DeletedOnlyAfterPost'
  BY <1>q DEF DeletedOnlyAfterPost, Reported, MessagesOf
<1>u. ASSUME \A m \in Messages : sqs'[m] = "deleted" => sqs[m] = "deleted",
             \A a \in Alarms : Reported(a) => Reported(a)'
      PROVE DeletedOnlyAfterPost'
  BY <1>u, <1>d, <1>q DEF MessagesOf
<1>1. ASSUME NEW m \in Messages, Send(m) \/ Expire(m) PROVE Safe'
  <2>1. HeldIsInFlight'
    BY <1>1, <1>s DEF Send, Expire, Held, HeldIsInFlight, Shape
  <2>2. DeletedOnlyAfterPost'
    BY <1>1, <1>s, <1>u DEF Send, Expire, Reported, Shape
  <2>3. QED
    BY <1>0, <2>1, <2>2
<1>2. ASSUME NEW batch \in SUBSET Messages, NEW kept \in SUBSET batch, Receive(batch, kept) PROVE Safe'
  <2>0. /\ receipts' = receipts \cup kept /\ ignored' = batch \ kept
        /\ \A m \in batch : sqs[m] = "visible"
        /\ sqs' = [m \in Messages |-> IF m \in batch THEN "inflight" ELSE sqs[m]]
        /\ incidents' = incidents
    BY <1>2 DEF Receive, Ignored
  <2>1. \A m \in receipts : m \notin batch /\ sqs[m] = "inflight" /\ m \in Messages
    BY <1>s, <2>0 DEF HeldIsInFlight, Shape
  <2>2. HeldIsInFlight'
    BY <2>0, <2>1 DEF HeldIsInFlight
  <2>3. DeletedOnlyAfterPost'
    BY <2>0, <1>u DEF Reported
  <2>4. QED
    BY <1>0, <2>2, <2>3
<1>3. CASE ReceiveNothing \/ Decide \/ Restart \/ Tick
  <2>1. UNCHANGED <<sqs, receipts, ignored, incidents>>
    BY <1>3 DEF ReceiveNothing, Decide, Restart, Tick
  <2>2. HeldIsInFlight'
    BY <1>s, <2>1 DEF HeldIsInFlight
  <2>3. DeletedOnlyAfterPost'
    BY <2>1, <1>u DEF Reported
  <2>4. QED
    BY <1>0, <2>2, <2>3
<1>4. CASE DeleteIgnored
  <2>0. /\ UNCHANGED <<receipts, incidents>> /\ ignored' = {}
        /\ \A m \in Messages \ ignored : sqs'[m] = sqs[m]
    BY <1>4, <1>s, DeleteOnlyThose DEF DeleteIgnored, Shape
  <2>1. HeldIsInFlight'
    BY <1>s, <2>0 DEF HeldIsInFlight, Shape
  <2>2. ASSUME NEW a \in Alarms, MessagesOf(a) # {} PROVE Kept(a)' \/ Reported(a)'
    <3>1. CASE Reported(a)
      BY <3>1, <2>0 DEF Reported
    <3>2. CASE a \in buffer
      <4>1. PICK m \in receipts : EventOf[m] = a
        BY <3>2, <1>s DEF Shape
      <4>2. m \in Messages \ ignored /\ sqs[m] = "inflight"
        BY <1>s, <4>1 DEF HeldIsInFlight, Shape
      <4>3. QED
        BY <4>1, <4>2, <2>0 DEF MessagesOf
    <3>3. CASE ~Reported(a) /\ a \notin buffer
      <4>1. \A m \in MessagesOf(a) : m \in Messages \ ignored
        BY <3>3, <1>s DEF SeenIsKept, IgnoredIsSeen, MessagesOf
      <4>2. PICK m \in MessagesOf(a) : sqs[m] # "deleted"
        BY <1>d, <2>2, <3>3
      <4>3. QED
        BY <4>1, <4>2, <2>0 DEF MessagesOf
    <3>4. QED
      BY <3>1, <3>2, <3>3
  <2>3. QED
    BY <1>0, <2>1, <2>2, <1>q
<1>5. CASE PostSucceeds \/ PostFails
  <2>1. UNCHANGED <<sqs, receipts, ignored>>
    BY <1>5 DEF PostSucceeds, PostFails, KeepBurst
  <2>2. \A a \in Alarms : Reported(a) => Reported(a)'
    BY <1>5, <1>s, OpenIncidentCounts DEF PostSucceeds, PostFails, Reported, Shape
  <2>3. HeldIsInFlight'
    BY <1>s, <2>1 DEF HeldIsInFlight
  <2>4. QED
    BY <1>0, <2>1, <2>2, <2>3, <1>u
<1>6. CASE Finish
  <2>0. /\ UNCHANGED <<ignored, incidents>> /\ receipts' = {} /\ pc = "answered"
        /\ \A m \in Messages \ receipts : sqs'[m] = sqs[m]
    BY <1>6, <1>s, DeleteOnlyThose DEF Finish, ClearBurst, Shape
  <2>1. HeldIsInFlight'
    BY <1>s, <2>0 DEF HeldIsInFlight, Shape
  <2>2. ASSUME NEW a \in Alarms, MessagesOf(a) # {} PROVE Kept(a)' \/ Reported(a)'
    <3>1. CASE Reported(a)
      BY <3>1, <2>0 DEF Reported
    <3>2. CASE ~Reported(a)
      <4>1. \A m \in MessagesOf(a) : m \in Messages \ receipts
        BY <3>2, <2>0, <1>s DEF SeenIsKept, Shape, MessagesOf
      <4>2. PICK m \in MessagesOf(a) : sqs[m] # "deleted"
        BY <1>d, <2>2, <3>2
      <4>3. QED
        BY <4>1, <4>2, <2>0 DEF MessagesOf
    <3>3. QED
      BY <3>1, <3>2
  <2>3. QED
    BY <1>0, <2>1, <2>2, <1>q
<1>7. CASE Crash
  <2>1. UNCHANGED <<sqs, incidents>> /\ receipts' = {} /\ ignored' = {}
    BY <1>7 DEF Crash
  <2>2. HeldIsInFlight'
    BY <2>1 DEF HeldIsInFlight
  <2>3. QED
    BY <1>0, <2>1, <2>2, <1>u DEF Reported
<1>8. CASE UNCHANGED vars
  BY <1>8, <1>0, <1>s DEF vars, HeldIsInFlight, DeletedOnlyAfterPost, MessagesOf
<1>9. QED
  BY <1>1, <1>2, <1>3, <1>4, <1>5, <1>6, <1>7, <1>8 DEF Next, ReceiveSome

(* "Messages are deleted only after a successful POST": true of the code as  *)
(* long as SQS never returns a message the bridge still holds (poll_once).   *)
THEOREM DeletionSafe ==
  ASSUME ~EarlyExpiry PROVE Spec => []DeletedOnlyAfterPost
<1>1. Safe => DeletedOnlyAfterPost
  BY DEF Safe
<1>2. QED
  BY <1>1, InitSafe, SafePreserved, PTL DEF Spec

-----------------------------------------------------------------------------
(* Nothing is lost before a crash, whatever the visibility timeout.          *)

(* A message leaves the queue only after its alarm has been seen.           *)
DeletedIsSeen ==
  \A m \in Messages : sqs[m] = "deleted" /\ EventOf[m] \in Alarms => EventOf[m] \in seen

Lossless == Core /\ crashes \in Nat /\ (crashes = 0 => DeletedIsSeen)

(* Without a crash nothing is forgotten, so what is deleted stays seen.     *)
LEMMA LosslessPreserved == Lossless /\ [Next]_vars => Lossless'
<1> SUFFICES ASSUME Lossless, [Next]_vars PROVE Lossless'
  OBVIOUS
<1> USE EventOfAssumption DEF Lossless
<1>0. Core' /\ Shape /\ SeenIsKept /\ IgnoredIsSeen /\ crashes \in Nat /\ (crashes = 0 => DeletedIsSeen)
  BY CorePreserved DEF Core
<1>1. ASSUME NEW m \in Messages, Send(m) \/ Expire(m) PROVE Lossless'
  BY <1>0, <1>1 DEF Send, Expire, DeletedIsSeen, Shape
<1>2. ASSUME NEW batch \in SUBSET Messages, NEW kept \in SUBSET batch, Receive(batch, kept) PROVE Lossless'
  <2>1. /\ crashes' = crashes /\ seen \subseteq seen'
        /\ sqs' = [m \in Messages |-> IF m \in batch THEN "inflight" ELSE sqs[m]]
    BY <1>2 DEF Receive
  <2>2. QED
    BY <1>0, <2>1 DEF DeletedIsSeen
<1>3. CASE ReceiveNothing \/ Decide \/ Restart \/ Tick \/ PostSucceeds \/ PostFails
  <2>1. UNCHANGED <<sqs, seen, crashes>>
    BY <1>3 DEF ReceiveNothing, Decide, Restart, Tick, PostSucceeds, PostFails, KeepBurst
  <2>2. QED
    BY <1>0, <2>1 DEF DeletedIsSeen
<1>4. CASE DeleteIgnored
  <2>1. UNCHANGED <<seen, crashes>> /\ \A m \in Messages \ ignored : sqs'[m] = sqs[m]
    BY <1>4, <1>0, DeleteOnlyThose DEF DeleteIgnored, Shape
  <2>2. QED
    BY <1>0, <2>1 DEF DeletedIsSeen, IgnoredIsSeen
<1>5. CASE Finish
  <2>1. UNCHANGED <<seen, crashes>> /\ \A m \in Messages \ receipts : sqs'[m] = sqs[m]
    BY <1>5, <1>0, DeleteOnlyThose DEF Finish, ClearBurst, Shape
  <2>2. QED
    BY <1>0, <2>1 DEF DeletedIsSeen, Shape
<1>6. CASE Crash
  <2>1. crashes' = crashes + 1
    BY <1>6 DEF Crash
  <2>2. crashes' \in Nat /\ crashes' # 0
    BY <2>1, <1>0
  <2>3. QED
    BY <1>0, <2>2
<1>7. CASE UNCHANGED vars
  BY <1>0, <1>7 DEF vars, DeletedIsSeen
<1>8. QED
  BY <1>1, <1>2, <1>3, <1>4, <1>5, <1>6, <1>7 DEF Next, ReceiveSome

(* Until it is killed a bridge keeps every alarm in the queue, in its buffer *)
(* or in an incident, even when messages it holds are redelivered            *)
(* (poll_once, flush).                                                       *)
THEOREM NothingLost == Spec => []NoAlarmLost
<1>1. Init => Lossless
  BY InitCore DEF Init, Lossless, DeletedIsSeen
<1>2. Lossless => NoAlarmLost
  BY DEF Lossless, Core, SeenIsKept, DeletedIsSeen, NoAlarmLost, MessagesOf, Reported
<1>3. QED
  BY <1>1, <1>2, LosslessPreserved, PTL DEF Spec

-----------------------------------------------------------------------------
(* Duplicates.                                                             *)

(* An alarm of the current lifetime of the bridge that has been answered.   *)
Answered(a) == a \in seen /\ (a \notin buffer \/ pc = "answered")

(* Each incident of an alarm is paid for by a crash, by a lost answer, or by *)
(* the one answer the bridge remembers.                                     *)
IncidentsPaid ==
  \A a \in Alarms : incidents[a] <= crashes + lost + (IF Answered(a) THEN 1 ELSE 0)

Paid == Core /\ IncidentsPaid

(* Every step keeps the account of the incidents balanced.                  *)
LEMMA PaidPreserved == Paid /\ [Next]_vars => Paid'
<1> SUFFICES ASSUME Paid, [Next]_vars PROVE Paid'
  OBVIOUS
<1> USE EventOfAssumption DEF Paid
<1>0. Core' /\ Shape /\ IncidentsPaid
  BY CorePreserved DEF Core
<1>n. \A a \in Alarms : incidents[a] \in Nat /\ incidents'[a] \in Nat
  BY <1>0 DEF Core, Shape
<1>c. crashes \in Nat /\ lost \in Nat /\ crashes' \in Nat /\ lost' \in Nat
  BY <1>0 DEF Core, Shape
<1>u. ASSUME UNCHANGED <<incidents, crashes, lost>>,
             \A a \in Alarms : Answered(a) => Answered(a)'
      PROVE IncidentsPaid'
  BY <1>0, <1>n, <1>c, <1>u DEF IncidentsPaid
<1>1. ASSUME NEW m \in Messages, Send(m) \/ Expire(m) PROVE Paid'
  BY <1>0, <1>1, <1>u DEF Send, Expire, Answered
<1>2. ASSUME NEW batch \in SUBSET Messages, NEW kept \in SUBSET batch, Receive(batch, kept) PROVE Paid'
  <2>1. /\ UNCHANGED <<incidents, crashes, lost>> /\ pc = "polling"
        /\ seen \subseteq seen' /\ buffer' \cap seen \subseteq buffer
    BY <1>2 DEF Receive
  <2>2. QED
    BY <1>0, <2>1, <1>u DEF Answered
<1>3. CASE ReceiveNothing \/ Decide \/ Restart \/ Tick \/ DeleteIgnored
  <2>1. UNCHANGED <<incidents, crashes, lost, seen, buffer>> /\ (pc = "answered" => pc' = pc)
    BY <1>3 DEF ReceiveNothing, Decide, Restart, Tick, DeleteIgnored
  <2>2. QED
    BY <1>0, <2>1, <1>u DEF Answered
<1>4. CASE PostSucceeds
  <2>1. /\ UNCHANGED <<crashes, lost, seen, buffer>> /\ pc = "posting" /\ pc' = "answered"
        /\ \A a \in buffer : incidents'[a] = incidents[a] + 1
        /\ \A a \in Alarms \ buffer : incidents'[a] = incidents[a]
    BY <1>4, <1>0, OpenIncidentCounts DEF PostSucceeds
  <2>2. IncidentsPaid'
    BY <1>0, <1>n, <1>c, <2>1 DEF IncidentsPaid, Answered, Shape
  <2>3. QED
    BY <1>0, <2>2
<1>5. CASE PostFails
  <2>1. UNCHANGED <<crashes, seen, buffer>> /\ pc = "posting" /\ pc' = "polling"
    BY <1>5 DEF PostFails, KeepBurst
  <2>2. CASE UNCHANGED <<incidents, lost>>
    BY <1>0, <1>u, <2>1, <2>2 DEF Answered
  <2>3. CASE lost' = lost + 1 /\ OpenIncident
    <3>1. \A a \in Alarms : incidents'[a] <= incidents[a] + 1
      BY <1>0, <1>n, <2>3, OpenIncidentCounts
    <3>2. \A a \in Alarms : Answered(a)' <=> Answered(a)
      BY <2>1 DEF Answered
    <3>3. IncidentsPaid'
      BY <1>0, <1>n, <1>c, <2>1, <2>3, <3>1, <3>2 DEF IncidentsPaid
    <3>4. QED
      BY <1>0, <3>3
  <2>4. QED
    BY <1>5, <2>2, <2>3 DEF PostFails
<1>6. CASE Finish
  <2>1. UNCHANGED <<incidents, crashes, lost, seen>> /\ buffer' = {}
    BY <1>6 DEF Finish, ClearBurst
  <2>2. QED
    BY <1>0, <2>1, <1>u DEF Answered
<1>7. CASE Crash
  <2>1. UNCHANGED <<incidents, lost>> /\ crashes' = crashes + 1
    BY <1>7 DEF Crash
  <2>2. \A a \in Alarms : incidents[a] <= crashes + lost + 1
    BY <1>0, <1>n, <1>c DEF IncidentsPaid
  <2>3. \A a \in Alarms : incidents'[a] <= crashes' + lost'
    BY <1>n, <1>c, <2>1, <2>2
  <2>4. IncidentsPaid'
    BY <1>n, <1>c, <2>3 DEF IncidentsPaid
  <2>5. QED
    BY <1>0, <2>4
<1>8. CASE UNCHANGED vars
  BY <1>0, <1>8, <1>u DEF vars, Answered
<1>9. QED
  BY <1>1, <1>2, <1>3, <1>4, <1>5, <1>6, <1>7, <1>8 DEF Next, ReceiveSome

(* Redelivered and duplicated messages open no second incident (poll_once's   *)
(* _seen_ids, and flush, which leaves them in place).                        *)
THEOREM DuplicatesBounded == Spec => []DuplicatesAccountedFor
<1>1. Init => Paid
  BY InitCore DEF Init, Paid, IncidentsPaid, Answered
<1>2. Paid => DuplicatesAccountedFor
  <2> SUFFICES ASSUME Paid, NEW a \in Alarms PROVE incidents[a] <= 1 + crashes + lost
    BY DEF DuplicatesAccountedFor
  <2>1. incidents[a] \in Nat /\ crashes \in Nat /\ lost \in Nat
    BY DEF Paid, Core, Shape
  <2>2. incidents[a] <= crashes + lost + (IF Answered(a) THEN 1 ELSE 0)
    BY DEF Paid, IncidentsPaid
  <2>3. QED
    BY <2>1, <2>2
<1>3. QED
  BY <1>1, <1>2, PaidPreserved, PTL DEF Spec

-----------------------------------------------------------------------------
(* Timeliness.                                                             *)

(* While a burst is open the bridge polls shortly (a restart finds none, so *)
(* its long poll does no harm); once the burst is due, what is left of the  *)
(* poll bounds how late it can get.                                         *)
Timely ==
  /\ overdue \in Nat /\ wait \in Nat /\ age \in Nat /\ still \in Nat /\ backoff \in Nat
  /\ pc # "polling" \/ ~Due => overdue = 0
  /\ pc = "down" => buffer = {}
  /\ pc = "polling" /\ buffer # {} => wait <= PollOpen
  /\ pc = "polling" /\ Due => overdue + wait < PollOpen

(* An open burst gets older, and stays due, while nothing but time passes.  *)
LEMMA DueStays ==
  ASSUME Timely, Tick
  PROVE  /\ age' \in Nat /\ still' \in Nat /\ backoff' \in Nat /\ (Due => Due')
<1> USE TimingAssumption DEF Timely, Tick, UpTo
<1>1. /\ age' \in Nat /\ still' \in Nat /\ backoff' \in Nat
      /\ buffer # {} => age' >= age /\ still' >= still
      /\ backoff = 0 => backoff' = 0
  OBVIOUS
<1>2. buffer # {} /\ still >= Quiet => still' >= Quiet
  BY <1>1
<1>3. buffer # {} /\ age >= MaxGroup => age' >= MaxGroup
  BY <1>1
<1> QED BY <1>1, <1>2, <1>3 DEF Due

(* Every step keeps the bound.                                              *)
LEMMA TimelyPreserved == Timely /\ [Next]_vars => Timely'
<1> SUFFICES ASSUME Timely, [Next]_vars PROVE Timely'
  OBVIOUS
<1> USE TimingAssumption
<1>0. /\ overdue \in Nat /\ wait \in Nat /\ age \in Nat /\ still \in Nat /\ backoff \in Nat
      /\ (pc # "polling" \/ ~Due => overdue = 0)
      /\ (pc = "down" => buffer = {})
      /\ (pc = "polling" /\ buffer # {} => wait <= PollOpen)
      /\ (pc = "polling" /\ Due => overdue + wait < PollOpen)
  BY DEF Timely
<1>u. ASSUME UNCHANGED <<overdue, age, still, backoff, buffer, wait>>, pc' = pc \/ (pc # "polling" /\ pc' \notin {"polling", "down"})
      PROVE  Timely'
  BY <1>0, <1>u DEF Timely, Due
<1>1. ASSUME NEW m \in Messages, Send(m) \/ Expire(m) PROVE Timely'
  BY <1>1, <1>u DEF Send, Expire
<1>2. ASSUME NEW batch \in SUBSET Messages, NEW kept \in SUBSET batch, Receive(batch, kept) PROVE Timely'
  BY <1>0, <1>2 DEF Receive, Timely
<1>3. CASE ReceiveNothing
  BY <1>0, <1>3 DEF ReceiveNothing, Timely
<1>4. CASE DeleteIgnored \/ PostSucceeds
  BY <1>4, <1>u DEF DeleteIgnored, PostSucceeds
<1>5. CASE Decide
  <2>1. CASE Due /\ pc' = "posting" /\ UNCHANGED wait
    BY <1>0, <1>5, <2>1, <1>u DEF Decide
  <2>2. CASE ~Due /\ pc' = "polling" /\ PollAgain
    <3>1. overdue' = 0 /\ ~Due' /\ UNCHANGED <<age, still, backoff, buffer>>
      BY <1>0, <1>5, <2>2 DEF Decide, Due
    <3>2. wait' \in Nat /\ (buffer' # {} => wait' <= PollOpen)
      BY <2>2 DEF PollAgain
    <3> QED BY <1>0, <2>2, <3>1, <3>2 DEF Timely
  <2> QED BY <1>5, <2>1, <2>2 DEF Decide
<1>6. CASE PostFails
  <2>1. pc = "posting" /\ overdue' = overdue /\ age' = age /\ still' = still /\ backoff' = Retry
    BY <1>6 DEF PostFails
  <2>2. overdue' = 0 /\ ~Due'
    BY <1>0, <2>1 DEF Due
  <2>3. wait' \in Nat /\ (buffer' # {} => wait' <= PollOpen) /\ pc' = "polling"
    BY <1>6 DEF PostFails, PollAgain
  <2> QED BY <1>0, <2>1, <2>2, <2>3 DEF Timely
<1>7. CASE Finish
  <2>1. pc = "answered" /\ overdue' = overdue /\ age' = age /\ still' = still /\ backoff' = 0 /\ buffer' = {}
    BY <1>7 DEF Finish, ClearBurst
  <2>2. overdue' = 0 /\ ~Due'
    BY <1>0, <2>1 DEF Due
  <2>3. wait' \in Nat /\ pc' = "polling"
    BY <1>7 DEF Finish, PollAgain
  <2> QED BY <1>0, <2>1, <2>2, <2>3 DEF Timely
<1>8. CASE Crash
  BY <1>8 DEF Crash, Timely
<1>9. CASE Restart
  <2>1. overdue' = 0 /\ wait' = PollIdle /\ UNCHANGED <<age, still, backoff>> /\ buffer' = {} /\ pc' = "polling"
    BY <1>0, <1>9 DEF Restart, memory, clocks
  <2> QED BY <1>0, <2>1 DEF Timely, Due
<1>10. CASE Tick
  <2>1. age' \in Nat /\ still' \in Nat /\ backoff' \in Nat /\ (Due => Due') /\ pc' = pc /\ buffer' = buffer
    BY <1>10, DueStays DEF Tick
  <2>2. CASE pc = "posting" /\ UNCHANGED <<wait, overdue>>
    BY <1>0, <2>1, <2>2 DEF Timely
  <2>3. CASE pc = "polling" /\ wait > 0 /\ wait' = wait - 1 /\ overdue' = IF Due THEN overdue + 1 ELSE 0
    <3>1. CASE Due
      BY <1>0, <2>1, <2>3, <3>1 DEF Timely
    <3>2. CASE ~Due
      <4>1. Due' => buffer # {}
        BY <2>1 DEF Due
      <4> QED BY <1>0, <2>1, <2>3, <3>2, <4>1 DEF Timely
    <3> QED BY <3>1, <3>2
  <2> QED BY <1>10, <2>2, <2>3 DEF Tick
<1>11. CASE UNCHANGED vars
  BY <1>11, <1>u DEF vars
<1> QED BY <1>1, <1>2, <1>3, <1>4, <1>5, <1>6, <1>7, <1>8, <1>9, <1>10, <1>11 DEF Next, ReceiveSome

(* "Short polls while a burst is open so it is flushed on time" (run): for   *)
(* every quiet period, group limit and poll length, a due burst waits less   *)
(* than one short poll before it is POSTed.                                  *)
THEOREM BurstsOnTime == Spec => []BurstFlushedOnTime
<1>1. Init => Timely
  BY TimingAssumption DEF Init, Timely, Due
<1>2. Timely => BurstFlushedOnTime
  BY TimingAssumption DEF Timely, BurstFlushedOnTime
<1> QED BY <1>1, <1>2, TimelyPreserved, PTL DEF Spec
=============================================================================
