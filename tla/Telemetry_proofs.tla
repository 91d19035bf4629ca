--------------------------- MODULE Telemetry_proofs ---------------------------
(***************************************************************************)
(* Proofs about Telemetry: of its reads of signals, for every set of queries, *)
(* endpoints, sources and signals, of its topology caches, for every set of   *)
(* readers and hosts, every pair of lifetimes and every length of a call, and  *)
(* of its sources, for every limit and everything a backend may hold.         *)
(***************************************************************************)
EXTENDS Telemetry, Listing_proofs, WellFoundedInduction, TLAPS

-----------------------------------------------------------------------------
(* The reads of signals                                                    *)

Outcomes == [status : {"ok", "partial", "failed", "cancelled"}, got : SUBSET Records]
Moving == {"waiting", "reading", "joined"}
Tasks == {Resting} \cup [at : Moving] \cup [at : {"done"}, outcome : Outcomes]
Entries ==
  [source : (UNION {SourcesAt[e] : e \in ToSet(Endpoints)}) \cup {"telemetry-server"}, status : Statuses, required : BOOLEAN]
Calls ==
  [at : {"idle", "pending", "failed", "aborted"}] \cup [at : {"answered"}, coverage : SUBSET Entries, signals : SUBSET Records]
Lookups == [owner : Queries \cup {Nobody}, outcome : Outcomes \cup {Pending}]

SignalTypeOK ==
  /\ \A q \in Queries : window[q] \in Windows
  /\ call \in [Queries -> [ToSet(Endpoints) -> Calls]]
  /\ task \in [Queries -> [Plugins -> Tasks]]
  /\ lookup \in [Plugins -> [Windows -> Lookups]]

\* The server of a call that has not arrived does nothing.
NotArrived == \A q \in Queries, p \in Plugins : call[q][p[1]].at = "idle" => task[q][p] = Resting

\* A task that waits or reads owns the lookup of its window, one that joined has a
\* lookup to wait for, and a pending lookup is its owner's task.
TasksHaveLookups ==
  \A q \in Queries, p \in Plugins :
    /\ task[q][p].at \in Moving => Shared(p) /\ Lookup(q, p).outcome = Pending
    /\ task[q][p].at \in {"waiting", "reading"} => Lookup(q, p).owner = q
    /\ task[q][p].at = "joined" => Lookup(q, p).owner # Nobody
Owned(p, w) ==
  /\ lookup[p][w].owner = Nobody => lookup[p][w] = NoLookup
  /\ lookup[p][w].owner # Nobody => lookup[p][w].outcome = Pending \/ lookup[p][w].outcome.status \in {"ok", "partial"}
  /\ lookup[p][w].owner # Nobody /\ lookup[p][w].outcome = Pending =>
       window[lookup[p][w].owner] = w /\ task[lookup[p][w].owner][p].at \in {"waiting", "reading"}
LookupsHaveOwners == \A p \in Plugins, w \in Windows : Owned(p, w)

\* Nothing says "ok" that did not read the whole source.
Honest(outcome, s) == outcome.status = "ok" => outcome.got = Holds(s)
OutcomesHonest ==
  /\ \A q \in Queries, p \in Plugins : task[q][p].at = "done" => Honest(task[q][p].outcome, p[2])
  /\ \A p \in Plugins, w \in Windows : Honest(lookup[p][w].outcome, p[2])
AnswersHonest ==
  \A q \in Queries, e \in ToSet(Endpoints) : call[q][e].at = "answered" =>
    \A s \in SourcesAt[e] : \E c \in call[q][e].coverage :
      c.required = (s \in RequiredSources) /\ (c.status = "ok" => Holds(s) \subseteq call[q][e].signals)

(* The inductive invariant of the reads.                                    *)
SignalInv ==
  /\ SignalTypeOK /\ NotArrived /\ TasksHaveLookups /\ LookupsHaveOwners
  /\ OutcomesHonest /\ AnswersHonest

-----------------------------------------------------------------------------
(* Every step keeps it                                                     *)

(* A plugin is an endpoint's, and so is every plugin of the endpoint.        *)
LEMMA PluginsAreOfEndpoints ==
  /\ \A p \in Plugins : p[1] \in ToSet(Endpoints) /\ p[2] \in SourcesAt[p[1]] /\ p \in PluginsAt(p[1])
  /\ \A e \in ToSet(Endpoints) : PluginsAt(e) \subseteq Plugins /\ \A p \in PluginsAt(e) : p[1] = e /\ p[2] \in SourcesAt[e]
  BY DEF Plugins, PluginsAt

(* What a source's fetch gives (SourcePlugin.fetch) is honest.               *)
LEMMA ReadOutcomesHonest ==
  ASSUME NEW s, NEW outcome \in ReadOutcomes(s)
  PROVE  /\ outcome \in Outcomes /\ Honest(outcome, s)
         /\ outcome.status \in {"ok", "partial", "failed"}
  BY DEF ReadOutcomes, Outcome, Outcomes, Honest, Holds

(* Before the first query nothing is looked up and nothing is held.         *)
LEMMA SignalInitInv == SignalInit => SignalInv
<1> SUFFICES ASSUME SignalInit PROVE SignalInv
  OBVIOUS
<1>1. \A q \in Queries : window[q] \in Windows
  BY RecordsAssumption DEF SignalInit, Windows, Range
<1>2. \A q \in Queries : \A e \in ToSet(Endpoints) : call[q][e] = Resting
  BY DEF SignalInit
<1>3. \A q \in Queries : \A p \in Plugins : task[q][p] = Resting
  BY DEF SignalInit
<1>4. \A p \in Plugins : \A w \in Windows : lookup[p][w] = NoLookup
  BY DEF SignalInit
<1>5. SignalTypeOK
  BY <1>1 DEF SignalInit, SignalTypeOK, Resting, Calls, Tasks, Lookups, NoLookup
<1>6. NoLookup.owner = Nobody /\ NoLookup.outcome.status = "pending" /\ Resting.at = "idle"
  BY DEF NoLookup, Pending, Outcome, Resting
<1>7. NotArrived /\ TasksHaveLookups
  BY <1>3, <1>6 DEF NotArrived, TasksHaveLookups, Moving
<1>8. LookupsHaveOwners /\ OutcomesHonest
  BY <1>3, <1>4, <1>6 DEF LookupsHaveOwners, Owned, OutcomesHonest, Honest
<1>9. AnswersHonest
  BY <1>2, <1>6 DEF AnswersHonest
<1> QED
  BY <1>5, <1>7, <1>8, <1>9 DEF SignalInv

(* The owner leaves its lookup (_lookup's finally): nobody is left who waits   *)
(* for it.                                                                  *)
LEMMA LeaveLookupInv ==
  ASSUME NEW q \in Queries, NEW p \in Plugins, SignalInv, task[q][p].at \in {"waiting", "reading"},
         NEW own \in Outcomes, NEW passed \in Outcomes, Honest(own, p[2]), Honest(passed, p[2]),
         LeaveLookup(q, p, own, passed), UNCHANGED <<window, call>>
  PROVE  SignalInv'
<1> USE DEF SignalInv
<1> DEFINE w == window[q]
           left == IF passed.status \in {"ok", "partial"} THEN [owner |-> q, outcome |-> passed] ELSE NoLookup
<1>0. w \in Windows /\ task[q][p] # Resting /\ lookup[p][w].owner = q
  BY DEF SignalTypeOK, TasksHaveLookups, Lookup, Resting
<1>1. \A t \in Queries, x \in Plugins : task'[t][x] =
        IF x # p THEN task[t][x]
        ELSE IF t = q THEN Done(own) ELSE IF Joined(t, q, p) THEN Done(passed) ELSE task[t][p]
  BY DEF LeaveLookup, SignalTypeOK
<1>2. \A x \in Plugins, v \in Windows : lookup'[x][v] = IF x = p /\ v = w THEN left ELSE lookup[x][v]
  BY <1>0 DEF LeaveLookup, Forgotten, SignalTypeOK
<1>3. /\ Done(own) \in Tasks /\ Done(passed) \in Tasks /\ left \in Lookups
      /\ Done(own).at = "done" /\ Done(passed).at = "done"
      /\ Done(own).outcome = own /\ Done(passed).outcome = passed
  BY DEF Done, Tasks, Lookups, NoLookup
<1>4. left = NoLookup \/ (left.owner = q /\ left.outcome = passed /\ passed.status \in {"ok", "partial"})
  OBVIOUS
<1>5. passed # Pending
  BY DEF Outcomes, Pending, Outcome
<1> HIDE DEF left, w
<1>6. \A t \in Queries : task'[t][p].at \in Moving => task'[t][p] = task[t][p] /\ window[t] # w
  BY <1>0, <1>1, <1>3 DEF w, Moving, Joined, TasksHaveLookups, Lookup
<1>7. \A t \in Queries, x \in Plugins : task'[t][x].at \in Moving =>
        task'[t][x] = task[t][x] /\ (x # p \/ window[t] # w)
  BY <1>1, <1>6
<1>8. SignalTypeOK'
  <2>1. task' \in [Queries -> [Plugins -> Tasks]]
    BY <1>1, <1>3 DEF LeaveLookup, SignalTypeOK
  <2>2. lookup' \in [Plugins -> [Windows -> Lookups]]
    BY <1>0, <1>2, <1>3 DEF LeaveLookup, Forgotten, SignalTypeOK, left, w
  <2> QED
    BY <2>1, <2>2 DEF SignalTypeOK
<1>9. NotArrived'
  BY <1>0, <1>1 DEF NotArrived, Joined, Resting
<1>10. TasksHaveLookups'
  BY <1>2, <1>7 DEF TasksHaveLookups, Lookup, SignalTypeOK, Moving
<1>11. LookupsHaveOwners'
  <2> SUFFICES ASSUME NEW x \in Plugins, NEW v \in Windows
               PROVE  Owned(x, v)'
    BY DEF LookupsHaveOwners
  <2>1. CASE x = p /\ v = w
    BY <1>2, <1>4, <1>5, <2>1, RecordsAssumption DEF Owned, NoLookup
  <2>2. CASE ~(x = p /\ v = w)
    <3> DEFINE o == lookup[x][v].owner
    <3>1. lookup'[x][v] = lookup[x][v] /\ Owned(x, v)
      BY <1>2, <2>2 DEF LookupsHaveOwners
    <3>2. o # Nobody => o \in Queries
      BY DEF SignalTypeOK, Lookups
    <3>3. ASSUME o # Nobody, lookup[x][v].outcome = Pending
          PROVE  task'[o][x] = task[o][x]
      <4>1. window[o] = v /\ task[o][x].at \in {"waiting", "reading"}
        BY <3>1, <3>3 DEF Owned
      <4> QED
        BY <1>1, <2>2, <3>2, <3>3, <4>1 DEF Joined, w
    <3> QED
      BY <3>1, <3>3 DEF Owned
  <2> QED
    BY <2>1, <2>2
<1>12. OutcomesHonest'
  BY <1>1, <1>2, <1>3, <1>4 DEF OutcomesHonest, Honest, NoLookup, Pending, Outcome
<1>13. AnswersHonest'
  BY DEF AnswersHonest
<1> QED
  BY <1>8, <1>9, <1>10, <1>11, <1>12, <1>13

(* The owner takes the lock and reads.                                      *)
LEMMA LockInv ==
  ASSUME NEW q \in Queries, NEW p \in Plugins, SignalInv, Lock(q, p)
  PROVE  SignalInv'
<1> USE DEF SignalInv
<1>1. \A t \in Queries, x \in Plugins : task'[t][x] = IF t = q /\ x = p THEN [at |-> "reading"] ELSE task[t][x]
  BY DEF Lock, SetTask, SignalTypeOK
<1>2. task[q][p].at = "waiting" /\ task[q][p] # Resting /\ UNCHANGED <<window, call, lookup>>
  BY DEF Lock, Resting
<1>3. SignalTypeOK'
  <2>1. [at |-> "reading"] \in Tasks
    BY DEF Tasks, Moving
  <2>2. task' \in [Queries -> [Plugins -> Tasks]]
    BY <1>1, <2>1 DEF Lock, SetTask, SignalTypeOK
  <2> QED
    BY <1>2, <2>2 DEF SignalTypeOK
<1>4. NotArrived'
  BY <1>1, <1>2 DEF NotArrived
<1>5. TasksHaveLookups'
  BY <1>1, <1>2 DEF TasksHaveLookups, Lookup, Moving
<1>6. LookupsHaveOwners'
  <2> SUFFICES ASSUME NEW x \in Plugins, NEW v \in Windows
               PROVE  Owned(x, v)'
    BY DEF LookupsHaveOwners
  <2>1. lookup[x][v].owner # Nobody => lookup[x][v].owner \in Queries
    BY DEF SignalTypeOK, Lookups
  <2> QED
    BY <1>1, <1>2, <2>1 DEF LookupsHaveOwners, Owned
<1>7. OutcomesHonest' /\ AnswersHonest'
  BY <1>1, <1>2 DEF OutcomesHonest, AnswersHonest
<1> QED
  BY <1>3, <1>4, <1>5, <1>6, <1>7

(* One that joined gives up: its owner and the others are left alone.        *)
LEMMA JoinedTimesOutInv ==
  ASSUME NEW q \in Queries, NEW p \in Plugins, SignalInv, task[q][p].at = "joined",
         SetTask(q, p, Done(Outcome("failed", {}))), UNCHANGED <<window, call, lookup>>
  PROVE  SignalInv'
<1> USE DEF SignalInv
<1> DEFINE given == Done(Outcome("failed", {}))
<1>1. given \in Tasks /\ given.at = "done" /\ Honest(given.outcome, p[2])
  BY DEF Done, Outcome, Tasks, Outcomes, Honest
<1>2. \A t \in Queries, x \in Plugins : task'[t][x] = IF t = q /\ x = p THEN given ELSE task[t][x]
  BY DEF SetTask, SignalTypeOK
<1>3. task[q][p] # Resting
  BY DEF Resting
<1> HIDE DEF given
<1>4. SignalTypeOK'
  <2>1. task' \in [Queries -> [Plugins -> Tasks]]
    BY <1>1, <1>2 DEF SetTask, SignalTypeOK
  <2> QED
    BY <2>1 DEF SignalTypeOK
<1>5. NotArrived'
  BY <1>2, <1>3 DEF NotArrived
<1>6. TasksHaveLookups'
  BY <1>1, <1>2 DEF TasksHaveLookups, Lookup, Moving
<1>7. LookupsHaveOwners'
  <2> SUFFICES ASSUME NEW x \in Plugins, NEW v \in Windows
               PROVE  Owned(x, v)'
    BY DEF LookupsHaveOwners
  <2>1. lookup[x][v].owner # Nobody => lookup[x][v].owner \in Queries
    BY DEF SignalTypeOK, Lookups
  <2> QED
    BY <1>2, <2>1 DEF LookupsHaveOwners, Owned
<1>8. OutcomesHonest' /\ AnswersHonest'
  BY <1>1, <1>2 DEF OutcomesHonest, AnswersHonest
<1> QED
  BY <1>4, <1>5, <1>6, <1>7, <1>8

(* A cached result is forgotten; nobody waits for it.                        *)
LEMMA LookupExpiresInv ==
  ASSUME NEW p \in Plugins, NEW w \in Windows, SignalInv, LookupExpires(p, w)
  PROVE  SignalInv'
<1> USE DEF SignalInv
<1>1. /\ lookup[p][w].outcome # Pending
      /\ UNCHANGED <<window, call, task>>
      /\ \A x \in Plugins, v \in Windows : lookup'[x][v] = IF x = p /\ v = w THEN NoLookup ELSE lookup[x][v]
  BY DEF LookupExpires, SignalTypeOK
<1>2. NoLookup \in Lookups /\ NoLookup.owner = Nobody /\ NoLookup.outcome = Pending /\ Pending.status = "pending"
  BY DEF NoLookup, Lookups, Pending, Outcome
<1>3. SignalTypeOK'
  <2>1. lookup' \in [Plugins -> [Windows -> Lookups]]
    BY <1>1, <1>2 DEF LookupExpires, SignalTypeOK
  <2> QED
    BY <1>1, <2>1 DEF SignalTypeOK
<1>4. NotArrived' /\ AnswersHonest'
  BY <1>1 DEF NotArrived, AnswersHonest
<1>5. TasksHaveLookups'
  BY <1>1, <1>2 DEF TasksHaveLookups, Lookup, SignalTypeOK, Moving
<1>6. LookupsHaveOwners'
  BY <1>1, <1>2 DEF LookupsHaveOwners, Owned
<1>7. OutcomesHonest'
  BY <1>1, <1>2 DEF OutcomesHonest, Honest
<1> QED
  BY <1>3, <1>4, <1>5, <1>6, <1>7

(* The registry stops waiting for an endpoint; the server goes on.           *)
LEMMA CallFailsInv ==
  ASSUME NEW q \in Queries, NEW e \in ToSet(Endpoints), SignalInv, CallFails(q, e)
  PROVE  SignalInv'
<1> USE DEF SignalInv
<1> DEFINE given == [at |-> "failed"]
<1>1. /\ UNCHANGED <<window, task, lookup>> /\ given \in Calls /\ given.at = "failed"
      /\ \A t \in Queries, d \in ToSet(Endpoints) : call'[t][d] = IF t = q /\ d = e THEN given ELSE call[t][d]
  BY DEF CallFails, SignalTypeOK, Calls
<1> HIDE DEF given
<1>2. SignalTypeOK'
  <2>1. call' \in [Queries -> [ToSet(Endpoints) -> Calls]]
    BY <1>1 DEF CallFails, SignalTypeOK, given
  <2> QED
    BY <1>1, <2>1 DEF SignalTypeOK
<1>3. NotArrived'
  BY <1>1, PluginsAreOfEndpoints DEF NotArrived
<1>4. AnswersHonest'
  BY <1>1 DEF AnswersHonest
<1>5. TasksHaveLookups' /\ LookupsHaveOwners' /\ OutcomesHonest'
  BY <1>1 DEF TasksHaveLookups, Lookup, LookupsHaveOwners, Owned, OutcomesHonest
<1> QED
  BY <1>2, <1>3, <1>4, <1>5

(* How a plugin's task begins (_lookup's first steps): it owns a new lookup,   *)
(* waits for another's, or is done at once.                                 *)
LEMMA FirstTasksSound ==
  ASSUME NEW q \in Queries, NEW p \in Plugins, SignalInv, NEW first \in FirstTasks(q, p)
  PROVE  /\ first \in Tasks /\ first.at \in {"done", "waiting", "joined"}
         /\ first.at = "done" => Honest(first.outcome, p[2])
         /\ first.at = "waiting" <=> Owns(q, p)
         /\ first.at = "joined" => Shared(p) /\ Lookup(q, p).outcome = Pending /\ Lookup(q, p).owner # Nobody
<1> USE DEF SignalInv
<1>0. window[q] \in Windows /\ Lookup(q, p) \in Lookups /\ Owned(p, window[q]) /\ Honest(Lookup(q, p).outcome, p[2])
  BY DEF SignalTypeOK, LookupsHaveOwners, OutcomesHonest, Lookup
<1>1. \A outcome \in Outcomes :
        Done(outcome) \in Tasks /\ Done(outcome).at = "done" /\ Done(outcome).outcome = outcome
  BY DEF Done, Tasks
<1>2. CASE ~Shared(p)
  BY <1>1, <1>2, ReadOutcomesHonest DEF FirstTasks, Owns
<1>3. CASE Owns(q, p)
  BY <1>3 DEF FirstTasks, Owns, Tasks, Moving
<1>4. CASE Shared(p) /\ ~Owns(q, p) /\ Lookup(q, p).outcome = Pending
  <2>1. Lookup(q, p).owner # Nobody
    BY <1>0, <1>4 DEF Owns, Owned, Lookup
  <2> QED
    BY <1>4, <2>1 DEF FirstTasks, Tasks, Moving
<1>5. CASE Shared(p) /\ ~Owns(q, p) /\ Lookup(q, p).outcome # Pending
  <2>1. first = Done(Lookup(q, p).outcome)
    BY <1>5 DEF FirstTasks
  <2>2. Lookup(q, p).outcome \in Outcomes
    BY <1>0, <1>5 DEF Lookups
  <2> QED
    BY <1>0, <1>1, <1>5, <2>1, <2>2
<1> QED
  BY <1>2, <1>3, <1>4, <1>5

(* A request arrives and every plugin starts.                               *)
LEMMA ServeInv ==
  ASSUME NEW q \in Queries, NEW e \in ToSet(Endpoints), SignalInv, Serve(q, e)
  PROVE  SignalInv'
<1> USE DEF SignalInv
<1> DEFINE w == window[q]
           mine == [owner |-> q, outcome |-> Pending]
           pending == [at |-> "pending"]
<1>1. PICK first \in [PluginsAt(e) -> UNION {FirstTasks(q, p) : p \in PluginsAt(e)}] :
        /\ \A p \in PluginsAt(e) : first[p] \in FirstTasks(q, p)
        /\ task' = [task EXCEPT ![q] = [p \in Plugins |-> IF p[1] = e THEN first[p] ELSE task[q][p]]]
  BY DEF Serve
<1>2. /\ call[q][e].at = "idle" /\ UNCHANGED window /\ w \in Windows
      /\ pending \in Calls /\ pending.at = "pending"
      /\ \A t \in Queries, d \in ToSet(Endpoints) : call'[t][d] = IF t = q /\ d = e THEN pending ELSE call[t][d]
  BY DEF Serve, SignalTypeOK, Calls
<1>3. \A t \in Queries, x \in Plugins : task'[t][x] = IF t = q /\ x[1] = e THEN first[x] ELSE task[t][x]
  BY <1>1 DEF SignalTypeOK
<1>4. \A x \in Plugins, v \in Windows : lookup'[x][v] = IF x[1] = e /\ Owns(q, x) /\ v = w THEN mine ELSE lookup[x][v]
  BY <1>2 DEF Serve, SignalTypeOK
<1>5. \A x \in Plugins : x[1] = e => first[x] \in FirstTasks(q, x) /\ task[q][x] = Resting
  BY <1>1, <1>2, PluginsAreOfEndpoints DEF NotArrived
<1>6. mine \in Lookups /\ mine.owner = q /\ mine.outcome = Pending /\ Pending.status = "pending"
      /\ Resting.at = "idle" /\ q # Nobody /\ NoLookup.owner = Nobody
  BY RecordsAssumption DEF Lookups, Pending, Outcome, Resting, NoLookup
<1> HIDE DEF mine, pending, w
<1>7. SignalTypeOK'
  <2>1. task' \in [Queries -> [Plugins -> Tasks]]
    <3>1. \A x \in Plugins : x[1] = e => first[x] \in Tasks
      BY <1>5, FirstTasksSound
    <3> QED
      BY <1>1, <3>1 DEF SignalTypeOK
  <2>2. call' \in [Queries -> [ToSet(Endpoints) -> Calls]]
    BY <1>2 DEF Serve, SignalTypeOK, pending
  <2>3. lookup' \in [Plugins -> [Windows -> Lookups]]
    BY <1>4, <1>6 DEF Serve, SignalTypeOK, w
  <2> QED
    BY <1>2, <2>1, <2>2, <2>3 DEF SignalTypeOK
<1>8. NotArrived'
  BY <1>2, <1>3, PluginsAreOfEndpoints DEF NotArrived
<1>9. TasksHaveLookups'
  <2> SUFFICES ASSUME NEW t \in Queries, NEW x \in Plugins, task'[t][x].at \in Moving
               PROVE  /\ Shared(x) /\ Lookup(t, x)'.outcome = Pending
                      /\ task'[t][x].at \in {"waiting", "reading"} => Lookup(t, x)'.owner = t
                      /\ task'[t][x].at = "joined" => Lookup(t, x)'.owner # Nobody
    BY DEF TasksHaveLookups, Moving
  <2>1. CASE t = q /\ x[1] = e
    <3>1. task'[t][x] = first[x] /\ first[x] \in FirstTasks(q, x)
      BY <1>3, <1>5, <2>1
    <3>2. CASE Owns(q, x)
      BY <1>2, <1>4, <1>6, <2>1, <3>1, <3>2, FirstTasksSound DEF Lookup, Owns, w, Moving
    <3>3. CASE ~Owns(q, x)
      BY <1>2, <1>4, <2>1, <3>1, <3>3, FirstTasksSound DEF Lookup, w, Moving
    <3> QED
      BY <3>2, <3>3
  <2>2. CASE ~(t = q /\ x[1] = e)
    <3>1. task'[t][x] = task[t][x] /\ UNCHANGED window
      BY <1>2, <1>3, <2>2
    <3>2. Shared(x) /\ Lookup(t, x).outcome = Pending /\ Lookup(t, x).owner # Nobody
      BY <3>1, RecordsAssumption DEF TasksHaveLookups, Moving
    <3>3. x[1] = e /\ Owns(q, x) => window[t] # w
      BY <1>6, <3>2 DEF Owns, Lookup, w
    <3>4. Lookup(t, x)' = Lookup(t, x)
      BY <1>4, <3>1, <3>3 DEF Lookup, SignalTypeOK
    <3> QED
      BY <3>1, <3>2, <3>4 DEF TasksHaveLookups
  <2> QED
    BY <2>1, <2>2
<1>10. LookupsHaveOwners'
  <2> SUFFICES ASSUME NEW x \in Plugins, NEW v \in Windows
               PROVE  Owned(x, v)'
    BY DEF LookupsHaveOwners
  <2>1. CASE x[1] = e /\ Owns(q, x) /\ v = w
    <3>1. first[x].at = "waiting"
      BY <1>5, <2>1, FirstTasksSound
    <3> QED
      BY <1>2, <1>3, <1>4, <1>6, <2>1, <3>1 DEF Owned, w
  <2>2. CASE ~(x[1] = e /\ Owns(q, x) /\ v = w)
    <3> DEFINE o == lookup[x][v].owner
    <3>1. lookup'[x][v] = lookup[x][v] /\ Owned(x, v) /\ (o # Nobody => o \in Queries)
      BY <1>4, <2>2 DEF LookupsHaveOwners, SignalTypeOK, Lookups
    <3>2. ASSUME o # Nobody, lookup[x][v].outcome = Pending
          PROVE  task'[o][x] = task[o][x]
      BY <1>3, <1>5, <1>6, <3>1, <3>2 DEF Owned
    <3> QED
      BY <1>2, <3>1, <3>2 DEF Owned
  <2> QED
    BY <2>1, <2>2
<1>11. OutcomesHonest'
  BY <1>3, <1>4, <1>5, <1>6, FirstTasksSound DEF OutcomesHonest, Honest
<1>12. AnswersHonest'
  BY <1>2 DEF AnswersHonest
<1> QED
  BY <1>7, <1>8, <1>9, <1>10, <1>11, <1>12

\* The signals of an answer.
Collected(q, e) == UNION {task[q][p].outcome.got : p \in PluginsAt(e)}

(* The server's coverage of sources that have all ended is honest about each.  *)
LEMMA ServerCoverageHonest ==
  ASSUME NEW q \in Queries, NEW e \in ToSet(Endpoints), SignalInv,
         \A p \in PluginsAt(e) : Ended(task[q][p]) /\ task[q][p].outcome.status # "cancelled"
  PROVE  /\ ServerCoverage(q, e) \subseteq Entries /\ Collected(q, e) \subseteq Records
         /\ \A s \in SourcesAt[e] : \E c \in ServerCoverage(q, e) :
              c.required = (s \in RequiredSources) /\ (c.status = "ok" => Holds(s) \subseteq Collected(q, e))
<1> USE DEF SignalInv
<1>1. ASSUME NEW p \in PluginsAt(e)
      PROVE  /\ p \in Plugins /\ p[2] \in SourcesAt[e] /\ task[q][p].outcome \in Outcomes
             /\ task[q][p].outcome.status \in Statuses /\ task[q][p].outcome.got \subseteq Records
             /\ Honest(task[q][p].outcome, p[2])
  <2>1. p \in Plugins /\ p[2] \in SourcesAt[e] /\ task[q][p] \in Tasks
    BY PluginsAreOfEndpoints DEF SignalTypeOK
  <2>2. task[q][p].at = "done" /\ task[q][p].outcome.status # "cancelled"
    BY <1>1 DEF Ended
  <2>3. task[q][p].outcome \in Outcomes
    BY <2>1, <2>2 DEF Tasks, Resting, Moving
  <2>4. Honest(task[q][p].outcome, p[2])
    BY <2>1, <2>2 DEF OutcomesHonest
  <2> QED
    BY <2>1, <2>2, <2>3, <2>4 DEF Outcomes, Statuses
<1>2. ASSUME NEW p \in PluginsAt(e)
      PROVE  Entry(p[2], task[q][p].outcome.status, p[2] \in RequiredSources) \in Entries
  BY <1>1 DEF Entry, Entries
<1>3. Entry("telemetry-server", "failed", TRUE) \in Entries
  <2>1. "telemetry-server" \in (UNION {SourcesAt[d] : d \in ToSet(Endpoints)}) \cup {"telemetry-server"} /\ "failed" \in Statuses
    BY DEF Statuses
  <2> QED
    BY <2>1 DEF Entry, Entries
<1>4. ServerCoverage(q, e) \subseteq Entries /\ Collected(q, e) \subseteq Records
  BY <1>1, <1>2, <1>3 DEF ServerCoverage, Collected
<1>5. ASSUME NEW s \in SourcesAt[e]
      PROVE  \E c \in ServerCoverage(q, e) :
               c.required = (s \in RequiredSources) /\ (c.status = "ok" => Holds(s) \subseteq Collected(q, e))
  <2> DEFINE p == <<e, s>>
             c == Entry(p[2], task[q][p].outcome.status, p[2] \in RequiredSources)
  <2>1. p \in PluginsAt(e) /\ p[2] = s
    BY DEF PluginsAt
  <2>2. c \in ServerCoverage(q, e)
    BY <1>5, <2>1 DEF ServerCoverage
  <2>3. c.required = (s \in RequiredSources) /\ c.status = task[q][p].outcome.status
    BY <2>1 DEF Entry
  <2>4. c.status = "ok" => Holds(s) \subseteq Collected(q, e)
    BY <1>1, <2>1, <2>3 DEF Honest, Collected
  <2> QED
    BY <2>2, <2>3, <2>4
<1> QED
  BY <1>4, <1>5

(* An endpoint answers, or its request was cancelled.                        *)
LEMMA RespondInv ==
  ASSUME NEW q \in Queries, NEW e \in ToSet(Endpoints), SignalInv, Respond(q, e)
  PROVE  SignalInv'
<1> USE DEF SignalInv
<1> DEFINE answer == [at |-> "answered", coverage |-> ServerCoverage(q, e), signals |-> Collected(q, e)]
           given == IF \E p \in PluginsAt(e) : task[q][p].outcome.status = "cancelled" THEN [at |-> "aborted"] ELSE answer
<1>1. /\ UNCHANGED <<window, lookup>> /\ \A p \in PluginsAt(e) : task[q][p].at = "done"
      /\ call' = [call EXCEPT ![q][e] = given]
  BY DEF Respond, Ended, Collected
<1>2. given \in Calls /\ given.at \in {"answered", "aborted"}
  <2>1. CASE \E p \in PluginsAt(e) : task[q][p].outcome.status = "cancelled"
    BY <2>1 DEF Calls
  <2>2. CASE ~\E p \in PluginsAt(e) : task[q][p].outcome.status = "cancelled"
    <3>1. ServerCoverage(q, e) \subseteq Entries /\ Collected(q, e) \subseteq Records
      BY <1>1, <2>2, ServerCoverageHonest DEF Ended
    <3> QED
      BY <2>2, <3>1 DEF Calls
  <2> QED
    BY <2>1, <2>2
<1>3. given.at = "answered" => \A s \in SourcesAt[e] : \E c \in given.coverage :
        c.required = (s \in RequiredSources) /\ (c.status = "ok" => Holds(s) \subseteq given.signals)
  <2> SUFFICES ASSUME given.at = "answered"
               PROVE  \A s \in SourcesAt[e] : \E c \in given.coverage :
                        c.required = (s \in RequiredSources) /\ (c.status = "ok" => Holds(s) \subseteq given.signals)
    OBVIOUS
  <2>1. ~\E p \in PluginsAt(e) : task[q][p].outcome.status = "cancelled"
    OBVIOUS
  <2>2. given.coverage = ServerCoverage(q, e) /\ given.signals = Collected(q, e)
    BY <2>1
  <2>3. \A s \in SourcesAt[e] : \E c \in ServerCoverage(q, e) :
          c.required = (s \in RequiredSources) /\ (c.status = "ok" => Holds(s) \subseteq Collected(q, e))
    BY <1>1, <2>1, ServerCoverageHonest DEF Ended
  <2> HIDE DEF given
  <2> QED
    BY <2>2, <2>3
<1> HIDE DEF given
<1>4. \A t \in Queries, d \in ToSet(Endpoints) : call'[t][d] = IF t = q /\ d = e THEN given ELSE call[t][d]
  BY <1>1 DEF SignalTypeOK
<1>5. \A t \in Queries, x \in Plugins : task'[t][x] = IF t = q /\ x[1] = e THEN Resting ELSE task[t][x]
  BY DEF Respond, SignalTypeOK
<1>6. Resting \in Tasks /\ Resting.at = "idle"
  BY DEF Resting, Tasks
<1>7. SignalTypeOK'
  <2>1. call' \in [Queries -> [ToSet(Endpoints) -> Calls]]
    BY <1>1, <1>2 DEF SignalTypeOK
  <2>2. task' \in [Queries -> [Plugins -> Tasks]]
    BY <1>6 DEF Respond, SignalTypeOK
  <2> QED
    BY <1>1, <2>1, <2>2 DEF SignalTypeOK
<1>8. NotArrived'
  BY <1>2, <1>4, <1>5, PluginsAreOfEndpoints DEF NotArrived
<1>9. TasksHaveLookups'
  BY <1>1, <1>5, <1>6 DEF TasksHaveLookups, Lookup, Moving
<1>10. LookupsHaveOwners'
  <2> SUFFICES ASSUME NEW x \in Plugins, NEW v \in Windows
               PROVE  Owned(x, v)'
    BY DEF LookupsHaveOwners
  <2>1. lookup[x][v].owner # Nobody => lookup[x][v].owner \in Queries
    BY DEF SignalTypeOK, Lookups
  <2>2. x[1] = e => task[q][x].at = "done"
    BY <1>1, PluginsAreOfEndpoints
  <2> QED
    BY <1>1, <1>5, <2>1, <2>2 DEF LookupsHaveOwners, Owned
<1>11. OutcomesHonest'
  BY <1>1, <1>5, <1>6 DEF OutcomesHonest
<1>12. AnswersHonest'
  BY <1>3, <1>4 DEF AnswersHonest
<1> QED
  BY <1>7, <1>8, <1>9, <1>10, <1>11, <1>12

(* Every step of the reads keeps the invariant.                             *)
LEMMA SignalNextInv == SignalInv /\ (SignalNext \/ UNCHANGED signalVars) => SignalInv'
<1> SUFFICES ASSUME SignalInv, SignalNext \/ UNCHANGED signalVars PROVE SignalInv'
  OBVIOUS
<1>1. CASE UNCHANGED signalVars
  BY <1>1 DEF signalVars, SignalInv, SignalTypeOK, NotArrived, TasksHaveLookups, Lookup, LookupsHaveOwners, Owned,
     OutcomesHonest, AnswersHonest
<1>2. ASSUME NEW q \in Queries, NEW e \in ToSet(Endpoints), Serve(q, e) \/ Respond(q, e) \/ CallFails(q, e)
      PROVE  SignalInv'
  BY <1>2, ServeInv, RespondInv, CallFailsInv
<1>3. ASSUME NEW q \in Queries, NEW p \in Plugins, Lock(q, p)
      PROVE  SignalInv'
  BY <1>3, LockInv
<1>4. ASSUME NEW q \in Queries, NEW p \in Plugins, ReadEnds(q, p)
      PROVE  SignalInv'
  BY <1>4, LeaveLookupInv, ReadOutcomesHonest DEF ReadEnds
<1>5. ASSUME NEW q \in Queries, NEW p \in Plugins, SourceTimeout(q, p)
      PROVE  SignalInv'
  <2>1. /\ Outcome("failed", {}) \in Outcomes /\ Outcome("cancelled", {}) \in Outcomes
        /\ Honest(Outcome("failed", {}), p[2]) /\ Honest(Outcome("cancelled", {}), p[2])
    BY DEF Outcome, Outcomes, Honest
  <2>2. CASE /\ task[q][p].at \in {"waiting", "reading"}
             /\ LeaveLookup(q, p, Outcome("failed", {}), Outcome("cancelled", {}))
    BY <1>5, <2>1, <2>2, LeaveLookupInv DEF SourceTimeout
  <2>3. CASE task[q][p].at = "joined" /\ SetTask(q, p, Done(Outcome("failed", {}))) /\ UNCHANGED <<lookup, lock>>
    BY <1>5, <2>3, JoinedTimesOutInv DEF SourceTimeout
  <2> QED
    BY <1>5, <2>2, <2>3 DEF SourceTimeout
<1>6. ASSUME NEW p \in Plugins, NEW w \in Windows, LookupExpires(p, w)
      PROVE  SignalInv'
  BY <1>6, LookupExpiresInv
<1> QED
  BY <1>1, <1>2, <1>3, <1>4, <1>5, <1>6 DEF SignalNext

-----------------------------------------------------------------------------
(* What it says                                                            *)

(* A window's pending lookup is one task's, and no other waits in vain        *)
(* (CloudTrailPlugin._lookup).                                              *)
LEMMA InvLookupsCoalesced == SignalInv => LookupsCoalesced
<1> USE DEF SignalInv
<1> SUFFICES ASSUME SignalInv, NEW p \in Plugins, Shared(p), NEW w \in Windows
             PROVE  LET l == lookup[p][w]
                        in(places) == {q \in Queries : window[q] = w /\ task[q][p].at \in places}
                        pending == l.owner # Nobody /\ l.outcome = Pending
                    IN /\ in({"waiting", "reading"}) = (IF pending THEN {l.owner} ELSE {})
                       /\ in({"joined"}) # {} => pending
                       /\ l.owner # Nobody => l.outcome.status \in {"pending", "ok", "partial"}
  BY DEF LookupsCoalesced
<1> DEFINE l == lookup[p][w]
           pending == l.owner # Nobody /\ l.outcome = Pending
<1>1. Owned(p, w) /\ (l.owner # Nobody => l.owner \in Queries) /\ Pending.status = "pending"
  BY DEF LookupsHaveOwners, SignalTypeOK, Lookups, Pending, Outcome
<1>2. \A q \in Queries : window[q] = w /\ task[q][p].at \in {"waiting", "reading"} => pending /\ l.owner = q
  BY RecordsAssumption DEF TasksHaveLookups, Moving, Lookup
<1>3. \A q \in Queries : window[q] = w /\ task[q][p].at = "joined" => pending
  BY DEF TasksHaveLookups, Moving, Lookup
<1>4. pending => window[l.owner] = w /\ task[l.owner][p].at \in {"waiting", "reading"}
  BY <1>1 DEF Owned
<1>5. l.owner # Nobody => l.outcome.status \in {"pending", "ok", "partial"}
  BY <1>1 DEF Owned
<1>6. {q \in Queries : window[q] = w /\ task[q][p].at \in {"waiting", "reading"}} = IF pending THEN {l.owner} ELSE {}
  BY <1>1, <1>2, <1>4
<1> QED
  BY <1>3, <1>5, <1>6

(* An endpoint whose entry is not a gap that counts (_endpoint_coverage): no   *)
(* required source of it is one, and no signal of it was skipped.            *)
LEMMA EntryNotDegraded ==
  ASSUME NEW endpoint, NEW coverage, NEW skipped \in BOOLEAN,
         LET entry == EndpointCoverage(endpoint, TRUE, coverage, skipped) IN ~(entry.required /\ entry.status # "ok")
  PROVE  ~skipped /\ \A c \in coverage : c.required => c.status = "ok"
<1>1. \A c \in coverage : c.status # "ok" => Status(coverage) # "ok"
  BY DEF Status
<1>2. /\ EndpointCoverage(endpoint, TRUE, coverage, skipped).status =
           IF skipped /\ Status(coverage) = "ok" THEN "partial" ELSE Status(coverage)
      /\ EndpointCoverage(endpoint, TRUE, coverage, skipped).required =
           ({c \in coverage : c.status # "ok"} = {} \/ (\E c \in {d \in coverage : d.status # "ok"} : c.required) \/ skipped)
  BY DEF EndpointCoverage, Entry
<1>3. skipped => EndpointCoverage(endpoint, TRUE, coverage, skipped).status # "ok"
  BY <1>2
<1> QED
  BY <1>1, <1>2, <1>3

(* The first endpoint that has a signal keeps it (TelemetryRegistry.fetch).   *)
LEMMA WellFormedAreMerged ==
  ASSUME NEW q \in Queries, SignalInv, NEW e \in ToSet(Endpoints), NEW r \in WellFormed(q, e)
  PROVE  r \in SignalsOf(q)
<1>1. \A i \in DOMAIN Endpoints : WellFormed(q, Endpoints[i]) \subseteq Records
  <2>1. SUFFICES ASSUME NEW i \in DOMAIN Endpoints, call[q][Endpoints[i]].at = "answered"
                 PROVE  call[q][Endpoints[i]].signals \subseteq Records
    BY DEF WellFormed
  <2>2. Endpoints[i] \in ToSet(Endpoints)
    BY <2>1 DEF ToSet
  <2>3. call[q][Endpoints[i]] \in Calls
    BY <2>2 DEF SignalInv, SignalTypeOK
  <2> QED
    BY <2>1, <2>3 DEF Calls
<1>2. DOMAIN Endpoints \subseteq Nat /\ \A i \in DOMAIN Endpoints : 1 .. i - 1 \subseteq DOMAIN Endpoints
  BY EndpointsAssumption
<1> DEFINE Having == {i \in DOMAIN Endpoints : r \in WellFormed(q, Endpoints[i])}
<1>3. Having # {} /\ Having \subseteq Nat
  BY <1>2 DEF ToSet
<1>4. PICK i \in Having : \A j \in Having : ~(<<j, i>> \in OpToRel(<, Nat))
  <2> HIDE DEF Having
  <2> QED
    BY <1>3, WFMin, NatLessThanWellFounded
<1>5. \A j \in 1 .. i - 1 : r \notin WellFormed(q, Endpoints[j])
  <2> SUFFICES ASSUME NEW j \in 1 .. i - 1, j \in Having PROVE FALSE
    BY <1>2, <1>4
  <2>1. i \in Nat
    BY <1>3, <1>4
  <2>2. j \in Nat /\ j < i
    BY <2>1
  <2>3. <<j, i>> \in OpToRel(<, Nat)
    BY <2>1, <2>2 DEF OpToRel
  <2> QED
    BY <1>4, <2>3
<1>6. \A j \in 1 .. i - 1 : \A t \in WellFormed(q, Endpoints[j]) : ~SameSignal(t, r)
  BY <1>1, <1>2, <1>4, <1>5, EvidenceRefsAssumption DEF SameSignal
<1>7. r \in Kept(q, i) /\ i \in DOMAIN Endpoints
  BY <1>4, <1>6 DEF Kept
<1>8. <<Endpoints[i], r>> \in Merged(q)
  BY <1>7 DEF Merged
<1> QED
  BY <1>8 DEF SignalsOf

(* An answer that is not degraded has every signal the required sources of the *)
(* required endpoints hold (TelemetryRegistry.fetch, ToolResponse.degraded).  *)
LEMMA InvQuietIsVerified == SignalInv => QuietIsVerified
<1> SUFFICES ASSUME SignalInv, NEW q \in Queries, Answered(q), ~Degraded(MergedCoverage(q)),
                    NEW e \in RequiredEndpoints, NEW s \in SourcesAt[e] \cap RequiredSources, NEW r \in Holds(s)
             PROVE  r \in SignalsOf(q)
  BY DEF QuietIsVerified
<1> DEFINE c == call[q][e]
           skipped == c.signals \cap Malformed # {}
<1>1. e \in ToSet(Endpoints) /\ EndpointEntry(q, e) \in MergedCoverage(q)
  BY EndpointsAssumption DEF MergedCoverage
<1>2. ~(EndpointEntry(q, e).required /\ EndpointEntry(q, e).status # "ok")
  BY <1>1 DEF Degraded
<1>3. c.at = "answered"
  BY <1>2 DEF EndpointEntry, Entry
<1>4. EndpointEntry(q, e) = EndpointCoverage(e, TRUE, c.coverage, skipped)
  BY <1>3 DEF EndpointEntry
<1>5. ~skipped /\ \A d \in c.coverage : d.required => d.status = "ok"
  <2>1. skipped \in BOOLEAN
    OBVIOUS
  <2> HIDE DEF c, skipped
  <2> QED
    BY <1>2, <1>4, <2>1, EntryNotDegraded
<1>6. Holds(s) \subseteq c.signals
  <2>1. PICK d \in c.coverage : d.required = (s \in RequiredSources) /\ (d.status = "ok" => Holds(s) \subseteq c.signals)
    BY <1>1, <1>3 DEF SignalInv, AnswersHonest
  <2> QED
    BY <1>5, <2>1
<1>7. r \in WellFormed(q, e)
  BY <1>3, <1>5, <1>6 DEF WellFormed
<1> QED
  BY <1>1, <1>7, WellFormedAreMerged

-----------------------------------------------------------------------------
(* The topology                                                            *)

Graph == Nat \cup {Missing}
Reading ==
  [at : {"reading"}, began : 0 .. CallMax, from : [Hosts -> [at : {"asked", "describing", "given"}, graph : Graph]]]
RegistryEntry == [age : Nat, graphs : [Hosts -> Graph]]
PluginEntry == [age : Nat, graph : Nat]

TopologyTypeOK ==
  /\ reader \in [Readers -> {Idle} \cup Reading]
  /\ registry \in {NoEntry} \cup RegistryEntry
  /\ plugin \in [Hosts -> {NoEntry} \cup PluginEntry]
  /\ up \subseteq Hosts
  /\ served \in [Hosts -> Graph]

\* A graph older than `age` is none of those meant.
Within(graph, age) == graph # Missing => graph <= age

\* How old a graph is when a plugin gives it: described during the call that asked
\* for it, or during the one that filled the plugin's cache.
GivenMax == (PluginTtl - 1) + CallMax

PluginAges == \A h \in Hosts : plugin[h] # NoEntry => plugin[h].graph <= plugin[h].age + CallMax
ReaderAges ==
  \A r \in Readers, h \in Hosts : reader[r] # Idle =>
    /\ reader[r].from[h].at = "describing" => reader[r].from[h].graph \in 0 .. reader[r].began
    /\ Within(reader[r].from[h].graph, reader[r].began + GivenMax)
RegistryAges ==
  registry # NoEntry => \A h \in Hosts : Within(registry.graphs[h], registry.age + GivenMax + CallMax)

(* The inductive invariant: a graph's age is bounded wherever it is held, by  *)
(* the age of the entry or of the call that holds it.                        *)
TopologyInv == TopologyTypeOK /\ PluginAges /\ ReaderAges /\ RegistryAges /\ GraphAgeBounded

(* An entry is served before its lifetime is over.                          *)
LEMMA FreshEntry ==
  ASSUME NEW entry, NEW ttl \in Nat, entry = NoEntry \/ entry.age \in Nat, Fresh(entry, ttl)
  PROVE  entry # NoEntry /\ entry.age <= ttl - 1
  BY TtlAssumption DEF Fresh, NoEntry

(* Nothing is cached at first.                                              *)
LEMMA TopologyInitInv == TopologyInit => TopologyInv
  BY TtlAssumption DEF TopologyInit, TopologyInv, TopologyTypeOK, PluginAges, ReaderAges, RegistryAges,
     GraphAgeBounded, NoGraphs, Graph

(* A host is heard: the graph is a cached one, one just described, or none.   *)
LEMMA HearsInv ==
  ASSUME NEW r \in Readers, NEW h \in Hosts, TopologyInv, Hears(r, h)
  PROVE  TopologyInv'
<1> USE TtlAssumption
<1> USE DEF TopologyInv, TopologyTypeOK
<1>0. /\ reader[r] \in Reading /\ reader[r] # Idle
      /\ UNCHANGED <<registry, up, served>>
      /\ \A q \in Readers : q # r => reader'[q] = reader[q]
      /\ \A g \in Hosts : g # h => reader'[r].from[g] = reader[r].from[g]
  BY DEF Hears, Describe, Described, HostFails, Idle, Reading
<1>1. ASSUME NEW answer \in [at : {"describing", "given"}, graph : Graph],
             reader' = [reader EXCEPT ![r].from[h] = answer],
             plugin' \in [Hosts -> {NoEntry} \cup PluginEntry], PluginAges',
             answer.at = "describing" => answer.graph = 0,
             Within(answer.graph, reader[r].began + GivenMax)
      PROVE  TopologyInv'
  <2>1. reader'[r] \in Reading /\ reader'[r].began = reader[r].began /\ reader'[r].from[h] = answer
    BY <1>0, <1>1 DEF Reading
  <2>2. reader' \in [Readers -> {Idle} \cup Reading]
    BY <1>1, <2>1
  <2>3. ReaderAges'
    BY <1>0, <1>1, <2>1 DEF ReaderAges, Reading
  <2>4. QED
    BY <1>0, <1>1, <2>2, <2>3 DEF RegistryAges, GraphAgeBounded
<1>2. CASE Describe(r, h)
  <2>1. UNCHANGED plugin /\ PluginAges' /\ reader[r].began \in Nat
    BY <1>0, <1>2 DEF Describe, PluginAges, Reading
  <2>2. CASE Fresh(plugin[h], PluginTtl)
    <3>1. plugin[h] \in PluginEntry /\ plugin[h].age <= PluginTtl - 1
      BY <2>2, FreshEntry DEF PluginEntry, NoEntry, Fresh
    <3>2. plugin[h].graph \in Nat /\ plugin[h].graph <= GivenMax
      BY <3>1 DEF PluginAges, PluginEntry, GivenMax, NoEntry
    <3>3. reader' = [reader EXCEPT ![r].from[h] = [at |-> "given", graph |-> plugin[h].graph]]
      BY <1>2, <2>2 DEF Describe
    <3>4. Within(plugin[h].graph, reader[r].began + GivenMax)
      BY <2>1, <3>2 DEF Within, GivenMax
    <3> DEFINE answer == [at |-> "given", graph |-> plugin[h].graph]
    <3>5. answer \in [at : {"describing", "given"}, graph : Graph] /\ answer.at = "given" /\ answer.graph = plugin[h].graph
      BY <3>2 DEF Graph
    <3>6. reader' = [reader EXCEPT ![r].from[h] = answer] /\ Within(answer.graph, reader[r].began + GivenMax)
      BY <3>3, <3>4, <3>5
    <3> HIDE DEF answer
    <3>7. QED
      BY <1>1, <2>1, <3>5, <3>6
  <2>3. CASE ~Fresh(plugin[h], PluginTtl)
    <3>1. reader' = [reader EXCEPT ![r].from[h] = [at |-> "describing", graph |-> 0]]
      BY <1>2, <2>3 DEF Describe
    <3>2. Within(0, reader[r].began + GivenMax)
      BY <2>1 DEF Within, GivenMax
    <3> DEFINE answer == [at |-> "describing", graph |-> 0]
    <3>3. answer \in [at : {"describing", "given"}, graph : Graph] /\ answer.graph = 0
      BY DEF Graph
    <3>4. reader' = [reader EXCEPT ![r].from[h] = answer] /\ Within(answer.graph, reader[r].began + GivenMax)
      BY <3>1, <3>2
    <3> HIDE DEF answer
    <3>5. QED
      BY <1>1, <2>1, <3>3, <3>4
  <2>4. QED
    BY <2>2, <2>3
<1>3. CASE HostFails(r, h)
  <2>1. UNCHANGED plugin /\ PluginAges' /\ reader' = [reader EXCEPT ![r].from[h] = Without]
    BY <1>3 DEF HostFails, PluginAges
  <2>2. Without \in [at : {"describing", "given"}, graph : Graph] /\ Without.at = "given"
    BY DEF Without, Graph
  <2>3. Within(Without.graph, reader[r].began + GivenMax)
    BY DEF Without, Within
  <2>4. QED
    BY <1>1, <2>1, <2>2, <2>3
<1>4. CASE Described(r, h)
  <2> DEFINE answer == [at |-> "given", graph |-> reader[r].from[h].graph]
  <2>1. reader[r].from[h].graph \in 0 .. reader[r].began /\ reader[r].began \in 0 .. CallMax
    BY <1>0, <1>4 DEF Described, ReaderAges, Reading
  <2> DEFINE entry == [age |-> 0, graph |-> reader[r].from[h].graph]
  <2>0. entry \in PluginEntry /\ entry # NoEntry /\ entry.graph <= entry.age + CallMax
    <3>1. reader[r].from[h].graph \in Nat /\ reader[r].from[h].graph <= CallMax
      BY <2>1
    <3>2. entry \in PluginEntry /\ entry.age = 0 /\ entry.graph = reader[r].from[h].graph
      BY <3>1 DEF PluginEntry
    <3>3. entry # NoEntry
      BY <3>1 DEF NoEntry
    <3> HIDE DEF entry
    <3>4. QED
      BY <3>1, <3>2, <3>3
  <2>2. reader' = [reader EXCEPT ![r].from[h] = answer]
    <3> HIDE DEF TopologyInv, TopologyTypeOK
    <3>1. reader[r].from[h] \in [at : {"asked", "describing", "given"}, graph : Graph]
      BY <1>0 DEF Reading
    <3>2. [reader[r].from[h] EXCEPT !.at = "given"] = answer
      BY <3>1
    <3>3. QED
      BY <1>4, <3>2 DEF Described
  <2>3. plugin' \in [Hosts -> {NoEntry} \cup PluginEntry] /\ PluginAges'
    <3>1. CASE plugin' = plugin
      BY <3>1 DEF PluginAges
    <3>2. CASE plugin' = [plugin EXCEPT ![h] = entry]
      <4> HIDE DEF entry
      <4>1. \A g \in Hosts : plugin'[g] = IF g = h THEN entry ELSE plugin[g]
        BY <3>2
      <4>2. PluginAges'
        BY <2>0, <4>1 DEF PluginAges
      <4>3. QED
        BY <2>0, <3>2, <4>2
    <3>3. QED
      BY <1>4, <3>1, <3>2 DEF Described
  <2>4. Within(answer.graph, reader[r].began + GivenMax)
    BY <2>1 DEF Within, GivenMax
  <2>5. answer \in [at : {"describing", "given"}, graph : Graph] /\ answer.at = "given"
    BY <2>1 DEF Graph
  <2> HIDE DEF answer
  <2>6. QED
    BY <1>1, <2>2, <2>3, <2>4, <2>5
<1>5. QED
  BY <1>2, <1>3, <1>4 DEF Hears

(* A reader is served a fresh entry, or starts a call.                       *)
LEMMA ReadInv ==
  ASSUME NEW r \in Readers, TopologyInv, Read(r)
  PROVE  TopologyInv'
  BY FreshEntry, TtlAssumption DEF Read, Hit, TopologyInv, TopologyTypeOK, PluginAges, ReaderAges, RegistryAges,
     GraphAgeBounded, RegistryEntry, Reading, Idle, Graph, Within, GivenMax

(* A merged graph is as old as the call that merged it and what hosts gave it. *)
LEMMA ReadReturnsInv ==
  ASSUME NEW r \in Readers, TopologyInv, ReadReturns(r)
  PROVE  TopologyInv'
<1> USE TtlAssumption DEF TopologyInv, TopologyTypeOK
<1> DEFINE graphs == [h \in Hosts |-> reader[r].from[h].graph]
<1>1. reader[r] \in Reading /\ reader[r] # Idle /\ reader' = [reader EXCEPT ![r] = Idle]
  BY DEF ReadReturns, Idle, Reading
<1>2. graphs \in [Hosts -> Graph]
  BY <1>1 DEF Reading
<1>3. \A h \in Hosts : Within(graphs[h], GivenMax + CallMax)
  BY <1>1, <1>2 DEF ReaderAges, Reading, Within, Graph, GivenMax
<1>4. registry' = [age |-> 0, graphs |-> graphs] /\ served' = graphs /\ UNCHANGED <<plugin, up>>
  BY DEF ReadReturns, Cached
<1>5. TopologyTypeOK' /\ PluginAges'
  BY <1>1, <1>2, <1>4 DEF RegistryEntry, PluginAges
<1>6. ReaderAges'
  BY <1>1 DEF ReaderAges
<1>7. RegistryAges'
  BY <1>2, <1>3, <1>4 DEF RegistryAges, Within, Graph, GivenMax
<1>8. GraphAgeBounded'
  BY <1>2, <1>3, <1>4 DEF GraphAgeBounded, Within, Graph, GivenMax
<1>9. QED
  BY <1>5, <1>6, <1>7, <1>8

(* Time makes graphs older, and what holds them.                            *)
LEMMA TickInv ==
  ASSUME TopologyInv, TopologyTick
  PROVE  TopologyInv'
<1> USE TtlAssumption DEF TopologyInv, TopologyTypeOK
<1>1. \A g \in Graph, a \in Int : Older(g) \in Graph /\ (Within(g, a) => Within(Older(g), a + 1))
  BY DEF Older, Graph, Within
<1>2. UNCHANGED <<up, served>>
  BY DEF TopologyTick
<1>3. ASSUME NEW h \in Hosts
      PROVE  /\ plugin'[h] \in {NoEntry} \cup PluginEntry
             /\ plugin'[h] # NoEntry => plugin'[h].graph <= plugin'[h].age + CallMax
  <2>1. plugin'[h] = AgePlugin(h)
    BY DEF TopologyTick
  <2>2. CASE Fresh(plugin[h], PluginTtl)
    BY <2>1, <2>2 DEF AgePlugin, Fresh, PluginEntry, NoEntry, PluginAges
  <2>3. QED
    BY <2>1, <2>2 DEF AgePlugin
<1>4. plugin' \in [Hosts -> {NoEntry} \cup PluginEntry] /\ PluginAges'
  BY <1>3 DEF TopologyTick, PluginAges
<1>5. registry' \in {NoEntry} \cup RegistryEntry /\ RegistryAges'
  <2>1. registry' = AgeRegistry
    BY DEF TopologyTick
  <2>2. CASE Fresh(registry, RegistryTtl)
    <3>1. registry \in RegistryEntry /\ registry # NoEntry
      BY <2>2 DEF Fresh, NoEntry
    <3>2. registry' = [age |-> registry.age + 1, graphs |-> [h \in Hosts |-> Older(registry.graphs[h])]]
      BY <2>1, <2>2 DEF AgeRegistry
    <3>3. registry' \in RegistryEntry
      BY <1>1, <3>1, <3>2 DEF RegistryEntry
    <3>4. \A h \in Hosts : Within(registry.graphs[h], registry.age + GivenMax + CallMax)
      BY <3>1 DEF RegistryAges
    <3>5. \A h \in Hosts : Within(Older(registry.graphs[h]), (registry.age + GivenMax + CallMax) + 1)
      BY <1>1, <3>1, <3>4 DEF RegistryEntry, GivenMax
    <3>6. RegistryAges'
      BY <3>1, <3>2, <3>5 DEF RegistryAges, RegistryEntry, GivenMax, Within
    <3>7. QED
      BY <3>3, <3>6
  <2>3. QED
    BY <2>1, <2>2 DEF AgeRegistry, RegistryAges
<1>6. ASSUME NEW r \in Readers
      PROVE  /\ reader'[r] \in {Idle} \cup Reading
             /\ \A h \in Hosts : reader'[r] # Idle =>
                  /\ reader'[r].from[h].at = "describing" => reader'[r].from[h].graph \in 0 .. reader'[r].began
                  /\ Within(reader'[r].from[h].graph, reader'[r].began + GivenMax)
  <2>1. CASE reader[r].at = "idle"
    BY <2>1 DEF TopologyTick
  <2>2. CASE reader[r].at # "idle"
    <3>1. reader[r] \in Reading /\ reader[r] # Idle
      BY <2>2 DEF Idle
    <3>2. reader[r].began + 1 \in 0 .. CallMax
      BY <3>1 DEF TopologyTick, Reading
    <3>3. /\ reader'[r] = [at |-> "reading", began |-> reader[r].began + 1,
                           from |-> [h \in Hosts |-> [reader[r].from[h] EXCEPT !.graph = Older(@)]]]
          /\ reader'[r] # Idle
      BY <2>2 DEF TopologyTick, Idle
    <3>4. ASSUME NEW h \in Hosts
          PROVE  /\ reader'[r].from[h] = [at |-> reader[r].from[h].at, graph |-> Older(reader[r].from[h].graph)]
                 /\ reader'[r].from[h].at = reader[r].from[h].at
                 /\ reader'[r].from[h].graph = Older(reader[r].from[h].graph)
                 /\ Older(reader[r].from[h].graph) \in Graph
                 /\ Within(reader[r].from[h].graph, reader[r].began + GivenMax)
      BY <1>1, <3>1, <3>3 DEF Reading, ReaderAges
    <3>5. reader'[r] \in Reading
      <4> HIDE DEF TopologyInv, TopologyTypeOK
      <4> DEFINE from == [h \in Hosts |-> [reader[r].from[h] EXCEPT !.graph = Older(@)]]
      <4>1. ASSUME NEW h \in Hosts
            PROVE  [reader[r].from[h] EXCEPT !.graph = Older(@)] \in [at : {"asked", "describing", "given"}, graph : Graph]
        <5>1. reader[r].from[h] \in [at : {"asked", "describing", "given"}, graph : Graph]
          BY <3>1 DEF Reading
        <5>2. QED
          BY <3>4, <5>1
      <4>2. from \in [Hosts -> [at : {"asked", "describing", "given"}, graph : Graph]]
        BY <4>1
      <4> HIDE DEF from
      <4>3. reader'[r] = [at |-> "reading", began |-> reader[r].began + 1, from |-> from]
        BY <3>3 DEF from
      <4>4. QED
        BY <3>2, <4>2, <4>3 DEF Reading
    <3>6. ASSUME NEW h \in Hosts
          PROVE  /\ reader'[r].from[h].at = "describing" => reader'[r].from[h].graph \in 0 .. reader'[r].began
                 /\ Within(reader'[r].from[h].graph, reader'[r].began + GivenMax)
      <4>1. reader[r].from[h].graph \in Graph /\ reader[r].began \in Nat
        BY <3>1 DEF Reading
      <4>2. Within(Older(reader[r].from[h].graph), (reader[r].began + GivenMax) + 1)
        <5> HIDE DEF TopologyInv, TopologyTypeOK
        <5>1. GivenMax \in Int /\ (reader[r].began + GivenMax) \in Int
          BY <4>1 DEF GivenMax
        <5>2. QED
          BY <1>1, <3>4, <4>1, <5>1
      <4>3. Within(reader'[r].from[h].graph, reader'[r].began + GivenMax)
        <5> HIDE DEF TopologyInv, TopologyTypeOK
        <5>1. reader'[r].began = reader[r].began + 1 /\ (reader[r].began + 1) + GivenMax = (reader[r].began + GivenMax) + 1
          BY <3>3, <4>1 DEF GivenMax
        <5>2. reader'[r].from[h].graph = Older(reader[r].from[h].graph)
          BY <3>4
        <5>3. QED
          BY <4>2, <5>1, <5>2
      <4>4. reader[r].from[h].at = "describing" => Older(reader[r].from[h].graph) \in 0 .. reader[r].began + 1
        BY <3>1, <4>1 DEF ReaderAges, Older, Graph
      <4>5. QED
        <5>1. reader'[r].from[h].at = reader[r].from[h].at /\ reader'[r].from[h].graph = Older(reader[r].from[h].graph)
          BY <3>4
        <5> HIDE DEF TopologyInv, TopologyTypeOK
        <5>2. reader'[r].began = reader[r].began + 1
          BY <3>3
        <5>3. QED
          BY <4>3, <4>4, <5>1, <5>2
    <3>7. QED
      BY <3>5, <3>6
  <2>3. QED
    BY <2>1, <2>2
<1>7. reader' \in [Readers -> {Idle} \cup Reading] /\ ReaderAges'
  BY <1>6 DEF TopologyTick, ReaderAges
<1>8. QED
  BY <1>2, <1>4, <1>5, <1>7 DEF GraphAgeBounded

(* Every step of the topology keeps the invariant.                          *)
LEMMA TopologyNextInv == TopologyInv /\ [TopologyNext]_topologyVars => TopologyInv'
<1> SUFFICES ASSUME TopologyInv, [TopologyNext]_topologyVars PROVE TopologyInv'
  OBVIOUS
<1>1. CASE UNCHANGED topologyVars
  BY <1>1 DEF topologyVars, TopologyInv, TopologyTypeOK, PluginAges, ReaderAges, RegistryAges, GraphAgeBounded
<1>2. ASSUME NEW h \in Hosts, HostChanges(h) PROVE TopologyInv'
  BY <1>2 DEF HostChanges, TopologyInv, TopologyTypeOK, PluginAges, ReaderAges, RegistryAges, GraphAgeBounded
<1>3. QED
  BY <1>1, <1>2, HearsInv, ReadInv, ReadReturnsInv, TickInv DEF TopologyNext

(* No reader is given a graph older than the lifetimes of the two caches and   *)
(* the two calls that filled them: the bound holds through overlapping reads   *)
(* that overwrite each other's entries.                                      *)
THEOREM GraphsAreRecent == Spec => []GraphAgeBounded
<1>1. Init => TopologyInv
  BY TopologyInitInv DEF Init
<1>2. TopologyInv /\ [Next]_vars => TopologyInv'
  BY TopologyNextInv DEF Next, vars, topologyVars
<1>3. TopologyInv => GraphAgeBounded
  BY DEF TopologyInv
<1>4. QED
  BY <1>1, <1>2, <1>3, PTL DEF Spec

-----------------------------------------------------------------------------
(* The signals                                                             *)

(* The reads of signals keep their invariant, and the other parts leave it.   *)
LEMMA SignalInvariant == Spec => []SignalInv
<1>1. Init => SignalInv
  BY SignalInitInv DEF Init
<1>2. SignalInv /\ [Next]_vars => SignalInv'
  BY SignalNextInv DEF Next, vars, signalVars
<1> QED
  BY <1>1, <1>2, PTL DEF Spec

(* "No data" and "data unavailable" never look the same: whatever failed, timed *)
(* out or was skipped, an answer that is not degraded has every signal the      *)
(* required sources hold (TelemetryRegistry.fetch, TelemetryService.query).   *)
THEOREM QuietAnswersAreWhole == Spec => []QuietIsVerified
  BY SignalInvariant, InvQuietIsVerified, PTL

(* A window is read once while its lookup is in flight, by a task that still    *)
(* runs, and a failed lookup is not served again (CloudTrailPlugin._lookup).   *)
THEOREM LookupsAreShared == Spec => []LookupsCoalesced
  BY SignalInvariant, InvLookupsCoalesced, PTL

-----------------------------------------------------------------------------
(* The limits of the sources                                               *)

(* A sequence of elements of any set is a list of its own.                   *)
LEMMA ListOf == ASSUME NEW T, NEW s \in Seq(T) PROVE IsList(s) /\ ToSet(s) \subseteq T
<1>1. Len(s) \in Nat /\ DOMAIN s = 1 .. Len(s) /\ s \in [1 .. Len(s) -> T]
  BY LenProperties
<1>2. s \in [1 .. Len(s) -> ToSet(s)]
  BY <1>1 DEF ToSet
<1> QED
  BY <1>1, <1>2, SeqDef DEF IsList, ToSet

(* The smaller of two numbers.                                              *)
LEMMA MinOf == ASSUME NEW a \in Nat, NEW b \in Nat PROVE Min({a, b}) = IF a <= b THEN a ELSE b
<1> DEFINE m == IF a <= b THEN a ELSE b
<1>1. m \in {a, b} /\ \A y \in {a, b} : m <= y
  OBVIOUS
<1>2. ASSUME NEW x \in {a, b}, \A y \in {a, b} : x <= y PROVE x = m
  BY <1>2
<1> HIDE DEF m
<1>3. Min({a, b}) \in {a, b} /\ \A y \in {a, b} : Min({a, b}) <= y
  BY <1>1 DEF Min
<1>4. Min({a, b}) = m
  BY <1>2, <1>3
<1> QED
  BY <1>4 DEF m

(* A limit keeps elements of a list, and all of them when there are no more.  *)
LEMMA FirstOfIs ==
  ASSUME NEW n \in Nat, NEW s, IsList(s)
  PROVE  /\ IsList(FirstOf(n, s)) /\ ToSet(FirstOf(n, s)) \subseteq ToSet(s)
         /\ Len(s) <= n => FirstOf(n, s) = s
<1> DEFINE m == Min({n, Len(s)})
           T == ToSet(s)
<1>1. s \in Seq(T) /\ Len(s) \in Nat
  BY LenProperties DEF IsList
<1>2. m = IF n <= Len(s) THEN n ELSE Len(s)
  BY <1>1, MinOf
<1> HIDE DEF m, T
<1>3. m \in Int /\ m <= Len(s)
  BY <1>1, <1>2
<1>4. \A i \in 1 .. m : s[i] \in T
  BY <1>1, <1>3, ElementOfSeq
<1>5. SubSeq(s, 1, m) \in Seq(T)
  BY <1>3, <1>4, SubSeqProperties
<1>6. FirstOf(n, s) = SubSeq(s, 1, m)
  BY DEF FirstOf, m
<1>7. IsList(SubSeq(s, 1, m)) /\ ToSet(SubSeq(s, 1, m)) \subseteq T
  BY <1>5, ListOf
<1>8. Len(s) <= n => SubSeq(s, 1, m) = s
  <2>1. Len(s) <= n => m = Len(s)
    BY <1>1, <1>2
  <2> QED
    BY <1>1, <2>1, SubSeqFull
<1> QED
  BY <1>6, <1>7, <1>8 DEF T

(* The pages read hold items, and all of them when there are no more pages.   *)
LEMMA PaginateIs ==
  ASSUME NEW items, IsList(items), NEW pages \in Nat
  PROVE  LET read == Paginate(items, pages)
         IN /\ IsList(read.items) /\ ToSet(read.items) \subseteq ToSet(items)
            /\ Len(items) <= pages * Page => read.items = items
            /\ ~read.more => Len(items) <= pages * Page
<1>1. pages * Page \in Nat /\ Len(items) \in Nat
  <2>1. Page \in Nat /\ Len(items) \in Nat
    BY LimitsAssumption, LenProperties DEF IsList
  <2> QED
    BY <2>1
<1>2. /\ Paginate(items, pages).items = FirstOf(pages * Page, items)
      /\ Paginate(items, pages).more = (Len(items) > pages * Page)
  BY DEF Paginate
<1> DEFINE k == pages * Page
           read == Paginate(items, pages)
<1>3. k \in Nat /\ read.items = FirstOf(k, items) /\ (~read.more => ~(Len(items) > k))
  BY <1>1, <1>2
<1> HIDE DEF k, read
<1>4. /\ IsList(read.items) /\ ToSet(read.items) \subseteq ToSet(items)
      /\ Len(items) <= k => read.items = items
      /\ ~read.more => Len(items) <= k
  BY <1>1, <1>3, FirstOfIs
<1> QED
  BY <1>4 DEF k, read

(* What is picked from a list is a list of its elements.                     *)
LEMMA PickedFrom ==
  ASSUME NEW s, IsList(s), NEW I \in SUBSET DOMAIN s
  PROVE  IsList(Picked(s, I)) /\ ToSet(Picked(s, I)) = {s[i] : i \in I}
<1>1. s \in Seq(ToSet(s))
  BY DEF IsList
<1>2. Picked(s, I) \in Seq(ToSet(s)) /\ ToSet(Picked(s, I)) = {s[i] : i \in I}
  BY <1>1, PickedLists
<1> QED
  BY <1>2, ListOf

-----------------------------------------------------------------------------
(* The sources                                                             *)

(* A read of a log group, with the filter pattern or without.                *)
LEMMA LogReadIs ==
  ASSUME NEW group, IsList(group), NEW filtered
  PROVE  LET read == LogRead(group, filtered)
         IN /\ IsList(read.items) /\ ToSet(read.items) \subseteq ToSet(group)
            /\ ~read.more => \A l \in ToSet(group) : Shown(l) => l \in ToSet(read.items)
<1> DEFINE I == {i \in DOMAIN group : Shown(group[i])}
           lines == IF filtered THEN Picked(group, I) ELSE group
<1>1. IsList(lines) /\ ToSet(lines) \subseteq ToSet(group) /\ \A l \in ToSet(group) : Shown(l) => l \in ToSet(lines)
  <2>1. IsList(Picked(group, I)) /\ ToSet(Picked(group, I)) = {group[i] : i \in I}
    BY PickedFrom
  <2>2. ToSet(group) = {group[i] : i \in DOMAIN group}
    BY DEF ToSet
  <2> QED
    BY <2>1, <2>2
<1>2. LogRead(group, filtered) = Paginate(lines, MaxPages)
  BY DEF LogRead
<1> HIDE DEF lines
<1>3. MaxPages \in Nat
  BY LimitsAssumption
<1> QED
  BY <1>1, <1>2, <1>3, PaginateIs

(* A query's events are classified lines, and all of them if nothing was cut.  *)
LEMMA RunQueryIs ==
  ASSUME NEW group, IsList(group), NEW filtered
  PROVE  LET run == RunQuery(group, filtered)
         IN /\ run.got \subseteq Ids(ToSet(group))
            /\ ~run.cut => Ids({l \in ToSet(group) : Classified(l)}) \subseteq run.got
<1> DEFINE read == LogRead(group, filtered)
           events == FirstOf(MaxRecords, read.items)
           run == RunQuery(group, filtered)
<1>1. /\ IsList(read.items) /\ ToSet(read.items) \subseteq ToSet(group)
      /\ ~read.more => \A l \in ToSet(group) : Shown(l) => l \in ToSet(read.items)
  BY LogReadIs
<1>2. /\ run.got = Ids({l \in ToSet(events) : Classified(l)})
      /\ ~run.cut => ~read.more /\ ~(Len(read.items) > MaxRecords)
  BY DEF RunQuery
<1> HIDE DEF read, run
<1>3. MaxRecords \in Nat /\ Len(read.items) \in Nat
  BY <1>1, LimitsAssumption, LenProperties DEF IsList
<1>4. ToSet(events) \subseteq ToSet(read.items) /\ (Len(read.items) <= MaxRecords => events = read.items)
  BY <1>1, <1>3, FirstOfIs
<1> HIDE DEF events
<1>5. run.got \subseteq Ids(ToSet(group))
  BY <1>1, <1>2, <1>4 DEF Ids
<1>6. ASSUME ~run.cut PROVE Ids({l \in ToSet(group) : Classified(l)}) \subseteq run.got
  <2>1. events = read.items /\ \A l \in ToSet(group) : Shown(l) => l \in ToSet(events)
    BY <1>1, <1>2, <1>3, <1>4, <1>6
  <2>2. \A l \in ToSet(group) : Classified(l) => Shown(l)
    BY DEF Classified, Shown
  <2> QED
    BY <1>2, <2>1, <2>2 DEF Ids
<1> QED
  BY <1>5, <1>6 DEF run

(* The unmatched lines are lines of the group.                               *)
LEMMA UnmatchedIs ==
  ASSUME NEW group, IsList(group), NEW filtered, NEW limit \in Nat
  PROVE  Unmatched(group, filtered, limit) \subseteq Ids(ToSet(group))
<1> DEFINE all == LogRead(group, FALSE).items
           lines == IF filtered THEN all ELSE FirstOf(MaxRecords, all)
           I == {i \in DOMAIN lines : lines[i].id \notin RunQuery(group, filtered).got}
           others == Picked(lines, I)
<1>1. IsList(all) /\ ToSet(all) \subseteq ToSet(group) /\ MaxRecords \in Nat
  BY LogReadIs, LimitsAssumption
<1>2. Unmatched(group, filtered, limit) = Ids(ToSet(FirstOf(limit, others)))
  BY DEF Unmatched
<1> HIDE DEF all
<1>3. IsList(lines) /\ ToSet(lines) \subseteq ToSet(group)
  BY <1>1, FirstOfIs
<1> HIDE DEF lines
<1>4. IsList(others) /\ ToSet(others) \subseteq ToSet(lines)
  <2>1. I \in SUBSET DOMAIN lines
    OBVIOUS
  <2> HIDE DEF I
  <2>2. IsList(others) /\ ToSet(others) = {lines[i] : i \in I}
    BY <1>3, <2>1, PickedFrom
  <2> QED
    BY <2>1, <2>2 DEF ToSet
<1> HIDE DEF others
<1>5. ToSet(FirstOf(limit, others)) \subseteq ToSet(others)
  BY <1>4, FirstOfIs
<1> QED
  BY <1>2, <1>3, <1>4, <1>5 DEF Ids

\* What OkMeansWhole asks of a fetch.
Sound(r, held, whole) == r.got \subseteq held /\ (r.status = "ok" => whole \subseteq r.got)

(* CloudWatch Logs: groups that cannot be read, optional ones and limits.      *)
LEMMA LogsSound ==
  ASSUME NEW groups, NEW optional, NEW filtered, NEW extra \in Nat, \A q \in Readable(groups) : IsList(groups[q])
  PROVE  Sound(LogsFetch(groups, optional, filtered, extra),
               UNION {Ids(ToSet(groups[q])) : q \in Readable(groups)},
               UNION {Ids({l \in ToSet(groups[q]) : Classified(l)}) : q \in Readable(groups)})
<1> DEFINE errors == {q \in DOMAIN groups \ Readable(groups) : ~(groups[q] = NoGroup /\ q \in optional)}
           R == Readable(groups)
           run(q) == RunQuery(groups[q], filtered)
           got == UNION {run(q).got \cup Unmatched(groups[q], filtered, extra) : q \in R}
           cut == errors # {} \/ \E q \in R : run(q).cut
           r == LogsFetch(groups, optional, filtered, extra)
<1>1. r = IF errors # {} /\ errors = DOMAIN groups THEN Raised ELSE Fetched(got, cut)
  BY DEF LogsFetch
<1>2. \A q \in R : /\ run(q).got \subseteq Ids(ToSet(groups[q]))
                   /\ Unmatched(groups[q], filtered, extra) \subseteq Ids(ToSet(groups[q]))
                   /\ ~run(q).cut => Ids({l \in ToSet(groups[q]) : Classified(l)}) \subseteq run(q).got
  BY RunQueryIs, UnmatchedIs
<1> HIDE DEF run, R, errors
<1>3. got \subseteq UNION {Ids(ToSet(groups[q])) : q \in R}
  BY <1>2
<1>4. ~cut => UNION {Ids({l \in ToSet(groups[q]) : Classified(l)}) : q \in R} \subseteq got
  <2> SUFFICES ASSUME ~cut, NEW q \in R PROVE Ids({l \in ToSet(groups[q]) : Classified(l)}) \subseteq got
    OBVIOUS
  <2>1. ~run(q).cut /\ run(q).got \subseteq got
    OBVIOUS
  <2> HIDE DEF got
  <2> QED
    BY <1>2, <2>1
<1> HIDE DEF got, cut, r
<1>5. Sound(r, UNION {Ids(ToSet(groups[q])) : q \in R}, UNION {Ids({l \in ToSet(groups[q]) : Classified(l)}) : q \in R})
  <2>1. CASE r = Raised
    BY <2>1 DEF Sound, Raised
  <2>2. CASE r = Fetched(got, cut)
    BY <1>3, <1>4, <2>2 DEF Sound, Fetched
  <2> QED
    BY <1>1, <2>1, <2>2
<1> QED
  BY <1>5 DEF r, R

(* CloudTrail: the pages that MaxRecords events take.                        *)
LEMMA TrailSound ==
  ASSUME NEW events, IsList(events)
  PROVE  Sound(TrailFetch(events), Ids({e \in ToSet(events) : e.ours}), Ids({e \in ToSet(events) : e.ours}))
<1> DEFINE pages == Ceiling(MaxRecords, Page)
           read == Paginate(events, pages)
<1>1. pages \in Nat
  BY LimitsAssumption DEF Ceiling
<1>2. TrailFetch(events) = Fetched(Ids({e \in ToSet(read.items) : e.ours}), read.more)
  BY DEF TrailFetch
<1> HIDE DEF pages
<1>3. /\ ToSet(read.items) \subseteq ToSet(events)
      /\ ~read.more => read.items = events
  BY <1>1, PaginateIs
<1> HIDE DEF read
<1> QED
  BY <1>2, <1>3 DEF Sound, Fetched, Ids

(* One limit for all series.                                                *)
LEMMA UpToLimitSound ==
  ASSUME NEW series, IsList(series)
  PROVE  Sound(UpToLimit(series), ToSet(series), ToSet(series))
<1> DEFINE first == FirstOf(MaxRecords, series)
<1>1. MaxRecords \in Nat /\ Len(series) \in Nat
  BY LimitsAssumption, LenProperties DEF IsList
<1>2. ToSet(first) \subseteq ToSet(series) /\ (Len(series) <= MaxRecords => first = series)
  BY <1>1, FirstOfIs
<1>3. UpToLimit(series) = [got |-> ToSet(first), status |-> IF Len(series) > MaxRecords THEN "partial" ELSE "ok"]
  BY DEF UpToLimit, Fetched
<1> HIDE DEF first
<1> QED
  BY <1>1, <1>2, <1>3 DEF Sound

(* The elements of lists one after the other.                                *)
LEMMA FlattenedFrom ==
  ASSUME NEW ss, AreLists(ss)
  PROVE  IsList(Flattened(ss)) /\ ToSet(Flattened(ss)) = UNION {ToSet(ss[m]) : m \in DOMAIN ss}
<1> DEFINE T == UNION {ToSet(ss[m]) : m \in DOMAIN ss}
<1>1. ss \in Seq(ToSet(ss)) /\ \A m \in DOMAIN ss : ss[m] \in Seq(ToSet(ss[m]))
  BY DEF AreLists, IsList
<1>2. \A m \in DOMAIN ss : ss[m] \in Seq(T)
  <2> SUFFICES ASSUME NEW m \in DOMAIN ss PROVE ss[m] \in Seq(T)
    OBVIOUS
  <2>1. ToSet(ss[m]) \subseteq T
    OBVIOUS
  <2> HIDE DEF T
  <2> QED
    BY <1>1, <2>1, SeqMonotonic
<1> HIDE DEF T
<1>3. Len(ss) \in Nat /\ ss \in [1 .. Len(ss) -> ToSet(ss)] /\ DOMAIN ss = 1 .. Len(ss)
  BY <1>1, LenProperties
<1>4. ss \in [1 .. Len(ss) -> Seq(T)]
  BY <1>2, <1>3
<1>5. ss \in Seq(Seq(T))
  BY <1>3, <1>4, SeqDef
<1>6. Flattened(ss) \in Seq(T) /\ ToSet(Flattened(ss)) = T
  BY <1>5, FlattenedLists DEF T
<1> QED
  BY <1>6, ListOf DEF T

(* CloudWatch metrics: the discovered series.                                *)
LEMMA MetricsSound ==
  ASSUME NEW metrics, AreLists(metrics), NEW all, all = UNION {ToSet(m) : m \in ToSet(metrics)}
  PROVE  Sound(MetricsFetch(metrics), all, IF \A m \in ToSet(metrics) : Len(m) <= MaxPages * Page THEN all ELSE {})
<1> DEFINE ss == [m \in DOMAIN metrics |-> Paginate(metrics[m], MaxPages).items]
<1>1. MaxPages \in Nat /\ \A m \in DOMAIN metrics : IsList(metrics[m])
  BY LimitsAssumption DEF AreLists
<1>2. \A m \in DOMAIN metrics : /\ IsList(Paginate(metrics[m], MaxPages).items)
                                /\ ToSet(Paginate(metrics[m], MaxPages).items) \subseteq ToSet(metrics[m])
                                /\ Len(metrics[m]) <= MaxPages * Page => Paginate(metrics[m], MaxPages).items = metrics[m]
  BY <1>1, PaginateIs
<1>3. DOMAIN ss = DOMAIN metrics /\ \A m \in DOMAIN ss : ss[m] = Paginate(metrics[m], MaxPages).items
  OBVIOUS
<1> HIDE DEF ss
<1>4. AreLists(ss)
  <2>1. Len(metrics) \in Nat /\ DOMAIN metrics = 1 .. Len(metrics)
    BY LenProperties DEF AreLists, IsList
  <2>2. ss \in [1 .. Len(metrics) -> ToSet(ss)]
    BY <1>3, <2>1 DEF ToSet, ss
  <2>3. ss \in Seq(ToSet(ss))
    BY <2>1, <2>2, SeqDef
  <2> QED
    BY <1>2, <1>3, <2>3 DEF AreLists, IsList
<1>5. IsList(Flattened(ss)) /\ ToSet(Flattened(ss)) = UNION {ToSet(ss[m]) : m \in DOMAIN ss}
  BY <1>4, FlattenedFrom
<1>6. MetricsFetch(metrics) = UpToLimit(Flattened(ss))
  BY DEF MetricsFetch, Discover, ss
<1>7. all = UNION {ToSet(metrics[m]) : m \in DOMAIN metrics}
  BY DEF ToSet
<1>8. ToSet(Flattened(ss)) \subseteq all
  BY <1>2, <1>3, <1>5, <1>7
<1>9. (\A m \in ToSet(metrics) : Len(m) <= MaxPages * Page) => all \subseteq ToSet(Flattened(ss))
  <2> SUFFICES ASSUME \A m \in ToSet(metrics) : Len(m) <= MaxPages * Page PROVE all \subseteq ToSet(Flattened(ss))
    OBVIOUS
  <2>1. \A m \in DOMAIN metrics : metrics[m] \in ToSet(metrics)
    BY DEF ToSet
  <2>2. \A m \in DOMAIN metrics : ss[m] = metrics[m]
    BY <1>2, <1>3, <2>1
  <2> QED
    BY <1>3, <1>5, <1>7, <2>2
<1>10. Sound(MetricsFetch(metrics), ToSet(Flattened(ss)), ToSet(Flattened(ss)))
  BY <1>5, <1>6, UpToLimitSound
<1> QED
  BY <1>8, <1>9, <1>10 DEF Sound

(* Prometheus: any query that fails fails all.                               *)
LEMMA PrometheusSound ==
  ASSUME NEW queries, NoAccess \in ToSet(queries) \/ AreLists(queries),
         NEW all, all = UNION {ToSet(s) : s \in ToSet(queries) \ {NoAccess}}
  PROVE  Sound(PrometheusFetch(queries), all, all)
<1>1. CASE NoAccess \in ToSet(queries)
  <2>1. PrometheusFetch(queries) = Raised
    BY <1>1 DEF PrometheusFetch
  <2> QED
    BY <2>1 DEF Sound, Raised
<1>2. CASE NoAccess \notin ToSet(queries)
  <2>1. AreLists(queries) /\ PrometheusFetch(queries) = UpToLimit(Flattened(queries))
    BY <1>2 DEF PrometheusFetch
  <2>2. IsList(Flattened(queries)) /\ ToSet(Flattened(queries)) = UNION {ToSet(queries[m]) : m \in DOMAIN queries}
    BY <2>1, FlattenedFrom
  <2>3. all = UNION {ToSet(queries[m]) : m \in DOMAIN queries}
    BY <1>2 DEF ToSet
  <2> QED
    BY <2>1, <2>2, <2>3, UpToLimitSound
<1> QED
  BY <1>1, <1>2

(* Transit gateway routes: an old window gets none, and a table that is cut is   *)
(* told.                                                                    *)
LEMMA RoutesSound ==
  ASSUME NEW tables, AreLists(tables), NEW old, NEW all, all = UNION {ToSet(t) : t \in ToSet(tables)}
  PROVE  Sound(RoutesFetch(tables, old), all, IF Len(tables) <= MaxPages * Page THEN all ELSE {})
<1> DEFINE read == Paginate(tables, MaxPages).items
           got == UNION {ToSet(FirstOf(MaxRecords, t)) : t \in ToSet(read)}
           cut == \E t \in ToSet(read) : Len(t) > MaxRecords
<1>1. MaxPages \in Nat /\ MaxRecords \in Nat
  BY LimitsAssumption
<1>2. IsList(tables) /\ \A t \in ToSet(tables) : IsList(t) /\ Len(t) \in Nat
  <2>1. IsList(tables) /\ \A t \in ToSet(tables) : IsList(t)
    BY DEF AreLists, ToSet
  <2> QED
    BY <2>1, LenProperties DEF IsList
<1>3. ToSet(read) \subseteq ToSet(tables) /\ (Len(tables) <= MaxPages * Page => read = tables)
  BY <1>1, <1>2, PaginateIs
<1> HIDE DEF read
<1>4. \A t \in ToSet(read) : /\ ToSet(FirstOf(MaxRecords, t)) \subseteq ToSet(t)
                             /\ ~(Len(t) > MaxRecords) => FirstOf(MaxRecords, t) = t
  <2> SUFFICES ASSUME NEW t \in ToSet(read)
               PROVE  /\ ToSet(FirstOf(MaxRecords, t)) \subseteq ToSet(t)
                      /\ ~(Len(t) > MaxRecords) => FirstOf(MaxRecords, t) = t
    OBVIOUS
  <2>1. IsList(t) /\ Len(t) \in Nat
    BY <1>2, <1>3
  <2> QED
    BY <1>1, <2>1, FirstOfIs
<1>5. got \subseteq all
  BY <1>3, <1>4
<1>6. ~cut /\ Len(tables) <= MaxPages * Page => all \subseteq got
  BY <1>3, <1>4
<1> HIDE DEF got, cut
<1>7. RoutesFetch(tables, old) = IF old THEN [got |-> {}, status |-> "partial"]
                                ELSE [got |-> got, status |-> IF cut THEN "partial" ELSE "ok"]
  BY DEF RoutesFetch, Fetched, got, cut, read
<1>8. CASE old
  <2>1. RoutesFetch(tables, old) = [got |-> {}, status |-> "partial"]
    BY <1>7, <1>8
  <2> QED
    BY <2>1 DEF Sound
<1>9. CASE ~old
  <2>1. RoutesFetch(tables, old) = [got |-> got, status |-> IF cut THEN "partial" ELSE "ok"]
    BY <1>7, <1>9
  <2> QED
    BY <1>5, <1>6, <2>1 DEF Sound
<1> QED
  BY <1>8, <1>9

(* Simulation: the rounding undoes the drift of the clock (rebase).            *)
LEMMA RebasedIs == ASSUME NEW row, row.age \in Nat, row.drift \in 0 .. 4 PROVE Rebased(row) = row.age
<1>1. \A a \in Nat, d \in 0 .. 4 : (10 * a + d + 5) \div 10 = a
  OBVIOUS
<1> QED
  BY <1>1 DEF Rebased

LEMMA SimulationSound ==
  ASSUME NEW rows, NEW known, NEW query, query.start \in Int, query.end \in Int,
         \A r \in rows : r.age \in Nat /\ r.drift \in 0 .. 4,
         NEW all, all = {r.id : r \in {s \in rows : s.region = query.region /\ s.age \in 0 .. query.end - query.start}}
  PROVE  Sound(SimulationFetch(rows, known, query), all, all)
<1> DEFINE kept == {s \in rows : s.region = query.region /\ query.start <= query.end - Rebased(s) /\ Rebased(s) >= 0}
           held == {s \in rows : s.region = query.region /\ s.age \in 0 .. query.end - query.start}
<1>1. kept = held
  <2>1. ASSUME NEW s \in rows
        PROVE  (query.start <= query.end - Rebased(s) /\ Rebased(s) >= 0) <=> s.age \in 0 .. query.end - query.start
    <3>1. Rebased(s) = s.age /\ s.age \in Nat
      BY RebasedIs
    <3> QED
      BY <3>1
  <2> QED
    BY <2>1
<1>2. SimulationFetch(rows, known, query) = IF ~known THEN Raised ELSE Fetched({r.id : r \in kept}, FALSE)
  BY DEF SimulationFetch
<1> HIDE DEF kept
<1>3. CASE ~known
  <2>1. SimulationFetch(rows, known, query) = Raised
    BY <1>2, <1>3
  <2> QED
    BY <2>1 DEF Sound, Raised
<1>4. CASE known
  <2>1. SimulationFetch(rows, known, query) = Fetched({r.id : r \in kept}, FALSE)
    BY <1>2, <1>4
  <2> QED
    BY <1>1, <2>1 DEF Sound, Fetched
<1> QED
  BY <1>3, <1>4

(* The recorder drops only what it has under the same reference.              *)
LEMMA RecordedIs ==
  ASSUME NEW responses, IsList(responses), NEW region, NEW alarm,
         NEW about, about = {i \in DOMAIN responses : responses[i].region = region /\ responses[i].alarm = alarm},
         NEW D, D = Recorded(responses, region, alarm)
  PROVE  /\ \A t \in D : \E i \in about : t \in responses[i].signals
         /\ \A i \in about : \A s \in responses[i].signals : \E t \in D : t.id = s.id
<1> DEFINE new(i) == {s \in responses[i].signals : \A j \in about : j < i => s.id \notin Ids(responses[j].signals)}
<1>1. D = UNION {new(i) : i \in about}
  BY DEF Recorded
<1>2. about \subseteq Nat
  BY LenProperties DEF IsList
<1>3. ASSUME NEW i \in about, NEW s \in responses[i].signals PROVE \E t \in D : t.id = s.id
  <2> DEFINE H == {j \in about : s.id \in Ids(responses[j].signals)}
  <2>1. H # {} /\ H \subseteq Nat
    <3>1. i \in H
      BY <1>3 DEF Ids
    <3> QED
      BY <1>2, <3>1
  <2>2. PICK j \in H : \A k \in H : ~(<<k, j>> \in OpToRel(<, Nat))
    <3> HIDE DEF H
    <3> QED
      BY <2>1, WFMin, NatLessThanWellFounded
  <2>3. PICK t \in responses[j].signals : t.id = s.id
    BY <2>2 DEF Ids
  <2>4. \A k \in about : k < j => t.id \notin Ids(responses[k].signals)
    <3> SUFFICES ASSUME NEW k \in H, k < j PROVE FALSE
      BY <2>3
    <3>1. k \in Nat /\ j \in Nat
      BY <2>1, <2>2
    <3>2. <<k, j>> \in OpToRel(<, Nat)
      BY <3>1 DEF OpToRel
    <3> QED
      BY <2>2, <3>2
  <2>5. t \in new(j) /\ j \in about
    BY <2>2, <2>4
  <2> QED
    BY <1>1, <2>3, <2>5
<1> QED
  BY <1>1, <1>3

\* Signals moved from their alarm to the query's, and the references within it.
Moved(D, query, alarm) == {[id |-> s.id, time |-> s.time + query.alarm - alarm] : s \in D}
HeardWithin(moved, query) == {s.id : s \in {t \in moved : query.start <= t.time /\ t.time <= query.end}}

\* What a live source answered about an alarm, within the query's window.
Recalled(responses, region, alarm, query) ==
  {s.id : s \in {t \in UNION {r.signals : r \in {q \in ToSet(responses) :
                                {q.region, region} = {query.region} /\ q.alarm = alarm}} :
                 t.time - alarm \in query.start - query.alarm .. query.end - query.alarm}}

(* The references of signals moved in time: those whose moved time is within. *)
LEMMA MovedIds ==
  ASSUME NEW D, NEW query, NEW alarm,
         NEW moved, moved = Moved(D, query, alarm), NEW got, got = HeardWithin(moved, query)
  PROVE  /\ \A x \in got : \E s \in D : x = s.id /\ query.start <= s.time + query.alarm - alarm
                                       /\ s.time + query.alarm - alarm <= query.end
         /\ \A s \in D : query.start <= s.time + query.alarm - alarm /\ s.time + query.alarm - alarm <= query.end
                         => s.id \in got
<1>1. ASSUME NEW x \in got
      PROVE  \E s \in D : x = s.id /\ query.start <= s.time + query.alarm - alarm
                        /\ s.time + query.alarm - alarm <= query.end
  <2>1. PICK m \in moved : x = m.id /\ query.start <= m.time /\ m.time <= query.end
    BY <1>1 DEF HeardWithin
  <2>2. PICK s \in D : m = [id |-> s.id, time |-> s.time + query.alarm - alarm]
    BY <2>1 DEF Moved
  <2>3. m.id = s.id /\ m.time = s.time + query.alarm - alarm
    BY <2>2
  <2> QED
    BY <2>1, <2>3
<1>2. ASSUME NEW s \in D, query.start <= s.time + query.alarm - alarm, s.time + query.alarm - alarm <= query.end
      PROVE  s.id \in got
  <2> DEFINE m == [id |-> s.id, time |-> s.time + query.alarm - alarm]
  <2>1. m \in moved
    BY DEF Moved
  <2>2. m.id = s.id /\ m.time = s.time + query.alarm - alarm
    OBVIOUS
  <2> HIDE DEF m
  <2>3. query.start <= m.time /\ m.time <= query.end
    BY <1>2, <2>2
  <2>4. m.id \in got
    BY <2>1, <2>3 DEF HeardWithin
  <2> QED
    BY <2>2, <2>4
<1> QED
  BY <1>1, <1>2

(* Replay: what was recorded about the alarm, moved to the query's.            *)
LEMMA ReplaySound ==
  ASSUME NEW responses, IsList(responses), NEW region, NEW alarm \in Int,
         NEW query, query.start \in Int, query.end \in Int, query.alarm \in Int,
         NEW recorded, recorded = UNION {r.signals : r \in ToSet(responses)},
         \A s, t \in recorded : s.time \in Int /\ (s.id = t.id => s.time = t.time),
         NEW fixture, fixture = [region |-> region, alarm |-> alarm, signals |-> Recorded(responses, region, alarm)],
         NEW all, all = Recalled(responses, region, alarm, query)
  PROVE  Sound(ReplayFetch({fixture}, query), all, all)
<1> DEFINE D == Recorded(responses, region, alarm)
           about == {i \in DOMAIN responses : responses[i].region = region /\ responses[i].alarm = alarm}
           moved(f) == {[id |-> s.id, time |-> s.time + query.alarm - f.alarm] : s \in f.signals}
           signals == UNION {moved(f) : f \in {g \in {fixture} : g.region = query.region}}
           got == {s.id : s \in {t \in signals : query.start <= t.time /\ t.time <= query.end}}
           heard == {q \in ToSet(responses) : {q.region, region} = {query.region} /\ q.alarm = alarm}
<1>0. all = {s.id : s \in {t \in UNION {r.signals : r \in heard} :
                            t.time - alarm \in query.start - query.alarm .. query.end - query.alarm}}
  BY DEF Recalled
<1>1. ReplayFetch({fixture}, query) = [got |-> got, status |-> "ok"]
  BY DEF ReplayFetch, Fetched
<1>2. fixture.region = region /\ fixture.alarm = alarm /\ fixture.signals = D
  OBVIOUS
<1>3. /\ \A t \in D : \E i \in about : t \in responses[i].signals
      /\ \A i \in about : \A s \in responses[i].signals : \E t \in D : t.id = s.id
  <2>1. about = {i \in DOMAIN responses : responses[i].region = region /\ responses[i].alarm = alarm}
        /\ D = Recorded(responses, region, alarm)
    OBVIOUS
  <2> HIDE DEF about, D
  <2> QED
    BY <2>1, RecordedIs
<1>4. ToSet(responses) = {responses[i] : i \in DOMAIN responses}
  BY DEF ToSet
<1>5. \A i \in about : responses[i].signals \subseteq recorded
  BY <1>4
<1>6. ASSUME NEW s \in recorded
      PROVE  (query.start <= s.time + query.alarm - alarm /\ s.time + query.alarm - alarm <= query.end)
               <=> s.time - alarm \in query.start - query.alarm .. query.end - query.alarm
  <2>1. s.time \in Int
    OBVIOUS
  <2> QED
    BY <2>1
<1> HIDE DEF D
<1>7. CASE region = query.region
  <2>1. heard = {responses[i] : i \in about}
    BY <1>4, <1>7
  <2>2. signals = Moved(D, query, alarm)
    BY <1>2, <1>7 DEF Moved
  <2>3. got = HeardWithin(signals, query)
    BY DEF HeardWithin
  <2> HIDE DEF got, signals, about
  <2>4. /\ \A x \in got : \E s \in D : x = s.id /\ query.start <= s.time + query.alarm - alarm
                                         /\ s.time + query.alarm - alarm <= query.end
        /\ \A s \in D : query.start <= s.time + query.alarm - alarm /\ s.time + query.alarm - alarm <= query.end
                         => s.id \in got
    BY <2>2, <2>3, MovedIds
  <2>5. ASSUME NEW x \in got PROVE x \in all
    <3>1. PICK t \in D : x = t.id /\ query.start <= t.time + query.alarm - alarm
                                 /\ t.time + query.alarm - alarm <= query.end
      BY <2>4
    <3>2. PICK i \in about : t \in responses[i].signals
      BY <1>3
    <3>3. t \in recorded
      BY <1>5, <3>2
    <3>4. t \in UNION {r.signals : r \in heard}
      BY <2>1, <3>2
    <3>5. t.time - alarm \in query.start - query.alarm .. query.end - query.alarm
      BY <1>6, <3>1, <3>3
    <3> QED
      BY <1>0, <3>1, <3>4, <3>5
  <2>6. ASSUME NEW x \in all PROVE x \in got
    <3>1. PICK s \in UNION {r.signals : r \in heard} :
            x = s.id /\ s.time - alarm \in query.start - query.alarm .. query.end - query.alarm
      BY <1>0, <2>6
    <3>0. PICK q \in heard : s \in q.signals
      BY <3>1
    <3>2. PICK i \in about : s \in responses[i].signals
      BY <2>1, <3>0
    <3>3. PICK t \in D : t.id = s.id
      BY <1>3, <3>2
    <3>4. PICK j \in about : t \in responses[j].signals
      BY <1>3
    <3>5. s \in recorded /\ t \in recorded
      BY <1>5, <3>2, <3>4
    <3>6. t.time = s.time
      BY <3>3, <3>5
    <3>7. query.start <= t.time + query.alarm - alarm /\ t.time + query.alarm - alarm <= query.end
      BY <1>6, <3>1, <3>5, <3>6
    <3> QED
      BY <2>4, <3>1, <3>3, <3>7
  <2>7. ReplayFetch({fixture}, query).got = got
    BY <1>1
  <2> QED
    BY <2>5, <2>6, <2>7 DEF Sound
<1>8. CASE region # query.region
  <2>1. got = {}
    BY <1>2, <1>8
  <2>2. \A q : {q.region, region} # {query.region}
    BY <1>8
  <2>3. heard = {}
    BY <2>2
  <2>4. all = {}
    BY <1>0, <2>3
  <2> HIDE DEF got
  <2> QED
    BY <1>1, <2>1, <2>4 DEF Sound
<1> QED
  BY <1>7, <1>8

(* Whatever the plugin, a read keeps what its backend holds, and all of it if  *)
(* it says "ok".                                                            *)
LEMMA ReadIsSound ==
  ASSUME NEW b, Holdable(b)
  PROVE  Sound(ReadSource(b), Held(b), IF Discovered(b) THEN Whole(b) ELSE {})
<1>1. CASE b.plugin = "logs"
  <2>1. ReadSource(b) = LogsFetch(b.groups, b.optional, b.filtered, b.extra)
    BY <1>1 DEF ReadSource
  <2>2. b.extra \in Nat /\ \A q \in Readable(b.groups) : IsList(b.groups[q])
    BY <1>1 DEF Holdable
  <2>3. Discovered(b) /\ Held(b) = UNION {Ids(ToSet(b.groups[q])) : q \in Readable(b.groups)}
    BY <1>1 DEF Discovered, Held
  <2>4. Whole(b) = UNION {Ids({l \in ToSet(b.groups[q]) : Classified(l)}) : q \in Readable(b.groups)}
    BY <1>1 DEF Whole
  <2> QED
    BY <2>1, <2>2, <2>3, <2>4, LogsSound
<1>2. CASE b.plugin = "cloudtrail"
  <2>1. ReadSource(b) = TrailFetch(b.events)
    BY <1>2 DEF ReadSource
  <2>2. IsList(b.events)
    BY <1>2 DEF Holdable
  <2>3. Discovered(b) /\ Held(b) = Whole(b)
    BY <1>2 DEF Discovered, Held
  <2>4. Whole(b) = Ids({e \in ToSet(b.events) : e.ours})
    BY <1>2 DEF Whole
  <2> QED
    BY <2>1, <2>2, <2>3, <2>4, TrailSound
<1>3. CASE b.plugin = "cloudwatch"
  <2>1. ReadSource(b) = MetricsFetch(b.metrics)
    BY <1>3 DEF ReadSource
  <2>2. AreLists(b.metrics)
    BY <1>3 DEF Holdable
  <2>3. Held(b) = Whole(b) /\ (Discovered(b) <=> \A m \in ToSet(b.metrics) : Len(m) <= MaxPages * Page)
    BY <1>3 DEF Discovered, Held
  <2>4. Whole(b) = UNION {ToSet(m) : m \in ToSet(b.metrics)}
    BY <1>3 DEF Whole
  <2> QED
    BY <2>1, <2>2, <2>3, <2>4, MetricsSound DEF Sound
<1>4. CASE b.plugin = "prometheus"
  <2>1. ReadSource(b) = PrometheusFetch(b.queries)
    BY <1>4 DEF ReadSource
  <2>2. NoAccess \in ToSet(b.queries) \/ AreLists(b.queries)
    BY <1>4 DEF Holdable
  <2>3. Discovered(b) /\ Held(b) = Whole(b)
    BY <1>4 DEF Discovered, Held
  <2>4. Whole(b) = UNION {ToSet(s) : s \in ToSet(b.queries) \ {NoAccess}}
    BY <1>4 DEF Whole
  <2> QED
    BY <2>1, <2>2, <2>3, <2>4, PrometheusSound
<1>5. CASE b.plugin = "tgw"
  <2>1. ReadSource(b) = RoutesFetch(b.tables, b.old)
    BY <1>5 DEF ReadSource
  <2>2. AreLists(b.tables)
    BY <1>5 DEF Holdable
  <2>3. Held(b) = Whole(b) /\ (Discovered(b) <=> Len(b.tables) <= MaxPages * Page)
    BY <1>5 DEF Discovered, Held
  <2>4. Whole(b) = UNION {ToSet(t) : t \in ToSet(b.tables)}
    BY <1>5 DEF Whole
  <2> QED
    BY <2>1, <2>2, <2>3, <2>4, RoutesSound DEF Sound
<1>6. CASE b.plugin = "simulation"
  <2>1. ReadSource(b) = SimulationFetch(b.rows, b.known, b.query)
    BY <1>6 DEF ReadSource
  <2>2. /\ b.query.start \in Int /\ b.query.end \in Int
        /\ \A r \in b.rows : r.age \in Nat /\ r.drift \in 0 .. 4
    BY <1>6 DEF Holdable
  <2>3. Discovered(b) /\ Held(b) = Whole(b)
    BY <1>6 DEF Discovered, Held
  <2>4. Whole(b) = {r.id : r \in {s \in b.rows : s.region = b.query.region
                                               /\ s.age \in 0 .. b.query.end - b.query.start}}
    BY <1>6 DEF Whole
  <2> QED
    BY <2>1, <2>2, <2>3, <2>4, SimulationSound
<1>7. CASE b.plugin = "replay"
  <2> DEFINE responses == b.responses
             region == b.region
             alarm == b.alarm
             query == b.query
             all == Whole(b)
             recorded == UNION {r.signals : r \in ToSet(responses)}
             fixture == [region |-> region, alarm |-> alarm, signals |-> Recorded(responses, region, alarm)]
  <2>1. ReadSource(b) = ReplayFetch({fixture}, query)
    BY <1>7 DEF ReadSource
  <2>2. /\ IsList(responses) /\ alarm \in Int
        /\ query.start \in Int /\ query.end \in Int /\ query.alarm \in Int
        /\ \A s, t \in recorded : s.time \in Int /\ (s.id = t.id => s.time = t.time)
    BY <1>7 DEF Holdable
  <2>3. Discovered(b) /\ Held(b) = all
    BY <1>7 DEF Discovered, Held
  <2>4. all = Recalled(responses, region, alarm, query)
    BY <1>7 DEF Whole, Recalled
  <2>5. recorded = UNION {r.signals : r \in ToSet(responses)}
        /\ fixture = [region |-> region, alarm |-> alarm, signals |-> Recorded(responses, region, alarm)]
    OBVIOUS
  <2> HIDE DEF fixture, recorded, all, responses, region, alarm, query
  <2>6. Sound(ReplayFetch({fixture}, query), all, all)
    BY <2>2, <2>4, <2>5, ReplaySound
  <2> QED
    BY <2>1, <2>3, <2>6 DEF all
<1> QED
  BY <1>1, <1>2, <1>3, <1>4, <1>5, <1>6, <1>7 DEF Holdable

(* What a source's plugin returned is what its fetch makes of the backend.    *)
SourcesInv == backend = NoBackend \/ (backend \in Backends /\ fetched = ReadSource(backend))

(* A source that reports "ok" has returned everything its backend holds for    *)
(* the window, whatever the backend, the pages and the limits are, and none     *)
(* returns what its backend does not hold (the fetch of the seven plugins).   *)
THEOREM OkReadsAreWhole == Spec => []OkMeansWhole
<1>1. Init => SourcesInv
  BY DEF Init, SourcesInv
<1>2. SourcesInv /\ [Next]_vars => SourcesInv'
  BY DEF SourcesInv, Next, SourceRead, vars, sourceVars
<1>3. SourcesInv => OkMeansWhole
  <2> SUFFICES ASSUME backend \in Backends, fetched = ReadSource(backend) PROVE OkMeansWhole
    BY DEF SourcesInv, OkMeansWhole
  <2>1. Sound(fetched, Held(backend), IF Discovered(backend) THEN Whole(backend) ELSE {})
    BY BackendsAssumption, ReadIsSound
  <2> QED
    BY <2>1 DEF Sound, OkMeansWhole
<1> QED
  BY <1>1, <1>2, <1>3, PTL DEF Spec
=============================================================================
