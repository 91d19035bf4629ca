------------------------------ MODULE SignalRead ------------------------------
(***************************************************************************)
(* The reads of one telemetry domain: the registry of the RCA pod asks every *)
(* endpoint (TelemetryRegistry.fetch), an endpoint's server asks every source *)
(* plugin under a timeout (TelemetryService.query), and the CloudTrail plugin *)
(* lets concurrent queries of a window share one lookup (_lookup).           *)
(*                                                                         *)
(* An action is the code of one task between two awaits.  Timeouts and the   *)
(* expiry of cached lookups may happen at any time: their lengths are not    *)
(* modelled.                                                                *)
(***************************************************************************)
EXTENDS Coverage, Integers, Sequences, SequencesExt

CONSTANTS
  Queries,            \* concurrent fetches
  Endpoints,          \* of the domain, in the order of the configuration
  SourcesAt,          \* sources an endpoint's server reads
  RequiredEndpoints, RequiredSources,
  Coalesced,          \* sources whose lookups are shared
  Asked,              \* the windows the queries may ask for
  Records,            \* signals in every window
  SourceOf, RefOf,    \* source and evidence_ref of a signal
  Malformed,          \* signals the contract's model refuses
  NoRef, Nobody

ASSUME EndpointsAssumption ==
  /\ Endpoints \in Seq(DOMAIN SourcesAt) /\ IsInjective(Endpoints)
  /\ DOMAIN SourcesAt = ToSet(Endpoints) /\ RequiredEndpoints \subseteq ToSet(Endpoints)
ASSUME RecordsAssumption ==
  /\ \A a \in Asked : DOMAIN a = Queries
  /\ Nobody \notin Queries
  /\ DOMAIN SourceOf = Records /\ DOMAIN RefOf = Records /\ Malformed \subseteq Records

\* What the contract asks of a source: its "evidence_ref ... is unique per signal".
ASSUME EvidenceRefsAssumption ==
  \A r, t \in Records : RefOf[r] # NoRef /\ RefOf[r] = RefOf[t] /\ SourceOf[r] = SourceOf[t] => r = t

VARIABLES
  window,  \* of each query
  call,    \* of a fetch at an endpoint
  task,    \* of a fetch at a plugin
  lookup,  \* _lookups: who reads a window, and the result of its future
  lock     \* _one_at_a_time

signalVars == <<window, call, task, lookup, lock>>

Plugins == UNION {{e} \X SourcesAt[e] : e \in ToSet(Endpoints)}
PluginsAt(e) == {e} \X SourcesAt[e]
Shared(p) == p[2] \in Coalesced
Windows == UNION {Range(a) : a \in Asked}
Holds(s) == {r \in Records : SourceOf[r] = s}

\* What a source's fetch gives: all its signals, all but a sound one, or an
\* exception.
Outcome(status, got) == [status |-> status, got |-> got]
ReadOutcomes(s) ==
  {Outcome("ok", Holds(s)), Outcome("failed", {})} \cup {Outcome("partial", Holds(s) \ {r}) : r \in Holds(s) \ Malformed}

Resting == [at |-> "idle"]
Done(outcome) == [at |-> "done", outcome |-> outcome]
Ended(t) == t.at = "done"
Pending == Outcome("pending", {})
NoLookup == [owner |-> Nobody, outcome |-> Pending]

SignalInit ==
  /\ window \in Asked
  /\ call = [q \in Queries |-> [e \in ToSet(Endpoints) |-> Resting]]
  /\ task = [q \in Queries |-> [p \in Plugins |-> Resting]]
  /\ lookup = [p \in Plugins |-> [w \in Windows |-> NoLookup]]
  /\ lock = [p \in Plugins |-> Nobody]

SetTask(q, p, t) == task' = [task EXCEPT ![q][p] = t]

-----------------------------------------------------------------------------
(* The telemetry server                                                    *)

\* _lookup: own the lookup of the window, wait for its owner, or take the
\* cached result.
Mut_Lookup(q, p) == NoLookup
Lookup(q, p) == lookup[p][window[q]]
Owns(q, p) == Shared(p) /\ Lookup(q, p) = NoLookup
FirstTasks(q, p) ==
  IF ~Shared(p) THEN {Done(outcome) : outcome \in ReadOutcomes(p[2])}
  ELSE IF Owns(q, p) THEN {[at |-> "waiting"]}
  ELSE IF Lookup(q, p).outcome = Pending THEN {[at |-> "joined"]}
  ELSE {Done(Lookup(q, p).outcome)}

\* The request arrives and TelemetryService.query starts every plugin.  What a
\* plugin that shares nothing will return is settled at once.
Serve(q, e) ==
  /\ call[q][e].at = "idle"
  /\ call' = [call EXCEPT ![q][e] = [at |-> "pending"]]
  /\ \E first \in [PluginsAt(e) -> UNION {FirstTasks(q, p) : p \in PluginsAt(e)}] :
       /\ \A p \in PluginsAt(e) : first[p] \in FirstTasks(q, p)
       /\ task' = [task EXCEPT ![q] = [p \in Plugins |-> IF p[1] = e THEN first[p] ELSE task[q][p]]]
  /\ lookup' = [p \in Plugins |->
       IF p[1] = e /\ Owns(q, p) THEN [lookup[p] EXCEPT ![window[q]] = [owner |-> q, outcome |-> Pending]]
       ELSE lookup[p]]
  /\ UNCHANGED <<window, lock>>

\* LookupEvents goes out under the lock.
Lock(q, p) ==
  /\ task[q][p].at = "waiting" /\ lock[p] = Nobody
  /\ lock' = [lock EXCEPT ![p] = q]
  /\ SetTask(q, p, [at |-> "reading"])
  /\ UNCHANGED <<window, call, lookup>>

\* The owner of a lookup leaves it: a failed or cancelled one is forgotten, and
\* those who wait for its future get what the owner passes on to it.
Forgotten(q, p, passed) ==
  [lookup EXCEPT ![p][window[q]] =
     IF passed.status \in {"ok", "partial"} THEN [owner |-> q, outcome |-> passed] ELSE NoLookup]
Joined(t, q, p) == task[t][p].at = "joined" /\ window[t] = window[q]
LeaveLookup(q, p, own, passed) ==
  /\ lock' = IF lock[p] = q THEN [lock EXCEPT ![p] = Nobody] ELSE lock
  /\ lookup' = Forgotten(q, p, passed)
  /\ task' = [t \in Queries |-> [task[t] EXCEPT ![p] =
       IF t = q THEN Done(own) ELSE IF Joined(t, q, p) THEN Done(passed) ELSE @]]

ReadEnds(q, p) ==
  /\ task[q][p].at = "reading"
  /\ \E outcome \in ReadOutcomes(p[2]) : LeaveLookup(q, p, outcome, outcome)
  /\ UNCHANGED <<window, call>>

\* asyncio.wait_for cancels the fetch: an owner passes the cancellation on to
\* the future, and the shielded future of another is left alone.
SourceTimeout(q, p) ==
  /\ \/ /\ task[q][p].at \in {"waiting", "reading"}
        /\ LeaveLookup(q, p, Outcome("failed", {}), Outcome("cancelled", {}))
     \/ /\ task[q][p].at = "joined"
        /\ SetTask(q, p, Done(Outcome("failed", {})))
        /\ UNCHANGED <<lookup, lock>>
  /\ UNCHANGED <<window, call>>

\* A lookup is cached for LOOKUP_CACHE_SECONDS, far longer than a fetch may take.
LookupExpires(p, w) ==
  /\ lookup[p][w] # NoLookup /\ lookup[p][w].outcome # Pending
  /\ lookup' = [lookup EXCEPT ![p][w] = NoLookup]
  /\ UNCHANGED <<window, call, task, lock>>

\* The server's coverage: one entry for each source; without a source, its own.
ServerCoverage(q, e) ==
  IF SourcesAt[e] = {} THEN {Entry("telemetry-server", "failed", TRUE)}
  ELSE {Entry(p[2], task[q][p].outcome.status, p[2] \in RequiredSources) : p \in PluginsAt(e)}

\* A cancelled task cancels the request, which is never answered: the client
\* times out (EndpointClient).
Respond(q, e) ==
  /\ call[q][e].at = "pending" /\ \A p \in PluginsAt(e) : Ended(task[q][p])
  /\ call' = [call EXCEPT ![q][e] =
       IF \E p \in PluginsAt(e) : task[q][p].outcome.status = "cancelled" THEN [at |-> "aborted"]
       ELSE [at |-> "answered", coverage |-> ServerCoverage(q, e),
             signals |-> UNION {task[q][p].outcome.got : p \in PluginsAt(e)}]]
  /\ task' = [task EXCEPT ![q] = [p \in Plugins |-> IF p[1] = e THEN Resting ELSE task[q][p]]]
  /\ UNCHANGED <<window, lookup, lock>>

-----------------------------------------------------------------------------
(* The registry                                                            *)

\* The endpoint does not answer, or its circuit is open; its server may go on.
CallFails(q, e) ==
  /\ call[q][e].at \in {"idle", "pending"}
  /\ call' = [call EXCEPT ![q][e] = [at |-> "failed"]]
  /\ UNCHANGED <<window, task, lookup, lock>>

\* What fetch returns when every call has ended.
Answered(q) == \A e \in ToSet(Endpoints) : call[q][e].at \in {"answered", "failed", "aborted"}

EndpointEntry(q, e) ==
  LET c == call[q][e] IN
  IF c.at # "answered" THEN Entry(e, "failed", e \in RequiredEndpoints)
  ELSE EndpointCoverage(e, e \in RequiredEndpoints, c.coverage, c.signals \cap Malformed # {})
MergedCoverage(q) == {EndpointEntry(q, e) : e \in ToSet(Endpoints)}

\* parse_tool_response skips malformed signals.
WellFormed(q, e) == IF call[q][e].at # "answered" THEN {} ELSE call[q][e].signals \ Malformed

\* A signal with an evidence_ref is kept once for each source, from the first
\* endpoint that has it.
SameSignal(r, t) == RefOf[r] # NoRef /\ RefOf[r] = RefOf[t] /\ SourceOf[r] = SourceOf[t]
Kept(q, i) ==
  {r \in WellFormed(q, Endpoints[i]) :
     \A j \in 1 .. i - 1 : \A t \in WellFormed(q, Endpoints[j]) : ~SameSignal(t, r)}
Merged(q) == UNION {{Endpoints[i]} \X Kept(q, i) : i \in DOMAIN Endpoints}

SignalNext ==
  \/ \E q \in Queries :
       \/ \E e \in ToSet(Endpoints) : Serve(q, e) \/ Respond(q, e) \/ CallFails(q, e)
       \/ \E p \in Plugins : Lock(q, p) \/ ReadEnds(q, p) \/ SourceTimeout(q, p)
  \/ \E p \in Plugins, w \in Windows : LookupExpires(p, w)

-----------------------------------------------------------------------------
(* Properties                                                              *)

SignalsOf(q) == {k[2] : k \in Merged(q)}

(* "No data" and "data unavailable" "must never look the same" (CONTRACT.md): *)
(* an answer that is not degraded has every signal the required sources of    *)
(* the required endpoints hold, whatever failed, timed out or was skipped.    *)
QuietIsVerified ==
  \A q \in Queries : Answered(q) /\ ~Degraded(MergedCoverage(q)) =>
    \A e \in RequiredEndpoints : \A s \in SourcesAt[e] \cap RequiredSources : Holds(s) \subseteq SignalsOf(q)

(* "Identical windows are read once (coalesced while in flight)" (CloudTrail  *)
(* plugin), and a lookup that its owner left is no trap: a pending one is     *)
(* being read or waits for the lock, it is the window's only one, and nobody  *)
(* waits for a lookup that is gone; one that failed is not served again.      *)
LookupsCoalesced ==
  \A p \in Plugins : Shared(p) => \A w \in Windows :
    LET l == lookup[p][w]
        in(places) == {q \in Queries : window[q] = w /\ task[q][p].at \in places}
        pending == l.owner # Nobody /\ l.outcome = Pending
    IN /\ in({"waiting", "reading"}) = (IF pending THEN {l.owner} ELSE {})
       /\ in({"joined"}) # {} => pending
       /\ l.owner # Nobody => l.outcome.status \in {"pending", "ok", "partial"}

(* "Concurrent RCA tasks can never see each other's failures" (service.py): a *)
(* lookup that one query gave up cancels no other query's request.           *)
FailuresStayApart == \A q \in Queries, e \in ToSet(Endpoints) : call[q][e].at # "aborted"
=============================================================================
