------------------------------- MODULE Workflow -------------------------------
(***************************************************************************)
(* The incidents of one `serve` process: webhook and normalizer             *)
(* (ingestion/), the engine's four nodes and run_incident                   *)
(* (core/orchestrator.py), the classification (agents/supervisor.py), the    *)
(* synthesis (Synthesis) and the outputs (app/main.py).                     *)
(*                                                                         *)
(* Incidents run concurrently on one engine; an action is the code of one    *)
(* incident between two awaits.  The collaboration is abstracted to what     *)
(* Collaboration shows of it: evidence is only added.  Calls of the LLM      *)
(* run in threads and are retried; they may be unavailable.                 *)
(***************************************************************************)
EXTENDS Synthesis

CONSTANTS
  Incidents,
  Agents,
  Types,           \* degradation types, the keys of degradation_map
  DegradationMap,  \* the agents to run for a type
  Heuristic,       \* _heuristic_classify of an incident's description
  Alarmed,         \* incidents with alarm entities
  Analyses,        \* findings an agent's analysis may return, by incident
  Known,           \* causes that are nodes of the topology
  Found,           \* sets of evidence a peer's question may turn up
  Answers,         \* answers the LLM may give to a synthesis prompt
  UseLLM,          \* llm_enabled: an API key or a project is configured
  Requirements,    \* values of llm.require_success, one for each process
  MaxAttempts,     \* _MAX_ATTEMPTS
  Nobody           \* no incident yet

\* cross_validate: every type has agents, and there is one for an uncertain label.
ValidDegradations ==
  /\ DegradationMap \in [Types -> SUBSET Agents] /\ "unknown" \in Types
  /\ \A t \in Types : DegradationMap[t] # {}

ASSUME DispatchAssumption ==
  /\ ValidDegradations /\ Heuristic \in [Incidents -> Types]
  /\ Alarmed \subseteq Incidents /\ Nobody \notin Incidents
  /\ Analyses \in [Incidents -> SUBSET Finding] /\ Known \subseteq Causes
  /\ Found \subseteq SUBSET Evidence /\ IsFiniteSet(Known)
\* A finding is anomalous when a rule fired, and then it has a row (analyze).
ASSUME FindingsAssumption ==
  IsFiniteSet(Agents) /\ \A i \in Incidents : \A f \in Analyses[i] : f.anomaly <=> f.refs # {}
ASSUME LLMAssumption ==
  /\ UseLLM \in BOOLEAN /\ Requirements \subseteq BOOLEAN /\ MaxAttempts \in Nat \ {0}
  /\ \A a \in Answers : a.ids \in {Absent, Malformed} \/ a.ids \in Seq(Nat)

VARIABLES
  requireLLM, \* the process's llm.require_success
  node,       \* what each incident is at
  active,     \* NetCortexState.active_agents
  findings,   \* findings, later revised_findings
  timedOut,   \* timed_out_agents
  errored,    \* errored_agents
  causes,     \* the ranking by the rules
  attempt,    \* attempts of the running LLM call
  report,     \* rca_report
  lastState,  \* last_result_state: the incident whose state it is
  outputs     \* output/<incident>: whose report and whose state were written

vars == <<requireLLM, node, active, findings, timedOut, errored, causes, attempt, report, lastState, outputs>>
results == <<findings, timedOut, errored>>
kept == <<requireLLM, lastState, outputs>>

NoReport == [root |-> [kind |-> "none", cites |-> {}, names |-> {}]]

Init ==
  /\ requireLLM \in Requirements
  /\ node = [i \in Incidents |-> "reported"]
  /\ active = [i \in Incidents |-> {}]
  /\ findings = [i \in Incidents |-> << >>]
  /\ timedOut = [i \in Incidents |-> {}] /\ errored = [i \in Incidents |-> {}]
  /\ causes = [i \in Incidents |-> << >>]
  /\ attempt = [i \in Incidents |-> 0]
  /\ report = [i \in Incidents |-> NoReport]
  /\ lastState = Nobody
  /\ outputs = [i \in Incidents |-> [report |-> Nobody, state |-> Nobody]]

Goto(i, n) == node' = [node EXCEPT ![i] = n]

-----------------------------------------------------------------------------
(* The nodes of the graph                                                  *)

\* The fields that may say when the alarm was raised, in the order _alarm_time
\* tries them; a malformed one refuses the payload (422), whatever follows it.
AlarmTime(fields) ==
  LET given == SelectSeq(fields, LAMBDA v : v # Absent) IN IF given = << >> THEN "now" ELSE given[1]

\* POST /incidents; a payload may be invalid for other reasons too.
Ingest(i) ==
  /\ node[i] = "reported"
  /\ \E fields \in [1 .. 3 -> {Absent, Malformed, "valid"}] :
       Goto(i, "refused") \/ (AlarmTime(fields) # Malformed /\ Goto(i, "supervisor"))
  /\ UNCHANGED <<active, results, causes, attempt, report, kept>>

\* classify_degradation: the LLM's label if it is one, else the heuristic.
Labels(i) == (IF UseLLM THEN Types ELSE {}) \cup (IF requireLLM THEN {} ELSE {Heuristic[i]})
ActiveDomains(label) == DegradationMap[label]

Supervisor(i) ==
  /\ node[i] = "supervisor"
  /\ \E label \in Labels(i) : active' = [active EXCEPT ![i] = ActiveDomains(label)]
  /\ Goto(i, "analysis")
  /\ UNCHANGED <<results, causes, attempt, report, kept>>

\* The classification is required and the LLM gives no label.
SupervisorFails(i) ==
  /\ node[i] = "supervisor" /\ requireLLM
  /\ Goto(i, "failed")
  /\ UNCHANGED <<active, results, causes, attempt, report, kept>>

\* analysis_node sorts what asyncio.gather returned for each dispatched agent:
\* a finding, a TimeoutError, or any other BaseException.
Mut_Errored(outcome) == {a \in DOMAIN outcome : outcome[a] = "error"}
Errored(outcome) == {a \in DOMAIN outcome : outcome[a] \in {"error", "cancelled"}}

Analysis(i) ==
  /\ node[i] = "analysis"
  /\ \E answered \in SUBSET active[i] :
       /\ \E F \in [answered -> Analyses[i]] : findings' = [findings EXCEPT ![i] = F]
       /\ \E outcome \in [active[i] \ answered -> {"timeout", "error", "cancelled"}] :
            /\ timedOut' = [timedOut EXCEPT ![i] = {a \in DOMAIN outcome : outcome[a] = "timeout"}]
            /\ errored' = [errored EXCEPT ![i] = Errored(outcome)]
  /\ Goto(i, "collaboration")
  /\ UNCHANGED <<active, causes, attempt, report, kept>>

\* should_short_circuit; all evidence is rule-fired, none is unclassified.
ShortCircuit(i) ==
  /\ ~(UseLLM /\ i \in Alarmed)
  /\ DOMAIN findings[i] # {} /\ AnomalousIn(findings[i]) = {}

\* The rounds: peers' questions turn up evidence on which a finding becomes
\* anomalous.  merge_findings keeps one finding for each agent.
Revised(f, refs) == [f EXCEPT !.refs = @ \cup refs, !.anomaly = @ \/ refs # {}]

Collaboration(i) ==
  /\ node[i] = "collaboration"
  /\ \/ ShortCircuit(i) /\ UNCHANGED findings
     \/ /\ ~ShortCircuit(i)
        /\ \E a \in DOMAIN findings[i] \cup {Nobody}, refs \in Found :
             findings' = IF a = Nobody THEN findings
                         ELSE [findings EXCEPT ![i][a] = Revised(@, refs)]
  /\ Goto(i, "ranking")
  /\ UNCHANGED <<active, timedOut, errored, causes, attempt, report, kept>>

\* _topology: the entities that can be ranked, none of them if it cannot be read.
Topologies == {{}, Known}

\* synthesizer_node up to the thread: rank_causes.
Rank(i) ==
  /\ node[i] = "ranking"
  /\ \E nodes \in Topologies :
     LET known == nodes \cap {CauseOf[e] : e \in EvidenceOf(findings[i])} IN
       causes' = [causes EXCEPT ![i] = IF AnomalousIn(findings[i]) = {} THEN << >> ELSE Ranked(known)]
  /\ attempt' = [attempt EXCEPT ![i] = 1]
  /\ Goto(i, "synthesis")
  /\ UNCHANGED <<active, results, report, kept>>

\* _call_gemini: a transient error (429, 503) is retried, up to a limit.
Mut_NextAttempt(i) == {(attempt[i] % MaxAttempts) + 1}
NextAttempt(i) == {n \in {attempt[i] + 1} : n <= MaxAttempts}

Retry(i) ==
  /\ node[i] = "synthesis" /\ UseLLM /\ AnomalousIn(findings[i]) # {}
  /\ \E n \in NextAttempt(i) : attempt' = [attempt EXCEPT ![i] = n]
  /\ UNCHANGED <<node, active, results, causes, report, kept>>

LLMAnswers(i) ==
  {NoAnswer} \cup (IF UseLLM /\ AnomalousIn(findings[i]) # {} THEN Answers ELSE {})

\* The end of synthesize_report and the assembly of the report.
Synthesize(i) ==
  LET F == findings[i]
      c == Confidence(F, Cardinality(active[i])) IN
  /\ node[i] = "synthesis"
  /\ \E answer \in LLMAnswers(i), edge \in BOOLEAN, score \in Rounded(c[1], c[2]) :
       /\ requireLLM /\ AnomalousIn(F) # {} => answer # NoAnswer
       /\ LET said == Conclusion(F, causes[i], answer, edge) IN
          report' = [report EXCEPT ![i] =
            [incident |-> i, root |-> said.root, ranked |-> said.ranked, confidence |-> score, conflict |-> Conflict(F),
             degraded |-> DegradedIn(F) # {}, timedOut |-> timedOut[i], errored |-> errored[i]]]
  /\ attempt' = [attempt EXCEPT ![i] = 0]
  /\ Goto(i, "reporting")
  /\ UNCHANGED <<active, results, causes, kept>>

\* The synthesis is required and the LLM is unavailable.
SynthesisFails(i) ==
  /\ node[i] = "synthesis" /\ requireLLM /\ AnomalousIn(findings[i]) # {}
  /\ Goto(i, "failed")
  /\ UNCHANGED <<active, results, causes, attempt, report, kept>>

-----------------------------------------------------------------------------
(* The end of run_incident, and the handler that awaits it                 *)

\* The caller reads the attribute of the engine right after run_incident set it.
Mut_StateRead == lastState
StateRead == lastState'

\* write_outputs may fail, which `serve` logs.
Report(i) ==
  /\ node[i] = "reporting"
  /\ lastState' = i
  /\ outputs' \in {outputs, [outputs EXCEPT ![i] = [report |-> report[i].incident, state |-> StateRead]]}
  /\ Goto(i, "done")
  /\ UNCHANGED <<requireLLM, active, results, causes, attempt, report>>

Step(i) ==
  \/ Ingest(i) \/ Supervisor(i) \/ SupervisorFails(i) \/ Analysis(i) \/ Collaboration(i)
  \/ Rank(i) \/ Retry(i) \/ Synthesize(i) \/ SynthesisFails(i) \/ Report(i)
Next == \E i \in Incidents : Step(i)

\* Analyses time out, collaboration ends (Collaboration), threads return.
Spec == Init /\ [][Next]_vars
FairSpec == Spec /\ \A i \in Incidents : WF_vars(Step(i))

-----------------------------------------------------------------------------
(* Properties                                                              *)

Nodes == {"reported", "refused", "supervisor", "analysis", "collaboration", "ranking", "synthesis",
          "reporting", "done", "failed"}
Reports == {report[i] : i \in {j \in Incidents : report[j] # NoReport}}

(* "Total is the number of agents dispatched" (compute_confidence): every    *)
(* dispatched agent is in the report, as a finding, a timeout or an error,   *)
(* and as one of them only, whatever asyncio.gather hands back.              *)
EveryAgentAccountedFor ==
  \A i \in Incidents : report[i] # NoReport =>
    /\ DOMAIN findings[i] \cup report[i].timedOut \cup report[i].errored = active[i]
    /\ DOMAIN findings[i] \cap (report[i].timedOut \cup report[i].errored) = {}
    /\ report[i].timedOut \cap report[i].errored = {}

(* "The LLM may only break near-ties" (RERANK_MARGIN): it moves no cause     *)
(* that the rules score more than the margin below their best, and drops or  *)
(* repeats none; and "the report never names one cause and ranks another     *)
(* first" (synthesize_report), whatever sentence the LLM gives.              *)
RulesRank ==
  \A i \in Incidents : report[i] # NoReport =>
    LET rules == causes[i] ranked == report[i].ranked IN
    /\ Len(ranked) = Len(rules) /\ ToSet(ranked) = ToSet(rules)
    /\ \A k \in DOMAIN rules : Score[rules[k]] < Score[rules[1]] - Margin => ranked[k] = rules[k]
    /\ ranked # << >> => ranked[1] \in report[i].root.names

(* The LLM "may only cite these ids, so every claim it makes traces to a     *)
(* rule that fired" (_evidence_index): a root cause of its own cites rows of *)
(* this incident's findings, the ones found by collaboration included.       *)
ClaimsTraceToRules ==
  \A i \in Incidents : report[i] # NoReport /\ report[i].root.kind = "llm" =>
    /\ report[i].root.cites \subseteq EvidenceOf(findings[i])
    /\ report[i].root.cites # {} \/ EvidenceOf(findings[i]) = {}

(* Degraded telemetry must not read as "a verified absence of anomalies"     *)
(* (synthesize_report): a clean report rests on findings none of which is    *)
(* degraded or has evidence.                                                 *)
CleanIsVerified ==
  \A i \in Incidents : report[i].root.kind = "clean" =>
    \A a \in DOMAIN findings[i] : ~findings[i][a].degraded /\ findings[i][a].refs = {}

(* "A total outage must never read as a confident clean report"              *)
(* (decision-policy.md): when no agent answered, the report is not the one   *)
(* of a run in which all domains were clean.                                 *)
OutageIsNotClean ==
  \A i \in Incidents : report[i].root.kind = "clean" /\ active[i] # {} => DOMAIN findings[i] # {}

(* "Losing agents" does not "inflate" the confidence (compute_confidence,    *)
(* decision-policy.md): had the lost agents answered that they are clean, it *)
(* would be lower by the conflict penalty at most, a tenth, and by rounding. *)
LossCostsConfidence ==
  \A i \in Incidents : report[i] # NoReport =>
    LET clean == [refs |-> {}, anomaly |-> FALSE, degraded |-> FALSE]
        whole == Confidence([a \in active[i] |-> IF a \in DOMAIN findings[i] THEN findings[i][a] ELSE clean],
                            Cardinality(active[i]))
    IN \A q \in Rounded(whole[1], whole[2]) : 9 * report[i].confidence < 10 * (q + 1)

(* Concurrent incidents overwrite last_result_state: what is written for an  *)
(* incident is its own report and its own state (run_incident, serve).       *)
OutputsPaired ==
  \A i \in Incidents : outputs[i] \in {[report |-> Nobody, state |-> Nobody], [report |-> i, state |-> i]}

(* Every incident accepted ends in a report or an error, through retries     *)
(* and concurrent incidents.                                                 *)
IncidentsEnd == \A i \in Incidents : <>(node[i] \in {"refused", "done", "failed"})
=============================================================================
