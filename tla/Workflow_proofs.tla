---------------------------- MODULE Workflow_proofs ----------------------------
(***************************************************************************)
(* Proofs about Workflow: what a report says of the agents, of the evidence   *)
(* and of the telemetry, and whose outputs are written, for every set of      *)
(* concurrent incidents and agents, every analysis and every answer of the    *)
(* LLM.                                                                     *)
(***************************************************************************)
EXTENDS Workflow, Listing_proofs, FiniteSetTheorems, TLAPS

-----------------------------------------------------------------------------
(* The invariant                                                           *)

FindingsOf(A) == UNION {[B -> Finding] : B \in SUBSET A}
TypeOK ==
  /\ node \in [Incidents -> Nodes]
  /\ active \in [Incidents -> SUBSET Agents]
  /\ findings \in [Incidents -> FindingsOf(Agents)]
  /\ timedOut \in [Incidents -> SUBSET Agents] /\ errored \in [Incidents -> SUBSET Agents]
  /\ report = [i \in Incidents |-> report[i]]
  /\ outputs \in [Incidents -> [report : Incidents \cup {Nobody}, state : Incidents \cup {Nobody}]]

\* From the analysis on, every dispatched agent is one of three.
Sorted(i) ==
  /\ DOMAIN findings[i] \cup timedOut[i] \cup errored[i] = active[i]
  /\ DOMAIN findings[i] \cap (timedOut[i] \cup errored[i]) = {}
  /\ timedOut[i] \cap errored[i] = {}

\* What a written report of findings F says.
Says(r, F, A, lost, failed) ==
  /\ r.timedOut = lost /\ r.errored = failed
  /\ r.root.kind = "llm" => AnomalousIn(F) # {} /\ CitedOk(r.root, EvidenceOf(F))
  /\ r.root.kind = "clean" => AnomalousIn(F) = {} /\ DegradedIn(F) = {}
  /\ LET c == Confidence(F, Cardinality(A)) IN r.confidence \in Rounded(c[1], c[2])

AgentsSorted == \A i \in Incidents : node[i] # "analysis" => Sorted(i)
RowsMatchFlags == \A i \in Incidents : \A a \in DOMAIN findings[i] : findings[i][a].anomaly <=> findings[i][a].refs # {}
ReportsLast ==
  \A i \in Incidents :
    /\ report[i] # NoReport => node[i] \in {"reporting", "done"}
    /\ node[i] = "reporting" => report[i] # NoReport /\ report[i].incident = i
ReportsSay ==
  \A i \in Incidents : report[i] # NoReport => Says(report[i], findings[i], active[i], timedOut[i], errored[i])

(* The inductive invariant of the incidents.                                *)
Inv == TypeOK /\ AgentsSorted /\ RowsMatchFlags /\ ReportsLast /\ ReportsSay /\ OutputsPaired

-----------------------------------------------------------------------------
(* Every step keeps it                                                     *)

(* No incident has a report or a finding at first.                           *)
LEMMA InitInv == Init => Inv
<1> SUFFICES ASSUME Init PROVE Inv
  OBVIOUS
<1>1. << >> \in FindingsOf(Agents) /\ DOMAIN << >> = {}
  <2>1. << >> \in [{} -> Finding]
    OBVIOUS
  <2> QED
    BY <2>1 DEF FindingsOf
<1>2. TypeOK
  BY <1>1 DEF Init, TypeOK, Nodes
<1>3. AgentsSorted /\ RowsMatchFlags
  BY <1>1 DEF Init, AgentsSorted, Sorted, RowsMatchFlags
<1>4. ReportsLast /\ ReportsSay /\ OutputsPaired
  BY DEF Init, ReportsLast, ReportsSay, OutputsPaired
<1> QED
  BY <1>2, <1>3, <1>4 DEF Inv

(* An incident moves on, and nothing a report is about changes.              *)
LEMMA MoveInv ==
  ASSUME NEW i \in Incidents, Inv, node[i] \notin {"analysis", "reporting", "done"},
         NEW n \in Nodes \ {"analysis", "reporting"}, node' = [node EXCEPT ![i] = n],
         UNCHANGED <<active, results, report, outputs>>
  PROVE  Inv'
<1> USE DEF Inv, results
<1>1. \A j \in Incidents : node'[j] = IF j = i THEN n ELSE node[j]
  BY DEF TypeOK
<1>2. TypeOK'
  BY DEF TypeOK
<1>3. AgentsSorted' /\ RowsMatchFlags'
  BY <1>1 DEF AgentsSorted, Sorted, RowsMatchFlags
<1>4. ReportsLast' /\ ReportsSay' /\ OutputsPaired'
  BY <1>1 DEF ReportsLast, ReportsSay, OutputsPaired
<1> QED
  BY <1>2, <1>3, <1>4

(* The supervisor picks the agents.                                         *)
LEMMA SupervisorInv == ASSUME NEW i \in Incidents, Inv, Supervisor(i) PROVE Inv'
<1> USE DEF Inv, results, kept
<1>1. PICK label \in Labels(i) : active' = [active EXCEPT ![i] = DegradationMap[label]]
  BY DEF Supervisor, ActiveDomains
<1>2. DegradationMap[label] \subseteq Agents
  BY DispatchAssumption DEF Labels, ValidDegradations
<1>3. /\ node[i] = "supervisor" /\ UNCHANGED <<findings, timedOut, errored, report, outputs>>
      /\ \A j \in Incidents : node'[j] = IF j = i THEN "analysis" ELSE node[j]
      /\ \A j \in Incidents : j # i => active'[j] = active[j]
  BY <1>1 DEF Supervisor, Goto, TypeOK
<1>4. TypeOK'
  BY <1>1, <1>2, <1>3 DEF Supervisor, Goto, TypeOK, Nodes
<1>5. AgentsSorted' /\ RowsMatchFlags'
  BY <1>3 DEF AgentsSorted, Sorted, RowsMatchFlags
<1>6. ReportsLast' /\ ReportsSay' /\ OutputsPaired'
  BY <1>3 DEF ReportsLast, ReportsSay, OutputsPaired
<1> QED
  BY <1>4, <1>5, <1>6

(* The analysis sorts every dispatched agent (analysis_node).                *)
LEMMA AnalysisInv == ASSUME NEW i \in Incidents, Inv, Analysis(i) PROVE Inv'
<1> USE DEF Inv, results, kept
<1> PICK answered \in SUBSET active[i] :
      /\ \E F \in [answered -> Analyses[i]] : findings' = [findings EXCEPT ![i] = F]
      /\ \E outcome \in [active[i] \ answered -> {"timeout", "error", "cancelled"}] :
           /\ timedOut' = [timedOut EXCEPT ![i] = {a \in DOMAIN outcome : outcome[a] = "timeout"}]
           /\ errored' = [errored EXCEPT ![i] = Errored(outcome)]
  BY DEF Analysis
<1> PICK F \in [answered -> Analyses[i]] : findings' = [findings EXCEPT ![i] = F]
  OBVIOUS
<1>1. PICK outcome \in [active[i] \ answered -> {"timeout", "error", "cancelled"}] :
        /\ timedOut' = [timedOut EXCEPT ![i] = {a \in DOMAIN outcome : outcome[a] = "timeout"}]
        /\ errored' = [errored EXCEPT ![i] = Errored(outcome)]
  OBVIOUS
<1>2. /\ node[i] = "analysis" /\ UNCHANGED <<active, report, outputs>>
      /\ \A j \in Incidents : node'[j] = IF j = i THEN "collaboration" ELSE node[j]
      /\ \A j \in Incidents : j # i =>
           findings'[j] = findings[j] /\ timedOut'[j] = timedOut[j] /\ errored'[j] = errored[j]
      /\ findings'[i] = F /\ errored'[i] = Errored(outcome)
      /\ timedOut'[i] = {a \in DOMAIN outcome : outcome[a] = "timeout"}
  BY <1>1 DEF Analysis, Goto, TypeOK
<1>3. answered \subseteq Agents /\ F \in FindingsOf(Agents)
  <2>1. answered \subseteq Agents /\ F \in [answered -> Finding]
    BY <1>1, DispatchAssumption DEF TypeOK
  <2> QED
    BY <2>1 DEF FindingsOf
<1>4. TypeOK'
  <2>1. Errored(outcome) \subseteq Agents /\ {a \in DOMAIN outcome : outcome[a] = "timeout"} \subseteq Agents
    BY <1>1 DEF Errored, TypeOK
  <2> QED
    BY <1>1, <1>2, <1>3, <2>1 DEF Analysis, Goto, TypeOK, Nodes
<1>5. Sorted(i)'
  BY <1>1, <1>2 DEF Sorted, Errored
<1>6. AgentsSorted'
  BY <1>2, <1>5 DEF AgentsSorted, Sorted
<1>7. RowsMatchFlags'
  BY <1>1, <1>2, FindingsAssumption DEF RowsMatchFlags
<1>8. ReportsLast' /\ ReportsSay' /\ OutputsPaired'
  BY <1>2 DEF ReportsLast, ReportsSay, OutputsPaired
<1> QED
  BY <1>4, <1>6, <1>7, <1>8

(* A revised finding has the evidence it had and the new, and the flag of both. *)
LEMMA RevisedFinding ==
  ASSUME NEW f \in Finding, NEW refs \in SUBSET Evidence
  PROVE  /\ Revised(f, refs) \in Finding
         /\ Revised(f, refs).refs = f.refs \cup refs
         /\ Revised(f, refs).anomaly <=> f.anomaly \/ refs # {}
<1> DEFINE flag == f.anomaly \/ refs # {}
<1>1. Revised(f, refs) = [[f EXCEPT !.refs = f.refs \cup refs] EXCEPT !.anomaly = flag]
  BY DEF Revised, Finding
<1>2. flag \in BOOLEAN /\ f.refs \cup refs \in SUBSET Evidence
  BY DEF Finding
<1> HIDE DEF flag
<1>3. /\ Revised(f, refs) \in Finding
      /\ Revised(f, refs).refs = f.refs \cup refs
      /\ Revised(f, refs).anomaly = flag
  BY <1>1, <1>2 DEF Finding
<1> QED
  BY <1>3 DEF flag

(* The collaboration only adds evidence, and with it the anomaly.            *)
LEMMA CollaborationInv == ASSUME NEW i \in Incidents, Inv, Collaboration(i) PROVE Inv'
<1> USE DEF Inv, results, kept
<1>1. /\ node[i] = "collaboration" /\ UNCHANGED <<active, timedOut, errored, report, outputs>>
      /\ \A j \in Incidents : node'[j] = IF j = i THEN "ranking" ELSE node[j]
  BY DEF Collaboration, Goto, TypeOK
<1>2. ASSUME findings' \in [Incidents -> FindingsOf(Agents)],
             \A j \in Incidents : j # i => findings'[j] = findings[j],
             DOMAIN findings'[i] = DOMAIN findings[i],
             \A a \in DOMAIN findings[i] : findings'[i][a].anomaly <=> findings'[i][a].refs # {}
      PROVE  Inv'
  <2>1. TypeOK'
    BY <1>1, <1>2 DEF Collaboration, Goto, TypeOK, Nodes
  <2>2. AgentsSorted' /\ RowsMatchFlags'
    BY <1>1, <1>2 DEF AgentsSorted, Sorted, RowsMatchFlags
  <2>3. ReportsLast' /\ ReportsSay' /\ OutputsPaired'
    BY <1>1, <1>2 DEF ReportsLast, ReportsSay, OutputsPaired
  <2> QED
    BY <2>1, <2>2, <2>3
<1>3. CASE UNCHANGED findings
  BY <1>2, <1>3 DEF TypeOK, RowsMatchFlags
<1>4. ASSUME NEW a \in DOMAIN findings[i], NEW refs \in Found,
             findings' = [findings EXCEPT ![i][a] = Revised(@, refs)]
      PROVE  Inv'
  <2>1. PICK B \in SUBSET Agents : findings[i] \in [B -> Finding]
    BY DEF TypeOK, FindingsOf
  <2>2. /\ Revised(findings[i][a], refs) \in Finding
        /\ Revised(findings[i][a], refs).anomaly <=> Revised(findings[i][a], refs).refs # {}
    <3>1. findings[i][a] \in Finding /\ refs \subseteq Evidence /\ (findings[i][a].anomaly <=> findings[i][a].refs # {})
      BY <1>4, <2>1, DispatchAssumption DEF RowsMatchFlags
    <3> QED
      BY <3>1, RevisedFinding
  <2>3. /\ findings'[i] = [findings[i] EXCEPT ![a] = Revised(findings[i][a], refs)]
        /\ \A j \in Incidents : j # i => findings'[j] = findings[j]
    BY <1>4 DEF TypeOK
  <2>4. findings'[i] \in [B -> Finding]
    BY <2>1, <2>2, <2>3
  <2>5. findings' \in [Incidents -> FindingsOf(Agents)]
    BY <1>4, <2>3, <2>4 DEF TypeOK, FindingsOf
  <2>6. \A b \in DOMAIN findings[i] : findings'[i][b].anomaly <=> findings'[i][b].refs # {}
    BY <2>1, <2>2, <2>3 DEF RowsMatchFlags
  <2> QED
    BY <1>2, <2>1, <2>3, <2>4, <2>5, <2>6
<1> QED
  BY <1>3, <1>4 DEF Collaboration

(* A root cause of the LLM's own is one it was allowed to state, and only a    *)
(* run in which nothing is wrong or missing is clean (synthesize_report).    *)
LEMMA ConclusionSound ==
  ASSUME NEW F, NEW ranking, NEW answer, NEW edge, NEW said, said = Conclusion(F, ranking, answer, edge)
  PROVE  /\ said.root.kind = "llm" => AnomalousIn(F) # {} /\ CitedOk(said.root, EvidenceOf(F))
         /\ said.root.kind = "clean" => AnomalousIn(F) = {} /\ DegradedIn(F) = {}
<1>1. CASE AnomalousIn(F) = {}
  BY <1>1 DEF Conclusion, QuietRoot
<1>2. CASE AnomalousIn(F) # {} /\ answer = NoAnswer
  BY <1>2 DEF Conclusion, DetRoot
<1>3. CASE AnomalousIn(F) # {} /\ answer # NoAnswer
  <2> DEFINE reranked == Rerank(ranking, answer.ids, edge)
             given == {t \in {answer.root} \ {Absent, Malformed} : Accepted(t, EvidenceOf(F), reranked)}
             own == [kind |-> "llm", cites |-> answer.root.cites, names |-> answer.root.names]
             text == IF given = {} THEN Absent ELSE own
  <2>1. said = [root |-> Coerced(text, DetRoot(reranked)), ranked |-> reranked]
    BY <1>3 DEF Conclusion
  <2>2. said.root = Coerced(text, DetRoot(reranked))
    BY <2>1
  <2>3. DetRoot(reranked).kind = "rules" /\ own.kind = "llm" /\ own.cites = answer.root.cites
    BY DEF DetRoot
  <2>4. given # {} => CitedOk(own, EvidenceOf(F))
    BY <2>3 DEF Accepted, CitedOk
  <2> HIDE DEF own, given, reranked
  <2> QED
    BY <1>3, <2>2, <2>3, <2>4 DEF Coerced
<1> QED
  BY <1>1, <1>2, <1>3

(* The report is written, of what the incident found and of its agents.      *)
LEMMA SynthesizeInv == ASSUME NEW i \in Incidents, Inv, Synthesize(i) PROVE Inv'
<1> USE DEF Inv, results, kept
<1> DEFINE F == findings[i]
           c == Confidence(F, Cardinality(active[i]))
<1>1. PICK answer \in LLMAnswers(i), edge \in BOOLEAN, score \in Rounded(c[1], c[2]) :
        LET said == Conclusion(F, causes[i], answer, edge) IN
        report' = [report EXCEPT ![i] =
          [incident |-> i, root |-> said.root, ranked |-> said.ranked, confidence |-> score, conflict |-> Conflict(F),
           degraded |-> DegradedIn(F) # {}, timedOut |-> timedOut[i], errored |-> errored[i]]]
  BY DEF Synthesize
<1> DEFINE said == Conclusion(F, causes[i], answer, edge)
           written == [incident |-> i, root |-> said.root, ranked |-> said.ranked, confidence |-> score,
                       conflict |-> Conflict(F), degraded |-> DegradedIn(F) # {}, timedOut |-> timedOut[i],
                       errored |-> errored[i]]
<1>2. /\ node[i] = "synthesis" /\ UNCHANGED <<active, findings, timedOut, errored, outputs>>
      /\ \A j \in Incidents : node'[j] = IF j = i THEN "reporting" ELSE node[j]
  BY DEF Synthesize, Goto, TypeOK
<1>3. report' = [report EXCEPT ![i] = written]
  BY <1>1
<1>4. /\ written.incident = i /\ written.root = said.root /\ written.confidence = score
      /\ written.timedOut = timedOut[i] /\ written.errored = errored[i] /\ written # NoReport
  BY DEF NoReport
<1>5. Says(written, F, active[i], timedOut[i], errored[i])
  <2>1. /\ said.root.kind = "llm" => AnomalousIn(F) # {} /\ CitedOk(said.root, EvidenceOf(F))
        /\ said.root.kind = "clean" => AnomalousIn(F) = {} /\ DegradedIn(F) = {}
    <3> HIDE DEF F
    <3> QED
      BY ConclusionSound
  <2>2. written.confidence \in Rounded(c[1], c[2])
    BY <1>1, <1>4
  <2> HIDE DEF said, written, c
  <2>3. Says(written, F, active[i], timedOut[i], errored[i])
    BY <1>4, <2>1, <2>2 DEF Says, c
  <2> QED
    BY <2>3
<1> HIDE DEF written, said, F, c
<1>6. \A j \in Incidents : report'[j] = IF j = i THEN written ELSE report[j]
  BY <1>3 DEF TypeOK
<1>7. TypeOK'
  BY <1>2, <1>3 DEF Synthesize, Goto, TypeOK, Nodes
<1>8. AgentsSorted' /\ RowsMatchFlags'
  BY <1>2 DEF AgentsSorted, Sorted, RowsMatchFlags
<1>9. ReportsLast'
  BY <1>2, <1>4, <1>6 DEF ReportsLast
<1>10. ReportsSay'
  BY <1>2, <1>5, <1>6 DEF ReportsSay, F
<1>11. OutputsPaired'
  BY <1>2 DEF OutputsPaired
<1> QED
  BY <1>7, <1>8, <1>9, <1>10, <1>11

(* The handler writes the report and the state it has just read.             *)
LEMMA ReportInv == ASSUME NEW i \in Incidents, Inv, Report(i) PROVE Inv'
<1> USE DEF Inv, results
<1>1. /\ node[i] = "reporting" /\ report[i].incident = i
      /\ UNCHANGED <<active, findings, timedOut, errored, report>>
      /\ \A j \in Incidents : node'[j] = IF j = i THEN "done" ELSE node[j]
  BY DEF Report, Goto, TypeOK, ReportsLast
<1>2. outputs' \in {outputs, [outputs EXCEPT ![i] = [report |-> i, state |-> i]]}
  BY <1>1 DEF Report, StateRead
<1>3. TypeOK'
  <2>1. outputs' \in [Incidents -> [report : Incidents \cup {Nobody}, state : Incidents \cup {Nobody}]]
    BY <1>2 DEF TypeOK
  <2> QED
    BY <1>1, <2>1 DEF Report, Goto, TypeOK, Nodes
<1>4. AgentsSorted' /\ RowsMatchFlags'
  BY <1>1 DEF AgentsSorted, Sorted, RowsMatchFlags
<1>5. ReportsLast' /\ ReportsSay'
  BY <1>1 DEF ReportsLast, ReportsSay
<1>6. OutputsPaired'
  BY <1>2 DEF OutputsPaired, TypeOK
<1> QED
  BY <1>3, <1>4, <1>5, <1>6

(* Every step keeps the invariant.                                          *)
LEMMA NextInv == Inv /\ [Next]_vars => Inv'
<1> SUFFICES ASSUME Inv, [Next]_vars PROVE Inv'
  OBVIOUS
<1>1. CASE UNCHANGED vars
  BY <1>1 DEF vars, Inv, TypeOK, AgentsSorted, Sorted, RowsMatchFlags, ReportsLast, ReportsSay, OutputsPaired
<1>2. ASSUME NEW i \in Incidents, Ingest(i) PROVE Inv'
  <2>1. node[i] = "reported" /\ \E n \in {"refused", "supervisor"} : node' = [node EXCEPT ![i] = n]
    BY <1>2 DEF Ingest, Goto
  <2> QED
    BY <1>2, <2>1, MoveInv DEF Ingest, kept, Nodes
<1>3. ASSUME NEW i \in Incidents, SupervisorFails(i) \/ SynthesisFails(i) PROVE Inv'
  BY <1>3, MoveInv DEF SupervisorFails, SynthesisFails, Goto, kept, Nodes
<1>4. ASSUME NEW i \in Incidents, Rank(i) PROVE Inv'
  BY <1>4, MoveInv DEF Rank, Goto, kept, Nodes
<1>5. ASSUME NEW i \in Incidents, Retry(i) PROVE Inv'
  <2>1. node[i] = "synthesis" /\ node' = [node EXCEPT ![i] = "synthesis"]
    BY <1>5 DEF Retry, Inv, TypeOK
  <2> QED
    BY <1>5, <2>1, MoveInv DEF Retry, kept, Nodes
<1> QED
  BY <1>1, <1>2, <1>3, <1>4, <1>5, SupervisorInv, AnalysisInv, CollaborationInv, SynthesizeInv, ReportInv DEF Next, Step

-----------------------------------------------------------------------------
(* The arithmetic of the confidence                                        *)

(* With at most as many findings as dispatched agents, the total is these.    *)
LEMMA TotalOf ==
  ASSUME NEW a \in Nat, NEW b \in Nat, b <= a
  PROVE  Max({a, b, 1}) = IF a >= 1 THEN a ELSE 1
<1> DEFINE m == IF a >= 1 THEN a ELSE 1
<1>1. m \in {a, b, 1} /\ \A y \in {a, b, 1} : m >= y
  OBVIOUS
<1>2. ASSUME NEW x \in {a, b, 1}, \A y \in {a, b, 1} : x >= y
      PROVE  x = m
  BY <1>2
<1> HIDE DEF m
<1>3. Max({a, b, 1}) \in {a, b, 1} /\ \A y \in {a, b, 1} : Max({a, b, 1}) >= y
  BY <1>1 DEF Max
<1>4. Max({a, b, 1}) = m
  BY <1>2, <1>3
<1> QED
  BY <1>4 DEF m

(* A positive factor of both sides can be dropped.                           *)
LEMMA Cancel == ASSUME NEW a \in Int, NEW b \in Int, NEW d \in Nat \ {0}, a * d <= b * d PROVE a <= b
<1> SUFFICES ASSUME a >= b + 1 PROVE FALSE
  OBVIOUS
<1>1. PICK e \in Nat : a = b + 1 + e
  <2>1. a - b - 1 \in Nat /\ a = b + 1 + (a - b - 1)
    OBVIOUS
  <2> QED
    BY <2>1
<1>2. a * d = b * d + d + e * d /\ e * d \in Nat /\ b * d \in Int
  BY <1>1
<1> QED
  BY <1>2

(* A fraction that is at least nine tenths of another is rounded to at least    *)
(* nine tenths of it, less one.                                             *)
LEMMA RoundedLoss ==
  ASSUME NEW m \in Nat, NEW n \in Nat, NEW d \in Nat \ {0}, 9 * m <= 10 * n,
         NEW s \in Rounded(m, d), NEW q \in Rounded(n, d)
  PROVE  9 * s < 10 * (q + 1)
<1>1. s \in Int /\ q \in Int /\ (2 * s - 1) * d <= 2 * m /\ 2 * n <= (2 * q + 1) * d
  BY DEF Rounded
<1> DEFINE x == (2 * s - 1) * d
           y == (2 * q + 1) * d
<1>2. x \in Int /\ y \in Int
  BY <1>1
<1>3. 9 * x <= 10 * y
  <2> HIDE DEF x, y
  <2>1. x <= 2 * m /\ 2 * n <= y
    BY <1>1 DEF x, y
  <2> QED
    BY <1>2, <2>1
<1>4. (9 * (2 * s - 1)) * d = 9 * x /\ (10 * (2 * q + 1)) * d = 10 * y
  BY <1>1
<1>5. 9 * (2 * s - 1) <= 10 * (2 * q + 1)
  <2> HIDE DEF x, y
  <2>1. (9 * (2 * s - 1)) * d <= (10 * (2 * q + 1)) * d
    BY <1>3, <1>4
  <2> QED
    BY <1>1, <2>1, Cancel
<1> QED
  BY <1>1, <1>5

-----------------------------------------------------------------------------
(* What the invariant says                                                 *)

(* A finite set of agents has a natural number of subset members.            *)
LEMMA AgentsCount ==
  ASSUME NEW A \in SUBSET Agents, NEW B \in SUBSET A
  PROVE  Cardinality(A) \in Nat /\ Cardinality(B) \in Nat /\ Cardinality(B) <= Cardinality(A)
<1>1. IsFiniteSet(A)
  BY FindingsAssumption, FS_Subset
<1> QED
  BY <1>1, FS_Subset, FS_CardinalityType

\* The findings F, had the agents of A that gave none answered that they are clean.
Clean == [refs |-> {}, anomaly |-> FALSE, degraded |-> FALSE]
Whole(F, A) == [a \in A |-> IF a \in DOMAIN F THEN F[a] ELSE Clean]

\* The weight of n anomalous findings, and of a conflict between findings.
Weight(n) == IF n <= 1 THEN 50 ELSE IF n = 2 THEN 75 ELSE IF n = 3 THEN 90 ELSE 100
Penalty(F) == IF Conflict(F) THEN 90 ELSE 100

(* The confidence is a product, by the number of agents.                     *)
LEMMA ConfidenceOf ==
  ASSUME NEW F, NEW dispatched
  PROVE  LET n == Cardinality(AnomalousIn(F)) IN
         Confidence(F, dispatched) = <<n * Weight(n) * Penalty(F), 100 * Total(dispatched, F)>>
  BY DEF Confidence, Weight, Penalty

(* Agents that are lost and not clean raise the confidence by the penalty of a  *)
(* conflict at most (compute_confidence).                                    *)
LEMMA ConfidenceLoss ==
  ASSUME NEW A \in SUBSET Agents, NEW F, DOMAIN F \subseteq A, \A a \in DOMAIN F : F[a].anomaly \in BOOLEAN,
         NEW c, c = Confidence(F, Cardinality(A)), NEW w, w = Confidence(Whole(F, A), Cardinality(A))
  PROVE  /\ c[1] \in Nat /\ w[1] \in Nat /\ 9 * c[1] <= 10 * w[1]
         /\ c[2] \in Nat \ {0} /\ w[2] = c[2]
<1> DEFINE G == Whole(F, A)
           n == Cardinality(AnomalousIn(F))
           total == IF Cardinality(A) >= 1 THEN Cardinality(A) ELSE 1
<1>1. DOMAIN G = A /\ \A a \in A : G[a] = IF a \in DOMAIN F THEN F[a] ELSE Clean
  BY DEF Whole
<1>2. AnomalousIn(G) = AnomalousIn(F)
  <2> HIDE DEF G
  <2> QED
    BY <1>1 DEF AnomalousIn, Clean
<1>3. n \in Nat /\ Cardinality(A) \in Nat
  <2>1. AnomalousIn(F) \subseteq A
    BY DEF AnomalousIn
  <2> QED
    BY <2>1, AgentsCount
<1>4. Total(Cardinality(A), F) = total /\ Total(Cardinality(A), G) = total
  <2> HIDE DEF G
  <2>1. Cardinality(DOMAIN F) \in Nat /\ Cardinality(DOMAIN F) <= Cardinality(A)
    BY AgentsCount
  <2> QED
    BY <1>1, <1>3, <2>1, TotalOf DEF Total
<1>5. total \in Nat \ {0} /\ n * Weight(n) \in Nat
  <2> HIDE DEF n
  <2> QED
    BY <1>3 DEF Weight
<1>6. c = <<n * Weight(n) * Penalty(F), 100 * total>> /\ w = <<n * Weight(n) * Penalty(G), 100 * total>>
  <2>1. Confidence(F, Cardinality(A)) = <<n * Weight(n) * Penalty(F), 100 * Total(Cardinality(A), F)>>
    BY ConfidenceOf
  <2>2. Confidence(G, Cardinality(A)) =
          <<Cardinality(AnomalousIn(G)) * Weight(Cardinality(AnomalousIn(G))) * Penalty(G), 100 * Total(Cardinality(A), G)>>
    <3> HIDE DEF G
    <3> QED
      BY ConfidenceOf
  <2>3. w = Confidence(G, Cardinality(A))
    OBVIOUS
  <2> HIDE DEF G, total, n
  <2>4. Cardinality(AnomalousIn(G)) = n
    BY <1>2 DEF n
  <2> QED
    BY <1>4, <2>1, <2>2, <2>3, <2>4
<1>7. Penalty(F) \in {90, 100} /\ Penalty(G) \in {90, 100}
  BY DEF Penalty
<1> HIDE DEF G, n, total
<1>8. /\ c[1] = (n * Weight(n)) * Penalty(F) /\ w[1] = (n * Weight(n)) * Penalty(G)
      /\ c[2] = 100 * total /\ w[2] = 100 * total
  BY <1>6
<1>9. PICK k \in Nat : k = n * Weight(n)
  BY <1>5
<1>10. c[1] = k * Penalty(F) /\ w[1] = k * Penalty(G)
  BY <1>8, <1>9
<1> QED
  BY <1>5, <1>7, <1>8, <1>10

(* What the invariant says of every report.                                 *)
LEMMA InvReported ==
  ASSUME Inv, NEW i \in Incidents, report[i] # NoReport
  PROVE  /\ Sorted(i) /\ Says(report[i], findings[i], active[i], timedOut[i], errored[i])
         /\ findings[i] \in FindingsOf(Agents) /\ active[i] \subseteq Agents
  BY DEF Inv, TypeOK, AgentsSorted, ReportsLast, ReportsSay

(* Losing agents does not inflate the confidence of a report.                *)
LEMMA InvLossCostsConfidence == Inv => LossCostsConfidence
<1> SUFFICES ASSUME Inv, NEW i \in Incidents, report[i] # NoReport
             PROVE  LET whole == Confidence([a \in active[i] |-> IF a \in DOMAIN findings[i] THEN findings[i][a] ELSE Clean],
                                            Cardinality(active[i]))
                    IN \A q \in Rounded(whole[1], whole[2]) : 9 * report[i].confidence < 10 * (q + 1)
  BY DEF LossCostsConfidence, Clean
<1> DEFINE A == active[i]
           F == findings[i]
           c == Confidence(F, Cardinality(A))
           w == Confidence(Whole(F, A), Cardinality(A))
<1>1. A \subseteq Agents /\ DOMAIN F \subseteq A /\ report[i].confidence \in Rounded(c[1], c[2])
  BY InvReported DEF Sorted, Says
<1>2. \A a \in DOMAIN F : F[a].anomaly \in BOOLEAN
  BY InvReported DEF FindingsOf, Finding
<1>3. w = Confidence([a \in active[i] |-> IF a \in DOMAIN findings[i] THEN findings[i][a] ELSE Clean], Cardinality(active[i]))
  BY DEF Whole
<1> HIDE DEF A, F
<1>4. /\ c[1] \in Nat /\ w[1] \in Nat /\ 9 * c[1] <= 10 * w[1]
      /\ c[2] \in Nat \ {0} /\ w[2] = c[2]
  BY <1>1, <1>2, ConfidenceLoss
<1> HIDE DEF c, w
<1>5. \A q \in Rounded(w[1], w[2]) : 9 * report[i].confidence < 10 * (q + 1)
  BY <1>1, <1>4, RoundedLoss
<1> QED
  BY <1>3, <1>5

(* The other properties of a report.                                        *)
LEMMA InvReports == Inv => EveryAgentAccountedFor /\ ClaimsTraceToRules /\ CleanIsVerified
<1> SUFFICES ASSUME Inv PROVE EveryAgentAccountedFor /\ ClaimsTraceToRules /\ CleanIsVerified
  OBVIOUS
<1>1. EveryAgentAccountedFor
  BY InvReported DEF EveryAgentAccountedFor, Sorted, Says
<1>2. ClaimsTraceToRules
  <2> SUFFICES ASSUME NEW i \in Incidents, report[i] # NoReport, report[i].root.kind = "llm"
               PROVE  /\ report[i].root.cites \subseteq EvidenceOf(findings[i])
                      /\ report[i].root.cites # {} \/ EvidenceOf(findings[i]) = {}
    BY DEF ClaimsTraceToRules
  <2>1. AnomalousIn(findings[i]) # {} /\ CitedOk(report[i].root, EvidenceOf(findings[i]))
    BY InvReported DEF Says
  <2>2. PICK a \in DOMAIN findings[i] : findings[i][a].refs # {}
    BY <2>1 DEF AnomalousIn, Inv, RowsMatchFlags
  <2>3. EvidenceOf(findings[i]) # {}
    BY <2>2 DEF EvidenceOf
  <2> QED
    BY <2>1, <2>3 DEF CitedOk
<1>3. CleanIsVerified
  <2> SUFFICES ASSUME NEW i \in Incidents, report[i].root.kind = "clean", NEW a \in DOMAIN findings[i]
               PROVE  ~findings[i][a].degraded /\ findings[i][a].refs = {}
    BY DEF CleanIsVerified
  <2>1. report[i] # NoReport
    BY DEF NoReport
  <2>2. AnomalousIn(findings[i]) = {} /\ DegradedIn(findings[i]) = {}
    BY <2>1, InvReported DEF Says
  <2> QED
    BY <2>2 DEF AnomalousIn, DegradedIn, Inv, RowsMatchFlags
<1> QED
  BY <1>1, <1>2, <1>3

-----------------------------------------------------------------------------
(* The ranking                                                             *)

\* No cause twice, and none behind one that the rules score lower.
IsRanking(r) ==
  /\ r \in Seq(Causes)
  /\ \A j, k \in DOMAIN r : r[j] = r[k] => j = k
  /\ \A j, k \in DOMAIN r : j <= k => Score[r[j]] >= Score[r[k]]

(* The scores are natural numbers.                                          *)
LEMMA CausesTyped == \A x \in Causes : x \in Nat /\ Score[x] \in Nat
<1> SUFFICES ASSUME NEW x \in Causes PROVE x \in Nat /\ Score[x] \in Nat
  OBVIOUS
<1>1. x \in Nat /\ Score[x] \in 0 .. 1000
  BY CausesAssumption
<1> QED
  BY <1>1

(* rank_causes lists the causes best score first.                            *)
LEMMA RankedLists == ASSUME NEW C \in SUBSET Causes, IsFiniteSet(C) PROVE IsRanking(Ranked(C))
<1> DEFINE n == Cardinality(C)
           r == Ranked(C)
<1>1. \A c \in C : c \in Nat /\ Score[c] \in Nat
  BY CausesTyped
<1>2. Orders(Ahead(C), C)
  BY <1>1 DEF Orders, Ahead
<1>3. /\ n \in Nat /\ r \in [1 .. n -> C]
      /\ \A j, k \in 1 .. n : j < k => <<r[j], r[k]>> \in Ahead(C) /\ r[j] # r[k]
  BY <1>2, InOrderLists DEF Ranked
<1> HIDE DEF r, n
<1>4. r \in Seq(C) /\ DOMAIN r = 1 .. n
  BY <1>3, SeqDef
<1>5. r \in Seq(Causes)
  BY <1>4, SeqMonotonic
<1>6. \A j, k \in 1 .. n : r[j] = r[k] => j = k
  <2> SUFFICES ASSUME NEW j \in 1 .. n, NEW k \in 1 .. n, j < k \/ k < j PROVE r[j] # r[k]
    BY <1>3
  <2> QED
    BY <1>3
<1>7. ASSUME NEW j \in 1 .. n, NEW k \in 1 .. n, j <= k PROVE Score[r[j]] >= Score[r[k]]
  <2>1. CASE j = k
    BY <1>1, <1>3, <2>1
  <2>2. CASE j < k
    <3>1. <<r[j], r[k]>> \in Ahead(C) /\ r[j] \in C /\ r[k] \in C
      BY <1>3, <2>2
    <3> QED
      BY <1>1, <3>1 DEF Ahead
  <2> QED
    BY <1>3, <1>7, <2>1, <2>2
<1> QED
  BY <1>4, <1>5, <1>6, <1>7 DEF IsRanking, r

(* The LLM's order keeps every cause, and the place of each one that is behind  *)
(* the near-tied (_rerank).                                                 *)
LEMMA RerankKeeps ==
  ASSUME NEW r, IsRanking(r), NEW ids, ids \in {Absent, Malformed} \/ ids \in Seq(Nat), NEW edge
  PROVE  LET q == Rerank(r, ids, edge)
         IN /\ Len(q) = Len(r) /\ ToSet(q) = ToSet(r)
            /\ \A k \in DOMAIN r : Score[r[k]] < Score[r[1]] - Margin => q[k] = r[k]
<1>1. CASE r = << >> \/ ids \in {Absent, Malformed}
  BY <1>1 DEF Rerank
<1>2. CASE r # << >> /\ ids \notin {Absent, Malformed}
  <2> DEFINE near == NearTied(r, edge)
             I == FirstMentions(ids, near)
             c == Picked(ids, I)
             M == ToSet(c)
             J == {j \in DOMAIN r : r[j] \notin M}
             K == {j \in DOMAIN r : r[j] \in M}
             d == Picked(r, J)
             n == Len(r)
             q == c \o d
  <2>1. Rerank(r, ids, edge) = q
    BY <1>2 DEF Rerank
  <2>2. n \in Nat /\ DOMAIN r = 1 .. n /\ \A j \in 1 .. n : r[j] \in Causes /\ Score[r[j]] \in Nat
    <3>1. n \in Nat /\ DOMAIN r = 1 .. n /\ \A j \in 1 .. n : r[j] \in Causes
      BY LenProperties, ElementOfSeq DEF IsRanking
    <3> QED
      BY <3>1, CausesTyped
  <2>3. ids \in Seq(Nat) /\ I \in SUBSET DOMAIN ids /\ DOMAIN ids \subseteq Nat
    <3>1. ids \in Seq(Nat)
      BY <1>2
    <3> QED
      BY <3>1, LenProperties DEF FirstMentions
  <2>4. \A i, j \in I : ids[i] = ids[j] => i = j
    <3>1. ASSUME NEW i \in I, NEW j \in I, i < j PROVE ids[i] # ids[j]
      <4>1. i \in 1 .. (j - 1)
        BY <2>3, <3>1 DEF FirstMentions
      <4> QED
        BY <4>1 DEF FirstMentions
    <3>2. I \subseteq Nat
      BY <2>3
    <3> HIDE DEF I
    <3> QED
      BY <3>1, <3>2
  <2>5. M \subseteq near /\ near \subseteq ToSet(r)
    <3>1. M = {ids[i] : i \in I}
      <4> HIDE DEF I
      <4> QED
        BY <2>3, PickedLists
    <3> QED
      BY <3>1 DEF FirstMentions, NearTied
  <2> HIDE DEF I
  <2>6. /\ IsFiniteSet(I) /\ c \in Seq(Nat) /\ Len(c) = Cardinality(I)
        /\ \A j, k \in DOMAIN c : c[j] = c[k] => j = k
    BY <2>3, <2>4, PickedLists
  <2> HIDE DEF c
  <2>7. Cardinality(I) \in Nat /\ DOMAIN c = 1 .. Cardinality(I)
    BY <2>6, FS_CardinalityType, LenProperties
  <2>8. IsFiniteSet(M) /\ Cardinality(M) = Cardinality(I)
    <3>1. M = {c[k] : k \in DOMAIN c}
      BY DEF ToSet
    <3> HIDE DEF M
    <3>2. c \in Bijection(DOMAIN c, M)
      BY <2>6, <3>1, LenProperties DEF Bijection, Injection, Surjection, IsInjective
    <3>3. IsFiniteSet(DOMAIN c) /\ Cardinality(DOMAIN c) = Cardinality(I)
      BY <2>7, FS_Interval
    <3> QED
      BY <3>2, <3>3, FS_Bijection DEF ExistsBijection
  <2>9. ToSet(r) = {r[j] : j \in 1 .. n}
    BY <2>2 DEF ToSet
  <2> HIDE DEF M, n
  <2>10. IsFiniteSet(K) /\ IsFiniteSet(J) /\ Cardinality(K) + Cardinality(J) = n
    <3>1. K \cup J = 1 .. n /\ K \cap J = {} /\ K \subseteq 1 .. n /\ J \subseteq 1 .. n
      BY <2>2
    <3>2. IsFiniteSet(1 .. n) /\ Cardinality(1 .. n) = n
      BY <2>2, FS_Interval
    <3> HIDE DEF K, J
    <3>3. IsFiniteSet(K) /\ IsFiniteSet(J)
      BY <3>1, <3>2, FS_Subset
    <3>4. Cardinality(K \cup J) = Cardinality(K) + Cardinality(J) - Cardinality(K \cap J)
      BY <3>3, FS_Union
    <3>5. Cardinality(K) \in Nat /\ Cardinality(J) \in Nat
      BY <3>3, FS_CardinalityType
    <3>6. Cardinality(K \cap J) = 0 /\ Cardinality(K \cup J) = n
      BY <3>1, <3>2, FS_EmptySet
    <3> QED
      BY <3>3, <3>4, <3>5, <3>6
  <2>11. Cardinality(K) = Cardinality(I)
    <3> DEFINE f == [j \in K |-> r[j]]
    <3>1. \A x \in M : \E j \in K : r[j] = x
      BY <2>2, <2>5, <2>9
    <3>2. \A j, k \in K : r[j] = r[k] => j = k
      BY DEF IsRanking
    <3>3. \A j \in K : r[j] \in M
      OBVIOUS
    <3> HIDE DEF K
    <3>4. f \in Bijection(K, M)
      BY <3>1, <3>2, <3>3 DEF Bijection, Injection, Surjection, IsInjective
    <3> QED
      BY <2>8, <2>10, <3>4, FS_Bijection DEF ExistsBijection
  <2>12. J \in SUBSET DOMAIN r /\ r \in Seq(Causes)
    BY DEF IsRanking
  <2>13. /\ d \in Seq(Causes) /\ Len(d) = Cardinality(J) /\ ToSet(d) = {r[j] : j \in J}
         /\ \A j \in J : Before(j, J) \in DOMAIN d /\ d[Before(j, J)] = r[j]
    <3> HIDE DEF J
    <3> QED
      BY <2>12, PickedLists
  <2> HIDE DEF d
  <2>14. d \in Seq(Nat) /\ DOMAIN d = 1 .. Cardinality(J) /\ Cardinality(J) \in Nat
    <3>1. Causes \subseteq Nat
      BY CausesAssumption
    <3> HIDE DEF J
    <3> QED
      BY <2>10, <2>13, <3>1, SeqMonotonic, LenProperties, FS_CardinalityType
  <2>15. /\ q \in Seq(Nat) /\ Len(q) = n
         /\ \A k \in 1 .. n : q[k] = IF k <= Cardinality(I) THEN c[k] ELSE d[k - Cardinality(I)]
    <3>1. Cardinality(I) + Cardinality(J) = n
      BY <2>10, <2>11
    <3> HIDE DEF J
    <3>2. /\ q \in Seq(Nat) /\ Len(q) = Len(c) + Len(d)
          /\ \A k \in 1 .. Len(c) + Len(d) : q[k] = IF k <= Len(c) THEN c[k] ELSE d[k - Len(c)]
      <4>1. c \in Seq(Nat) /\ d \in Seq(Nat)
        BY <2>6, <2>14
      <4> QED
        BY <4>1, ConcatProperties, Zenon
    <3>3. Len(c) = Cardinality(I) /\ Len(c) + Len(d) = n
      BY <2>6, <2>13, <3>1
    <3> HIDE DEF q
    <3> QED
      BY <3>2, <3>3
  <2> HIDE DEF q
  <2>16. ToSet(q) = ToSet(r)
    <3>1. ToSet(q) = {q[k] : k \in 1 .. n}
      BY <2>15, LenProperties DEF ToSet
    <3>2. M = {c[k] : k \in 1 .. Cardinality(I)} /\ ToSet(d) = {d[k] : k \in 1 .. Cardinality(J)}
      BY <2>7, <2>14 DEF M, ToSet
    <3>3. Cardinality(I) + Cardinality(J) = n
      BY <2>10, <2>11
    <3>4. ToSet(q) = M \cup ToSet(d)
      <4>1. \A k \in 1 .. n : q[k] \in M \cup ToSet(d)
        <5> SUFFICES ASSUME NEW k \in 1 .. n PROVE q[k] \in M \cup ToSet(d)
          OBVIOUS
        <5>1. k <= Cardinality(I) \/ k - Cardinality(I) \in 1 .. Cardinality(J)
          BY <2>2, <2>7, <2>14, <3>3
        <5>2. CASE k <= Cardinality(I)
          BY <2>7, <2>15, <3>2, <5>2
        <5>3. CASE ~(k <= Cardinality(I))
          BY <2>15, <3>2, <5>1, <5>3
        <5> QED
          BY <5>2, <5>3
      <4>2. \A k \in 1 .. Cardinality(I) : k \in 1 .. n /\ q[k] = c[k]
        BY <2>2, <2>7, <2>14, <2>15, <3>3
      <4>3. \A k \in 1 .. Cardinality(J) : k + Cardinality(I) \in 1 .. n /\ q[k + Cardinality(I)] = d[k]
        <5> SUFFICES ASSUME NEW k \in 1 .. Cardinality(J)
                     PROVE  k + Cardinality(I) \in 1 .. n /\ q[k + Cardinality(I)] = d[k]
          OBVIOUS
        <5>1. /\ k + Cardinality(I) \in 1 .. n /\ ~(k + Cardinality(I) <= Cardinality(I))
              /\ (k + Cardinality(I)) - Cardinality(I) = k
          BY <2>2, <2>7, <2>14, <3>3
        <5> QED
          BY <2>15, <5>1
      <4> QED
        BY <3>1, <3>2, <4>1, <4>2, <4>3
    <3>5. M \cup {r[j] : j \in J} = {r[j] : j \in 1 .. n}
      BY <2>2, <2>5, <2>9
    <3> HIDE DEF J
    <3> QED
      BY <2>9, <2>13, <3>4, <3>5
  <2>17. ASSUME NEW k \in 1 .. n, Score[r[k]] < Score[r[1]] - Margin
         PROVE  q[k] = r[k]
    <3>1. \A j \in k .. n : j \in J
      <4> SUFFICES ASSUME NEW j \in k .. n, r[j] \in near PROVE FALSE
        BY <2>2, <2>5
      <4>1. Score[r[1]] - Score[r[j]] <= Margin
        <5>1. j \in 1 .. n /\ 1 \in 1 .. n
          BY <2>2
        <5> DEFINE behind == Score[r[1]] - Score[r[j]]
        <5>2. behind < Margin \/ (behind = Margin /\ edge)
          BY DEF NearTied
        <5>3. behind \in Int
          BY <2>2, <5>1
        <5> HIDE DEF behind
        <5>4. behind <= Margin
          BY <5>2, <5>3 DEF Margin
        <5> QED
          BY <5>4 DEF behind
      <4>2. Score[r[k]] >= Score[r[j]]
        BY <2>2 DEF IsRanking
      <4>3. 1 \in 1 .. n /\ j \in 1 .. n
        BY <2>2
      <4> QED
        BY <2>2, <2>17, <4>1, <4>2, <4>3 DEF Margin
    <3> DEFINE U == {j \in J : j <= k}
               V == (k + 1) .. n
    <3>2. U \cup V = J /\ U \cap V = {} /\ U \subseteq J
      BY <2>2, <3>1
    <3>3. IsFiniteSet(V) /\ Cardinality(V) = n - k
      BY <2>2, FS_Interval
    <3>4. Cardinality(J) = Cardinality(U) + (n - k) /\ Cardinality(U) \in Nat
      <4> HIDE DEF U, V, J
      <4>1. IsFiniteSet(U)
        BY <2>10, <3>2, FS_Subset
      <4>2. Cardinality(U \cup V) = Cardinality(U) + Cardinality(V) - Cardinality(U \cap V)
        BY <3>3, <4>1, FS_Union
      <4>3. Cardinality(U) \in Nat
        BY <4>1, FS_CardinalityType
      <4>4. Cardinality(U \cap V) = 0 /\ Cardinality(U \cup V) = Cardinality(J)
        BY <3>2, FS_EmptySet
      <4> QED
        BY <2>2, <3>3, <4>2, <4>3, <4>4
    <3>5. k \in J
      BY <2>2, <3>1
    <3>6. Before(k, J) = Cardinality(U)
      BY DEF Before
    <3> HIDE DEF U, V, J
    <3>7. Before(k, J) \in 1 .. Cardinality(J) /\ d[Before(k, J)] = r[k]
      BY <2>13, <2>14, <3>5
    <3>8. Before(k, J) = k - Cardinality(I) /\ ~(k <= Cardinality(I))
      BY <2>2, <2>7, <2>10, <2>11, <2>14, <3>4, <3>6, <3>7
    <3> QED
      BY <2>15, <3>7, <3>8
  <2> QED
    BY <2>1, <2>2, <2>15, <2>16, <2>17 DEF n
<1> QED
  BY <1>1, <1>2

\* What RulesRank asks of a root cause and the ranking it is printed with.
Ranks(root, ranked, rules) ==
  /\ Len(ranked) = Len(rules) /\ ToSet(ranked) = ToSet(rules)
  /\ \A k \in DOMAIN rules : Score[rules[k]] < Score[rules[1]] - Margin => ranked[k] = rules[k]
  /\ ranked # << >> => ranked[1] \in root.names

(* The report names the cause it ranks first (synthesize_report).             *)
LEMMA ConclusionRanks ==
  ASSUME NEW F, NEW rules, IsRanking(rules), AnomalousIn(F) = {} => rules = << >>,
         NEW answer \in {NoAnswer} \cup Answers, NEW edge
  PROVE  LET said == Conclusion(F, rules, answer, edge) IN Ranks(said.root, said.ranked, rules)
<1> DEFINE said == Conclusion(F, rules, answer, edge)
<1>1. CASE AnomalousIn(F) = {}
  <2>1. said.ranked = rules /\ rules = << >>
    BY <1>1 DEF Conclusion
  <2> HIDE DEF said
  <2>2. Ranks(said.root, said.ranked, rules)
    BY <2>1 DEF Ranks
  <2> QED
    BY <2>2 DEF said
<1>2. CASE AnomalousIn(F) # {} /\ answer = NoAnswer
  <2>1. said.ranked = rules /\ said.root = DetRoot(rules)
    BY <1>2 DEF Conclusion
  <2>2. rules # << >> => DetRoot(rules).names = {rules[1]}
    BY DEF DetRoot
  <2> HIDE DEF said
  <2>3. Ranks(said.root, said.ranked, rules)
    BY <2>1, <2>2 DEF Ranks
  <2> QED
    BY <2>3 DEF said
<1>3. CASE AnomalousIn(F) # {} /\ answer # NoAnswer
  <2> DEFINE reranked == Rerank(rules, answer.ids, edge)
             given == {t \in {answer.root} \ {Absent, Malformed} : Accepted(t, EvidenceOf(F), reranked)}
             own == [kind |-> "llm", cites |-> answer.root.cites, names |-> answer.root.names]
             text == IF given = {} THEN Absent ELSE own
  <2>1. said.root = Coerced(text, DetRoot(reranked)) /\ said.ranked = reranked
    <3>1. said = [root |-> Coerced(text, DetRoot(reranked)), ranked |-> reranked]
      BY <1>3 DEF Conclusion
    <3> HIDE DEF said, text, reranked
    <3> QED
      BY <3>1
  <2>2. answer.ids \in {Absent, Malformed} \/ answer.ids \in Seq(Nat)
    BY <1>3, LLMAssumption
  <2>3. /\ Len(reranked) = Len(rules) /\ ToSet(reranked) = ToSet(rules)
        /\ \A k \in DOMAIN rules : Score[rules[k]] < Score[rules[1]] - Margin => reranked[k] = rules[k]
    BY <2>2, RerankKeeps
  <2>4. reranked # << >> => DetRoot(reranked).names = {reranked[1]}
    <3> HIDE DEF reranked
    <3> QED
      BY DEF DetRoot
  <2>5. reranked # << >> /\ given # {} => reranked[1] \in own.names
    <3> HIDE DEF reranked
    <3> QED
      BY DEF Accepted, Names
  <2> HIDE DEF reranked, given, own, said
  <2>6. reranked # << >> => reranked[1] \in said.root.names
    BY <2>1, <2>4, <2>5 DEF Coerced
  <2>7. Ranks(said.root, said.ranked, rules)
    BY <2>1, <2>3, <2>6 DEF Ranks
  <2> QED
    BY <2>7 DEF said
<1> QED
  BY <1>1, <1>2, <1>3

-----------------------------------------------------------------------------
(* The ranking in a report                                                 *)

\* Without an anomaly no cause is ranked.
RankingsOK ==
  /\ causes = [i \in Incidents |-> causes[i]]
  /\ \A i \in Incidents :
       /\ IsRanking(causes[i])
       /\ node[i] = "synthesis" /\ AnomalousIn(findings[i]) = {} => causes[i] = << >>
ReportsRank == \A i \in Incidents : report[i] # NoReport => Ranks(report[i].root, report[i].ranked, causes[i])
RankInv == RankingsOK /\ ReportsRank

(* The empty ranking.                                                       *)
LEMMA NoRanking == IsRanking(<< >>)
<1>1. << >> \in Seq(Causes) /\ DOMAIN << >> = {}
  BY EmptySeq
<1> QED
  BY <1>1 DEF IsRanking

(* A step that ranks and reports nothing, and leaves the findings of whoever is *)
(* at the synthesis alone.                                                   *)
LEMMA QuietRankInv ==
  ASSUME Inv, RankInv, UNCHANGED <<causes, report>>,
         \A i \in Incidents : node'[i] = "synthesis" => node[i] = "synthesis" /\ findings'[i] = findings[i]
  PROVE  RankInv'
<1>1. RankingsOK'
  BY DEF RankInv, RankingsOK
<1>2. ReportsRank'
  BY DEF RankInv, ReportsRank
<1> QED
  BY <1>1, <1>2 DEF RankInv

(* synthesizer_node ranks the causes.                                       *)
LEMMA RankRankInv == ASSUME NEW i \in Incidents, Inv, RankInv, Rank(i) PROVE RankInv'
<1>1. PICK nodes \in Topologies :
        causes' = [causes EXCEPT ![i] =
          IF AnomalousIn(findings[i]) = {} THEN << >>
          ELSE Ranked(nodes \cap {CauseOf[e] : e \in EvidenceOf(findings[i])})]
  BY DEF Rank
<1> DEFINE known == nodes \cap {CauseOf[e] : e \in EvidenceOf(findings[i])}
           r == IF AnomalousIn(findings[i]) = {} THEN << >> ELSE Ranked(known)
<1>2. known \in SUBSET Causes /\ IsFiniteSet(known)
  <2>1. known \in SUBSET Known
    BY DEF Topologies
  <2> HIDE DEF known
  <2> QED
    BY <2>1, DispatchAssumption, FS_Subset
<1>3. IsRanking(r) /\ (AnomalousIn(findings[i]) = {} => r = << >>)
  <2>1. IsRanking(Ranked(known))
    <3> HIDE DEF known
    <3> QED
      BY <1>2, RankedLists
  <2> QED
    BY <2>1, NoRanking
<1>4. causes' = [causes EXCEPT ![i] = r]
  BY <1>1
<1> HIDE DEF r, known
<1>5. /\ \A j \in Incidents : causes'[j] = IF j = i THEN r ELSE causes[j]
      /\ causes' = [j \in Incidents |-> causes'[j]]
  BY <1>4 DEF RankInv, RankingsOK
<1>6. node[i] = "ranking" /\ UNCHANGED <<findings, report>> /\ \A j \in Incidents : j # i => node'[j] = node[j]
  BY DEF Rank, Goto, results, Inv, TypeOK
<1>7. RankingsOK'
  BY <1>3, <1>5, <1>6 DEF RankInv, RankingsOK
<1>8. ReportsRank'
  <2>1. report[i] = NoReport
    BY <1>6 DEF Inv, ReportsLast
  <2> QED
    BY <1>5, <1>6, <2>1 DEF RankInv, ReportsRank
<1> QED
  BY <1>7, <1>8 DEF RankInv

(* synthesize_report writes the ranking, perhaps the LLM's.                  *)
LEMMA SynthesizeRankInv == ASSUME NEW i \in Incidents, Inv, RankInv, Synthesize(i) PROVE RankInv'
<1> DEFINE F == findings[i]
           c == Confidence(F, Cardinality(active[i]))
<1>1. PICK answer \in LLMAnswers(i), edge \in BOOLEAN, score \in Rounded(c[1], c[2]) :
        LET said == Conclusion(F, causes[i], answer, edge) IN
        report' = [report EXCEPT ![i] =
          [incident |-> i, root |-> said.root, ranked |-> said.ranked, confidence |-> score, conflict |-> Conflict(F),
           degraded |-> DegradedIn(F) # {}, timedOut |-> timedOut[i], errored |-> errored[i]]]
  BY DEF Synthesize
<1> DEFINE said == Conclusion(F, causes[i], answer, edge)
           written == [incident |-> i, root |-> said.root, ranked |-> said.ranked, confidence |-> score,
                       conflict |-> Conflict(F), degraded |-> DegradedIn(F) # {}, timedOut |-> timedOut[i],
                       errored |-> errored[i]]
<1>2. /\ node[i] = "synthesis" /\ UNCHANGED <<findings, causes>>
      /\ \A j \in Incidents : node'[j] = IF j = i THEN "reporting" ELSE node[j]
  BY DEF Synthesize, Goto, results, Inv, TypeOK
<1>3. report' = [report EXCEPT ![i] = written]
  BY <1>1
<1>4. Ranks(said.root, said.ranked, causes[i])
  <2>1. answer \in {NoAnswer} \cup Answers
    BY <1>1 DEF LLMAnswers
  <2>2. IsRanking(causes[i]) /\ (AnomalousIn(F) = {} => causes[i] = << >>)
    BY <1>2 DEF RankInv, RankingsOK
  <2> HIDE DEF F
  <2> QED
    BY <2>1, <2>2, ConclusionRanks
<1>5. written.root = said.root /\ written.ranked = said.ranked
  OBVIOUS
<1> HIDE DEF written, said, F, c
<1>6. \A j \in Incidents : report'[j] = IF j = i THEN written ELSE report[j]
  BY <1>3 DEF Inv, TypeOK
<1>7. RankingsOK'
  BY <1>2 DEF RankInv, RankingsOK
<1>8. ReportsRank'
  BY <1>2, <1>4, <1>5, <1>6 DEF RankInv, ReportsRank
<1> QED
  BY <1>7, <1>8 DEF RankInv

(* Every step keeps the rankings and what the reports say of them.           *)
LEMMA NextRankInv == Inv /\ RankInv /\ [Next]_vars => RankInv'
<1> SUFFICES ASSUME Inv, RankInv, [Next]_vars PROVE RankInv'
  OBVIOUS
<1> USE DEF results, kept
<1>1. CASE UNCHANGED vars
  BY <1>1, QuietRankInv DEF vars
<1>2. ASSUME NEW i \in Incidents, Ingest(i) \/ Supervisor(i) \/ SupervisorFails(i) PROVE RankInv'
  BY <1>2, QuietRankInv DEF Ingest, Supervisor, SupervisorFails, Goto, Inv, TypeOK
<1>3. ASSUME NEW i \in Incidents, Analysis(i) PROVE RankInv'
  <2>1. /\ UNCHANGED <<causes, report>>
        /\ \A j \in Incidents : node'[j] = IF j = i THEN "collaboration" ELSE node[j]
        /\ \A j \in Incidents : j # i => findings'[j] = findings[j]
    BY <1>3 DEF Analysis, Goto, Inv, TypeOK
  <2> QED
    BY <2>1, QuietRankInv
<1>4. ASSUME NEW i \in Incidents, Collaboration(i) PROVE RankInv'
  <2>1. /\ UNCHANGED <<causes, report>>
        /\ \A j \in Incidents : node'[j] = IF j = i THEN "ranking" ELSE node[j]
    BY <1>4 DEF Collaboration, Goto, Inv, TypeOK
  <2>2. \A j \in Incidents : j # i => findings'[j] = findings[j]
    BY <1>4 DEF Collaboration, Inv, TypeOK
  <2> QED
    BY <2>1, <2>2, QuietRankInv
<1>5. ASSUME NEW i \in Incidents, Retry(i) \/ SynthesisFails(i) \/ Report(i) PROVE RankInv'
  BY <1>5, QuietRankInv DEF Retry, SynthesisFails, Report, Goto, Inv, TypeOK
<1> QED
  BY <1>1, <1>2, <1>3, <1>4, <1>5, RankRankInv, SynthesizeRankInv DEF Next, Step

-----------------------------------------------------------------------------
(* The theorems                                                            *)

(* The incidents keep their invariant.                                      *)
LEMMA Invariant == Spec => []Inv
<1>1. Inv /\ [Next]_vars => Inv'
  BY NextInv
<1> QED
  BY InitInv, <1>1, PTL DEF Spec

(* Every dispatched agent is in the report, as a finding, a timeout or an error *)
(* (analysis_node, compute_confidence).                                      *)
THEOREM AgentsAccountedFor == Spec => []EveryAgentAccountedFor
  BY Invariant, InvReports, PTL

(* A root cause of the LLM's own cites rows of the incident's findings          *)
(* (_evidence_index, _cited_ok, synthesize_report).                          *)
THEOREM ClaimsTraced == Spec => []ClaimsTraceToRules
  BY Invariant, InvReports, PTL

(* A clean report rests on findings without evidence, none of them degraded    *)
(* (synthesize_report).                                                     *)
THEOREM CleanReportsVerified == Spec => []CleanIsVerified
  BY Invariant, InvReports, PTL

(* Whatever agents are lost, the confidence is at most by a conflict's penalty  *)
(* and by rounding higher than if they had answered that they are clean        *)
(* (compute_confidence).                                                    *)
THEOREM LossNotRewarded == Spec => []LossCostsConfidence
  BY Invariant, InvLossCostsConfidence, PTL

(* Concurrent incidents never get each other's report or state written         *)
(* (run_incident, last_result_state, write_outputs).                         *)
THEOREM OutputsOwn == Spec => []OutputsPaired
<1>1. Inv => OutputsPaired
  BY DEF Inv
<1> QED
  BY Invariant, <1>1, PTL

(* The LLM may only break near-ties, and the report names the cause it ranks    *)
(* first (_rerank, synthesize_report).                                       *)
THEOREM RulesRanked == Spec => []RulesRank
<1>1. Init => RankInv
  <2> SUFFICES ASSUME Init PROVE RankInv
    OBVIOUS
  <2>1. RankingsOK
    BY NoRanking DEF Init, RankingsOK
  <2>2. ReportsRank
    BY DEF Init, ReportsRank
  <2> QED
    BY <2>1, <2>2 DEF RankInv
<1>2. RankInv => RulesRank
  BY DEF RankInv, ReportsRank, Ranks, RulesRank
<1>3. Inv /\ RankInv /\ [Next]_vars => RankInv'
  BY NextRankInv
<1> QED
  BY <1>1, <1>2, <1>3, Invariant, PTL DEF Spec
=============================================================================
