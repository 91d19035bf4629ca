---------------------------- MODULE Collaboration ----------------------------
(***************************************************************************)
(* One incident's analysis and A2A collaboration: the orchestrator's        *)
(* analysis_node and collaboration_node (core/orchestrator.py), the agents' *)
(* /a2a handlers (agents/domain_agent.py) and the router between them.      *)
(*                                                                         *)
(* A call of the router is a message the agent handles some time, or never, *)
(* and an answer the orchestrator waits for until the message times out.    *)
(* An agent that is slow handles a message after its call has timed out,    *)
(* perhaps rounds later.  A finding is the entities it has evidence on and  *)
(* the correlation notes in its summary; telemetry and topology are         *)
(* constants.  All evidence is of the incident's window, so a question's id *)
(* is its target and its entity, and two findings with the same evidence    *)
(* and notes have the same summary.  The LLM is off.                        *)
(***************************************************************************)
EXTENDS Integers, FiniteSets

CONSTANTS
  Agents,
  Entities,
  Seen,         \* entities an agent's analysis of the incident window finds evidence on
  Findable,     \* entities a question to an agent turns up evidence on
  Named,        \* entities named in the evidence on an entity (find_leads)
  Reach,        \* entities an anchor is close to and depends on (walk, depends_on)
  Probes,       \* agents that can be asked about an entity
  Correlated,   \* agents whose correlation rules note any anomalous peer
  NoFinding,
  MaxRounds,    \* a2a.max_iterations
  Budget,       \* walk.max_requests_per_round
  MaxFailures,  \* bound on the failures of a run, see failed
  Forgetful     \* agents that may lose their session, once each

ASSUME CatalogAssumption ==
  /\ IsFiniteSet(Agents) /\ IsFiniteSet(Entities)
  /\ Seen \in [Agents -> SUBSET Entities] /\ Findable \in [Agents -> SUBSET Entities]
  /\ Named \in [Entities -> SUBSET Entities] /\ Reach \in [Entities -> SUBSET Entities]
  /\ Probes \in [Entities -> SUBSET Agents] /\ Correlated \subseteq Agents
ASSUME BoundsAssumption ==
  /\ MaxRounds \in Nat \ {0} /\ Budget \in Nat \ {0}
  /\ MaxFailures \in Nat /\ Forgetful \subseteq Agents

VARIABLES
  phase,      \* where the orchestrator is
  round,
  findings,   \* its findings: a function on the agents that were analyzed in time
  asked,      \* <<target, entity>> of the questions asked so far
  requests,   \* the questions of this round
  calls,      \* messages it still awaits the answer of
  replies,    \* answers it has for the messages of this phase
  log,        \* answers and leads recorded in all_messages
  inbox,      \* messages the agents have not handled yet
  session,    \* each agent's session of this incident
  failed,     \* history: <<agent, round, kind>> of calls and topology reads that failed
  forgot,     \* history: agents that lost their session
  cut         \* history: did the budget ever drop a question?

orchestrator == <<phase, round, findings, asked, requests, log>>
network == <<calls, replies, inbox>>
history == <<failed, forgot, cut>>
vars == <<orchestrator, network, session, history>>

Rounds == 1 .. MaxRounds
Notes == {"corroboration", "contradiction"}
Finding == [rows : SUBSET Entities, notes : SUBSET Notes]
ASSUME NoFindingAssumption == NoFinding \notin Finding

Participants == DOMAIN findings

\* _Session().
NewSession ==
  [context |-> FALSE, own |-> NoFinding, asked |-> {}, leads |-> {}, planned |-> {},
   peers |-> [k \in Rounds |-> {}], answers |-> [k \in Rounds |-> {}]]

Analysis(a) == [kind |-> "analysis", to |-> a, round |-> 0]

Init ==
  /\ phase = "analysis" /\ round = 0
  /\ findings = << >> /\ asked = {} /\ requests = {} /\ log = {}
  /\ calls = {Analysis(a) : a \in Agents} /\ inbox = {Analysis(a) : a \in Agents}
  /\ replies = {}
  /\ session = [a \in Agents |-> NewSession]
  /\ failed = {} /\ forgot = {} /\ cut = FALSE

-----------------------------------------------------------------------------
(* The router                                                              *)

\* asyncio.gather of one call for each message.
Send(M) == calls' = M /\ inbox' = inbox \cup M /\ replies' = {}

Fail(a, kind, k) ==
  /\ failed' = failed \cup {<<a, k, kind>>}
  /\ Cardinality(failed') <= MaxFailures

\* The message times out or its connection fails; the agent may handle it yet.
Expire(m) ==
  /\ m \in calls
  /\ calls' = calls \ {m}
  /\ Fail(m.to, m.kind, m.round)
  /\ UNCHANGED <<orchestrator, replies, inbox, session, forgot, cut>>

\* The agent has handled m; its answer is of use to a call that still waits.
Mut_Answer(m, reply) ==
  /\ inbox' = inbox \ {m}
  /\ calls' = IF reply = {} THEN calls ELSE calls \ {m}
  /\ replies' = IF m \in calls THEN replies \cup reply ELSE replies
Answer(m, reply) ==
  /\ inbox' = inbox \ {m}
  /\ calls' = calls \ {m}
  /\ replies' = IF m \in calls THEN replies \cup reply ELSE replies

-----------------------------------------------------------------------------
(* The agents                                                              *)

Anomalous(f) == f.rows # {}

\* reconsider: each kind of note is made once.
Reconsidered(a, f, peerRows) ==
  IF a \in Correlated /\ \E rows \in peerRows : rows # {}
  THEN [f EXCEPT !.notes = @ \cup {IF Anomalous(f) THEN "corroboration" ELSE "contradiction"}]
  ELSE f

\* The skill of the agent's domain: analyze, then overwrite the session.
\* Degraded telemetry shows nothing.
HandleAnalysis(m) ==
  /\ m.kind = "analysis"
  /\ \E rows \in {Seen[m.to], {}} :
       LET f == [rows |-> rows, notes |-> {}] IN
       /\ session' = [session EXCEPT ![m.to] = [@ EXCEPT !.context = TRUE, !.own = f]]
       /\ Answer(m, {[kind |-> "finding", agent |-> m.to, finding |-> f]})
  /\ UNCHANGED <<orchestrator, history>>

\* _covered: the target published evidence on the entity itself.
Covered(s, t, e, k) == \E p \in s.peers[k] : p.from = t /\ e \in p.rows

\* plan_requests over the agent's own evidence and the leads it was handed; its
\* own limit to Budget questions is subsumed by the orchestrator's.
Plan(a, s, k) ==
  LET anchors == (IF s.own = NoFinding THEN {} ELSE s.own.rows) \cup s.leads
      close == UNION {Reach[c] : c \in anchors}
  IN {[asker |-> a, target |-> t, entity |-> e] : t \in Agents \ {a}, e \in close}
       \cap {q \in [asker : {a}, target : Agents, entity : Entities] :
              /\ q.target \in Probes[q.entity]
              /\ <<q.target, q.entity>> \notin s.asked
              /\ ~Covered(s, q.target, q.entity, k)}

\* finding_publish; `s` is the session once the publication is stored.
HandlePublish(m) ==
  LET s == [session[m.to] EXCEPT
              !.context = TRUE, !.asked = m.asked,
              !.peers[m.round] = @ \cup {[from |-> m.from, rows |-> m.rows]}]
      expected == Participants \ {m.to}
      heardAll == expected \subseteq {p.from : p \in s.peers[m.round]}
      plans == expected # {} /\ heardAll /\ m.round \notin s.planned
      planned == [s EXCEPT !.planned = @ \cup {m.round}]
  IN
  /\ m.kind = "finding_publish"
  /\ \/ /\ ~plans
        /\ session' = [session EXCEPT ![m.to] = s]
        /\ Answer(m, {}) /\ UNCHANGED failed
     \/ /\ plans
        /\ session' = [session EXCEPT ![m.to] = [planned EXCEPT !.leads = {}]]
        /\ Answer(m, Plan(m.to, s, m.round)) /\ UNCHANGED failed
     \/ /\ plans   \* the topology cannot be read, or no endpoint has one and it is empty
        /\ \E leads \in {s.leads, {}} :
             session' = [session EXCEPT ![m.to] = [planned EXCEPT !.leads = leads]]
        /\ Answer(m, {}) /\ Fail(m.to, "topology", m.round)
  /\ UNCHANGED <<orchestrator, forgot, cut>>

\* validation_request: analyze the scope; degraded telemetry finds nothing.
HandleRequest(m) ==
  /\ m.kind = "validation_request"
  /\ IF session[m.to].context
     THEN \E supported \in {FALSE, m.q.entity \in Findable[m.to]} :
            /\ session' = [session EXCEPT ![m.to].answers[m.round] =
                             IF supported THEN @ \cup {m.q.entity} ELSE @]
            /\ Answer(m, {[q |-> m.q, supported |-> supported]})
     ELSE Answer(m, {}) /\ UNCHANGED session
  /\ UNCHANGED <<orchestrator, history>>

HandleResponse(m) ==
  /\ m.kind = "validation_response"
  /\ session' = [session EXCEPT ![m.to].leads = @ \cup m.leads]
  /\ Answer(m, {})
  /\ UNCHANGED <<orchestrator, history>>

\* revise: absorb the supported answers this agent gave, then reconsider.
Mut_Revised(a, s, k) == Reconsidered(a, s.own, {p.rows : p \in s.peers[k]})
Revised(a, s, k) ==
  Reconsidered(a, [s.own EXCEPT !.rows = @ \cup s.answers[k]], {p.rows : p \in s.peers[k]})

HandleUpdate(m) ==
  LET s == session[m.to] IN
  /\ m.kind = "finding_update"
  /\ IF s.own = NoFinding
     THEN Answer(m, {}) /\ UNCHANGED session
     ELSE /\ session' = [session EXCEPT ![m.to].own = Revised(m.to, s, m.round)]
          /\ Answer(m, {[kind |-> "finding", agent |-> m.to, finding |-> Revised(m.to, s, m.round)]})
  /\ UNCHANGED <<orchestrator, history>>

Handle(m) ==
  HandleAnalysis(m) \/ HandlePublish(m) \/ HandleRequest(m) \/ HandleResponse(m) \/ HandleUpdate(m)

\* The session is evicted, or the agent restarts.
Forget(a) ==
  /\ a \in Forgetful \ forgot
  /\ session[a] # NewSession
  /\ session' = [session EXCEPT ![a] = NewSession]
  /\ forgot' = forgot \cup {a}
  /\ UNCHANGED <<orchestrator, network, failed, cut>>

-----------------------------------------------------------------------------
(* The orchestrator                                                        *)

Goto(p) == phase' = p

\* broadcast of every finding to every other agent, analyzed or not.
Publications(F, k, known) ==
  {[kind |-> "finding_publish", from |-> a, to |-> b, round |-> k, rows |-> F[a].rows, asked |-> known] :
     a \in DOMAIN F, b \in Agents}
    \cap {m \in [kind : {"finding_publish"}, from : Agents, to : Agents, round : {k},
                 rows : SUBSET Entities, asked : {known}] : m.from # m.to}

\* The end of analysis_node, should_short_circuit and the first publications.
AnalysisDone ==
  LET F == [a \in {r.agent : r \in replies} |-> (CHOOSE r \in replies : r.agent = a).finding] IN
  /\ phase = "analysis" /\ calls = {}
  /\ findings' = F
  /\ IF DOMAIN F # {} /\ \A a \in DOMAIN F : ~Anomalous(F[a])
     THEN Goto("short_circuit") /\ round' = 1 /\ Send({})
     ELSE Goto("publish") /\ round' = 1 /\ Send(Publications(F, 1, asked))
  /\ UNCHANGED <<asked, requests, log, session, history>>

Updates == {[kind |-> "finding_update", to |-> a, round |-> round] : a \in Participants}

\* The questions that go out: new ones, one for each target and entity, as many
\* as the budget allows.
Ids(R) == {<<q.target, q.entity>> : q \in R}
Selections ==
  LET fresh == {q \in replies : <<q.target, q.entity>> \notin asked}
      n == Cardinality(Ids(fresh))
  IN {R \in SUBSET fresh : Cardinality(R) = Cardinality(Ids(R))
                           /\ Cardinality(R) = IF n <= Budget THEN n ELSE Budget}

\* asked.update(requests): what the budget dropped may be asked again.
Mut_Marked(R) == Ids(replies)
Marked(R) == Ids(R)

Ask ==
  /\ phase = "publish" /\ calls = {}
  /\ requests' \in Selections
  /\ asked' = asked \cup Marked(requests')
  /\ cut' = (cut \/ ~({<<q.target, q.entity>> : q \in replies} \subseteq asked \cup Ids(requests')))
  /\ IF requests' = {}
     THEN Goto("update") /\ Send(Updates)
     ELSE Goto("ask") /\ Send({[kind |-> "validation_request", to |-> q.target, round |-> round, q |-> q] :
                                q \in requests'})
  /\ UNCHANGED <<round, findings, log, session, failed, forgot>>

Leads(r) == IF r.supported THEN Named[r.q.entity] ELSE {}

Deliver ==
  /\ phase = "ask" /\ calls = {}
  /\ log' = log \cup {[q |-> r.q, round |-> round, supported |-> r.supported, leads |-> Leads(r)] : r \in replies}
  /\ Goto("deliver")
  /\ Send({[kind |-> "validation_response", to |-> r.q.asker, round |-> round, q |-> r.q, leads |-> Leads(r)] :
             r \in replies})
  /\ UNCHANGED <<round, findings, asked, requests, session, history>>

Update ==
  /\ phase = "deliver" /\ calls = {}
  /\ Goto("update") /\ Send(Updates)
  /\ UNCHANGED <<round, findings, asked, requests, log, session, history>>

\* An agent that did not send its finding is revised from correlation.json.
LocallyRevised(a) == Reconsidered(a, findings[a], {findings[b].rows : b \in Participants \ {a}})

Mut_NewFindings == [a \in Participants |-> LocallyRevised(a)]
NewFindings ==
  [a \in Participants |->
     IF \E r \in replies : r.agent = a
     THEN (CHOOSE r \in replies : r.agent = a).finding
     ELSE LocallyRevised(a)]

\* `previous_summaries` are those of the findings the round began with.
Mut_Converged == NewFindings = findings
Converged == NewFindings = findings /\ requests = {}

CloseRound ==
  /\ phase = "update" /\ calls = {}
  /\ findings' = NewFindings
  /\ requests' = {}
  /\ \/ /\ Converged
        /\ Goto("converged") /\ UNCHANGED round /\ Send({})
     \/ /\ ~Converged /\ round = MaxRounds
        /\ Goto("max_rounds") /\ UNCHANGED round /\ Send({})
     \/ /\ ~Converged /\ round < MaxRounds
        /\ Goto("publish") /\ round' = round + 1
        /\ Send(Publications(NewFindings, round + 1, asked))
  /\ UNCHANGED <<asked, log, session, history>>

Orchestrate == AnalysisDone \/ Ask \/ Deliver \/ Update \/ CloseRound

Next ==
  \/ \E m \in inbox : Handle(m)
  \/ \E m \in calls : Expire(m)
  \/ \E a \in Agents : Forget(a)
  \/ Orchestrate

Spec == Init /\ [][Next]_vars

\* Every awaited call ends, with its answer or its timeout, and the coroutine
\* that gathered them goes on.  No agent is bound to handle a late message.
CallEnds == \E m \in calls : Handle(m) \/ Expire(m)
FairSpec == Spec /\ WF_vars(Orchestrate) /\ WF_vars(CallEnds)

-----------------------------------------------------------------------------
(* Properties                                                              *)

Final == {"short_circuit", "converged", "max_rounds"}
Questions == [asker : Agents, target : Agents, entity : Entities]

HasFailed(a, kinds) == \E k \in 0 .. MaxRounds, kind \in kinds : <<a, k, kind>> \in failed
Faultless(a) ==
  a \notin forgot /\ ~HasFailed(a, {"analysis", "finding_publish", "topology", "validation_response", "finding_update"})

(* "Their evidence joins `evidence`" (absorb): what an agent confirmed to a  *)
(* peer is in its finding when collaboration ends, unless the agent lost its *)
(* session or never answered that round's finding_update.                    *)
EvidenceKept ==
  phase \in Final =>
    \A r \in log : r.supported /\ r.q.target \in Participants =>
      \/ r.q.entity \in findings[r.q.target].rows
      \/ r.q.target \in forgot \/ <<r.q.target, r.round, "finding_update">> \in failed

(* The finding that is reported is the one its agent holds, unless the agent *)
(* lost its session or did not answer a finding_update (local revision).     *)
ReportMatchesAgents ==
  phase \in Final => \A a \in Participants :
    findings[a] = session[a].own \/ a \in forgot \/ HasFailed(a, {"analysis", "finding_update"})

Settled(a, e) ==
  \A t \in Probes[e] \ {a} :
    \/ \E r \in log : r.q.target = t /\ r.q.entity = e
    \/ t \in Participants /\ e \in findings[t].rows
    \/ HasFailed(t, {"analysis", "validation_request"}) \/ t \in forgot
NothingLeftToAsk(a, anchors) == \A e \in UNION {Reach[c] : c \in anchors} : Settled(a, e)

(* "Stops when nothing changed and nobody asked anything" (collaboration_node): *)
(* when a round converges, all an agent would ask about its own evidence has *)
(* been answered, or the agent to ask has failed.                            *)
EvidenceFollowed ==
  phase = "converged" /\ Cardinality(Participants) > 1 =>
    \A a \in Participants : Faultless(a) => NothingLeftToAsk(a, findings[a].rows)

LeadsOf(a) == UNION {r.leads : r \in {r \in log : r.q.asker = a}}

(* "Its leads seed the next round's questions" (domain_agent.py): nothing is *)
(* left open about a lead it was handed, unless the budget dropped some      *)
(* question: plan() has cleared the lead by then.                            *)
LeadsFollowed ==
  phase = "converged" /\ Cardinality(Participants) > 1 /\ ~cut =>
    \A a \in Participants : Faultless(a) => NothingLeftToAsk(a, findings[a].rows \cup LeadsOf(a))

(* Analysis and collaboration end, whatever calls time out.                  *)
Terminates == <>(phase \in Final)
=============================================================================
