------------------------------- MODULE Diagnosis -------------------------------
(***************************************************************************)
(* One incident's diagnosis: what the agents' analyses, questions, answers     *)
(* and hypotheses (agents/domain_agent.py) make of the telemetry there is.     *)
(* The messages between them, and their loss, are Collaboration's subject;     *)
(* here a round is three steps that no message fails in.                      *)
(*                                                                         *)
(* A world is the telemetry and topology the incident meets: [graph, samples,  *)
(* alarm, unread, now].  `unread` has the <<domain, kind>> of the reads that    *)
(* come back empty and degraded, of the kinds "sweep", "scoped" and "earlier". *)
(* A family of worlds has the choices for each of the five.                   *)
(***************************************************************************)
EXTENDS Hypotheses

CONSTANTS
  Families,
  Window,        \* of the incident: [start, end]
  BaselineSpan,  \* BASELINE_LOOKBACK
  MinLater, MaxLater, \* MIN_STATUS_WINDOW, MAX_STATUS_WINDOW
  LlmOn,
  Proposals,     \* what the LLM may propose for some unclassified rows
  MaxRounds

ASSUME DiagnosisAssumption ==
  /\ Window.start \in Int /\ Window.end \in Int /\ Window.start <= Window.end
  /\ MaxRounds \in Nat \ {0} /\ LlmOn \in BOOLEAN /\ BaselineSpan \in Nat /\ IsFiniteSet(Proposals)
\* A topology's nodes have names, and telemetry is finite.
ASSUME WorldsAssumption ==
  \A f \in Families :
    /\ \A g \in f.graphs : g.nodes \in Seq(DOMAIN TypeOf)
    /\ \A S \in f.samples :
         /\ IsFiniteSet(S)
         /\ \A s \in S : s.time \in Int /\ s.severity \in 1 .. 5 /\ IsFiniteSet(s.names)
    /\ \A A \in f.alarms : IsFiniteSet(A)

VARIABLES
  stage,      \* "sweep", "ask", "answer" or "done"
  round,
  world,
  findings,   \* of the agents, as the orchestrator and their sessions have them
  asked,      \* ids of the questions that went out
  questions,  \* of this round
  leads,      \* that an agent was handed and has not planned with
  material,   \* unclassified samples of an agent's scoped answers
  triaged,    \* refs of the samples an agent's LLM has read
  hypotheses, \* of this round
  answers,    \* history: every answer to a question
  checked,    \* history: every hypothesis that was checked
  ranking, status

session == <<leads, material, triaged>>
vars == <<stage, round, world, findings, asked, questions, session, hypotheses, answers, checked, ranking, status>>

-----------------------------------------------------------------------------
(* Reads                                                                   *)

AllEntities == [all |-> TRUE]
Matches(s, names) == names = AllEntities \/ (TypeOf[s.entity] = names.type /\ IdIn[s.entity] \in names.ids)
Read(d, kind, names, start, end, span) ==
  LET unread == <<d, kind>> \in world.unread
  IN [samples |-> IF unread THEN {}
                  ELSE {s \in world.samples : s.domain = d /\ start - span <= s.time /\ s.time <= end /\ Matches(s, names)},
      start |-> start, degraded |-> unread]

SpanOf(d) == IF d \in HasBaseline THEN BaselineSpan ELSE 0

\* A query from the window's end until now, where some time has passed since;
\* only its samples count.
Later(d) ==
  IF world.now - Window.end < MinLater THEN {}
  ELSE Read(d, "sweep", AllEntities, Window.end, Min({world.now, Window.end + MaxLater}), 0).samples

-----------------------------------------------------------------------------
(* Actions                                                                 *)

Init ==
  /\ stage = "sweep" /\ round = 1
  /\ \E f \in Families : \E g \in f.graphs, s \in f.samples, a \in f.alarms, u \in f.unreads, now \in f.nows :
       world = [graph |-> g, samples |-> s, alarm |-> a, unread |-> u, now |-> now]
  /\ findings = << >> /\ asked = {} /\ questions = {}
  /\ leads = [d \in Domains |-> {}] /\ material = [d \in Domains |-> {}] /\ triaged = [d \in Domains |-> {}]
  /\ hypotheses = {} /\ answers = {} /\ checked = {}
  /\ ranking = {} /\ status = "unknown"

\* rank_causes and incident_status of the findings it ends with.
Conclude(F) ==
  /\ stage' = "done"
  /\ ranking' = RankCauses(world.graph, F, world.alarm)
  /\ status' \in Statuses(F)

ShortCircuit(F) ==
  /\ ~(LlmOn /\ (world.alarm # {} \/ \E d \in Domains : F[d].unclassified # {}))
  /\ \A d \in Domains : ~F[d].anomaly

\* analyze, by every agent.
Analyze ==
  /\ stage = "sweep"
  /\ findings' = [d \in Domains |->
       FindingOf(d, Read(d, "sweep", AllEntities, Window.start, Window.end, SpanOf(d)), Later(d), FALSE)]
  /\ IF ShortCircuit(findings') THEN Conclude(findings') ELSE stage' = "ask" /\ UNCHANGED <<ranking, status>>
  /\ UNCHANGED <<round, world, asked, questions, session, hypotheses, answers, checked>>

\* plan, by every agent, with the findings of this round.  An agent's hypotheses
\* are questions to itself, about an entity no hop away.
Planned == UNION {PlanRequests(d, findings[d], leads[d], world.alarm, findings, world.graph, Window, asked) : d \in Domains}
Fresh(d) == {s \in findings[d].unclassified \cup material[d] : LlmOn /\ s.ref \notin triaged[d]}
Triage(d) ==
  {[domain |-> d, hops |-> 0, h |-> Request(p, Fresh(d), world.graph, Window)] : p \in {p \in Proposals : Valid(p, Fresh(d))}}

\* The orchestrator keeps the nearest new ones.
IsHypothesis(r) == "h" \in DOMAIN r
RequestId(r) == IF IsHypothesis(r) THEN <<"hypothesis", r.domain, r.h.signal, r.h.entity, r.h.rule>> ELSE IdOf(r)
Selected(requests) ==
  LET ids == {RequestId(r) : r \in requests} \ asked
  IN NearestOf({CHOOSE r \in requests : RequestId(r) = i : i \in ids})

Ask ==
  /\ stage = "ask"
  /\ \E H \in SUBSET UNION {Triage(d) : d \in Domains} :
       /\ \A d \in Domains : Cardinality({c \in H : c.domain = d}) <= MaxHypotheses
       /\ LET kept == Selected(Planned \cup H)
          IN /\ hypotheses' = {r \in kept : IsHypothesis(r)}
             /\ questions' = kept \ hypotheses'
             /\ asked' = asked \cup {RequestId(r) : r \in kept}
  /\ leads' = [d \in Domains |-> {}]
  /\ triaged' = [d \in Domains |-> triaged[d] \cup {s.ref : s \in Fresh(d)}]
  /\ material' = [d \in Domains |-> {}]
  /\ stage' = "answer"
  /\ UNCHANGED <<round, world, findings, answers, checked, ranking, status>>

\* answer: the analysis of the question's scope.
AnswerTo(q) ==
  LET f == FindingOf(q.target, Read(q.target, "scoped", q.names, q.start, q.end, SpanOf(q.target)), {}, TRUE)
  IN [q |-> q, finding |-> f, verdict |-> Verdict(f),
      leads |-> FindLeads(f, {n \in DOMAIN IdIn : TypeOf[n] = q.names.type /\ IdIn[n] \in q.names.ids})]

\* check_hypothesis: two scoped reads, without a baseline.
CheckOf(c) ==
  LET before == WindowBefore(c.h)
      now == Read(c.domain, "scoped", c.h.names, c.h.start, c.h.end, 0)
      earlier == Read(c.domain, "earlier", c.h.names, before.start, before.end, 0)
      checks == Checks(c.h, now, earlier, world.graph, findings, world.alarm)
  IN [domain |-> c.domain, h |-> c.h, earlier |-> earlier, verdict |-> HypothesisVerdict(checks, now, earlier),
      rows |-> IF Passed(checks) THEN {HypothesisRow(c.h, now)} ELSE {}]

\* answer and check what an agent was asked, hand the leads to the askers, and
\* revise the findings once.
Answer ==
  /\ stage = "answer"
  /\ \E given \in {{AnswerTo(q) : q \in questions}}, verified \in {{CheckOf(c) : c \in hypotheses}} :
       LET supported(d) ==
             {[rows |-> a.finding.rows] : a \in {b \in given : b.q.target = d /\ b.verdict = "supported"}}
               \cup {[rows |-> c.rows] : c \in {v \in verified : v.domain = d /\ v.verdict = "supported"}}
       IN /\ answers' = answers \cup given
          /\ checked' = checked \cup verified
          /\ leads' = [d \in Domains |-> leads[d] \cup UNION {a.leads : a \in {b \in given : b.q.asker = d}}]
          /\ material' = [d \in Domains |-> material[d] \cup
               IF LlmOn THEN UNION {a.finding.unclassified : a \in {b \in given : b.q.target = d}} ELSE {}]
          /\ findings' = [d \in Domains |-> Absorb(findings[d], supported(d))]
  /\ LET over == (questions = {} /\ hypotheses = {} /\ findings' = findings) \/ round = MaxRounds
     IN IF over THEN Conclude(findings') /\ UNCHANGED round
        ELSE stage' = "ask" /\ round' = round + 1 /\ UNCHANGED <<ranking, status>>
  /\ UNCHANGED <<world, asked, questions, triaged, hypotheses>>

Next == Analyze \/ Ask \/ Answer
Spec == Init /\ [][Next]_vars

-----------------------------------------------------------------------------
(* Properties                                                              *)

SweepOf(d) == Read(d, "sweep", AllEntities, Window.start, Window.end, SpanOf(d))
SweepHits(d) == HitsIn(ContextOf(d, SweepOf(d)), FALSE)
RowOn(d, s) == {r \in findings[d].rows : r.entity = s.entity /\ s.ref \in r.refs}

(* A cause that an agent's sweep finds is in its evidence, however many      *)
(* symptoms, and however severe, come with it: only causes may crowd it out  *)
(* of the rows that analyze_domain keeps.                                    *)
CauseSurvives ==
  stage # "sweep" =>
    \A d \in Domains :
      LET hits == SweepHits(d)
          causes == {s \in hits : RoleOf({t.signal : t \in Observed(d, s, ContextOf(d, SweepOf(d))) \cap hits}) = "cause"}
      IN \A s \in causes :
           RowOn(d, s) # {} \/ Cardinality({r \in findings[d].rows : r.role = "cause"}) >= MaxEvidence

\* A sample that a rule of its domain flags whatever else was measured.
Wrong(s) ==
  /\ Known(s) /\ Catalog[s.signal].domain = s.domain /\ Catalog[s.signal].rule # NoRule
  /\ Catalog[s.signal].rule.type \in {"threshold", "state_equals", "event_presence"}
  /\ Fires(Catalog[s.signal].rule, s, [series |-> {}, baseline |-> {}])

(* A refuted question is one with nothing to find: no sample of the asked     *)
(* domain, under any name the entity goes by, is wrong in the window of the   *)
(* question.  Telemetry that could not be read refutes nothing.               *)
RefutedIsTrue ==
  \A a \in answers : a.verdict = "refuted" =>
    \A s \in world.samples :
      (s.domain = a.q.target /\ a.q.start <= s.time /\ s.time <= a.q.end /\ Resolve(world.graph, s.entity) = a.q.node)
        => ~Wrong(s)

\* The agents that were not told the whole story: no rounds took place, or the
\* questions ran into their limit.
Collaborated == (\E d \in Domains : findings[d].anomaly) \/ (LlmOn /\ world.alarm # {})
Upstream(n) ==
  \E name \in world.alarm :
    LET t == Resolve(world.graph, name) IN t # Unresolved /\ (n = t \/ DependsOn(world.graph, t, n))
\* Somebody other than d sees an alarm that n is upstream of, and asks d.
AskedAbout(n, d) ==
  \E name \in world.alarm :
    LET t == Resolve(world.graph, name)
    IN t # Unresolved /\ Explains(world.graph, t, n) /\ Probes[TypeOf[t]] \ {d} # {}

\* A name that a node goes by leads to that node and to no other.
NamesAreClear ==
  \A f \in Families : \A g \in f.graphs : \A S \in f.samples : \A n \in NodesOf(g), s \in S :
    TypeOf[s.entity] = TypeOf[n] /\ IdIn[s.entity] \in Named(g, n).ids => Resolve(g, s.entity) = n

(* Whatever is wrong on the alarm's entity, or on what it depends on, in the  *)
(* incident's window or the lookback before it, is among the ranked causes:   *)
(* a sweep saw it, or a peer that sees the alarm asked about it, if its        *)
(* telemetry could be read and no question had to be dropped.                *)
CauseFound ==
  (stage = "done" /\ Collaborated /\ Cardinality(asked) < MaxQuestions) =>
    \A s \in world.samples :
      LET n == Resolve(world.graph, s.entity) IN
      ( /\ Wrong(s) /\ Window.start - Lookback <= s.time /\ s.time <= Window.end
        /\ n # Unresolved /\ AskedAbout(n, s.domain) /\ s.domain \in Probes[TypeOf[n]]
        /\ <<s.domain, "scoped">> \notin world.unread )
      => \E c \in ranking : c.node = n /\ c.domain = s.domain

\* The weight of a role is more than the most that better evidence can weigh: a
\* cause has 200 thousandths and a quarter of its confidence at least, any other
\* 1000 at most; and 1000 for its role, against 500.
RolesDecide ==
  \A d \in Domains : Weights["evidence"] * (800 - (5 * Confidence[d]) \div 2) < Weights["role"] * 500

(* A cause upstream of the trouble, that began in the five minutes before it   *)
(* or the two after, outranks everything that is not a cause, however severe. *)
CauseRanksFirst ==
  LET targets == Targets(world.graph, findings, world.alarm)
      onset == Began(ranking, targets)
      upstream(c) == c.node \notin targets /\ \E t \in targets : DependsOn(world.graph, t, c.node)
  IN \A c, e \in ranking :
       ( /\ c.role = "cause" /\ e.role # "cause" /\ upstream(c)
         /\ \A o \in onset : o - 5 <= Latest(c.rows) /\ Latest(c.rows) <= o + 2 )
       => Outranks(c, e)

\* What was measured of a hypothesis's signal on its entity, from a to b.
Measured(c, a, b) ==
  {s \in world.samples : s.domain = c.domain /\ s.signal = c.h.signal /\ Matches(s, c.h.names) /\ a <= s.time /\ s.time <= b}
\* An equally long window that ends a lookback earlier.
MeasuredBefore(c) ==
  LET end == c.h.start - Lookback IN Measured(c, end - (c.h.end - c.h.start), end)

(* A supported hypothesis is no invention: its rule fires on telemetry of its  *)
(* entity, at a place upstream of the trouble (of the alarm, if its place is   *)
(* known), on references that exist, and on nothing in an equal window before *)
(* the lookback that could be read.                                          *)
HypothesisVerified ==
  \A c \in checked : c.verdict = "supported" =>
    LET now == Measured(c, c.h.start, c.h.end)
    IN /\ Fired(c.h, now) # {}
       /\ c.h.cited # {} /\ c.h.cited \subseteq {s.ref : s \in now}
       /\ (\E name \in world.alarm : Resolve(world.graph, name) # Unresolved) => Upstream(Resolve(world.graph, c.h.entity))
       /\ ~c.earlier.degraded => Fired(c.h, MeasuredBefore(c)) = {}

(* hypotheses.py: a supported hypothesis is new, which it is not if it fired   *)
(* in the window before the lookback, read or not.                           *)
NewIsVerified ==
  \A c \in checked : c.verdict = "supported" => Fired(c.h, MeasuredBefore(c)) = {}

\* A series has one sample at a time, and relevance is a matter of events.
StatesAreClear ==
  \A f \in Families : \A S \in f.samples : \A s, t \in S :
    Known(s) /\ Stateful(s.signal) =>
      s.topical /\ (s.entity = t.entity /\ s.signal = t.signal /\ s.time = t.time => s = t)

(* The status is the state of the entities the sweep found wrong: ongoing if   *)
(* the last thing seen of one is wrong, flapping if one was wrong, fine and    *)
(* wrong again, recovered if all were last seen fine.                        *)
StatusTellsState ==
  stage = "done" =>
    LET ctx(d) == ContextOf(d, SweepOf(d))
        seen(d, e) == {s \in ctx(d).series \cup {t \in OfDomain(d, Later(d)) : Catalog[t.signal].rule # NoRule} :
                         s.entity = e /\ Stateful(s.signal)}
        last(d, e) == {s \in seen(d, e) : \A t \in seen(d, e) : t.time <= s.time}
        wrong(d, s) == FiresOn(s, ctx(d))
        hit == {<<s.domain, s.entity>> : s \in UNION {SweepHits(d) : d \in Domains}}
        flapped(d, e) ==
          \E p, q, r \in seen(d, e) : p.signal = q.signal /\ q.signal = r.signal /\ p.time < q.time /\ q.time < r.time
                                      /\ wrong(d, p) /\ ~wrong(d, q) /\ wrong(d, r)
    IN /\ status = "flapping" <=> \E x \in hit : flapped(x[1], x[2])
       /\ status = "ongoing" => \E x \in hit : \E s \in last(x[1], x[2]) : wrong(x[1], s)
       /\ status = "recovered" => \A x \in hit : last(x[1], x[2]) # {} => \E s \in last(x[1], x[2]) : ~wrong(x[1], s)
=============================================================================
