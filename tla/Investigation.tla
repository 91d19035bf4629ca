----------------------------- MODULE Investigation -----------------------------
(***************************************************************************)
(* Which questions an agent asks its peers, what an answer means and how the  *)
(* candidate causes are ranked (detection/investigate.py).                   *)
(***************************************************************************)
EXTENDS TopologyGraph, Detection

CONSTANTS
  Probes,        \* the domains that can see an entity type
  Lookback,      \* walk.lookback_minutes
  MaxQuestions,  \* walk.max_requests_per_round
  Weights,       \* rank_weights, in tenths
  Confidence,    \* of an anomalous finding of a domain, in percent
  FlapEpisodes

ASSUME InvestigationAssumption ==
  /\ Lookback \in Nat /\ MaxQuestions \in Nat \ {0}
  /\ Weights \in [{"evidence", "topology", "precedence", "role"} -> Nat]
  /\ IsFiniteSet(DOMAIN Confidence) /\ Confidence \in [DOMAIN Confidence -> 0 .. 100]
  /\ \A n \in DOMAIN TypeOf : TypeOf[n] \in DOMAIN Probes

Domains == DOMAIN Confidence

\* cross_validate: what loading a catalog makes sure of.
ValidCatalog ==
  /\ \A n \in DOMAIN Catalog :
       Catalog[n].domain \in Domains /\ (Catalog[n].rule = NoRule \/ Closed(Catalog[n].rule))
  /\ \A type \in DOMAIN Probes : Probes[type] \subseteq Domains
ASSUME CatalogAssumption == ValidCatalog

-----------------------------------------------------------------------------
(* Questions                                                               *)

\* _covered: the target has evidence on the entity itself.
Covered(g, finding, node) == \E r \in finding.rows : Resolve(g, r.entity) = node

\* Its own evidence, the leads it was handed, and the alarm's entities that it
\* can see: where each leads it and when trouble was first seen there.
Anchors(d, finding, leads, alarm, end, g) ==
  LET place(name, seen) == [node |-> Resolve(g, name), seen |-> seen]
      known(places) == {p \in places : p.node # Unresolved}
      found == known({place(r.entity, r.first) : r \in finding.rows} \cup {place(l.name, l.seen) : l \in leads})
      alarmed == known({place(name, end) : name \in alarm})
  IN found \cup {p \in alarmed : p.node \notin {q.node : q \in found} /\ d \in Probes[TypeOf[p.node]]}

\* A node is asked about if it is the anchor or the anchor depends on it.
Explains(g, anchor, node) == node = anchor \/ DependsOn(g, anchor, node)

IdOf(q) == <<q.target, q.node, q.start, q.end>>

\* The questions an agent could ask; a question reaches back before trouble was
\* first seen at the anchor.
Mut_Reach(seen, window) == window.start
Reach(seen, window) == Min({seen, window.start}) - Lookback
Candidates(d, finding, leads, alarm, peers, g, window, asked) ==
  LET about(a, n) ==
        {[asker |-> d, target |-> t, node |-> n, names |-> Named(g, n), anchor |-> a.node,
          hops |-> HopsTo(g, a.node, n), start |-> Reach(a.seen, window), end |-> window.end] :
            t \in Probes[TypeOf[n]] \ {d}}
      questions == UNION {UNION {about(a, n) : n \in {m \in Walk(g, a.node) : Explains(g, a.node, m)}} :
                            a \in Anchors(d, finding, leads, alarm, window.end, g)}
  IN {q \in questions : IdOf(q) \notin asked /\ ~Covered(g, peers[q.target], q.node)}

\* plan_requests: one question for each target and entity, the nearest first.
\* Ties, which the code breaks by name and by the order of the anchors, are
\* broken arbitrarily.
NearestOf(Q) == Foremost(Q, MaxQuestions, {p \in Q \X Q : p[1].hops < p[2].hops})
PlanRequests(d, finding, leads, alarm, peers, g, window, asked) ==
  LET all == Candidates(d, finding, leads, alarm, peers, g, window, asked)
      same(q) == {r \in all : r.target = q.target /\ r.node = q.node}
      best == {CHOOSE r \in same(q) : \A t \in same(q) : r.hops <= t.hops : q \in all}
  IN NearestOf(best)

-----------------------------------------------------------------------------
(* Answers                                                                 *)

Verdict(finding) ==
  IF finding.degraded /\ ~finding.anomaly THEN "inconclusive"
  ELSE IF finding.anomaly /\ finding.rows # {} THEN "supported" ELSE "refuted"

\* find_leads: the entities the evidence names that were not asked about.
FindLeads(finding, asked) ==
  {l \in UNION {{[name |-> n, seen |-> r.first] : n \in r.names \cup {r.entity}} : r \in finding.rows} :
     l.name \notin asked}

\* absorb: the rows of supported answers that are not known yet.
RowKey(r) == <<r.entity, r.signals>>
Absorb(finding, answered) ==
  LET new == {r \in UNION {f.rows : f \in answered} : RowKey(r) \notin {RowKey(t) : t \in finding.rows}}
      kept == {CHOOSE r \in new : RowKey(r) = k : k \in {RowKey(t) : t \in new}}
  IN [finding EXCEPT
        !.rows = @ \cup {IF r.via = "rule" THEN [r EXCEPT !.via = "validation"] ELSE r : r \in kept},
        !.anomaly = @ \/ new # {}]

-----------------------------------------------------------------------------
(* Ranking: features are thousandths                                       *)

SeverityScore == <<100, 250, 500, 750, 1000>>
RoleScore(role) == CASE role = "cause" -> 1000 [] role = NoRole -> 500 [] role = "symptom" -> 0

\* What the causes are ranked against: the alarm, else the symptoms.
Targets(g, findings, alarm) ==
  LET alarmed == {Resolve(g, name) : name \in alarm} \ {Unresolved}
      symptoms == UNION {{r.entity : r \in {t \in findings[d].rows : t.role = "symptom"}} : d \in DOMAIN findings}
  IN IF alarmed # {} THEN alarmed ELSE {Resolve(g, name) : name \in symptoms} \ {Unresolved}

\* Full for a cause up to five minutes before the trouble or two after, then
\* fading, and none later than that.
Precedence(began, onset) ==
  LET before == onset - began
  IN IF before < -2 THEN 0 ELSE IF before <= 5 THEN 1000 ELSE 5000 \div before

Latest(rows) == Max({r.onset : r \in rows})
Began(groups, targets) ==
  LET alarmed == {Latest(c.rows) : c \in {c \in groups : c.node \in targets}}
      symptoms == {r.onset : r \in {r \in UNION {c.rows : c \in groups} : r.role = "symptom"}}
  IN IF alarmed # {} THEN {Min(alarmed)} ELSE IF symptoms # {} THEN {Min(symptoms)} ELSE {}

Place(g, node, targets) ==
  IF targets = {} THEN 500
  ELSE IF node \in targets THEN 300
  ELSE IF \E t \in targets : DependsOn(g, t, node) THEN 1000
  ELSE IF \E t \in targets : node \in Walk(g, t) THEN 100 ELSE 0

RoleOfRows(rows) ==
  LET roles == {r.role : r \in rows}
  IN IF "cause" \in roles THEN "cause" ELSE IF NoRole \in roles THEN NoRole ELSE "symptom"

Evidence(c) ==
  Min({1000, SeverityScore[Max({r.severity : r \in c.rows})] \div 2
             + 150 * Min({2, Cardinality(UNION {r.signals : r \in c.rows})})
             + (5 * Confidence[c.domain]) \div 2})

Mut_Score(c) ==
  Weights["evidence"] * c.evidence + Weights["topology"] * c.place + Weights["precedence"] * c.precedence
Score(c) ==
  Weights["evidence"] * c.evidence + Weights["topology"] * c.place
    + Weights["precedence"] * c.precedence + Weights["role"] * RoleScore(c.role)

\* rank_causes: every entity of the topology with evidence, by domain.
Groups(g, findings) ==
  LET rowsOf(n, d) == {r \in findings[d].rows : Resolve(g, r.entity) = n}
  IN {c \in {[node |-> n, domain |-> d, rows |-> rowsOf(n, d)] : n \in NodesOf(g), d \in DOMAIN findings} : c.rows # {}}
Judged(g, c, targets, onset) ==
  [role |-> RoleOfRows(c.rows), evidence |-> Evidence(c), place |-> Place(g, c.node, targets),
   precedence |-> IF onset = {} THEN 500 ELSE Precedence(Latest(c.rows), Min(onset))]
CauseOf(c, judged) ==
  [node |-> c.node, domain |-> c.domain, rows |-> c.rows, first |-> Min({r.first : r \in c.rows}),
   role |-> judged.role, place |-> judged.place, precedence |-> judged.precedence, score |-> Score(judged)]
RankCauses(g, findings, alarm) ==
  LET targets == Targets(g, findings, alarm)
      groups == Groups(g, findings)
  IN {CauseOf(c, Judged(g, c, targets, Began(groups, targets))) : c \in groups}

\* The candidates that come before another: a higher score, else seen earlier.
Outranks(c, e) == c.score > e.score \/ (c.score = e.score /\ c.first < e.first)

-----------------------------------------------------------------------------
(* incident_status: what it may be, where the order of samples of one time    *)
(* decides                                                                  *)

Statuses(findings) ==
  LET entities == UNION {findings[d].status : d \in {e \in DOMAIN findings : findings[e].anomaly}}
      known == {e \in entities : e.states # {}}
  IN IF \E e \in entities : e.episodes >= FlapEpisodes THEN {"flapping"}
     ELSE IF known = {} THEN {"unknown"}
     ELSE {"ongoing" : e \in {e \in known : "firing" \in e.states}}
            \cup (IF \A e \in known : "cleared" \in e.states THEN {"recovered"} ELSE {})
=============================================================================
