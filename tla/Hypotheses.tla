------------------------------ MODULE Hypotheses ------------------------------
(***************************************************************************)
(* Temporary rules that an LLM proposes for what no catalog rule judged        *)
(* (agents/triage.py) and the four checks that decide what they are worth      *)
(* (detection/hypotheses.py, check_hypothesis of the domain agent).           *)
(***************************************************************************)
EXTENDS Investigation

CONSTANT MaxHypotheses  \* MAX_PER_AGENT

\* to_requests: a proposal [cited, rule] must cite evidence of one entity and
\* signal; references that nobody has seen are left to the check.
RowsCited(proposal, unclassified) == {s \in unclassified : s.ref \in proposal.cited}
Valid(proposal, unclassified) ==
  LET rows == RowsCited(proposal, unclassified)
  IN /\ Cardinality({s.entity : s \in rows}) = 1 /\ Cardinality({s.signal : s \in rows}) = 1
     /\ Closed(proposal.rule) /\ proposal.rule.type # "zscore_baseline"

\* Its window reaches back to the cited evidence.
Request(proposal, unclassified, g, window) ==
  LET rows == RowsCited(proposal, unclassified)
      entity == (CHOOSE s \in rows : TRUE).entity
      node == Resolve(g, entity)
  IN [signal |-> (CHOOSE s \in rows : TRUE).signal, entity |-> entity, rule |-> proposal.rule,
      cited |-> proposal.cited, names |-> IF node = Unresolved THEN NameOnly(entity) ELSE Named(g, node),
      start |-> Min({window.start} \cup {s.time : s \in rows}), end |-> window.end]

\* fire: the samples of the signal the rule fires on, judged among themselves.
Mine(h, samples) == {s \in samples : s.signal = h.signal}
Fired(h, samples) ==
  {s \in Mine(h, samples) : Fires(h.rule, s, [series |-> Mine(h, samples), baseline |-> {}])}

\* An equally long window that ends a lookback before this one.
Mut_WindowBefore(h) == [start |-> h.start - (h.end - h.start), end |-> h.start]
WindowBefore(h) ==
  [start |-> h.start - Lookback - (h.end - h.start), end |-> h.start - Lookback]

\* placed: on what the causes are ranked against, or upstream of it.
Placed(h, g, findings, alarm) ==
  LET node == Resolve(g, h.entity)
  IN node # Unresolved /\ \E t \in Targets(g, findings, alarm) : node = t \/ DependsOn(g, t, node)

\* check_hypothesis, of two reads.
Checks(h, now, earlier, g, findings, alarm) ==
  [grounded |-> h.cited # {} /\ h.cited \subseteq {s.ref : s \in Mine(h, now.samples)},
   fires |-> Fired(h, now.samples) # {},
   new |-> Fired(h, earlier.samples) = {},
   placed |-> Placed(h, g, findings, alarm)]
Passed(checks) == checks.grounded /\ checks.fires /\ checks.new /\ checks.placed
HypothesisVerdict(checks, now, earlier) ==
  IF Passed(checks) THEN "supported" ELSE IF now.degraded \/ earlier.degraded THEN "inconclusive" ELSE "refuted"

\* evidence_row: no role, whatever the LLM said.
HypothesisRow(h, now) ==
  LET hits == Fired(h, now.samples)
      first == Min({s.time : s \in hits})
  IN [entity |-> h.entity, signals |-> {h.signal}, role |-> NoRole, severity |-> Max({s.severity : s \in hits}),
      first |-> first, onset |-> first, refs |-> {s.ref : s \in hits}, names |-> {}, via |-> "hypothesis"]
=============================================================================
