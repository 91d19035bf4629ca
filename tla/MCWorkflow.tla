----------------------------- MODULE MCWorkflow -----------------------------
(* Two incidents on one engine: one the description of which says little, so *)
(* that two agents run, and one about a configuration change, with alarm     *)
(* entities and one agent; the LLM may label either as the other.  Three     *)
(* causes: two in a near-tie, at the margin, and one behind it.              *)
EXTENDS Workflow

CONSTANTS first, second, metrics, routing, config, e1, e2, e3, unknown

TheMap == [unknown |-> {metrics, routing}, config |-> {config}]
TheHeuristic == [i \in Incidents |-> IF i = first THEN "unknown" ELSE "config"]
TheCauseOf == [e \in Evidence |-> CASE e = e1 -> 1 [] e = e2 -> 2 [] e = e3 -> 3]
TheScore == [c \in Causes |-> CASE c = 1 -> 700 [] c = 2 -> 650 [] c = 3 -> 600]

Row(refs, degraded) == [refs |-> refs, anomaly |-> refs # {}, degraded |-> degraded]
TheAnalyses ==
  [i \in Incidents |-> IF i = first THEN {Row({}, FALSE), Row({}, TRUE), Row({e1, e3}, FALSE)}
                       ELSE {Row({}, TRUE)}]

Sentence(cites, names) == [cites |-> cites, names |-> names]
TheAnswers ==
  [ids : {Absent, <<3, 2, 3>>},
   root : {Sentence({e1}, {1}), Sentence({e2, e3}, {2}), Sentence({unknown}, {1, 2, 3})}]
    \cup {[ids |-> Malformed, root |-> Malformed]}
=============================================================================
