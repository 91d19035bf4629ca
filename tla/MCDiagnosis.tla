------------------------------ MODULE MCDiagnosis ------------------------------
(* Small incidents around one tunnel, in families: what happened to it and     *)
(* when it cleared, what crowds its evidence, how it depends on the rest, and  *)
(* a log line that no rule knows.                                            *)
EXTENDS Diagnosis, TLC

CONSTANTS
  metrics, log, config, tunnel, tunnelIp, vpn, attachment, side,
  MaxAround   \* of the samples around the tunnel in a world of Depending

Names == {tunnel, tunnelIp, vpn, attachment, side}
TheTypes == (tunnel :> "tunnel") @@ (tunnelIp :> "tunnel") @@ (vpn :> "vpn") @@ (attachment :> "attachment") @@ (side :> "vpn")
TheIds == [n \in Names |-> n]
TheProbes == ("tunnel" :> {metrics, log}) @@ ("vpn" :> {config}) @@ ("attachment" :> {metrics, config})
TheConfidence == (metrics :> 60) @@ (log :> 78) @@ (config :> 75)
TheWeights == [evidence |-> 10, topology |-> 10, precedence |-> 10, role |-> 15]
TheWindow == [start |-> 0, end |-> 10]

Above(v) == [type |-> "threshold", op |-> "gt", value |-> v]
Zero == [type |-> "state_equals", value |-> 0]
Deviation == [type |-> "zscore_baseline", enough |-> 2, limit |-> 2, fallback |-> Above(90)]
Collapse == [type |-> "rate_change", direction |-> "decrease", factor |-> 10, minimum |-> 5, reference |-> "median"]
Seen(names, severity) == [type |-> "event_presence", names |-> names, severity |-> severity]
Entry(domain, kind, rule, role, with) == [domain |-> domain, kind |-> kind, rule |-> rule, role |-> role, symptomWith |-> with]

TheCatalog ==
  ("latency" :> Entry(metrics, "metric", Above(2), "symptom", {}))
    @@ ("peer" :> Entry(metrics, "state", Zero, NoRole, {}))
    @@ ("prefixes" :> Entry(metrics, "metric", Zero, "cause", {"peer"}))
    @@ ("cpu" :> Entry(metrics, "metric", Deviation, "cause", {}))
    @@ ("bytes" :> Entry(metrics, "metric", Collapse, "symptom", {}))
    @@ ("total" :> Entry(metrics, "metric", NoRule, NoRole, {}))
    @@ ("bgp_error" :> Entry(log, "event", Seen({"bgp_error"}, 3), NoRole, {}))
    @@ ("change" :> Entry(config, "event", Seen({"change"}, 1), "cause", {}))

Sample(domain, signal, entity, time, value, severity) ==
  [domain |-> domain, signal |-> signal, entity |-> entity, time |-> time, value |-> value, severity |-> severity,
   ref |-> <<signal, entity, time>>, topical |-> TRUE, names |-> {}]
Metric(signal, entity, time, value) == Sample(metrics, signal, entity, time, value, 4)
OffTopic(s) == [s EXCEPT !.topical = FALSE]
Change(entity, time) == Sample(config, "change", entity, time, 0, 1)
Line(signal, entity, time) == Sample(log, signal, entity, time, 0, 5)

\* At every time of T a sample of one of the values, or none.
Series(signal, entity, T, V) ==
  {{Metric(signal, entity, t, f[t]) : t \in T} : f \in [T -> V]}

Family(graphs, samples, alarms, unreads, nows) ==
  [graphs |-> graphs, samples |-> samples, alarms |-> alarms, unreads |-> unreads, nows |-> nows]
Edge(a, b, dependent) == [source |-> a, target |-> b, dependent |-> dependent]
Graph(labels, edges) ==
  [nodes |-> <<tunnel, vpn, attachment, side>>, labels |-> (tunnel :> labels) @@ [n \in Names |-> {}], edges |-> edges]
Chain == Graph({tunnelIp}, {Edge(tunnel, vpn, "source"), Edge(vpn, attachment, "source"), Edge(side, attachment, "source")})

NoStore == << >>

Clearing ==
  Family({Chain},
         {a \cup b : a \in UNION {Series("latency", tunnel, T, {0, 9}) : T \in SUBSET {1, 4, 8, 14, 30}},
                     b \in {{}, {Metric("total", tunnel, 9, 5)}} \cup Series("peer", tunnel, {4, 14}, {0, 1})},
         {{tunnel}}, {{}}, {10, 12, 40})

Baselines ==
  Family({Chain},
         {a \cup b \cup c : a \in UNION {Series("cpu", attachment, T, {10, 12}) : T \in {{-40}, {-40, -30}, {-40, -30, -20}}},
                            b \in Series("cpu", attachment, {5}, {11, 40, 95}),
                            c \in UNION {Series("bytes", tunnel, T, {0, 9}) : T \in {{1, 6}, {-30, 6}}}},
         {{tunnel}}, SUBSET {<<metrics, "sweep">>, <<metrics, "scoped">>}, {40})

Crowding ==
  Family({Chain},
         SUBSET {Metric("latency", tunnel, 5, 9), Metric("latency", side, 5, 9), Metric("latency", vpn, 6, 9),
                 [Metric("prefixes", attachment, 3, 0) EXCEPT !.severity = 1], Metric("peer", attachment, 3, 0),
                 Metric("peer", vpn, 3, 0), [Line("bgp_error", vpn, 4) EXCEPT !.names = {attachment}],
                 Change(attachment, 4), Change(vpn, -14)},
         {{tunnel}}, {{}}, {10})

Depending ==
  Family({Graph(labels, {Edge(tunnel, vpn, d)} \cup e \cup {Edge(attachment, side, "source")}) :
            labels \in {{}, {tunnelIp}}, d \in {"source", "target", "both"},
            e \in {{}} \cup {{Edge(vpn, attachment, d)} : d \in {"source", "target"}}},
         {s \cup c : s \in {{}, {Metric("latency", tunnel, 5, 9)}, {Metric("latency", tunnelIp, 5, 9)}},
                     c \in {few \in SUBSET {Change(vpn, -10), OffTopic(Change(attachment, 2)), Change(side, -1),
                                              Line("bgp_error", tunnelIp, -4)} : Cardinality(few) <= MaxAround}},
         {{}, {tunnel}, {tunnelIp}}, SUBSET {<<config, "scoped">>, <<log, "scoped">>}, {10})

Unknown ==
  Family({Chain},
         {{Metric("latency", tunnel, 5, 9)} \cup {Line("odd", e, t) : t \in T} :
            e \in {tunnel, vpn, side}, T \in SUBSET {-40, -30, -20, -12, 3}}
           \cup {{Metric("latency", tunnel, 5, 9), Line("odd", tunnel, 3), [Line("other", vpn, 2) EXCEPT !.severity = v]} : v \in {4, 5}},
         {{}, {tunnel}}, SUBSET {<<log, "scoped">>, <<log, "earlier">>}, {10})

\* The shipped weights and confidences let roles decide.
ASSUME WeightsAssumption == RolesDecide
\* Names can be told apart.
ASSUME NamesClearAssumption == NamesAreClear
\* A status can be told from the samples.
ASSUME StatesAssumption == StatesAreClear /\ FlapEpisodes = 2

TheFamilies == {Clearing, Baselines, Crowding, Depending, Unknown}
OnlyUnknown == {Unknown}
TheProposals ==
  {[cited |-> refs, rule |-> Seen({"odd"}, 3)] :
     refs \in {{<<"odd", e, t>>} : e \in {tunnel, vpn, side}, t \in {-12, 3}} \cup {{<<"odd", tunnel, 3>>, <<"odd", tunnel, 5>>}}}
    \cup {[cited |-> {<<"odd", tunnel, 3>>}, rule |-> [type |-> "threshold", op |-> "between", value |-> 0]]}
=============================================================================
