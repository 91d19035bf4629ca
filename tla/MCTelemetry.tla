----------------------------- MODULE MCTelemetry -----------------------------
(* Two concurrent fetches, of one window or of two, from an endpoint that reads *)
(* CloudTrail and an optional source and from one that reads the optional      *)
(* source only.  Two readers of a topology.  Backends at, below and above each *)
(* limit: a page of two, at most two pages, at most three records.  Recordings  *)
(* of one alarm among responses about others.                                *)
EXTENDS Telemetry

CONSTANTS q1, q2, r1, r2, pod, edge, trail, flows, change, flow, bad, ref, w1, w2

TheEndpoints == <<pod, edge>>
TheSources == (pod :> {trail, flows}) @@ (edge :> {flows})
TheWindows == {(q1 :> w1) @@ (q2 :> w1), (q1 :> w1) @@ (q2 :> w2)}
TheSourceOf == (change :> trail) @@ (flow :> flows) @@ (bad :> flows)
TheRef == (change :> ref) @@ (flow :> NoRef) @@ (bad :> NoRef)

Series(from, n) == [i \in 1 .. n |-> from + i]
Lines(kinds) == [i \in DOMAIN kinds |-> [id |-> i, kind |-> kinds[i]]]
Kinds == {"fault", "noise", "hidden", "garbled"}
Groups ==
  {NoGroup, NoAccess} \cup {Lines(k) : k \in [1 .. 3 -> Kinds] \cup [1 .. 5 -> {"fault", "noise", "hidden"}]}
Recordable == {[id |-> t, time |-> t] : t \in {1, 2, 8, 9}}
Responses == {[region |-> r, alarm |-> a, signals |-> ss] : r \in {w1, w2}, a \in {5, 6}, ss \in SUBSET Recordable}
TheBackends ==
  {[plugin |-> "logs", groups |-> <<g, h>>, optional |-> o, filtered |-> f[1], extra |-> f[2]] :
      g \in Groups, h \in {NoGroup, NoAccess, Lines(<<"fault", "fault", "fault", "fault">>)},
      o \in {{}, {1}, {1, 2}}, f \in {<<TRUE, 0>>, <<TRUE, 1>>, <<FALSE, 1>>}}
  \cup {[plugin |-> "cloudtrail", events |-> [i \in 1 .. n |-> [id |-> i, ours |-> i # k]]] : n \in 0 .. 5, k \in 0 .. 5}
  \cup {[plugin |-> "cloudwatch", metrics |-> <<Series(0, n), Series(10, m)>>] : n \in 0 .. 5, m \in 0 .. 5}
  \cup {[plugin |-> "prometheus", queries |-> s] :
          s \in [1 .. 3 -> {NoAccess} \cup {Series(0, n) : n \in 0 .. 4}] \cup
                {<<Series(0, n), Series(10, m), Series(20, k)>> : n \in 0 .. 4, m \in 0 .. 3, k \in 0 .. 2}}
  \cup {[plugin |-> "tgw", tables |-> t, old |-> o] :
          t \in UNION {[1 .. n -> {Series(0, 3), Series(0, 4), << >>}] : n \in 0 .. 5}, o \in BOOLEAN}
  \cup {[plugin |-> "simulation", rows |-> rows, known |-> k, query |-> [region |-> w1, start |-> 30, end |-> 40]] :
          rows \in SUBSET {[id |-> <<r, a, d>>, region |-> r, age |-> a, drift |-> d] :
                            r \in {w1, w2}, a \in {0, 10, 11}, d \in {0, 4}}, k \in BOOLEAN}
  \cup {[plugin |-> "replay", responses |-> <<a, b>>, region |-> w1, alarm |-> 5,
         query |-> [region |-> r, alarm |-> 25, start |-> 22, end |-> e]] :
          a \in Responses, b \in Responses, r \in {w1, w2}, e \in {25, 28}}
=============================================================================
