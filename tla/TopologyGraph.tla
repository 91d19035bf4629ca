---------------------------- MODULE TopologyGraph ----------------------------
(***************************************************************************)
(* The graph the collaboration reasons over (detection/investigate.py,      *)
(* TopologyGraph).  A graph is [nodes, labels, edges]: its entities in the    *)
(* order the topology lists them, their label values, and its edges, each    *)
(* with the end that depends on the other.                                  *)
(***************************************************************************)
EXTENDS Integers, FiniteSets, SequencesExt

CONSTANTS
  MaxHops,     \* walk.max_hops
  TypeOf, IdIn \* type and id of an entity's name

ASSUME HopsAssumption == MaxHops \in Nat \ {0}

Unresolved == [unresolved |-> TRUE]
ASSUME NamesAssumption == Unresolved \notin DOMAIN TypeOf /\ DOMAIN IdIn = DOMAIN TypeOf
NodesOf(g) == ToSet(g.nodes)

\* Neighbors in either direction, and those a node depends on.
Adjacent(g, n) == {m \in NodesOf(g) : \E e \in g.edges : {e.source, e.target} = {n, m}}
Depends(g, n) ==
  {m \in NodesOf(g) : \E e \in g.edges :
     \/ e.source = n /\ e.target = m /\ e.dependent \in {"source", "both"}
     \/ e.source = m /\ e.target = n /\ e.dependent \in {"target", "both"}}

\* A type and the ids an entity goes by.
NameOnly(name) == [type |-> TypeOf[name], ids |-> {IdIn[name]}]
Mut_Named(g, n) == NameOnly(n)
Named(g, n) == [type |-> TypeOf[n], ids |-> {IdIn[n]} \cup g.labels[n]]

\* A name is the id of a node or a label of one; the first node listed wins.
Resolve(g, name) ==
  IF name \in NodesOf(g) THEN name
  ELSE LET known == {i \in DOMAIN g.nodes : LET n == g.nodes[i] IN TypeOf[n] = TypeOf[name] /\ IdIn[name] \in g.labels[n]}
       IN IF known = {} THEN Unresolved ELSE g.nodes[Min(known)]

\* walk: the nodes within k hops of one, and how many hops away they are.
Within(g, start, k) ==
  LET reached[i \in 0 .. k] ==
        IF i = 0 THEN {start} ELSE reached[i - 1] \cup UNION {Adjacent(g, n) : n \in reached[i - 1]}
  IN reached[k]
Walk(g, start) == Within(g, start, MaxHops)
HopsTo(g, start, n) == CHOOSE k \in 0 .. MaxHops : n \in Within(g, start, k) /\ (k > 0 => n \notin Within(g, start, k - 1))

\* depends_on: a chain of at most MaxHops dependencies.
DependsOn(g, dependent, dependency) ==
  LET reached[i \in 0 .. MaxHops - 1] ==
        IF i = 0 THEN {dependent} ELSE reached[i - 1] \cup UNION {Depends(g, n) : n \in reached[i - 1]}
  IN \E n \in reached[MaxHops - 1] : dependency \in Depends(g, n)
=============================================================================
