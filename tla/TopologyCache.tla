---------------------------- MODULE TopologyCache ----------------------------
(***************************************************************************)
(* The topology of a region: the registry of the RCA pod caches the merged   *)
(* graph (TelemetryRegistry.topology), a server's AWS plugin the one it has  *)
(* described (aws_topology.topology), and readers of both run concurrently.  *)
(*                                                                         *)
(* A graph is how long ago it was read from AWS.  Time passes in ticks; a    *)
(* call to an endpoint ends within CallMax of them.                          *)
(***************************************************************************)
EXTENDS Integers, FiniteSets

CONSTANTS
  Readers,         \* concurrent calls of topology()
  Hosts,           \* topology endpoints
  RegistryTtl,     \* TOPOLOGY_TTL_SECONDS
  PluginTtl,       \* cache_seconds
  CallMax,         \* the longest call of an endpoint
  Missing          \* no graph

ASSUME TtlAssumption ==
  RegistryTtl \in Nat \ {0} /\ PluginTtl \in Nat /\ CallMax \in Nat \ {0} /\ Missing \notin Nat

VARIABLES
  reader,    \* of each reader: when its call began and what each host gave
  registry,  \* _topology_cache: the age of the entry and of its graphs
  plugin,    \* _cache of each host's plugin
  up,        \* hosts that answer in time and can read AWS
  served     \* the graphs a reader got last, by host

topologyVars == <<reader, registry, plugin, up, served>>

NoEntry == [age |-> Missing]
NoGraphs == [h \in Hosts |-> Missing]
Idle == [at |-> "idle"]

TopologyInit ==
  /\ reader = [r \in Readers |-> Idle]
  /\ registry = NoEntry
  /\ plugin = [h \in Hosts |-> NoEntry]
  /\ up = Hosts
  /\ served = NoGraphs

-----------------------------------------------------------------------------
(* The server's plugin                                                     *)

Mut_Fresh(entry, ttl) == entry.age # Missing /\ entry.age <= ttl
Fresh(entry, ttl) == entry.age # Missing /\ entry.age < ttl

\* The host answers from the plugin's cache, or starts to describe AWS.
Describe(r, h) ==
  /\ reader[r].at = "reading" /\ reader[r].from[h].at = "asked" /\ h \in up
  /\ reader' = [reader EXCEPT ![r].from[h] =
       IF Fresh(plugin[h], PluginTtl) THEN [at |-> "given", graph |-> plugin[h].graph]
       ELSE [at |-> "describing", graph |-> 0]]
  /\ UNCHANGED <<registry, plugin, up, served>>

\* A graph with errors in it is answered but not cached.
Described(r, h) ==
  /\ reader[r].at = "reading" /\ reader[r].from[h].at = "describing" /\ h \in up
  /\ reader' = [reader EXCEPT ![r].from[h].at = "given"]
  /\ plugin' \in {plugin, [plugin EXCEPT ![h] = [age |-> 0, graph |-> reader[r].from[h].graph]]}
  /\ UNCHANGED <<registry, up, served>>

-----------------------------------------------------------------------------
(* The registry                                                            *)

\* A fresh entry is served, whatever is in it.
Mut_Hit(r) == registry' = [registry EXCEPT !.age = 0]
Hit(r) == UNCHANGED registry

Read(r) ==
  /\ reader[r].at = "idle"
  /\ IF Fresh(registry, RegistryTtl)
     THEN /\ served' = registry.graphs
          /\ Hit(r)
          /\ UNCHANGED reader
     ELSE /\ reader' = [reader EXCEPT ![r] =
               [at |-> "reading", began |-> 0, from |-> [h \in Hosts |-> [at |-> "asked", graph |-> Missing]]]]
          /\ UNCHANGED <<registry, served>>
  /\ UNCHANGED <<plugin, up>>

\* The endpoint raises or times out, or its server answers without the plugin that
\* did (TelemetryService.topology): it has no part in the graph.
Without == [at |-> "given", graph |-> Missing]
HostFails(r, h) ==
  /\ reader[r].at = "reading" /\ reader[r].from[h].at \in {"asked", "describing"}
  /\ h \notin up
  /\ reader' = [reader EXCEPT ![r].from[h] = Without]
  /\ UNCHANGED <<registry, plugin, up, served>>

\* The merged graph is cached under the time it was merged at, even when it is
\* empty and even when a later call has already cached a newer one.
Cached(graphs) == [age |-> 0, graphs |-> graphs]

ReadReturns(r) ==
  /\ reader[r].at = "reading" /\ \A h \in Hosts : reader[r].from[h].at = "given"
  /\ LET graphs == [h \in Hosts |-> reader[r].from[h].graph] IN
       /\ registry' = Cached(graphs)
       /\ served' = graphs
  /\ reader' = [reader EXCEPT ![r] = Idle]
  /\ UNCHANGED <<plugin, up>>

-----------------------------------------------------------------------------
(* The world                                                               *)

HostChanges(h) ==
  /\ up' = IF h \in up THEN up \ {h} ELSE up \cup {h}
  /\ UNCHANGED <<reader, registry, plugin, served>>

\* Ages stop counting once a cache entry has expired: nobody reads it again.
Older(graph) == IF graph = Missing THEN Missing ELSE graph + 1

AgeRegistry ==
  IF Fresh(registry, RegistryTtl)
  THEN [age |-> registry.age + 1, graphs |-> [h \in Hosts |-> Older(registry.graphs[h])]] ELSE NoEntry
AgePlugin(h) ==
  IF Fresh(plugin[h], PluginTtl) THEN [age |-> plugin[h].age + 1, graph |-> plugin[h].graph + 1] ELSE NoEntry

TopologyTick ==
  /\ \A r \in Readers : reader[r].at = "reading" => reader[r].began < CallMax
  /\ reader' = [r \in Readers |->
       IF reader[r].at = "idle" THEN Idle
       ELSE [at |-> "reading", began |-> reader[r].began + 1,
             from |-> [h \in Hosts |-> [reader[r].from[h] EXCEPT !.graph = Older(@)]]]]
  /\ registry' = AgeRegistry
  /\ plugin' = [h \in Hosts |-> AgePlugin(h)]
  /\ UNCHANGED <<up, served>>

Hears(r, h) == Describe(r, h) \/ Described(r, h) \/ HostFails(r, h)
TopologyNext ==
  \/ \E r \in Readers : Read(r) \/ ReadReturns(r) \/ \E h \in Hosts : Hears(r, h)
  \/ \E h \in Hosts : HostChanges(h)
  \/ TopologyTick

\* Time passes, calls end, and readers keep reading.
TopologyFairness ==
  /\ WF_topologyVars(TopologyTick)
  /\ \A r \in Readers : WF_topologyVars(ReadReturns(r)) /\ WF_topologyVars(\E h \in Hosts : Hears(r, h))
  /\ \A r \in Readers : SF_topologyVars(Read(r))

-----------------------------------------------------------------------------
(* Properties                                                              *)

(* Two caches, each refreshed after a call, and readers that overwrite each   *)
(* other's entries: no reader is ever given a graph older than both entries   *)
(* may get (an entry is served before its lifetime is over) and both calls    *)
(* may take (aws_topology.topology, TelemetryRegistry.topology).             *)
GraphAgeBounded ==
  \A h \in Hosts : served[h] # Missing =>
    served[h] <= (PluginTtl - 1) + (RegistryTtl - 1) + 2 * CallMax
=============================================================================
