------------------------------ MODULE Telemetry ------------------------------
(***************************************************************************)
(* The telemetry side of one RCA pod and its servers: the reads of signals    *)
(* (SignalRead), the topology and its caches (TopologyCache) and what each    *)
(* source plugin makes of its backend (Sources).  The three share no state,   *)
(* so a behaviour moves one of them and leaves the others at rest.           *)
(***************************************************************************)
EXTENDS SignalRead, TopologyCache, Sources

CONSTANTS Backends, NoBackend

ASSUME BackendsAssumption == \A b \in Backends : Holdable(b)

VARIABLES
  part,     \* the part that moves
  backend,  \* what a source's backend holds
  fetched   \* what its plugin returned

sourceVars == <<backend, fetched>>
vars == <<part, signalVars, topologyVars, sourceVars>>

Init ==
  /\ part \in {"signals", "topology", "sources"}
  /\ SignalInit /\ TopologyInit
  /\ backend = NoBackend /\ fetched = [got |-> {}, status |-> "none"]

SourceRead ==
  /\ backend = NoBackend
  /\ backend' \in Backends
  /\ fetched' = ReadSource(backend')

Next ==
  \/ part = "signals" /\ SignalNext /\ UNCHANGED <<part, topologyVars, sourceVars>>
  \/ part = "topology" /\ TopologyNext /\ UNCHANGED <<part, signalVars, sourceVars>>
  \/ part = "sources" /\ SourceRead /\ UNCHANGED <<part, signalVars, topologyVars>>

Spec == Init /\ [][Next]_vars
FairSpec == Spec /\ (part = "topology" => TopologyFairness)

(* A source that reports "ok" has returned everything its backend holds for   *)
(* the window, through pages, limits, several queries and unreadable groups   *)
(* (CONTRACT.md: "everything requested was read"; the plugins' fetch), and    *)
(* none returns more.  A replay answers what was recorded about the alarm.    *)
OkMeansWhole ==
  backend # NoBackend =>
    /\ fetched.got \subseteq Held(backend)
    /\ fetched.status = "ok" /\ Discovered(backend) => Whole(backend) \subseteq fetched.got

(* The empty graph of an outage is cached as well, and only for a while: when *)
(* every host answers again, the readers are given their graphs again,        *)
(* however often they read (TelemetryRegistry.topology).                     *)
OutageEnds == part = "topology" /\ <>[](up = Hosts) => <>[](Missing \notin {served[h] : h \in Hosts})
=============================================================================
