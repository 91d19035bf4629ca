---------------------------- MODULE TaskLifecycle ----------------------------
(***************************************************************************)
(* What the Tasks extension promises a client of the MCP RCA server        *)
(* (mcp_server/tasks.py: running -> completed | failed | cancelled): a     *)
(* task is started once, gets at most one verdict, keeps it until the      *)
(* server forgets the task, and is never heard of again after that.        *)
(***************************************************************************)
EXTENDS Integers, FiniteSets

CONSTANTS Tasks, MaxConcurrent

VARIABLE state      \* what a client can observe of each task

Verdicts == {"completed", "failed", "cancelled"}

Init == state = [t \in Tasks |-> "unborn"]

Start(t) ==
  /\ state[t] = "unborn"
  /\ Cardinality({u \in Tasks : state[u] = "running"}) < MaxConcurrent
  /\ state' = [state EXCEPT ![t] = "running"]

Settle(t, verdict) ==
  /\ state[t] = "running"
  /\ state' = [state EXCEPT ![t] = verdict]

\* Eviction of settled tasks
Forget(S) ==
  /\ \A t \in S : state[t] \in Verdicts
  /\ state' = [t \in Tasks |-> IF t \in S THEN "forgotten" ELSE state[t]]

\* The server loses its memory, of running tasks too
Amnesia == state' = [t \in Tasks |-> IF state[t] = "unborn" THEN "unborn" ELSE "forgotten"]

Next ==
  \/ \E t \in Tasks : Start(t) \/ \E verdict \in Verdicts : Settle(t, verdict)
  \/ \E S \in SUBSET Tasks : Forget(S)
  \/ Amnesia

Spec == Init /\ [][Next]_state
=============================================================================
