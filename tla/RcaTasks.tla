------------------------------ MODULE RcaTasks ------------------------------
(***************************************************************************)
(* The MCP RCA server: TaskStore (mcp_server/tasks.py) and the run_rca,    *)
(* cancel_task and cleanup paths of mcp_server/server.py.                  *)
(*                                                                         *)
(* run_rca records a RUNNING task and starts an asyncio task that awaits   *)
(* engine.run_incident.  Everything runs on one event loop: a handler is   *)
(* atomic up to its next await, and the background coroutine is atomic     *)
(* before and after its single await.  What interleaves is cancellation,   *)
(* a late answer of the pipeline, TTL eviction, the done-callback, and a   *)
(* re-initialisation that replaces the store under running coroutines.     *)
(***************************************************************************)
EXTENDS Integers, FiniteSets

CONSTANTS Tasks,          \* task ids; uuid4, so an id is never used twice
          MaxConcurrent,  \* mcp_server.max_concurrent_tasks
          Ttl,            \* mcp_server.task_ttl_seconds, in ticks
          MaxRestarts     \* bound on Initialize and Shutdown steps

ASSUME TasksAssumption == IsFiniteSet(Tasks)
ASSUME MaxConcurrentAssumption == MaxConcurrent \in Nat
ASSUME TtlAssumption == Ttl \in Nat
ASSUME MaxRestartsAssumption == MaxRestarts \in Nat

VARIABLES up,         \* the globals _task_store and _engine are set
          status,     \* TaskRecord.status; "absent" when the store has no record
          progress,   \* TaskRecord.progress.stage
          age,        \* ticks since completed_at, capped just past the TTL
          index,      \* tasks whose incident id is in _incident_to_task
          work,       \* where the background coroutine of the task is
          cancelReq,  \* tasks whose asyncio task has been cancel()led
          tracked,    \* domain of _task_id_to_asyncio_task
          restarts,   \* number of times the store was replaced or dropped
          orphans     \* history: tasks whose coroutine outlived its store

vars == <<up, status, progress, age, index, work, cancelReq, tracked, restarts, orphans>>

Terminal == {"completed", "failed", "cancelled"}
Statuses == Terminal \cup {"absent", "running"}
Stages == {"none", "supervisor", "complete"}
WorkStates == {"none", "scheduled", "awaiting", "ended", "gone"}
Live == {"scheduled", "awaiting"}
Outcomes == {"report", "error", "cancelled"}

Running == {t \in Tasks : status[t] = "running"}

(* Types, and the shape of the map of asyncio tasks: it holds exactly the   *)
(* coroutines that have not called back yet (run_rca, _on_bg_task_done).    *)
TypeOK ==
  /\ up \in BOOLEAN
  /\ status \in [Tasks -> Statuses]
  /\ progress \in [Tasks -> Stages]
  /\ age \in [Tasks -> 0 .. Ttl + 1]
  /\ index \subseteq Tasks
  /\ work \in [Tasks -> WorkStates]
  /\ cancelReq \subseteq Tasks
  /\ tracked = {t \in Tasks : work[t] \in Live \cup {"ended"}}
  /\ restarts \in 0 .. MaxRestarts
  /\ orphans \subseteq Tasks

\* The store goes and its coroutines stay.
DropStore ==
  /\ restarts < MaxRestarts
  /\ restarts' = restarts + 1
  /\ status' = [t \in Tasks |-> "absent"]
  /\ progress' = [t \in Tasks |-> "none"]
  /\ age' = [t \in Tasks |-> 0]
  /\ index' = {}
  /\ orphans' = orphans \cup {t \in Tasks : work[t] \in Live}
  /\ UNCHANGED <<work, cancelReq, tracked>>

Init ==
  /\ up = FALSE
  /\ status = [t \in Tasks |-> "absent"]
  /\ progress = [t \in Tasks |-> "none"]
  /\ age = [t \in Tasks |-> 0]
  /\ index = {}
  /\ work = [t \in Tasks |-> "none"]
  /\ cancelReq = {} /\ tracked = {} /\ orphans = {}
  /\ restarts = 0

-----------------------------------------------------------------------------
(* Guarded store updates: each is a no-op once the record left RUNNING.    *)
(* A definition Mut_X is a faulty variant of X that no specification uses. *)

Mut_HasSlot == Cardinality(Running) <= MaxConcurrent
HasSlot == Cardinality(Running) < MaxConcurrent

Mut_CompleteTask(t) == status' = [status EXCEPT ![t] = "completed"]
CompleteTask(t) == status' = IF status[t] = "running" THEN [status EXCEPT ![t] = "completed"] ELSE status

Mut_FailTask(t) == UNCHANGED status
FailTask(t) == status' = IF status[t] = "running" THEN [status EXCEPT ![t] = "failed"] ELSE status

UpdateProgress(t, stage) ==
  progress' = IF status[t] = "running" THEN [progress EXCEPT ![t] = stage] ELSE progress

\* initialize_server: a fresh TaskStore, whether or not there was one.
Initialize == up' = TRUE /\ DropStore

\* The globals are reset to None while coroutines may still be suspended.
Shutdown == up /\ up' = FALSE /\ DropStore

\* run_rca: create_task, then the background task and its two maps.
RunRca(t) ==
  /\ up /\ work[t] = "none"
  /\ HasSlot
  /\ status' = [status EXCEPT ![t] = "running"]
  /\ index' = index \cup {t}
  /\ work' = [work EXCEPT ![t] = "scheduled"]
  /\ tracked' = tracked \cup {t}
  /\ UNCHANGED <<up, progress, age, cancelReq, restarts, orphans>>

\* First step of _run_rca_background.  A coroutine cancelled before it ran
\* raises at once; one that finds no engine returns without a verdict.
BackgroundStart(t) ==
  /\ work[t] = "scheduled"
  /\ \/ /\ t \in cancelReq
        /\ work' = [work EXCEPT ![t] = "ended"]
        /\ UNCHANGED progress
     \/ /\ t \notin cancelReq /\ ~up
        /\ work' = [work EXCEPT ![t] = "ended"]
        /\ UNCHANGED progress
     \/ /\ t \notin cancelReq /\ up
        /\ UpdateProgress(t, "supervisor")
        /\ work' = [work EXCEPT ![t] = "awaiting"]
  /\ UNCHANGED <<up, status, age, index, cancelReq, tracked, restarts, orphans>>

\* run_incident answers.  Cancellation is best effort: a cancelled pipeline
\* may still return a report or raise, so all outcomes stay possible.
PipelineReturns(t, outcome) ==
  /\ work[t] = "awaiting"
  /\ outcome = "cancelled" => t \in cancelReq
  /\ work' = [work EXCEPT ![t] = "ended"]
  /\ \/ outcome = "report" /\ up /\ UpdateProgress(t, "complete") /\ CompleteTask(t)
     \/ outcome = "error" /\ up /\ FailTask(t) /\ UNCHANGED progress
     \/ (outcome = "cancelled" \/ ~up) /\ UNCHANGED <<progress, status>>
  /\ UNCHANGED <<up, age, index, cancelReq, tracked, restarts, orphans>>

Mut_Untrack(t) == UNCHANGED tracked
Untrack(t) == tracked' = tracked \ {t}

\* _on_bg_task_done
DoneCallback(t) ==
  /\ work[t] = "ended"
  /\ work' = [work EXCEPT ![t] = "gone"]
  /\ Untrack(t)
  /\ UNCHANGED <<up, status, progress, age, index, cancelReq, restarts, orphans>>

\* bg_task.cancel() on the asyncio task found in _task_id_to_asyncio_task
Mut_CancelCoroutine(t) == UNCHANGED cancelReq
CancelCoroutine(t) == cancelReq' = IF t \in tracked THEN cancelReq \cup {t} ELSE cancelReq

\* cancel_task: flip the record, then cancel the coroutine it can find.
CancelTask(t) ==
  /\ up /\ status[t] = "running"
  /\ status' = [status EXCEPT ![t] = "cancelled"]
  /\ CancelCoroutine(t)
  /\ UNCHANGED <<up, progress, age, index, work, tracked, restarts, orphans>>

Mut_Expired == {t \in Tasks : status[t] = "running" \/ (status[t] \in Terminal /\ age[t] > Ttl)}
Expired == {t \in Tasks : status[t] \in Terminal /\ age[t] > Ttl}

Mut_DropFromIndex == UNCHANGED index
DropFromIndex == index' = index \ Expired

\* cleanup_expired, called by _cleanup_loop
Cleanup ==
  /\ up /\ Expired # {}
  /\ status' = [t \in Tasks |-> IF t \in Expired THEN "absent" ELSE status[t]]
  /\ progress' = [t \in Tasks |-> IF t \in Expired THEN "none" ELSE progress[t]]
  /\ age' = [t \in Tasks |-> IF t \in Expired THEN 0 ELSE age[t]]
  /\ DropFromIndex
  /\ UNCHANGED <<up, work, cancelReq, tracked, restarts, orphans>>

\* time.time() advances; only the age of finished records is ever read.
Tick ==
  /\ \E t \in Tasks : status[t] \in Terminal /\ age[t] <= Ttl
  /\ age' = [t \in Tasks |-> IF status[t] \in Terminal /\ age[t] <= Ttl THEN age[t] + 1 ELSE age[t]]
  /\ UNCHANGED <<up, status, progress, index, work, cancelReq, tracked, restarts, orphans>>

BackgroundStep(t) ==
  \/ BackgroundStart(t)
  \/ \E outcome \in Outcomes : PipelineReturns(t, outcome)
  \/ DoneCallback(t)

Next ==
  \/ Initialize \/ Shutdown \/ Cleanup \/ Tick
  \/ \E t \in Tasks : RunRca(t) \/ CancelTask(t) \/ BackgroundStep(t)

Spec == Init /\ [][Next]_vars

(* The event loop runs every ready coroutine and callback, and run_incident *)
(* returns: each wait inside it has a timeout.  Clients owe nothing.        *)
FairSpec == Spec /\ \A t \in Tasks : WF_vars(BackgroundStep(t))

-----------------------------------------------------------------------------
(* A RUNNING record is backed by a coroutine that is still going to settle  *)
(* it, that nobody has cancelled, and that cancel_task can find: no slot of *)
(* the concurrency limit leaks and no task polls as "running" for ever      *)
(* (run_rca, _run_rca_background's early returns, cancel_task).             *)
RunningIsBacked ==
  \A t \in Tasks : status[t] = "running" =>
    up /\ work[t] \in Live /\ t \in tracked /\ t \notin cancelReq

(* create_task never lets more than max_concurrent tasks be RUNNING.        *)
ConcurrencyCap == Cardinality(Running) <= MaxConcurrent

(* A pipeline that the concurrency limit no longer counts is one a client   *)
(* cancelled or one whose store was replaced: never a plain run.            *)
UncountedWorkIsAccountedFor ==
  \A t \in Tasks : work[t] \in Live /\ status[t] # "running" => t \in cancelReq \cup orphans

(* The index by incident id and the record table agree, so get_report finds *)
(* the same record by task id and by incident id and eviction leaves no     *)
(* dangling entry (create_task, cleanup_expired).                           *)
IndexAgrees == index = {t \in Tasks : status[t] # "absent"}

(* A terminal record is final: no late completion, failure or progress      *)
(* changes a verdict a client may have read, and the record only leaves by  *)
(* expiry after the full TTL or with its whole store (complete_task,        *)
(* fail_task, update_progress, cleanup_expired).                            *)
TerminalIsFinal ==
  [][\A t \in Tasks : status[t] \in Terminal =>
       \/ status'[t] = status[t] /\ progress'[t] = progress[t]
       \/ status'[t] = "absent" /\ (age[t] > Ttl \/ restarts' # restarts)]_vars

(* Every accepted run reaches a verdict, or is lost with its store, and work  *)
(* that a client cancelled stops and releases its map entry.                *)
RunsSettle ==
  \A t \in Tasks :
    /\ status[t] = "running" ~> status[t] # "running"
    /\ t \in cancelReq ~> (work[t] = "gone" /\ t \notin tracked)

\* What a client observes: a record that was started and is no longer stored has
\* been forgotten.
Observed == [t \in Tasks |->
  IF status[t] # "absent" THEN status[t]
  ELSE IF work[t] = "none" THEN "unborn" ELSE "forgotten"]

Lifecycle == INSTANCE TaskLifecycle WITH state <- Observed

(* The server implements the abstract task lifecycle: one start, at most    *)
(* one verdict, kept until the task is forgotten.                           *)
ImplementsLifecycle == Lifecycle!Spec
=============================================================================
