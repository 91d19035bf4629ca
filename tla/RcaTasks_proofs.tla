--------------------------- MODULE RcaTasks_proofs ---------------------------
(***************************************************************************)
(* Proofs about RcaTasks, for every set of tasks, every concurrency limit, *)
(* every TTL and every number of restarts.                                 *)
(***************************************************************************)
EXTENDS RcaTasks, FiniteSetTheorems, TLAPS

USE DEF Terminal, Statuses, Stages, WorkStates, Live, Outcomes

(* An id that run_rca has not used has no record and no cancelled coroutine. *)
FreshIsUntouched == \A t \in Tasks : work[t] = "none" => status[t] = "absent" /\ t \notin cancelReq

(* The inductive invariant: RunRca needs FreshIsUntouched to know that a   *)
(* fresh id is not cancelled, and UncountedWorkIsAccountedFor needs         *)
(* RunningIsBacked to know that CancelTask finds the coroutine.             *)
IInv == TypeOK /\ FreshIsUntouched /\ RunningIsBacked /\ UncountedWorkIsAccountedFor

(* The initial state satisfies the inductive invariant.                    *)
LEMMA InitIInv == Init => IInv
<1> SUFFICES ASSUME Init PROVE IInv
  OBVIOUS
<1>1. TypeOK
  <2>1. tracked = {t \in Tasks : work[t] \in Live \cup {"ended"}}
    BY DEF Init
  <2>2. QED
    <3>1. age \in [Tasks -> 0 .. Ttl + 1] /\ restarts \in 0 .. MaxRestarts
      BY MaxRestartsAssumption, TtlAssumption DEF Init
    <3>2. up \in BOOLEAN /\ status \in [Tasks -> Statuses] /\ progress \in [Tasks -> Stages]
      BY DEF Init
    <3>3. work \in [Tasks -> WorkStates] /\ index \subseteq Tasks /\ cancelReq \subseteq Tasks /\ orphans \subseteq Tasks
      BY DEF Init
    <3>4. QED
      BY <2>1, <3>1, <3>2, <3>3 DEF TypeOK
<1>2. FreshIsUntouched /\ RunningIsBacked /\ UncountedWorkIsAccountedFor
  BY DEF Init, FreshIsUntouched, RunningIsBacked, UncountedWorkIsAccountedFor
<1>3. QED
  BY <1>1, <1>2 DEF IInv

(* Every handler, coroutine step and clock tick keeps the types.           *)
LEMMA TypePreserved == TypeOK /\ [Next]_vars => TypeOK'
<1> SUFFICES ASSUME TypeOK, [Next]_vars PROVE TypeOK'
  OBVIOUS
<1> USE TtlAssumption, MaxRestartsAssumption DEF TypeOK
<1>1. ASSUME DropStore, up' \in BOOLEAN PROVE TypeOK'
  <2>1. orphans' \subseteq Tasks
    BY <1>1 DEF DropStore
  <2>2. tracked' = {t \in Tasks : work'[t] \in Live \cup {"ended"}}
    BY <1>1 DEF DropStore
  <2>3. restarts' \in 0 .. MaxRestarts
    BY <1>1 DEF DropStore
  <2>4. status' \in [Tasks -> Statuses] /\ progress' \in [Tasks -> Stages]
    BY <1>1 DEF DropStore
  <2>5. age' \in [Tasks -> 0 .. Ttl + 1]
    BY <1>1 DEF DropStore
  <2>6. index' \subseteq Tasks /\ work' \in [Tasks -> WorkStates] /\ cancelReq' \subseteq Tasks
    BY <1>1 DEF DropStore
  <2>7. QED
    BY <1>1, <2>1, <2>2, <2>3, <2>4, <2>5, <2>6
<1>2. CASE Initialize \/ Shutdown
  BY <1>1, <1>2 DEF Initialize, Shutdown
<1>3. CASE Cleanup
  BY <1>3 DEF Cleanup, DropFromIndex, Expired
<1>4. CASE Tick
  BY <1>4 DEF Tick
<1>5. ASSUME NEW t \in Tasks, RunRca(t) PROVE TypeOK'
  BY <1>5 DEF RunRca
<1>6. ASSUME NEW t \in Tasks, CancelTask(t) PROVE TypeOK'
  BY <1>6 DEF CancelTask, CancelCoroutine
<1>7. ASSUME NEW t \in Tasks, BackgroundStart(t) PROVE TypeOK'
  BY <1>7 DEF BackgroundStart, UpdateProgress
<1>8. ASSUME NEW t \in Tasks, NEW outcome \in Outcomes, PipelineReturns(t, outcome) PROVE TypeOK'
  BY <1>8 DEF PipelineReturns, UpdateProgress, CompleteTask, FailTask
<1>9. ASSUME NEW t \in Tasks, DoneCallback(t) PROVE TypeOK'
  BY <1>9 DEF DoneCallback, Untrack
<1>10. CASE UNCHANGED vars
  BY <1>10 DEF vars
<1>11. QED
  BY <1>2, <1>3, <1>4, <1>5, <1>6, <1>7, <1>8, <1>9, <1>10 DEF Next, BackgroundStep

(* Every step keeps the rest of the inductive invariant.                   *)
LEMMA IInvPreserved == IInv /\ [Next]_vars => IInv'
<1> SUFFICES ASSUME IInv, [Next]_vars PROVE IInv'
  OBVIOUS
<1>0. TypeOK'
  BY TypePreserved DEF IInv
<1> DEFINE Rest == FreshIsUntouched /\ RunningIsBacked /\ UncountedWorkIsAccountedFor
<1> SUFFICES Rest'
  BY <1>0 DEF IInv
<1> USE DEF IInv, TypeOK, FreshIsUntouched, RunningIsBacked, UncountedWorkIsAccountedFor
<1>1. CASE Initialize
  BY <1>1 DEF Initialize, DropStore
<1>2. CASE Shutdown
  BY <1>2 DEF Shutdown, DropStore
<1>3. CASE Cleanup
  BY <1>3 DEF Cleanup, Expired
<1>4. CASE Tick
  BY <1>4 DEF Tick
<1>5. ASSUME NEW t \in Tasks, RunRca(t) PROVE Rest'
  BY <1>5 DEF RunRca
<1>6. ASSUME NEW t \in Tasks, CancelTask(t) PROVE Rest'
  BY <1>6 DEF CancelTask, CancelCoroutine
<1>7. ASSUME NEW t \in Tasks, BackgroundStart(t) PROVE Rest'
  BY <1>7 DEF BackgroundStart
<1>8. ASSUME NEW t \in Tasks, NEW outcome \in Outcomes, PipelineReturns(t, outcome) PROVE Rest'
  BY <1>8 DEF PipelineReturns, CompleteTask, FailTask
<1>9. ASSUME NEW t \in Tasks, DoneCallback(t) PROVE Rest'
  BY <1>9 DEF DoneCallback, Untrack
<1>10. CASE UNCHANGED vars
  BY <1>10 DEF vars
<1>11. QED
  BY <1>1, <1>2, <1>3, <1>4, <1>5, <1>6, <1>7, <1>8, <1>9, <1>10 DEF Next, BackgroundStep

(* The inductive invariant holds in every reachable state.                 *)
LEMMA Invariance == Spec => []IInv
<1>1. Init => IInv
  BY InitIInv
<1>2. IInv /\ [Next]_vars => IInv'
  BY IInvPreserved
<1>3. QED
  BY <1>1, <1>2, PTL DEF Spec

(* Type correctness, and the map of asyncio tasks holds exactly the        *)
(* coroutines that have not called back.                                   *)
THEOREM TypeCorrect == Spec => []TypeOK
  BY Invariance, PTL DEF IInv

(* No concurrency slot leaks: a RUNNING record always has an uncancelled,  *)
(* tracked coroutine that is still going to settle it.                     *)
THEOREM NoLeakedSlot == Spec => []RunningIsBacked
  BY Invariance, PTL DEF IInv

(* Work the concurrency limit does not count was cancelled by a client or  *)
(* orphaned by a replaced store.                                           *)
THEOREM UncountedWork == Spec => []UncountedWorkIsAccountedFor
  BY Invariance, PTL DEF IInv

(* create_task's limit: only RunRca grows the set of RUNNING records, by    *)
(* one, and only below the limit.                                           *)
LEMMA CapPreserved == IInv /\ ConcurrencyCap /\ [Next]_vars => ConcurrencyCap'
<1> SUFFICES ASSUME IInv, ConcurrencyCap, [Next]_vars PROVE ConcurrencyCap'
  OBVIOUS
<1> USE DEF IInv, TypeOK
<1>1. IsFiniteSet(Running)
  BY TasksAssumption, FS_Subset DEF Running
<1>2. ASSUME NEW t \in Tasks, RunRca(t) PROVE ConcurrencyCap'
  <2>1. Running' = Running \cup {t}
    BY <1>2 DEF RunRca, Running
  <2>2. Cardinality(Running) \in Nat
    BY <1>1, FS_CardinalityType
  <2>3. Cardinality(Running') = IF t \in Running THEN Cardinality(Running) ELSE Cardinality(Running) + 1
    BY <1>1, <2>1, FS_AddElement
  <2>4. Cardinality(Running) < MaxConcurrent
    BY <1>2 DEF RunRca, HasSlot
  <2>5. Cardinality(Running') <= MaxConcurrent
    BY <2>2, <2>3, <2>4, MaxConcurrentAssumption
  <2>6. QED
    BY <2>5 DEF ConcurrencyCap
<1>3. CASE Running' \subseteq Running
  <2>1. Cardinality(Running') <= Cardinality(Running)
    BY <1>1, <1>3, FS_Subset
  <2>2. IsFiniteSet(Running')
    BY <1>1, <1>3, FS_Subset
  <2>3. QED
    BY <1>1, <2>1, <2>2, FS_CardinalityType, MaxConcurrentAssumption DEF ConcurrencyCap
<1>4. (\A t \in Tasks : ~RunRca(t)) => Running' \subseteq Running
  <2> SUFFICES ASSUME \A t \in Tasks : ~RunRca(t) PROVE Running' \subseteq Running
    OBVIOUS
  <2>1. CASE Initialize \/ Shutdown
    BY <2>1 DEF Initialize, Shutdown, DropStore, Running
  <2>2. CASE Cleanup
    BY <2>2 DEF Cleanup, Running
  <2>3. CASE Tick
    BY <2>3 DEF Tick, Running
  <2>4. ASSUME NEW t \in Tasks, CancelTask(t) PROVE Running' \subseteq Running
    BY <2>4 DEF CancelTask, Running
  <2>5. ASSUME NEW t \in Tasks, BackgroundStep(t) PROVE Running' \subseteq Running
    BY <2>5 DEF BackgroundStep, BackgroundStart, PipelineReturns, CompleteTask, FailTask, DoneCallback, Running
  <2>6. CASE UNCHANGED vars
    BY <2>6 DEF vars, Running
  <2>7. QED
    BY <2>1, <2>2, <2>3, <2>4, <2>5, <2>6 DEF Next
<1>5. QED
  BY <1>2, <1>3, <1>4

(* create_task never lets more than MaxConcurrent records be RUNNING.      *)
THEOREM CapHolds == Spec => []ConcurrencyCap
<1>1. Init => ConcurrencyCap
  <2> SUFFICES ASSUME Init PROVE ConcurrencyCap
    OBVIOUS
  <2>1. Running = {}
    BY DEF Init, Running
  <2>2. QED
    BY <2>1, FS_EmptySet, MaxConcurrentAssumption DEF ConcurrencyCap
<1>2. QED
  BY <1>1, CapPreserved, Invariance, PTL DEF Spec

(* A verdict is final until the record expires or the store is replaced.    *)
THEOREM VerdictIsFinal == Spec => TerminalIsFinal
<1> DEFINE Final == \A t \in Tasks : status[t] \in {"completed", "failed", "cancelled"} =>
                      \/ status'[t] = status[t] /\ progress'[t] = progress[t]
                      \/ status'[t] = "absent" /\ (age[t] > Ttl \/ restarts' # restarts)
<1>1. IInv /\ [Next]_vars => [Final]_vars
  <2> SUFFICES ASSUME IInv, Next PROVE Final
    OBVIOUS
  <2> USE DEF IInv, TypeOK
  <2>1. CASE Initialize
    BY <2>1 DEF Initialize, DropStore
  <2>2. CASE Shutdown
    BY <2>2 DEF Shutdown, DropStore
  <2>3. CASE Cleanup
    BY <2>3 DEF Cleanup, Expired
  <2>4. CASE Tick
    BY <2>4 DEF Tick
  <2>5. ASSUME NEW t \in Tasks, RunRca(t) PROVE Final
    BY <2>5 DEF RunRca, FreshIsUntouched
  <2>6. ASSUME NEW t \in Tasks, CancelTask(t) PROVE Final
    BY <2>6 DEF CancelTask
  <2>7. ASSUME NEW t \in Tasks, BackgroundStart(t) PROVE Final
    BY <2>7 DEF BackgroundStart, UpdateProgress
  <2>8. ASSUME NEW t \in Tasks, NEW outcome \in Outcomes, PipelineReturns(t, outcome) PROVE Final
    BY <2>8 DEF PipelineReturns, UpdateProgress, CompleteTask, FailTask
  <2>9. ASSUME NEW t \in Tasks, DoneCallback(t) PROVE Final
    BY <2>9 DEF DoneCallback
  <2>10. QED
    BY <2>1, <2>2, <2>3, <2>4, <2>5, <2>6, <2>7, <2>8, <2>9 DEF Next, BackgroundStep
<1>2. QED
  BY <1>1, Invariance, PTL DEF Spec, TerminalIsFinal

(* get_report finds the same records by task id and by incident id: RunRca  *)
(* and cleanup_expired change both maps alike, and nothing else changes      *)
(* which records there are.                                                 *)
LEMMA IndexPreserved == IInv /\ IndexAgrees /\ [Next]_vars => IndexAgrees'
<1> SUFFICES ASSUME IInv, IndexAgrees, [Next]_vars PROVE IndexAgrees'
  OBVIOUS
<1> USE DEF IInv, TypeOK, IndexAgrees
<1>1. CASE Initialize \/ Shutdown
  BY <1>1 DEF Initialize, Shutdown, DropStore
<1>2. CASE Cleanup
  BY <1>2 DEF Cleanup, DropFromIndex, Expired
<1>3. CASE Tick
  BY <1>3 DEF Tick
<1>4. ASSUME NEW t \in Tasks, RunRca(t) PROVE IndexAgrees'
  BY <1>4 DEF RunRca
<1>5. ASSUME NEW t \in Tasks, CancelTask(t) PROVE IndexAgrees'
  BY <1>5 DEF CancelTask
<1>6. ASSUME NEW t \in Tasks, BackgroundStep(t) PROVE IndexAgrees'
  BY <1>6 DEF BackgroundStep, BackgroundStart, PipelineReturns, CompleteTask, FailTask, DoneCallback
<1>7. CASE UNCHANGED vars
  BY <1>7 DEF vars
<1>8. QED
  BY <1>1, <1>2, <1>3, <1>4, <1>5, <1>6, <1>7 DEF Next

(* The index by incident id and the table of records agree.                *)
THEOREM IndexAndRecordsAgree == Spec => []IndexAgrees
<1>1. Init => IndexAgrees
  BY DEF Init, IndexAgrees
<1>2. QED
  BY <1>1, IndexPreserved, Invariance, PTL DEF Spec

(* To a client a task is unborn exactly as long as run_rca has not used its  *)
(* id: an absent record of a used id has been forgotten.                    *)
LEMMA UnbornIsUnused == IInv => \A t \in Tasks : (Observed[t] = "unborn") <=> (work[t] = "none")
  BY DEF IInv, TypeOK, FreshIsUntouched, Observed

(* The server's initial state is the initial state of the lifecycle.        *)
LEMMA LifecycleInit == Init => Lifecycle!Init
  BY DEF Init, Observed, Lifecycle!Init

(* Every step of the server is a step of the lifecycle, or changes nothing   *)
(* that a client observes.                                                  *)
LEMMA LifecycleStep == IInv /\ [Next]_vars => [Lifecycle!Next]_Observed
<1> SUFFICES ASSUME IInv, [Next]_vars PROVE Lifecycle!Next \/ Observed' = Observed
  OBVIOUS
<1> USE DEF IInv, TypeOK
<1>1. CASE Initialize \/ Shutdown
  <2>1. Observed' = [t \in Tasks |-> IF Observed[t] = "unborn" THEN "unborn" ELSE "forgotten"]
    <3>1. DropStore
      BY <1>1 DEF Initialize, Shutdown
    <3>2. \A t \in Tasks : status'[t] = "absent" /\ work'[t] = work[t]
      BY <3>1 DEF DropStore
    <3>3. QED
      BY <3>2, UnbornIsUnused DEF Observed
  <2>2. QED
    BY <2>1 DEF Lifecycle!Next, Lifecycle!Amnesia
<1>2. CASE Cleanup
  <2>1. Observed' = [t \in Tasks |-> IF t \in Expired THEN "forgotten" ELSE Observed[t]]
    BY <1>2 DEF Cleanup, Expired, FreshIsUntouched, Observed
  <2>2. \A t \in Expired : Observed[t] \in Lifecycle!Verdicts
    BY DEF Expired, Observed, Lifecycle!Verdicts
  <2>3. Expired \in SUBSET Tasks
    BY DEF Expired
  <2>4. Lifecycle!Forget(Expired)
    BY <2>1, <2>2 DEF Lifecycle!Forget
  <2>5. QED
    BY <2>3, <2>4 DEF Lifecycle!Next
<1>3. CASE Tick \/ UNCHANGED vars
  BY <1>3 DEF Tick, vars, Observed
<1>4. ASSUME NEW t \in Tasks, RunRca(t) PROVE Lifecycle!Next
  <2>1. Running = {u \in Tasks : Observed[u] = "running"}
    BY DEF Running, Observed
  <2>2. Observed' = [Observed EXCEPT ![t] = "running"]
    BY <1>4 DEF RunRca, Observed
  <2>3. Cardinality(Running) = Lifecycle!Cardinality(Running)
    BY DEF Cardinality, Lifecycle!Cardinality
  <2>4. Lifecycle!Start(t)
    BY <1>4, <2>1, <2>2, <2>3, UnbornIsUnused DEF RunRca, HasSlot, Lifecycle!Start
  <2>5. QED
    BY <2>4 DEF Lifecycle!Next
<1>5. ASSUME NEW t \in Tasks, NEW verdict \in Terminal, status[t] = "running",
             status' = [status EXCEPT ![t] = verdict],
             \A u \in Tasks : (work'[u] = "none") <=> (work[u] = "none")
      PROVE  Lifecycle!Next
  <2>1. Observed' = [Observed EXCEPT ![t] = verdict]
    BY <1>5 DEF Observed
  <2>2. Lifecycle!Settle(t, verdict)
    BY <1>5, <2>1 DEF Lifecycle!Settle, Observed
  <2>3. QED
    BY <2>2 DEF Lifecycle!Next, Lifecycle!Verdicts
<1>6. ASSUME UNCHANGED status, \A u \in Tasks : (work'[u] = "none") <=> (work[u] = "none")
      PROVE  Observed' = Observed
  BY <1>6 DEF Observed
<1>7. ASSUME NEW t \in Tasks, CancelTask(t) PROVE Lifecycle!Next
  BY <1>5, <1>7 DEF CancelTask
<1>8. ASSUME NEW t \in Tasks, BackgroundStart(t) \/ DoneCallback(t) PROVE Observed' = Observed
  BY <1>6, <1>8 DEF BackgroundStart, DoneCallback
<1>9. ASSUME NEW t \in Tasks, NEW outcome \in Outcomes, PipelineReturns(t, outcome)
      PROVE  Lifecycle!Next \/ Observed' = Observed
  <2>1. \A u \in Tasks : (work'[u] = "none") <=> (work[u] = "none")
    BY <1>9 DEF PipelineReturns
  <2>2. UNCHANGED status \/ (status[t] = "running" /\ \E verdict \in Terminal : status' = [status EXCEPT ![t] = verdict])
    BY <1>9 DEF PipelineReturns, CompleteTask, FailTask
  <2>3. QED
    BY <1>5, <1>6, <2>1, <2>2
<1>10. QED
  BY <1>1, <1>2, <1>3, <1>4, <1>7, <1>8, <1>9 DEF Next, BackgroundStep

(* The server implements the lifecycle its clients are promised: one start   *)
(* below the limit, at most one verdict, kept until the task is forgotten.  *)
THEOREM LifecycleImplemented == Spec => ImplementsLifecycle
  BY LifecycleInit, LifecycleStep, Invariance, PTL DEF Spec, ImplementsLifecycle, Lifecycle!Spec
=============================================================================
