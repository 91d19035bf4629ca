---------------------------- MODULE EndpointSession ----------------------------
(***************************************************************************)
(* The shared MCP session of one endpoint (_SessionOwner).  A session is    *)
(* known by the task that owns it; a caller opens one under the lock and    *)
(* waits for it to be ready, any caller may close the current one without   *)
(* the lock.  An identity is used again once its task is done and no caller *)
(* refers to it.                                                            *)
(***************************************************************************)
CONSTANTS
  Sessions,   \* identities of owner tasks
  NoSession,
  Nobody      \* the lock is free

ASSUME SessionAssumption == NoSession \notin Sessions

VARIABLES
  sess,       \* what each owner task is doing
  current,    \* _client, _task and _stop, which are set and cleared together
  lock        \* _lock: the caller that holds it

session == <<sess, current, lock>>

SessionInit ==
  /\ sess = [s \in Sessions |-> "closed"]
  /\ current = NoSession
  /\ lock = Nobody

Done(s) == sess[s] \in {"closed", "failed"}
Usable == current # NoSession /\ ~Done(current)

\* stop.set() and, for an opener that gives up, task.cancel().
Stopped(S) == [s \in Sessions |-> IF s \in S /\ ~Done(s) THEN "stopping" ELSE sess[s]]

\* _own: the client is entered and ready is resolved.
Ready(s) == sess[s] = "opening" /\ sess' = [sess EXCEPT ![s] = "open"] /\ UNCHANGED <<current, lock>>

\* _own ends: it could not connect, the transport broke, or it was stopped.
OwnerEnds(s) ==
  /\ ~Done(s)
  /\ sess' = [sess EXCEPT ![s] = IF @ = "opening" THEN "failed" ELSE "closed"]
  /\ UNCHANGED <<current, lock>>
=============================================================================
