-------------------------- MODULE DeploymentRollout --------------------------
(***************************************************************************)
(* workloads.TriggerDeploymentRollout (pkg/workloads/deployment.go) while  *)
(* other writers update the same Deployment, and the Redis reconciler's    *)
(* deleteDeployment (controllers/argocd/redis/deployment.go).              *)
(*                                                                         *)
(* The trigger reads the Deployment with GetDeployment, calls              *)
(* updateChangedTime with the Deployment's name and namespace only, and    *)
(* writes the object it read back with UpdateDeployment.  The read and the *)
(* write are separate API calls, so another writer (the reconciler that    *)
(* owns the spec, a user, an HPA) may write in between.  The API server    *)
(* accepts an Update only when the object's resourceVersion is the stored  *)
(* one, or is unset, and an accepted Update that changes nothing keeps the *)
(* stored object and its resourceVersion.                                  *)
(*                                                                         *)
(* Nothing in this repository calls the function (the Redis reconciler's   *)
(* TriggerDeploymentRollout calls another package's), so the caller and    *)
(* its callback are left open: calls come one at a time from an unnamed    *)
(* caller, and the callback, which cannot reach the object the trigger     *)
(* holds, either leaves the stored Deployment alone or changes its pod     *)
(* template label through a client of its own.                            *)
(***************************************************************************)
EXTENDS Naturals

CONSTANTS
    MaxEnvWrites,   \* bound on spec changes by other writers
    MaxStamps,      \* bound on template changes made by the callback
    MaxFaults       \* bound on failed Gets (errors other than NotFound)

ASSUME RolloutBoundsAssumption ==
    /\ MaxEnvWrites \in Nat
    /\ MaxStamps \in Nat
    /\ MaxFaults \in Nat

\* resourceVersions: one per write that changes the object, the first object
\* has version 1; 0 is the unset resourceVersion of an object built locally.
MaxRV == 1 + MaxEnvWrites + MaxStamps
RVs == 0..MaxRV

\* A Deployment as the API server stores it: `spec` counts the other
\* writers' changes, `template` the changes of the pod template's label.
Deployments ==
    [exists : BOOLEAN, rv : RVs, spec : 0..MaxEnvWrites, template : 0..MaxStamps]

VARIABLES
    dep,        \* the stored Deployment
    rvClock,    \* the last resourceVersion the API server handed out
    acked,      \* the last spec change acknowledged to another writer
    tpc,        \* where the in-flight TriggerDeploymentRollout call is
    current,    \* currentDeployment, the object its Get returned
    ret,        \* what the last completed call returned
    faults      \* failed Gets so far

vars == <<dep, rvClock, acked, tpc, current, ret, faults>>

\* Past the Get, currentDeployment is a Deployment the API server returned,
\* never the nil of a NotFound.
TypeOK ==
    /\ dep \in Deployments
    /\ rvClock \in 1..MaxRV
    /\ acked \in 0..MaxEnvWrites
    /\ tpc \in {"idle", "get", "callback", "update"}
    /\ current \in Deployments
    /\ tpc \in {"callback", "update"} => current.exists
    /\ ret \in {"nil", "err"}
    /\ faults \in 0..MaxFaults

\* The Deployment exists, or has not been created yet.
Init ==
    /\ \E e \in BOOLEAN : dep = [exists |-> e, rv |-> 1, spec |-> 0, template |-> 0]
    /\ rvClock = 1
    /\ acked = 0
    /\ tpc = "idle"
    /\ current = dep
    /\ ret = "nil"
    /\ faults = 0

-----------------------------------------------------------------------------
(* The API server's Update: accepted when the resourceVersion matches or   *)
(* is unset, refused with Conflict otherwise and with NotFound when the    *)
(* object is gone.  An accepted write that changes the object gets a fresh *)
(* resourceVersion; one that changes nothing is a no-op.                   *)

UpdateAccepted(obj) ==
    dep.exists /\ (obj.rv = 0 \/ obj.rv = dep.rv)

Store(obj) ==
    /\ rvClock' = rvClock + 1
    /\ dep' = [obj EXCEPT !.exists = TRUE, !.rv = rvClock + 1]

Write(obj) ==
    IF [obj EXCEPT !.rv = dep.rv] = dep
    THEN UNCHANGED <<dep, rvClock>>
    ELSE Store(obj)

-----------------------------------------------------------------------------
(* TriggerDeploymentRollout.                                               *)

\* The caller calls TriggerDeploymentRollout.
TriggerCall ==
    /\ tpc = "idle"
    /\ tpc' = "get"
    /\ UNCHANGED <<dep, rvClock, acked, current, ret, faults>>

\* Mutant: the NotFound `return nil` is dropped, and the trigger goes on with
\* the nil Deployment.
TriggerGetIgnoringNotFound ==
    /\ tpc = "get"
    /\ \/ /\ faults < MaxFaults
          /\ faults' = faults + 1
          /\ tpc' = "idle"
          /\ ret' = "err"
          /\ UNCHANGED current
       \/ /\ current' = dep
          /\ tpc' = "callback"
          /\ UNCHANGED <<ret, faults>>
    /\ UNCHANGED <<dep, rvClock, acked>>

(***************************************************************************)
(* GetDeployment: an error other than NotFound is returned, NotFound ends  *)
(* the call with nil, and otherwise the stored object, resourceVersion     *)
(* included, becomes currentDeployment.                                    *)
(***************************************************************************)
TriggerGet ==
    /\ tpc = "get"
    /\ \/ /\ faults < MaxFaults
          /\ faults' = faults + 1
          /\ tpc' = "idle"
          /\ ret' = "err"
          /\ UNCHANGED current
       \/ /\ ~dep.exists
          /\ tpc' = "idle"
          /\ ret' = "nil"
          /\ UNCHANGED <<current, faults>>
       \/ /\ dep.exists
          /\ current' = dep
          /\ tpc' = "callback"
          /\ UNCHANGED <<ret, faults>>
    /\ UNCHANGED <<dep, rvClock, acked>>

(***************************************************************************)
(* updateChangedTime(currentDeployment.Name, currentDeployment.Namespace): *)
(* the callback gets two strings, so currentDeployment is left as read;    *)
(* through a client of its own it may change the stored pod template.      *)
(***************************************************************************)
TriggerCallback ==
    /\ tpc = "callback"
    /\ tpc' = "update"
    /\ \/ UNCHANGED <<dep, rvClock>>
       \/ /\ dep.exists
          /\ dep.template < MaxStamps
          /\ Store([dep EXCEPT !.template = dep.template + 1])
    /\ UNCHANGED <<acked, current, ret, faults>>

\* Mutant: the object written back is built locally, as RequestDeployment
\* builds objects, so it has no resourceVersion.
TriggerUpdateFromScratch ==
    /\ tpc = "update"
    /\ LET obj == [current EXCEPT !.rv = 0] IN
       IF UpdateAccepted(obj)
       THEN Write(obj) /\ ret' = "nil"
       ELSE ret' = "err" /\ UNCHANGED <<dep, rvClock>>
    /\ tpc' = "idle"
    /\ UNCHANGED <<acked, current, faults>>

\* UpdateDeployment(currentDeployment): its error (Conflict, NotFound) is
\* returned.
TriggerUpdate ==
    /\ tpc = "update"
    /\ IF UpdateAccepted(current)
       THEN Write(current) /\ ret' = "nil"
       ELSE ret' = "err" /\ UNCHANGED <<dep, rvClock>>
    /\ tpc' = "idle"
    /\ UNCHANGED <<acked, current, faults>>

(***************************************************************************)
(* RedisReconciler.deleteDeployment: a NotFound from DeleteDeployment      *)
(* counts as success and any other error is returned with the store left   *)
(* as it was, so only the deletion of a stored Deployment changes a thing. *)
(***************************************************************************)
DeleteDeployment ==
    /\ dep.exists
    /\ dep' = [dep EXCEPT !.exists = FALSE]
    /\ UNCHANGED <<rvClock, acked, tpc, current, ret, faults>>

-----------------------------------------------------------------------------
(* The rest of the cluster.                                                *)

\* Another writer changes the spec with its own read-modify-write, and the
\* API server acknowledges it.
OtherWrite ==
    /\ dep.exists
    /\ dep.spec < MaxEnvWrites
    /\ Store([dep EXCEPT !.spec = dep.spec + 1])
    /\ acked' = dep.spec + 1
    /\ UNCHANGED <<tpc, current, ret, faults>>

-----------------------------------------------------------------------------
Trigger == TriggerCall \/ TriggerGet \/ TriggerCallback \/ TriggerUpdate

Next ==
    \/ Trigger
    \/ DeleteDeployment
    \/ OtherWrite

Spec == Init /\ [][Next]_vars

-----------------------------------------------------------------------------
(* Properties.                                                              *)

(***************************************************************************)
(* No acknowledged write of another writer is lost: the stored spec is the *)
(* last one acknowledged, although the trigger writes back a whole object  *)
(* it read earlier.  It rests on the trigger writing back the object it    *)
(* read, resourceVersion included, so that a write that came in between    *)
(* makes the API server refuse it.                                         *)
(***************************************************************************)
NoLostUpdate == dep.exists => dep.spec = acked

(***************************************************************************)
(* The doc comment of TriggerDeploymentRollout: it "will update the label  *)
(* with the given key to trigger a new rollout".  So a call that returns   *)
(* nil after finding the Deployment leaves a pod template other than the   *)
(* one it read.                                                            *)
(***************************************************************************)
TriggerRollsOut ==
    [][tpc = "update" /\ tpc' = "idle" /\ ret' = "nil" =>
           dep'.template # current.template]_vars

=============================================================================
