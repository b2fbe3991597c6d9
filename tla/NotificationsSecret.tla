------------------------- MODULE NotificationsSecret -------------------------
(***************************************************************************)
(* The notifications controller's secret reconciliation                    *)
(* (NotificationsReconciler.reconcileSecret and DeleteSecret in            *)
(* controllers/argocd/notifications/secret.go), run against the Kubernetes *)
(* API server it talks to.                                                 *)
(*                                                                         *)
(* One call of reconcileSecret makes up to three API calls (get namespace, *)
(* get secret, then create or delete).  Each call is one step here, so     *)
(* everything else that writes the cluster (a user, the namespace          *)
(* controller) may act between them.  The data is abstracted to what the   *)
(* properties tell apart: whether the secret exists, whether its labels are *)
(* the desired ones and whether it carries the controller owner reference. *)
(*                                                                         *)
(* The controller-runtime work queue that calls reconcileSecret is the     *)
(* boolean `queued`: a watch event sets it, starting a reconcile clears    *)
(* it, and a reconcile that returns an error sets it again (requeue).      *)
(***************************************************************************)
EXTENDS Naturals

CONSTANTS
    MaxFaults,      \* bound on API calls that fail with a transient error
    MaxEnvEvents    \* bound on writes to the cluster by anyone but the operator

ASSUME BoundsAssumption ==
    /\ MaxFaults \in Nat
    /\ MaxEnvEvents \in Nat

VARIABLES
    secret,         \* the secret object in the API server, or NoSecret
    nsTerminating,  \* the namespace carries a DeletionTimestamp
    pc,             \* where the in-flight reconcileSecret call is
    queued,         \* a reconcile request waits in the work queue
    faults,         \* transient API errors injected so far
    envEvents       \* environment writes so far

vars == <<secret, nsTerminating, pc, queued, faults, envEvents>>

\* The desired secret's labels, and any other value a user may write.
Labels == {"desired", "drifted"}

\* Secret objects as stored, and the one value that stands for "not found".
Secrets == [present : {TRUE}, label : Labels, owned : BOOLEAN]

NoSecret == [present |-> FALSE, label |-> "desired", owned |-> FALSE]

\* Control points of reconcileSecret: before the call, and before each of
\* its API calls.
PCs == {"idle", "getNamespace", "getSecret", "create", "delete"}

\* Mutant: the request is built without its Labels map.
DesiredSecretNoLabels == [present |-> TRUE, label |-> "unset", owned |-> TRUE]

\* The secret the operator builds: desired labels, and the controller owner
\* reference that SetControllerReference puts on it before the create.
DesiredSecret == [present |-> TRUE, label |-> "desired", owned |-> TRUE]

TypeOK ==
    /\ secret \in Secrets \cup {NoSecret}
    /\ nsTerminating \in BOOLEAN
    /\ pc \in PCs
    /\ queued \in BOOLEAN
    /\ faults \in 0..MaxFaults
    /\ envEvents \in 0..MaxEnvEvents

(***************************************************************************)
(* The operator may start with the secret absent or left over from an      *)
(* earlier run of itself; the namespace is live.                           *)
(***************************************************************************)
Init ==
    /\ secret \in {NoSecret, DesiredSecret}
    /\ nsTerminating = FALSE
    /\ pc = "idle"
    /\ queued = TRUE
    /\ faults = 0
    /\ envEvents = 0

-----------------------------------------------------------------------------
(* Helpers for the way a reconcile call ends and for injected API errors.  *)

\* reconcileSecret returns: an error puts the request back in the queue.
Return(isErr) ==
    /\ pc' = "idle"
    /\ queued' = (queued \/ isErr)

\* One API call fails with a transient error (timeout, 5xx, throttling).
Fault ==
    /\ faults < MaxFaults
    /\ faults' = faults + 1


-----------------------------------------------------------------------------
(* The steps of reconcileSecret.                                            *)

(***************************************************************************)
(* The queue hands the request to the reconciler, which builds the desired *)
(* secret through RequestSecret; ApplyReconcilerMutation may fail, and     *)
(* then the call returns the error.                                        *)
(***************************************************************************)
RequestSecret ==
    /\ pc = "idle"
    /\ queued
    /\ \/ /\ pc' = "getNamespace"
          /\ queued' = FALSE
          /\ UNCHANGED faults
       \/ /\ Fault
          /\ Return(TRUE)
    /\ UNCHANGED <<secret, nsTerminating, envEvents>>

(***************************************************************************)
(* cluster.GetNamespace: an error is returned; a DeletionTimestamp leads   *)
(* to the delete branch, otherwise the secret is looked up.                *)
(***************************************************************************)
\* Mutant: the DeletionTimestamp test inverted.
GetNamespaceInverted ==
    /\ pc = "getNamespace"
    /\ \/ /\ Fault
          /\ Return(TRUE)
       \/ /\ pc' = IF nsTerminating THEN "getSecret" ELSE "delete"
          /\ UNCHANGED <<queued, faults>>
    /\ UNCHANGED <<secret, nsTerminating, envEvents>>

GetNamespace ==
    /\ pc = "getNamespace"
    /\ \/ /\ Fault
          /\ Return(TRUE)
       \/ /\ pc' = IF nsTerminating THEN "delete" ELSE "getSecret"
          /\ UNCHANGED <<queued, faults>>
    /\ UNCHANGED <<secret, nsTerminating, envEvents>>

(***************************************************************************)
(* DeleteSecret while the namespace terminates.  Its error (NotFound or    *)
(* transient) is only logged: the `err` declared in the if statement       *)
(* shadows the outer one, and the outer err, nil after GetNamespace, is    *)
(* what reconcileSecret returns.                                           *)
(***************************************************************************)
\* Mutant: the shadowing fixed naively, so that DeleteSecret's error, NotFound
\* included, is returned.
DeleteSecretReturningError ==
    /\ pc = "delete"
    /\ \/ /\ secret # NoSecret
          /\ secret' = NoSecret
          /\ Return(FALSE)
          /\ UNCHANGED faults
       \/ /\ secret # NoSecret
          /\ Fault
          /\ Return(TRUE)
          /\ UNCHANGED secret
       \/ /\ secret = NoSecret
          /\ Return(TRUE)
          /\ UNCHANGED <<secret, faults>>
    /\ UNCHANGED <<nsTerminating, envEvents>>

DeleteSecret ==
    /\ pc = "delete"
    /\ \/ /\ secret # NoSecret
          /\ secret' = NoSecret
          /\ UNCHANGED faults
       \/ /\ secret # NoSecret
          /\ Fault
          /\ UNCHANGED secret
       \/ /\ secret = NoSecret
          /\ UNCHANGED <<secret, faults>>
    /\ Return(FALSE)
    /\ UNCHANGED <<nsTerminating, envEvents>>

(***************************************************************************)
(* workloads.GetSecret: an error other than NotFound is returned; NotFound *)
(* leads to the create; an existing secret ends the call with success      *)
(* ("secret updated" is logged, nothing is written).                       *)
(***************************************************************************)
\* Mutant: an error from GetSecret is logged and the call returns nil, the
\* way the deletion branch treats DeleteSecret's error.
GetSecretSwallowingError ==
    /\ pc = "getSecret"
    /\ \/ /\ Fault
          /\ Return(FALSE)
       \/ /\ secret = NoSecret
          /\ pc' = "create"
          /\ UNCHANGED <<queued, faults>>
       \/ /\ secret # NoSecret
          /\ Return(FALSE)
          /\ UNCHANGED faults
    /\ UNCHANGED <<secret, nsTerminating, envEvents>>

GetSecret ==
    /\ pc = "getSecret"
    /\ \/ /\ Fault
          /\ Return(TRUE)
       \/ /\ secret = NoSecret
          /\ pc' = "create"
          /\ UNCHANGED <<queued, faults>>
       \/ /\ secret # NoSecret
          /\ Return(FALSE)
          /\ UNCHANGED faults
    /\ UNCHANGED <<secret, nsTerminating, envEvents>>

(***************************************************************************)
(* SetControllerReference, then workloads.CreateSecret.  The API server    *)
(* refuses the create with AlreadyExists when the secret appeared since    *)
(* the get, and with Forbidden when the namespace began terminating; any   *)
(* error is returned.                                                      *)
(***************************************************************************)
CreateSecret ==
    /\ pc = "create"
    /\ \/ /\ secret = NoSecret
          /\ ~nsTerminating
          /\ secret' = DesiredSecret
          /\ Return(FALSE)
          /\ UNCHANGED faults
       \/ /\ secret # NoSecret \/ nsTerminating
          /\ Return(TRUE)
          /\ UNCHANGED <<secret, faults>>
       \/ /\ Fault
          /\ Return(TRUE)
          /\ UNCHANGED secret
    /\ UNCHANGED <<nsTerminating, envEvents>>

-----------------------------------------------------------------------------
(* The rest of the cluster.  Every write is seen by the controller's       *)
(* watches and enqueues a request.                                         *)

EnvEvent ==
    /\ envEvents < MaxEnvEvents
    /\ envEvents' = envEvents + 1
    /\ queued' = TRUE

\* A user deletes the secret.
UserDeleteSecret ==
    /\ secret # NoSecret
    /\ EnvEvent
    /\ secret' = NoSecret
    /\ UNCHANGED <<nsTerminating, pc, faults>>

\* A user (or another tool) rewrites the secret's labels.
UserEditSecret ==
    /\ secret # NoSecret
    /\ EnvEvent
    /\ secret' = [secret EXCEPT !.label = "drifted"]
    /\ UNCHANGED <<nsTerminating, pc, faults>>

\* A user deletes the namespace: it gets a DeletionTimestamp, for good.
DeleteNamespace ==
    /\ ~nsTerminating
    /\ EnvEvent
    /\ nsTerminating' = TRUE
    /\ UNCHANGED <<secret, pc, faults>>

\* The namespace controller removes what is left in a terminating namespace.
NamespaceCleanup ==
    /\ nsTerminating
    /\ secret # NoSecret
    /\ secret' = NoSecret
    /\ queued' = TRUE
    /\ UNCHANGED <<nsTerminating, pc, faults, envEvents>>

-----------------------------------------------------------------------------
Reconciler ==
    \/ RequestSecret
    \/ GetNamespace
    \/ DeleteSecret
    \/ GetSecret
    \/ CreateSecret

Environment ==
    \/ UserDeleteSecret
    \/ UserEditSecret
    \/ DeleteNamespace
    \/ NamespaceCleanup

Next == Reconciler \/ Environment

(***************************************************************************)
(* controller-runtime's worker keeps taking requests off the queue (with a *)
(* bounded backoff after errors), so the reconciler's steps are weakly     *)
(* fair.  Nothing is assumed of users; the namespace controller runs, so   *)
(* its cleanup is weakly fair too.                                         *)
(***************************************************************************)
Fairness ==
    /\ WF_vars(Reconciler)
    /\ WF_vars(NamespaceCleanup)

Spec == Init /\ [][Next]_vars /\ Fairness

-----------------------------------------------------------------------------
(* Properties.                                                              *)

\* The reconciler has nothing more to do: no call in flight, nothing queued.
Quiescent == pc = "idle" /\ ~queued

(***************************************************************************)
(* Whenever the reconciler has nothing left to do and the namespace is     *)
(* live, the notifications secret exists: every path of reconcileSecret    *)
(* that leaves it missing returns an error and is requeued, whichever of   *)
(* the user's writes and transient API errors came between its calls.      *)
(***************************************************************************)
QuiescentSecretPresent ==
    Quiescent /\ ~nsTerminating => secret # NoSecret

(***************************************************************************)
(* Whenever the reconciler has nothing left to do and the secret exists in *)
(* a live namespace, it has the desired labels: the spec says the          *)
(* operator updates an object that differs from the desired one, and       *)
(* reconcileSecret logs "secret updated".                                  *)
(***************************************************************************)
QuiescentSecretLabelled ==
    Quiescent /\ ~nsTerminating /\ secret # NoSecret => secret.label = "desired"

(***************************************************************************)
(* Whenever the reconciler has nothing left to do in a terminating         *)
(* namespace, the secret is gone: the deletion branch of reconcileSecret   *)
(* is retried until DeleteSecret succeeds.                                 *)
(***************************************************************************)
QuiescentSecretDeleted ==
    Quiescent /\ nsTerminating => secret = NoSecret

(***************************************************************************)
(* The reconciler eventually stops for good: no path of reconcileSecret    *)
(* (for example a NotFound from the delete in a terminating namespace)     *)
(* keeps requeueing the request forever once the cluster stops changing.   *)
(***************************************************************************)
EventuallyQuiescent == <>[]Quiescent

-----------------------------------------------------------------------------
(* Refinement of the atomic specification.                                  *)

\* A stored secret is seen through its labels; the owner reference is left out.
AbsSecret == IF secret = NoSecret THEN "none" ELSE secret.label

A == INSTANCE AtomicSecretReconcile WITH secret <- AbsSecret, userWrites <- envEvents

(***************************************************************************)
(* reconcileSecret, with its API calls interleaved with everything else,   *)
(* implements the atomic specification: the operator's create happens      *)
(* only for a missing secret in a live namespace, its delete only in a     *)
(* terminating one (the namespace is read before the delete and never      *)
(* stops terminating), and a missing secret in a live namespace is         *)
(* eventually created.                                                     *)
(***************************************************************************)
AtomicSpec == A!Spec

=============================================================================
