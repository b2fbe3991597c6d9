------------------------------- MODULE RedisTLS -------------------------------
(***************************************************************************)
(* The Redis reconciler's TLS decision and the configuration built from it *)
(* (controllers/argocd/redis/helper.go and deployment.go).                 *)
(*                                                                         *)
(* UseTLS makes two API calls: it gets the Redis TLS secret, then looks up *)
(* the ArgoCD instance that owns it.  Every error of either call, a        *)
(* transient one included, is logged and answered with "no TLS"; UseTLS    *)
(* returns a bool, so no error reaches the caller and nothing is requeued. *)
(* The answer is kept in rr.TLSEnabled, from which GetConf and the script  *)
(* loaders render the Redis templates (each returns "" when its template   *)
(* cannot be loaded, and no error).                                        *)
(*                                                                         *)
(* Who stores rr.TLSEnabled and calls the loaders is not in this excerpt   *)
(* (reconcileDeployment has an empty body), and nothing in it writes the   *)
(* rendered configuration anywhere: the model takes a reconcile to call    *)
(* UseTLS and then the loaders, with no API call after them, so a         *)
(* reconcile never fails.  The secret is watched, so each write to it      *)
(* enqueues a request.                                                     *)
(***************************************************************************)
EXTENDS Naturals, FiniteSets

CONSTANTS
    Templates,      \* the configuration templates rendered with UseTLSKey
    MaxFaults,      \* bound on failed API calls and template loads
    MaxEnvEvents    \* bound on writes to the TLS secret by anyone else

ASSUME RedisBoundsAssumption ==
    /\ IsFiniteSet(Templates)
    /\ MaxFaults \in Nat
    /\ MaxEnvEvents \in Nat

VARIABLES
    tlsSecret,      \* the argocd-operator-redis-tls secret: absent, or present
                    \* with or without an owning ArgoCD instance
    pc,             \* where the in-flight reconcile is
    queued,         \* a reconcile request waits in the work queue
    tlsEnabled,     \* rr.TLSEnabled, the answer of the last UseTLS
    conf,           \* the templates as the loaders last rendered them
    faults,         \* failures injected so far
    envEvents       \* writes to the secret so far

vars == <<tlsSecret, pc, queued, tlsEnabled, conf, faults, envEvents>>

SecretStates == {"absent", "owned", "unowned"}

\* A rendered template: its use_tls parameter, or the empty string that a
\* loader returns on error (Empty).
Confs == [rendered : BOOLEAN, tls : BOOLEAN]

Empty == [rendered |-> FALSE, tls |-> FALSE]

\* Mutant: the params map built without UseTLSKey, so the template is
\* rendered with no use_tls value at all.
RenderedWithoutTLSKey(tls) == [rendered |-> TRUE]

(***************************************************************************)
(* GetConf, GetInitScript, GetLivenessScript, GetReadinessScript,          *)
(* GetSentinelConf, GetSentinelLivenessScript: the template rendered with  *)
(* UseTLSKey = strconv.FormatBool(rr.TLSEnabled).                          *)
(***************************************************************************)
Rendered(tls) == [rendered |-> TRUE, tls |-> tls]

PCs == {"idle", "getSecret", "findOwner", "render"}

TypeOK ==
    /\ tlsSecret \in SecretStates
    /\ pc \in PCs
    /\ queued \in BOOLEAN
    /\ tlsEnabled \in BOOLEAN
    /\ conf \in [Templates -> Confs]
    /\ faults \in 0..MaxFaults
    /\ envEvents \in 0..MaxEnvEvents

\* Redis is not configured yet; the secret may or may not be there already.
Init ==
    /\ tlsSecret \in SecretStates
    /\ pc = "idle"
    /\ queued = TRUE
    /\ tlsEnabled = FALSE
    /\ conf = [t \in Templates |-> Empty]
    /\ faults = 0
    /\ envEvents = 0

Fault ==
    /\ faults < MaxFaults
    /\ faults' = faults + 1

\* UseTLS has answered: the reconcile goes on to render the templates.
Decide(tls) ==
    /\ tlsEnabled' = tls
    /\ pc' = "render"

-----------------------------------------------------------------------------
\* The queue hands a request to the reconciler, which calls UseTLS.
Start ==
    /\ pc = "idle"
    /\ queued
    /\ pc' = "getSecret"
    /\ queued' = FALSE
    /\ UNCHANGED <<tlsSecret, tlsEnabled, conf, faults, envEvents>>

\* Mutant: a NotFound is returned as an error, so that the reconcile retries
\* until the secret appears.
UseTLSGetSecretRequeueing ==
    /\ pc = "getSecret"
    /\ \/ /\ Fault
          /\ Decide(FALSE)
          /\ UNCHANGED queued
       \/ /\ tlsSecret = "absent"
          /\ pc' = "idle"
          /\ queued' = TRUE
          /\ UNCHANGED <<tlsEnabled, faults>>
       \/ /\ tlsSecret # "absent"
          /\ pc' = "findOwner"
          /\ UNCHANGED <<tlsEnabled, faults, queued>>
    /\ UNCHANGED <<tlsSecret, conf, envEvents>>

(***************************************************************************)
(* UseTLS, workloads.GetSecret: any error (NotFound, or a transient one)   *)
(* is logged and UseTLS returns false.                                     *)
(***************************************************************************)
UseTLSGetSecret ==
    /\ pc = "getSecret"
    /\ \/ /\ Fault
          /\ Decide(FALSE)
       \/ /\ tlsSecret = "absent"
          /\ Decide(FALSE)
          /\ UNCHANGED faults
       \/ /\ tlsSecret # "absent"
          /\ pc' = "findOwner"
          /\ UNCHANGED <<tlsEnabled, faults>>
    /\ UNCHANGED <<tlsSecret, queued, conf, envEvents>>

\* Mutant: the owner check dropped; any secret that was found means TLS.
UseTLSFindOwnerAnySecret ==
    /\ pc = "findOwner"
    /\ \/ /\ Fault
          /\ Decide(FALSE)
       \/ /\ Decide(tlsSecret # "absent")
          /\ UNCHANGED faults
    /\ UNCHANGED <<tlsSecret, queued, conf, envEvents>>

(***************************************************************************)
(* UseTLS, FindSecretOwnerInstance on the secret it got: an error (the     *)
(* secret gone since, or a transient one) gives false; otherwise TLS is    *)
(* used exactly when an owning instance was found.                         *)
(***************************************************************************)
UseTLSFindOwner ==
    /\ pc = "findOwner"
    /\ \/ /\ Fault
          /\ Decide(FALSE)
       \/ /\ Decide(tlsSecret = "owned")
          /\ UNCHANGED faults
    /\ UNCHANGED <<tlsSecret, queued, conf, envEvents>>

(***************************************************************************)
(* GetConf, GetInitScript, GetLivenessScript, GetReadinessScript,          *)
(* GetSentinelConf, GetSentinelLivenessScript: each template is rendered   *)
(* from rr.TLSEnabled; one whose file cannot be loaded is logged and gives *)
(* "", and no loader returns an error, so the reconcile ends here.         *)
(***************************************************************************)
RenderConf ==
    /\ pc = "render"
    /\ pc' = "idle"
    /\ \E failed \in SUBSET Templates :
         /\ faults + Cardinality(failed) <= MaxFaults
         /\ faults' = faults + Cardinality(failed)
         /\ conf' = [t \in Templates |->
                        IF t \in failed THEN Empty ELSE Rendered(tlsEnabled)]
    /\ UNCHANGED <<tlsSecret, queued, tlsEnabled, envEvents>>

-----------------------------------------------------------------------------
(* The rest of the cluster writes the secret; the watch enqueues a request. *)

EnvEvent ==
    /\ envEvents < MaxEnvEvents
    /\ envEvents' = envEvents + 1
    /\ queued' = TRUE
    /\ UNCHANGED <<pc, tlsEnabled, conf, faults>>

\* The secret is created, by the operator's certificate setup for an
\* instance or by a user without an owner.
CreateTLSSecret ==
    /\ tlsSecret = "absent"
    /\ \E s \in {"owned", "unowned"} : tlsSecret' = s
    /\ EnvEvent

\* The secret is deleted (or the first half of a rotation).
DeleteTLSSecret ==
    /\ tlsSecret # "absent"
    /\ tlsSecret' = "absent"
    /\ EnvEvent

-----------------------------------------------------------------------------
Reconciler == Start \/ UseTLSGetSecret \/ UseTLSFindOwner \/ RenderConf

Environment == CreateTLSSecret \/ DeleteTLSSecret

Next == Reconciler \/ Environment

\* The work queue's worker keeps serving requests; nothing is assumed of
\* the other writers of the secret.
Spec == Init /\ [][Next]_vars /\ WF_vars(Reconciler)

-----------------------------------------------------------------------------
(* Properties.                                                              *)

Quiescent == pc = "idle" /\ ~queued

\* Some rendered template switches TLS on.
ConfTLS == \E t \in Templates : conf[t].tls

(***************************************************************************)
(* Whenever the reconciler has nothing left to do, a Redis configured for  *)
(* TLS has an owned TLS secret to serve: a deletion of the secret after    *)
(* UseTLS answered, or between its two calls, is followed by another       *)
(* reconcile that switches TLS off again.                                  *)
(***************************************************************************)
QuiescentTLSBacked == Quiescent /\ ConfTLS => tlsSecret = "owned"

(***************************************************************************)
(* The loaders render a configuration that switches TLS on in some         *)
(* template only while the TLS secret is owned, or while another reconcile *)
(* is already queued to revisit the decision: UseTLS's answer may be stale *)
(* by the time the templates are rendered, but never silently so.          *)
(***************************************************************************)
TLSRenderedOnlyWhenBacked ==
    [][ConfTLS' /\ conf' # conf => tlsSecret = "owned" \/ queued]_vars

(***************************************************************************)
(* Whenever the reconciler has nothing left to do and an owned TLS secret  *)
(* exists, every template is rendered with TLS on: the point of UseTLS's   *)
(* comment ("decides whether Redis component should communicate with       *)
(* TLS").                                                                  *)
(***************************************************************************)
QuiescentTLSConsistent ==
    Quiescent /\ tlsSecret = "owned" => \A t \in Templates : conf[t] = Rendered(TRUE)

(***************************************************************************)
(* The reconciler eventually stops for good once the secret stops          *)
(* changing, whatever errors it met.                                       *)
(***************************************************************************)
EventuallyQuiescent == <>[]Quiescent

=============================================================================
