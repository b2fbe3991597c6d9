---------------------------- MODULE RedisTLSProofs ----------------------------
(***************************************************************************)
(* Proofs about RedisTLS, for every finite set of templates and every      *)
(* bound on faults and writes to the secret.                               *)
(***************************************************************************)
EXTENDS RedisTLS, FiniteSetTheorems, TLAPS

(***************************************************************************)
(* QuiescentTLSBacked is not inductive.  UseTLS answers from what it read, *)
(* and the secret can be deleted after FindSecretOwnerInstance answered    *)
(* and before the templates are rendered; what saves the property is     *)
(* that such a deletion enqueues a request.  So the invariant also says    *)
(* that a reconcile about to render TLS either still has an owned secret,   *)
(* or has another reconcile queued behind it.                              *)
(***************************************************************************)
RenderTLSBacked == pc = "render" /\ tlsEnabled /\ ~queued => tlsSecret = "owned"

IInv ==
    /\ TypeOK
    /\ QuiescentTLSBacked
    /\ RenderTLSBacked

(***************************************************************************)
(* The rendered configurations are configurations: an empty template and   *)
(* one rendered with either value of rr.TLSEnabled.                        *)
(***************************************************************************)
LEMMA ConfsType ==
    /\ Empty \in Confs
    /\ \A b \in BOOLEAN : Rendered(b) \in Confs
BY DEF Empty, Rendered, Confs

(***************************************************************************)
(* A set of templates that fail to load is finite, and counting it gives a *)
(* natural number, which is what keeps `faults` a bounded counter.         *)
(***************************************************************************)
LEMMA FailedCount ==
    ASSUME NEW failed \in SUBSET Templates
    PROVE  Cardinality(failed) \in Nat
BY RedisBoundsAssumption, FS_Subset, FS_CardinalityType

LEMMA InitTypeOK == Init => TypeOK
<1> SUFFICES ASSUME Init PROVE TypeOK
  OBVIOUS
<1>1. conf \in [Templates -> Confs]
  BY ConfsType DEF Init
<1>2. faults \in 0..MaxFaults /\ envEvents \in 0..MaxEnvEvents
  BY RedisBoundsAssumption DEF Init
<1>3. QED
  BY <1>1, <1>2 DEF Init, TypeOK, SecretStates, PCs

LEMMA TypeOKStep == TypeOK /\ [Next]_vars => TypeOK'
<1> SUFFICES ASSUME TypeOK, [Next]_vars PROVE TypeOK'
  OBVIOUS
<1> USE RedisBoundsAssumption DEF TypeOK, SecretStates, PCs, Fault, Decide
<1>1. CASE Start
  BY <1>1 DEF Start
<1>2. CASE UseTLSGetSecret
  <2>1. tlsEnabled' \in BOOLEAN /\ pc' \in PCs
    BY <1>2, Zenon DEF UseTLSGetSecret
  <2>2. faults' \in 0..MaxFaults
    BY <1>2 DEF UseTLSGetSecret
  <2>3. QED
    BY <1>2, <2>1, <2>2 DEF UseTLSGetSecret
<1>3. CASE UseTLSFindOwner
  <2>1. tlsEnabled' \in BOOLEAN /\ pc' \in PCs
    BY <1>3, Zenon DEF UseTLSFindOwner
  <2>2. faults' \in 0..MaxFaults
    BY <1>3 DEF UseTLSFindOwner
  <2>3. QED
    BY <1>3, <2>1, <2>2 DEF UseTLSFindOwner
<1>4. CASE RenderConf
  <2>1. PICK failed \in SUBSET Templates :
             /\ faults + Cardinality(failed) <= MaxFaults
             /\ faults' = faults + Cardinality(failed)
             /\ conf' = [t \in Templates |->
                            IF t \in failed THEN Empty ELSE Rendered(tlsEnabled)]
    BY <1>4 DEF RenderConf
  <2>2. faults' \in 0..MaxFaults
    BY <2>1, FailedCount
  <2>3. conf' \in [Templates -> Confs]
    BY <2>1, ConfsType
  <2>4. QED
    BY <1>4, <2>2, <2>3 DEF RenderConf
<1>5. CASE CreateTLSSecret
  BY <1>5 DEF CreateTLSSecret, EnvEvent
<1>6. CASE DeleteTLSSecret
  BY <1>6 DEF DeleteTLSSecret, EnvEvent
<1>7. CASE UNCHANGED vars
  BY <1>7 DEF vars
<1>8. QED
  BY <1>1, <1>2, <1>3, <1>4, <1>5, <1>6, <1>7 DEF Next, Reconciler, Environment

(***************************************************************************)
(* Every state the Redis reconciler and the writers of the TLS secret can  *)
(* reach is well typed; in particular the failures injected into UseTLS's  *)
(* calls and into the template loads never pass MaxFaults.                 *)
(***************************************************************************)
THEOREM RedisTypeCorrect == Spec => []TypeOK
BY InitTypeOK, TypeOKStep, PTL DEF Spec

LEMMA InitIInv == Init => IInv
<1> SUFFICES ASSUME Init PROVE IInv
  OBVIOUS
<1>1. ~ConfTLS
  BY DEF Init, ConfTLS, Empty
<1>2. QED
  BY <1>1, InitTypeOK DEF Init, IInv, QuiescentTLSBacked, RenderTLSBacked, Quiescent

(***************************************************************************)
(* A configuration rendered from rr.TLSEnabled = FALSE switches TLS on in   *)
(* no template, whichever templates failed to load.                        *)
(***************************************************************************)
LEMMA RenderedOffNoTLS ==
    ASSUME NEW failed \in SUBSET Templates,
           conf' = [t \in Templates |->
                          IF t \in failed THEN Empty ELSE Rendered(tlsEnabled)],
           ConfTLS'
    PROVE  tlsEnabled
BY DEF ConfTLS, Empty, Rendered

LEMMA NextIInv == IInv /\ [Next]_vars => IInv'
<1> SUFFICES ASSUME IInv, [Next]_vars PROVE IInv'
  OBVIOUS
<1>0. TypeOK'
  BY TypeOKStep DEF IInv
<1> USE DEF IInv, QuiescentTLSBacked, RenderTLSBacked, Quiescent
<1>1. CASE Start
  BY <1>0, <1>1 DEF Start
<1>2. CASE UseTLSGetSecret
  BY <1>0, <1>2, Zenon DEF UseTLSGetSecret, Decide
<1>3. CASE UseTLSFindOwner
  <2>1. pc' = "render" /\ (tlsEnabled' => tlsSecret' = "owned")
    BY <1>3, Zenon DEF UseTLSFindOwner, Decide
  <2>2. QED
    BY <1>0, <2>1
<1>4. CASE RenderConf
  <2>1. pc = "render" /\ pc' = "idle" /\ UNCHANGED <<tlsSecret, tlsEnabled, queued>>
    BY <1>4 DEF RenderConf
  <2>2. PICK failed \in SUBSET Templates :
             conf' = [t \in Templates |->
                        IF t \in failed THEN Empty ELSE Rendered(tlsEnabled)]
    BY <1>4 DEF RenderConf
  <2>3. ConfTLS' => tlsEnabled
    BY <2>2, RenderedOffNoTLS
  <2>4. QED
    BY <1>0, <2>1, <2>3
<1>5. CASE CreateTLSSecret
  BY <1>0, <1>5 DEF CreateTLSSecret, EnvEvent
<1>6. CASE DeleteTLSSecret
  BY <1>0, <1>6 DEF DeleteTLSSecret, EnvEvent
<1>7. CASE UNCHANGED vars
  BY <1>0, <1>7 DEF vars, ConfTLS
<1>8. QED
  BY <1>1, <1>2, <1>3, <1>4, <1>5, <1>6, <1>7 DEF Next, Reconciler, Environment

(***************************************************************************)
(* Whenever the Redis reconciler has nothing left to do, a configuration   *)
(* that switches TLS on is backed by an owned TLS secret, however UseTLS's *)
(* two reads interleave with the secret's deletion and recreation: the    *)
(* deletion's watch event always sends the reconciler round again.         *)
(***************************************************************************)
THEOREM QuiescentTLSBackedHolds == Spec => []QuiescentTLSBacked
<1>1. Spec => []IInv
  BY InitIInv, NextIInv, PTL DEF Spec
<1>2. IInv => QuiescentTLSBacked
  BY DEF IInv
<1>3. QED
  BY <1>1, <1>2, PTL

(***************************************************************************)
(* Every step keeps the rendered configuration backed: only RenderConf     *)
(* writes `conf`, and it switches TLS on only from rr.TLSEnabled, which    *)
(* RenderTLSBacked covers.                                                 *)
(***************************************************************************)
LEMMA RenderedStepBacked ==
    IInv /\ [Next]_vars =>
        [ConfTLS' /\ conf' # conf => tlsSecret = "owned" \/ queued]_vars
<1> SUFFICES ASSUME IInv, [Next]_vars,
                    ConfTLS', conf' # conf
             PROVE  tlsSecret = "owned" \/ queued
  BY DEF vars
<1>1. CASE RenderConf
  <2>1. PICK failed \in SUBSET Templates :
               conf' = [t \in Templates |->
                              IF t \in failed THEN Empty ELSE Rendered(tlsEnabled)]
    BY <1>1 DEF RenderConf
  <2>2. tlsEnabled /\ pc = "render"
    BY <1>1, <2>1, RenderedOffNoTLS DEF RenderConf
  <2>3. QED
    BY <2>2 DEF IInv, RenderTLSBacked
<1>2. QED
  BY <1>1 DEF Next, Reconciler, Environment, Start, UseTLSGetSecret,
              UseTLSFindOwner, CreateTLSSecret, DeleteTLSSecret, EnvEvent, vars

(***************************************************************************)
(* The Redis configuration is switched to TLS only while the TLS secret is *)
(* owned or a reconcile that will revisit UseTLS's answer is queued, for   *)
(* every interleaving of UseTLS's reads with the secret's writers.         *)
(***************************************************************************)
THEOREM TLSRenderedOnlyWhenBackedHolds == Spec => TLSRenderedOnlyWhenBacked
<1>1. Spec => []IInv
  BY InitIInv, NextIInv, PTL DEF Spec
<1>2. QED
  BY <1>1, RenderedStepBacked, PTL DEF Spec, TLSRenderedOnlyWhenBacked

=============================================================================
