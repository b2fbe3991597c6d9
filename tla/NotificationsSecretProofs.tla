----------------------- MODULE NotificationsSecretProofs -----------------------
(***************************************************************************)
(* Proofs about NotificationsSecret, for every value of MaxFaults and      *)
(* MaxEnvEvents allowed by BoundsAssumption.                               *)
(***************************************************************************)
EXTENDS NotificationsSecret, TLAPS

(***************************************************************************)
(* The secret reconcileSecret creates is a stored secret, and is not the   *)
(* value that stands for "not found".                                      *)
(***************************************************************************)
LEMMA DesiredSecretType == DesiredSecret \in Secrets /\ DesiredSecret # NoSecret
<1>1. DesiredSecret \in Secrets
  BY DEF DesiredSecret, Secrets, Labels
<1>2. DesiredSecret.present # NoSecret.present
  BY DEF DesiredSecret, NoSecret
<1>3. QED
  BY <1>1, <1>2

(***************************************************************************)
(* Every step, of the reconciler or of the rest of the cluster, keeps each *)
(* variable in its type.                                                   *)
(***************************************************************************)
LEMMA TypeOKStep == TypeOK /\ [Next]_vars => TypeOK'
<1> SUFFICES ASSUME TypeOK, [Next]_vars PROVE TypeOK'
  OBVIOUS
<1> USE DEF Next, Reconciler, Environment, vars, TypeOK,
            RequestSecret, GetNamespace, DeleteSecret, GetSecret, CreateSecret,
            UserDeleteSecret, UserEditSecret, DeleteNamespace, NamespaceCleanup,
            Return, Fault, EnvEvent
<1>1. secret' \in Secrets \cup {NoSecret}
  <2>1. DesiredSecret \in Secrets
    BY DesiredSecretType
  <2>2. CASE UserEditSecret
    <3>1. secret \in Secrets
      BY <2>2 DEF Secrets, NoSecret
    <3>2. QED
      BY <2>2, <3>1 DEF Secrets, Labels
  <2>3. CASE RequestSecret \/ GetNamespace \/ DeleteSecret \/ GetSecret
             \/ UserDeleteSecret \/ DeleteNamespace \/ NamespaceCleanup
             \/ UNCHANGED vars
    BY <2>3
  <2>4. CASE CreateSecret
    BY <2>1, <2>4
  <2>5. QED
    BY <2>2, <2>3, <2>4
<1>2. nsTerminating' \in BOOLEAN
  OBVIOUS
<1>3. pc' \in PCs
  BY DEF PCs
<1>4. queued' \in BOOLEAN
  OBVIOUS
<1>5. faults' \in 0..MaxFaults
  BY BoundsAssumption
<1>6. envEvents' \in 0..MaxEnvEvents
  BY BoundsAssumption
<1>7. QED
  BY <1>1, <1>2, <1>3, <1>4, <1>5, <1>6

(***************************************************************************)
(* The operator's initial states are well typed.                           *)
(***************************************************************************)
LEMMA InitTypeOK == Init => TypeOK
<1> SUFFICES ASSUME Init PROVE TypeOK
  OBVIOUS
<1>1. secret \in Secrets \cup {NoSecret}
  BY DesiredSecretType DEF Init
<1>2. pc \in PCs
  BY DEF Init, PCs
<1>3. faults \in 0..MaxFaults /\ envEvents \in 0..MaxEnvEvents
  BY BoundsAssumption DEF Init
<1>4. QED
  BY <1>1, <1>2, <1>3 DEF Init, TypeOK

(***************************************************************************)
(* Every state reachable by reconcileSecret and the rest of the cluster    *)
(* gives each variable a value of its type.                                *)
(***************************************************************************)
THEOREM TypeCorrect == Spec => []TypeOK
BY InitTypeOK, TypeOKStep, PTL DEF Spec

-----------------------------------------------------------------------------
(***************************************************************************)
(* QuiescentSecretPresent is not inductive by itself: a reconcile that is  *)
(* about to take the deletion branch returns success with the secret gone, *)
(* and that is only harmless because it saw a terminating namespace, and a *)
(* namespace never stops terminating.  IInv records that fact.             *)
(***************************************************************************)
DeleteOnlyWhenTerminating == pc = "delete" => nsTerminating

IInv ==
    /\ TypeOK
    /\ QuiescentSecretPresent
    /\ DeleteOnlyWhenTerminating

LEMMA InitIInv == Init => IInv
BY InitTypeOK DEF Init, IInv, QuiescentSecretPresent, Quiescent, DeleteOnlyWhenTerminating

(***************************************************************************)
(* No step leads into a state where the reconciler has nothing left to do  *)
(* in a live namespace and the secret is missing: each step that ends a    *)
(* reconcile without error either found or created the secret, or took the *)
(* deletion branch, which DeleteOnlyWhenTerminating ties to a terminating  *)
(* namespace; each write that removes the secret enqueues a request.       *)
(***************************************************************************)
LEMMA NextIInv == IInv /\ [Next]_vars => IInv'
<1> SUFFICES ASSUME IInv, [Next]_vars PROVE IInv'
  OBVIOUS
<1>1. TypeOK'
  BY TypeOKStep DEF IInv
<1>2. DeleteOnlyWhenTerminating'
  BY DEF IInv, DeleteOnlyWhenTerminating, Next, Reconciler, Environment, vars,
         RequestSecret, GetNamespace, DeleteSecret, GetSecret, CreateSecret,
         UserDeleteSecret, UserEditSecret, DeleteNamespace, NamespaceCleanup,
         Return, Fault, EnvEvent
<1>3. QuiescentSecretPresent'
  <2> USE DEF IInv, QuiescentSecretPresent, Quiescent, Return, Fault, EnvEvent
  <2>1. CASE RequestSecret     BY <2>1 DEF RequestSecret
  <2>2. CASE GetNamespace      BY <2>2 DEF GetNamespace
  <2>3. CASE DeleteSecret      BY <2>3 DEF DeleteSecret, DeleteOnlyWhenTerminating
  <2>4. CASE GetSecret         BY <2>4 DEF GetSecret
  <2>5. CASE CreateSecret      BY <2>5, DesiredSecretType DEF CreateSecret
  <2>6. CASE UserDeleteSecret  BY <2>6 DEF UserDeleteSecret
  <2>7. CASE UserEditSecret    BY <2>7 DEF UserEditSecret, NoSecret
  <2>8. CASE DeleteNamespace   BY <2>8 DEF DeleteNamespace
  <2>9. CASE NamespaceCleanup  BY <2>9 DEF NamespaceCleanup
  <2>10. CASE UNCHANGED vars   BY <2>10 DEF vars
  <2>11. QED
    BY <2>1, <2>2, <2>3, <2>4, <2>5, <2>6, <2>7, <2>8, <2>9, <2>10
       DEF Next, Reconciler, Environment
<1>4. QED
  BY <1>1, <1>2, <1>3 DEF IInv

(***************************************************************************)
(* Whenever reconcileSecret has nothing left to do and the namespace is    *)
(* live, the notifications secret exists, whatever user writes, namespace  *)
(* deletion and transient API errors came between its calls (the          *)
(* property QuiescentSecretPresent, for every bound).                      *)
(***************************************************************************)
THEOREM SecretPresentWhenQuiescent == Spec => []QuiescentSecretPresent
<1>1. IInv => QuiescentSecretPresent
  BY DEF IInv
<1>2. QED BY InitIInv, NextIInv, <1>1, PTL DEF Spec

-----------------------------------------------------------------------------
(***************************************************************************)
(* Refinement of AtomicSecretReconcile, safety part: the initial states    *)
(* map to initial states, and every step maps to a step of the atomic      *)
(* specification or to a stutter.  The weak fairness of its Create is      *)
(* liveness and is left to TLC (property AtomicSpec).                      *)
(***************************************************************************)
AtomicSafety == A!Init /\ [][A!Next]_A!vars

\* A stored secret is seen through a label, never as "none".
LEMMA StoredSecretSeen ==
    ASSUME NEW s \in Secrets
    PROVE  /\ s # NoSecret
           /\ (IF s = NoSecret THEN "none" ELSE s.label) \in {"desired", "drifted"}
<1>1. s.present # NoSecret.present
  BY DEF Secrets, NoSecret
<1>2. QED
  BY <1>1 DEF Secrets, Labels

LEMMA InitRefines == Init => A!Init
BY DEF Init, A!Init, AbsSecret, DesiredSecret

LEMMA NextRefines == IInv /\ [Next]_vars => [A!Next]_A!vars
<1> SUFFICES ASSUME IInv, [Next]_vars PROVE [A!Next]_A!vars
  OBVIOUS
<1> USE DEF IInv, TypeOK, Return, Fault, EnvEvent
<1>1. CASE RequestSecret \/ GetNamespace \/ GetSecret \/ UNCHANGED vars
  BY <1>1 DEF RequestSecret, GetNamespace, GetSecret, vars, A!vars, AbsSecret
<1>2. CASE DeleteSecret
  <2>1. CASE secret' = NoSecret /\ secret # NoSecret
    <3>1. nsTerminating
      BY <1>2 DEF DeleteSecret, DeleteOnlyWhenTerminating
    <3>2. AbsSecret # "none" /\ AbsSecret' = "none"
      BY <2>1, StoredSecretSeen DEF AbsSecret
    <3>3. QED
      BY <1>2, <3>1, <3>2 DEF DeleteSecret, A!Next, A!Remove
  <2>2. CASE ~(secret' = NoSecret /\ secret # NoSecret)
    BY <1>2, <2>2 DEF DeleteSecret, A!vars, AbsSecret
  <2>3. QED
    BY <2>1, <2>2
<1>3. CASE CreateSecret
  <2>1. CASE secret = NoSecret /\ ~nsTerminating /\ secret' = DesiredSecret
    <3>1. AbsSecret = "none" /\ AbsSecret' = "desired"
      BY <2>1, DesiredSecretType DEF AbsSecret, DesiredSecret
    <3>2. QED
      BY <1>3, <2>1, <3>1 DEF CreateSecret, A!Next, A!Create
  <2>2. CASE ~(secret = NoSecret /\ ~nsTerminating /\ secret' = DesiredSecret)
    BY <1>3, <2>2 DEF CreateSecret, A!vars, AbsSecret
  <2>3. QED
    BY <2>1, <2>2
<1>4. CASE UserDeleteSecret
  <2>1. AbsSecret # "none" /\ AbsSecret' = "none"
    BY <1>4, StoredSecretSeen DEF UserDeleteSecret, AbsSecret
  <2>2. QED
    BY <1>4, <2>1 DEF UserDeleteSecret, A!Next, A!UserWrite
<1>5. CASE UserEditSecret
  <2>1. secret \in Secrets
    BY <1>5 DEF UserEditSecret, Secrets, NoSecret
  <2>2. secret' \in Secrets /\ secret'.label = "drifted"
    BY <1>5, <2>1 DEF UserEditSecret, Secrets, Labels
  <2>3. AbsSecret # "none" /\ AbsSecret' = "drifted"
    BY <2>1, <2>2, StoredSecretSeen DEF AbsSecret
  <2>4. QED
    BY <1>5, <2>3 DEF UserEditSecret, A!Next, A!UserWrite
<1>6. CASE DeleteNamespace
  BY <1>6 DEF DeleteNamespace, A!Next, A!UserWrite, AbsSecret
<1>7. CASE NamespaceCleanup
  <2>1. AbsSecret # "none" /\ AbsSecret' = "none"
    BY <1>7, StoredSecretSeen DEF NamespaceCleanup, AbsSecret
  <2>2. QED
    BY <1>7, <2>1 DEF NamespaceCleanup, A!Next, A!Remove
<1>8. QED
  BY <1>1, <1>2, <1>3, <1>4, <1>5, <1>6, <1>7 DEF Next, Reconciler, Environment

(***************************************************************************)
(* reconcileSecret, with its API calls interleaved with users' writes, the *)
(* namespace controller and transient errors, implements the atomic        *)
(* specification's safety part: the operator creates the secret only when  *)
(* it is missing from a live namespace and deletes it only from a          *)
(* terminating one.                                                        *)
(***************************************************************************)
THEOREM ImplementsAtomicSafety == Spec => AtomicSafety
<1>1. Spec => []IInv
  BY InitIInv, NextIInv, PTL DEF Spec
<1>2. []IInv /\ [][Next]_vars => [][A!Next]_A!vars
  BY NextRefines, PTL
<1>3. QED
  BY InitRefines, <1>1, <1>2, PTL DEF Spec, AtomicSafety

====
