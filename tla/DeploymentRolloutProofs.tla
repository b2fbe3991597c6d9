------------------------- MODULE DeploymentRolloutProofs -------------------------
(***************************************************************************)
(* Proofs about DeploymentRollout, for every bound on the other writers'   *)
(* writes, the callback's writes and the failed Gets.                      *)
(***************************************************************************)
EXTENDS DeploymentRollout, TLAPS

(***************************************************************************)
(* Neither NoLostUpdate nor TypeOK is inductive.  A trigger holding a copy *)
(* read before another writer's update would write the older spec back,   *)
(* and what keeps it from doing so is the resourceVersion: the stored      *)
(* object carries the last version handed out, a copy never carries a     *)
(* later one, and a copy that still carries the stored version has the    *)
(* stored spec and template.  The bound on resourceVersions holds because *)
(* every version handed out is paid for by an acknowledged spec change or *)
(* by a template change, and the stored object keeps both counts: the     *)
(* trigger's accepted write-back is the stored object itself, a no-op.    *)
(***************************************************************************)
FreshCopy ==
    current.rv = dep.rv => /\ current.spec = dep.spec
                          /\ current.template = dep.template

IInv ==
    /\ TypeOK
    /\ dep.rv = rvClock
    /\ rvClock = 1 + acked + dep.template
    /\ dep.spec = acked
    /\ current.rv \in 1..rvClock
    /\ current.spec <= dep.spec
    /\ current.template <= dep.template
    /\ FreshCopy

LEMMA InitIInv == Init => IInv
<1> SUFFICES ASSUME Init PROVE IInv
  OBVIOUS
<1>1. PICK e \in BOOLEAN : dep = [exists |-> e, rv |-> 1, spec |-> 0, template |-> 0]
  BY DEF Init
<1>2. tpc = "idle" /\ ret = "nil"
  BY DEF Init
<1>3. dep \in Deployments
  BY <1>1, RolloutBoundsAssumption DEF Deployments, RVs, MaxRV
<1>4. QED
  BY <1>1, <1>2, <1>3, RolloutBoundsAssumption
     DEF Init, IInv, TypeOK, FreshCopy, MaxRV

(***************************************************************************)
(* A write that pays for its resourceVersion with one more spec change or  *)
(* one more template change keeps the stored object a Deployment, and     *)
(* moves it, and the clock, one version on.                                *)
(***************************************************************************)
LEMMA StoreType ==
    ASSUME IInv,
           NEW s \in 0..MaxEnvWrites, NEW t \in 0..MaxStamps,
           rvClock' = rvClock + 1,
           dep' = [exists |-> TRUE, rv |-> rvClock + 1, spec |-> s, template |-> t],
           s + t = dep.spec + dep.template + 1
    PROVE  /\ dep' \in Deployments
           /\ rvClock' \in 1..MaxRV
           /\ dep'.rv = rvClock'
<1>1. rvClock + 1 = 1 + s + t
  BY DEF IInv, TypeOK, Deployments
<1>2. rvClock + 1 \in 1..MaxRV
  BY <1>1, RolloutBoundsAssumption DEF MaxRV
<1>3. QED
  BY <1>2 DEF Deployments, RVs

LEMMA NextIInv == IInv /\ [Next]_vars => IInv'
<1> SUFFICES ASSUME IInv, [Next]_vars PROVE IInv'
  OBVIOUS
<1> USE RolloutBoundsAssumption
<1>1. CASE TriggerCall
  <2>1. tpc' = "get" /\ UNCHANGED <<dep, rvClock, acked, current, ret, faults>>
    BY <1>1 DEF TriggerCall
  <2>2. QED
    BY <2>1 DEF IInv, TypeOK, FreshCopy
<1>2. CASE TriggerGet
  <2>1. UNCHANGED <<dep, rvClock, acked>>
    BY <1>2 DEF TriggerGet
  <2>2. CASE faults < MaxFaults /\ faults' = faults + 1 /\ tpc' = "idle"
             /\ ret' = "err" /\ UNCHANGED current
    BY <2>1, <2>2 DEF IInv, TypeOK, FreshCopy
  <2>3. CASE ~dep.exists /\ tpc' = "idle" /\ ret' = "nil" /\ UNCHANGED <<current, faults>>
    BY <2>1, <2>3 DEF IInv, TypeOK, FreshCopy
  <2>4. CASE dep.exists /\ current' = dep /\ tpc' = "callback" /\ UNCHANGED <<ret, faults>>
    BY <2>1, <2>4 DEF IInv, TypeOK, FreshCopy, Deployments, RVs
  <2>5. QED
    BY <1>2, <2>2, <2>3, <2>4 DEF TriggerGet
<1>3. CASE TriggerCallback
  <2>1. tpc = "callback" /\ tpc' = "update" /\ UNCHANGED <<acked, current, ret, faults>>
    BY <1>3 DEF TriggerCallback
  <2>2. CASE UNCHANGED <<dep, rvClock>>
    BY <2>1, <2>2 DEF IInv, TypeOK, FreshCopy
  <2>3. CASE /\ dep.exists
             /\ dep.template < MaxStamps
             /\ Store([dep EXCEPT !.template = dep.template + 1])
    <3>1. dep \in Deployments /\ dep.rv = rvClock
      BY DEF IInv, TypeOK
    <3>2. rvClock' = rvClock + 1
          /\ dep' = [exists |-> TRUE, rv |-> rvClock + 1, spec |-> dep.spec,
                     template |-> dep.template + 1]
      BY <2>3, <3>1 DEF Store, Deployments
    <3>3. dep' \in Deployments /\ rvClock' \in 1..MaxRV /\ dep'.rv = rvClock'
      BY <2>3, <3>1, <3>2, StoreType DEF Deployments
    <3>4. current.rv # dep'.rv /\ current.rv \in 1..rvClock'
      BY <3>1, <3>2 DEF IInv
    <3>5. QED
      BY <2>1, <3>1, <3>2, <3>3, <3>4 DEF IInv, TypeOK, FreshCopy, Deployments
  <2>4. QED
    BY <1>3, <2>2, <2>3 DEF TriggerCallback
<1>4. CASE TriggerUpdate
  <2>1. tpc = "update" /\ tpc' = "idle" /\ UNCHANGED <<acked, current, faults>>
    BY <1>4 DEF TriggerUpdate
  <2>2. ret' \in {"nil", "err"}
    BY <1>4 DEF TriggerUpdate
  <2>3. CASE UpdateAccepted(current)
    <3>1. current.rv = dep.rv /\ dep.exists
      <4>1. current.rv # 0
        BY DEF IInv
      <4>2. QED
        BY <2>3, <4>1 DEF UpdateAccepted
    <3>2. current.exists
      BY <2>1 DEF IInv, TypeOK
    <3>3. [current EXCEPT !.rv = dep.rv] = dep
      BY <3>1, <3>2 DEF IInv, TypeOK, FreshCopy, Deployments
    <3>4. UNCHANGED <<dep, rvClock>>
      BY <1>4, <2>3, <3>3 DEF TriggerUpdate, Write
    <3>5. QED
      BY <2>1, <2>2, <3>4 DEF IInv, TypeOK, FreshCopy
  <2>4. CASE ~UpdateAccepted(current)
    <3>1. UNCHANGED <<dep, rvClock>>
      BY <1>4, <2>4 DEF TriggerUpdate
    <3>2. QED
      BY <2>1, <2>2, <3>1 DEF IInv, TypeOK, FreshCopy
  <2>5. QED
    BY <2>3, <2>4
<1>5. CASE DeleteDeployment
  <2>1. dep' = [dep EXCEPT !.exists = FALSE]
        /\ UNCHANGED <<rvClock, acked, tpc, current, ret, faults>>
    BY <1>5 DEF DeleteDeployment
  <2>2. QED
    BY <2>1 DEF IInv, TypeOK, FreshCopy, Deployments
<1>6. CASE OtherWrite
  <2>1. dep \in Deployments /\ dep.rv = rvClock
    BY DEF IInv, TypeOK
  <2>2. /\ rvClock' = rvClock + 1
        /\ dep' = [exists |-> TRUE, rv |-> rvClock + 1, spec |-> dep.spec + 1,
                   template |-> dep.template]
        /\ acked' = dep.spec + 1
        /\ dep.spec < MaxEnvWrites
        /\ UNCHANGED <<tpc, current, ret, faults>>
    BY <1>6, <2>1 DEF OtherWrite, Store, Deployments
  <2>3. dep' \in Deployments /\ rvClock' \in 1..MaxRV /\ dep'.rv = rvClock'
    BY <2>1, <2>2, StoreType DEF Deployments
  <2>4. current.rv # dep'.rv /\ current.rv \in 1..rvClock'
    BY <2>1, <2>2 DEF IInv
  <2>5. acked' \in 0..MaxEnvWrites
    BY <2>1, <2>2 DEF Deployments
  <2>6. QED
    BY <2>1, <2>2, <2>3, <2>4, <2>5 DEF IInv, TypeOK, FreshCopy, Deployments
<1>7. CASE UNCHANGED vars
  BY <1>7 DEF vars, IInv, TypeOK, FreshCopy
<1>8. QED
  BY <1>1, <1>2, <1>3, <1>4, <1>5, <1>6, <1>7 DEF Next, Trigger

(***************************************************************************)
(* For every bound, every state of TriggerDeploymentRollout, its callback, *)
(* the other writers and deleteDeployment is well typed: past the Get,     *)
(* currentDeployment is never the nil of a NotFound, and the API server    *)
(* hands out at most one resourceVersion per spec or template change,      *)
(* since the trigger's accepted write-back is a no-op.                     *)
(***************************************************************************)
THEOREM RolloutTypeCorrect == Spec => []TypeOK
<1>1. IInv => TypeOK
  BY DEF IInv
<1>2. QED
  BY InitIInv, NextIInv, <1>1, PTL DEF Spec

(***************************************************************************)
(* For every bound, no write acknowledged to another writer of the         *)
(* Deployment is lost to TriggerDeploymentRollout's write-back of the      *)
(* object it read (the property NoLostUpdate).                             *)
(***************************************************************************)
THEOREM NoLostUpdateHolds == Spec => []NoLostUpdate
<1>1. IInv => NoLostUpdate
  BY DEF IInv, NoLostUpdate
<1>2. QED
  BY InitIInv, NextIInv, <1>1, PTL DEF Spec
=============================================================================
