------------------------ MODULE AtomicSecretReconcile ------------------------
(***************************************************************************)
(* What the notifications secret reconciliation promises, with every       *)
(* reconcile taken as one atomic step: the operator creates the secret     *)
(* when it is missing from a live namespace, may put a drifted secret back *)
(* to the desired one, and removes it only from a terminating namespace    *)
(* (itself or through the namespace controller).  Users may delete or      *)
(* edit the secret and delete the namespace at any time; userWrites counts *)
(* their writes, so that a removal is told apart from a user's.            *)
(***************************************************************************)
EXTENDS Naturals

VARIABLES
    secret,         \* "none", or the labels of the stored secret
    nsTerminating,  \* the namespace is being deleted
    userWrites      \* writes made by users so far

vars == <<secret, nsTerminating, userWrites>>

SecretValues == {"none", "desired", "drifted"}

Init ==
    /\ secret \in {"none", "desired"}
    /\ nsTerminating = FALSE
    /\ userWrites = 0

\* The operator creates the missing secret in a live namespace.
Create ==
    /\ secret = "none"
    /\ ~nsTerminating
    /\ secret' = "desired"
    /\ UNCHANGED <<nsTerminating, userWrites>>

\* The operator puts a drifted secret back to the desired one.
Repair ==
    /\ secret = "drifted"
    /\ ~nsTerminating
    /\ secret' = "desired"
    /\ UNCHANGED <<nsTerminating, userWrites>>

\* The secret goes with its terminating namespace.
Remove ==
    /\ nsTerminating
    /\ secret # "none"
    /\ secret' = "none"
    /\ UNCHANGED <<nsTerminating, userWrites>>

UserWrite ==
    /\ userWrites' = userWrites + 1
    /\ \/ secret # "none" /\ secret' = "none" /\ UNCHANGED nsTerminating
       \/ secret # "none" /\ secret' = "drifted" /\ UNCHANGED nsTerminating
       \/ ~nsTerminating /\ nsTerminating' = TRUE /\ UNCHANGED secret

Next == Create \/ Repair \/ Remove \/ UserWrite

(***************************************************************************)
(* A live namespace that lacks the secret gets it: creation is weakly      *)
(* fair.  Repair is allowed and not required.                              *)
(***************************************************************************)
Spec == Init /\ [][Next]_vars /\ WF_vars(Create)

=============================================================================
