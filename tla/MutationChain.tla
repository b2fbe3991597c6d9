----------------------------- MODULE MutationChain -----------------------------
(***************************************************************************)
(* workloads.RequestDeployment (pkg/workloads/deployment.go): the desired  *)
(* Deployment is built by newDeployment and then passed through the        *)
(* request's mutation functions in order.  Every mutation is applied even  *)
(* after one failed; the error kept is the last non-nil one, and the       *)
(* Deployment is returned together with it.                                *)
(*                                                                         *)
(* The results the mutation functions will return are chosen in Init, for *)
(* every list of up to MaxMutations functions; an error is named by the    *)
(* position of the function that returned it, 0 standing for nil.         *)
(***************************************************************************)
EXTENDS Naturals, Sequences

CONSTANT MaxMutations   \* bound on the length of request.Mutations

ASSUME MutationBoundAssumption == MaxMutations \in Nat

Outcomes == {"ok", "fail"}

\* Every list of mutation results of up to MaxMutations functions.
OutcomeLists == UNION {[1..n -> Outcomes] : n \in 0..MaxMutations}

VARIABLES
    outcomes,       \* what each mutation function returns, in order
    pc,             \* where RequestDeployment is
    i,              \* the next mutation function to call
    mutationErr,    \* the error kept so far (0: nil)
    resultErr       \* the error RequestDeployment returned (0: nil)

vars == <<outcomes, pc, i, mutationErr, resultErr>>

N == MaxMutations

TypeOK ==
    /\ outcomes \in OutcomeLists
    /\ pc \in {"start", "loop", "done"}
    /\ i \in 1..(N + 1)
    /\ mutationErr \in 0..N
    /\ resultErr \in 0..N

Init ==
    /\ outcomes \in OutcomeLists
    /\ pc = "start"
    /\ i = 1
    /\ mutationErr = 0
    /\ resultErr = 0

\* The error the k-th mutation function returns.
ErrOf(k) == IF outcomes[k] = "fail" THEN k ELSE 0

-----------------------------------------------------------------------------
(***************************************************************************)
(* newDeployment builds the object from the request; without mutation     *)
(* functions it is returned with nil at once.                              *)
(***************************************************************************)
NewDeployment ==
    /\ pc = "start"
    /\ pc' = IF DOMAIN outcomes = {} THEN "done" ELSE "loop"
    /\ UNCHANGED <<outcomes, i, mutationErr, resultErr>>

\* Mutant: the `if err != nil` guard dropped, so a later success erases an
\* earlier error.
ApplyMutationUnguarded ==
    /\ pc = "loop"
    /\ i \in DOMAIN outcomes
    /\ mutationErr' = ErrOf(i)
    /\ i' = i + 1
    /\ UNCHANGED <<outcomes, pc, resultErr>>

\* One turn of the loop: the mutation is called and a non-nil error kept.
ApplyMutation ==
    /\ pc = "loop"
    /\ i \in DOMAIN outcomes
    /\ mutationErr' = IF ErrOf(i) # 0 THEN ErrOf(i) ELSE mutationErr
    /\ i' = i + 1
    /\ UNCHANGED <<outcomes, pc, resultErr>>

\* After the loop, the kept error (wrapped with %s) or nil is returned.
ReturnDeployment ==
    /\ pc = "loop"
    /\ i \notin DOMAIN outcomes
    /\ resultErr' = mutationErr
    /\ pc' = "done"
    /\ UNCHANGED <<outcomes, i, mutationErr>>

Next == NewDeployment \/ ApplyMutation \/ ReturnDeployment

Spec == Init /\ [][Next]_vars

-----------------------------------------------------------------------------
(* Reference.                                                               *)

\* The positions among the first n mutation functions that failed.
FailuresUpTo(n) == {k \in 1..n : k \in DOMAIN outcomes /\ outcomes[k] = "fail"}

\* The largest position of a set of positions, or 0 for the empty set.
LastOf(S) == IF S = {} THEN 0 ELSE CHOOSE k \in S : \A j \in S : j <= k

\* The last failure among the first n functions, or 0 when none failed.
LastFailureUpTo(n) == LastOf(FailuresUpTo(n))

(***************************************************************************)
(* RequestDeployment returns an error exactly when some mutation function  *)
(* failed, and that error is the one of the last function that failed,     *)
(* whatever the functions after it returned.                               *)
(***************************************************************************)
ReturnsLastFailure ==
    pc = "done" => resultErr = LastFailureUpTo(N)

=============================================================================
