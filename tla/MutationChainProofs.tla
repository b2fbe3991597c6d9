--------------------------- MODULE MutationChainProofs ---------------------------
(***************************************************************************)
(* Proofs about MutationChain, for every MaxMutations.                     *)
(***************************************************************************)
EXTENDS MutationChain, TLAPS

(***************************************************************************)
(* Inductive invariant: the error kept after the first i-1 mutation        *)
(* functions is the last failure among them; a returned error is the one   *)
(* kept when the loop ended past the last function.                        *)
(***************************************************************************)
IInv ==
    /\ TypeOK
    /\ i - 1 <= N
    /\ \A k \in 1..(i - 1) : k \in DOMAIN outcomes
    /\ mutationErr = LastFailureUpTo(i - 1)
    /\ pc = "start" => i = 1 /\ mutationErr = 0 /\ resultErr = 0
    /\ pc = "done" => /\ i \notin DOMAIN outcomes
                      /\ resultErr = mutationErr

\* Each list of mutation results is a function on 1..n, for some n up to N.
LEMMA OutcomeListDomain ==
    ASSUME NEW o \in OutcomeLists
    PROVE  \E n \in 0..N : /\ DOMAIN o = 1..n
                           /\ \A k \in 1..n : o[k] \in Outcomes
BY MutationBoundAssumption DEF OutcomeLists, N

(***************************************************************************)
(* One more turn of the loop: the last failure among the first j functions *)
(* is j if the j-th failed, and the last failure among the first j-1       *)
(* otherwise.                                                              *)
(***************************************************************************)
LEMMA LastFailureStep ==
    ASSUME NEW j \in Nat \ {0}, j \in DOMAIN outcomes
    PROVE  LastFailureUpTo(j) =
              IF outcomes[j] = "fail" THEN j ELSE LastFailureUpTo(j - 1)
<1>1. CASE outcomes[j] = "fail"
  <2>1. j \in FailuresUpTo(j)
    BY <1>1 DEF FailuresUpTo
  <2>2. \A k \in FailuresUpTo(j) : k <= j
    BY DEF FailuresUpTo
  <2>3. QED
    BY <1>1, <2>1, <2>2 DEF LastFailureUpTo, LastOf
<1>2. CASE outcomes[j] # "fail"
  <2>1. FailuresUpTo(j) = FailuresUpTo(j - 1)
    BY <1>2 DEF FailuresUpTo
  <2>2. QED
    BY <1>2, <2>1 DEF LastFailureUpTo
<1>3. QED
  BY <1>1, <1>2

\* No failure among no functions.
LEMMA LastFailureNone == LastFailureUpTo(0) = 0
<1>1. FailuresUpTo(0) = {}
  BY DEF FailuresUpTo
<1>2. QED
  BY <1>1 DEF LastFailureUpTo, LastOf

\* Past the last function, the functions up to N have no more failures.
LEMMA LastFailureAll ==
    ASSUME NEW n \in 0..N, DOMAIN outcomes = 1..n
    PROVE  LastFailureUpTo(n) = LastFailureUpTo(N)
<1>1. FailuresUpTo(n) = FailuresUpTo(N)
  BY MutationBoundAssumption DEF FailuresUpTo, N
<1>2. QED
  BY <1>1 DEF LastFailureUpTo

LEMMA InitIInv == Init => IInv
<1> SUFFICES ASSUME Init PROVE IInv
  OBVIOUS
<1>1. TypeOK
  BY MutationBoundAssumption DEF Init, TypeOK, N
<1>2. QED
  BY <1>1, LastFailureNone, MutationBoundAssumption DEF Init, IInv, N

LEMMA NextIInv == IInv /\ [Next]_vars => IInv'
<1> SUFFICES ASSUME IInv, [Next]_vars PROVE IInv'
  OBVIOUS
<1>1. outcomes \in OutcomeLists
  BY DEF IInv, TypeOK
<1>2. PICK n \in 0..N : /\ DOMAIN outcomes = 1..n
                        /\ \A k \in 1..n : outcomes[k] \in Outcomes
  BY <1>1, OutcomeListDomain
<1>3. ASSUME UNCHANGED <<outcomes, i, mutationErr>>
      PROVE  (mutationErr = LastFailureUpTo(i - 1))'
  <2>1. FailuresUpTo(i - 1)' = FailuresUpTo(i - 1)
    BY <1>3 DEF FailuresUpTo
  <2>2. QED
    BY <1>3, <2>1 DEF IInv, LastFailureUpTo
<1>4. CASE NewDeployment
  BY <1>2, <1>3, <1>4 DEF NewDeployment, IInv, TypeOK
<1>5. CASE ApplyMutation
  <2>1. i \in 1..n /\ i' = i + 1 /\ UNCHANGED outcomes
    BY <1>2, <1>5 DEF ApplyMutation, IInv, TypeOK
  <2>2. mutationErr' = LastFailureUpTo(i)
    <3>1. LastFailureUpTo(i) = IF outcomes[i] = "fail" THEN i ELSE LastFailureUpTo(i - 1)
      BY <1>2, <2>1, LastFailureStep
    <3>2. QED
      BY <1>5, <2>1, <3>1 DEF ApplyMutation, ErrOf, IInv
  <2>3. (mutationErr = LastFailureUpTo(i - 1))'
    <3>1. FailuresUpTo(i - 1)' = FailuresUpTo(i)
      BY <2>1 DEF FailuresUpTo
    <3>2. QED
      BY <2>2, <3>1 DEF LastFailureUpTo
  <2>4. mutationErr' \in 0..N
    <3>1. ErrOf(i) \in 0..N
      BY <1>2, <2>1, MutationBoundAssumption DEF ErrOf, N
    <3>2. mutationErr \in 0..N
      BY DEF IInv, TypeOK
    <3>3. QED
      BY <1>5, <3>1, <3>2 DEF ApplyMutation
  <2>5. TypeOK'
    <3>1. i' \in 1..(N + 1)
      BY <1>2, <2>1, MutationBoundAssumption DEF N
    <3>2. QED
      BY <1>5, <2>1, <2>4, <3>1 DEF ApplyMutation, IInv, TypeOK
  <2>6. (i - 1 <= N /\ \A k \in 1..(i - 1) : k \in DOMAIN outcomes)'
    BY <1>2, <2>1, MutationBoundAssumption DEF N
  <2>7. pc' = "loop"
    BY <1>5 DEF ApplyMutation
  <2>8. QED
    BY <2>3, <2>5, <2>6, <2>7 DEF IInv
<1>6. CASE ReturnDeployment
  BY <1>3, <1>6 DEF ReturnDeployment, IInv, TypeOK
<1>7. CASE UNCHANGED vars
  BY <1>3, <1>7 DEF vars, IInv, TypeOK
<1>8. QED
  BY <1>4, <1>5, <1>6, <1>7 DEF Next

(***************************************************************************)
(* For every bound on the number of mutation functions, RequestDeployment  *)
(* returns the error of the last mutation function that failed, and nil    *)
(* when none failed (the property ReturnsLastFailure).                     *)
(***************************************************************************)
THEOREM ReturnsLastFailureCorrect == Spec => []ReturnsLastFailure
<1>1. IInv => ReturnsLastFailure
  <2> SUFFICES ASSUME IInv, pc = "done" PROVE resultErr = LastFailureUpTo(N)
    BY DEF ReturnsLastFailure
  <2>0. outcomes \in OutcomeLists
    BY DEF IInv, TypeOK
  <2>1. PICK n \in 0..N : /\ DOMAIN outcomes = 1..n
                          /\ \A k \in 1..n : outcomes[k] \in Outcomes
    BY <2>0, OutcomeListDomain
  <2>2. i - 1 = n
    BY <2>1 DEF IInv, TypeOK
  <2>3. QED
    BY <2>1, <2>2, LastFailureAll DEF IInv
<1>2. QED
  BY InitIInv, NextIInv, <1>1, PTL DEF Spec
=============================================================================
