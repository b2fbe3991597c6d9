---------------------------- MODULE MCMutationChain ----------------------------
(* Every list of up to four mutation results.                              *)
EXTENDS MutationChain

MCMaxMutations == 4
=============================================================================
