---------------------------- MODULE MCLoanService ----------------------------
(* Threads and loan ids are interchangeable. *)
EXTENDS LoanService, TLC

Symmetric == Permutations(Threads) \union Permutations(Ids)
==============================================================================
