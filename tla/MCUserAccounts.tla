---------------------------- MODULE MCUserAccounts ----------------------------
(* Threads, hashes and passwords are interchangeable. *)
EXTENDS UserAccounts, TLC

Symmetric ==
    Permutations(Threads) \union Permutations(Hashes) \union Permutations(Passwords)
==============================================================================
