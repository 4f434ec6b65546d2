--------------------------- MODULE MCSessionGateway ---------------------------
(* Threads are interchangeable, and so are tokens. *)
EXTENDS SessionGateway, TLC

Symmetric == Permutations(Threads) \union Permutations(Tokens)
==============================================================================
