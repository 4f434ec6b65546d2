----------------------------- MODULE MCOAuthLogin -----------------------------
(* Requests, browsers, states and names are interchangeable, and so are the *)
(* identities without sub.                                                  *)
EXTENDS OAuthLogin, TLC

Symmetric ==
    UNION {Permutations(S) : S \in {Requests, Browsers, States, Unnamed, Names}}
==============================================================================
