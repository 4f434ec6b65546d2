-------------------------- MODULE MCTokenServices --------------------------
EXTENDS TokenServices, TLC

\* The default secrets: the two Python services with a blacklist have the same.
DefaultSecret ==
  [s \in Services |-> IF s \in Python THEN "security-platform-secret" ELSE s]

\* One deployment for each of the default secrets.
BySecret == {Python, {"auth"}, {"node"}}

PlatformAlone == {{"platform"}}

\* Nothing tells threads, ids or tokens apart, and the properties are
\* invariants.
Symmetric == Permutations(Threads) \cup Permutations(UserIds) \cup Permutations(Tokens)

=============================================================================
