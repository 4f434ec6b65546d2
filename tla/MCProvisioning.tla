-------------------------- MODULE MCProvisioning --------------------------
EXTENDS Provisioning, TLC

\* Sixteen addresses; one reserved range lies inside a block, and blocks lie
\* inside the other.
MCReserved == {[lo |-> 0, hi |-> 0], [lo |-> 4, hi |-> 11]}
MCSizes == {2, 4, 8}

Symmetric == Permutations(Calls) \cup Permutations(Vpcs)
=============================================================================
