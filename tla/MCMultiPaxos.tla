---------------------------- MODULE MCMultiPaxos ----------------------------
EXTENDS MultiPaxosInvariant, TLC
\* Requests, and the values they put, are interchangeable.
Symmetry == Permutations(Run) \cup Permutations(Value)
=============================================================================
