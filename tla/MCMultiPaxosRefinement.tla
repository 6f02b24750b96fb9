----------------------- MODULE MCMultiPaxosRefinement -----------------------
EXTENDS MultiPaxosRefinement, MultiPaxosSerial, TLC
\* Requests, and the values they put, are interchangeable.
Symmetry == Permutations(Run) \cup Permutations(Value)
=============================================================================
