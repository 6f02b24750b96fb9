---------------------------- MODULE MCLifecycle ----------------------------
EXTENDS LifecycleSerial, TLC
\* Requests, and the values they put, are interchangeable.
Symmetry == Permutations(Run) \cup Permutations(Value)
=============================================================================
