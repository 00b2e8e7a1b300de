---------------------------- MODULE MCBlockLatency ----------------------------
EXTENDS BlockLatency, TLC

\* Addresses are interchangeable.
Symmetry == Permutations(Requests)

=============================================================================
