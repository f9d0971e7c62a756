----------------------------- MODULE MCRefBase -----------------------------
\* Instances of RefBase for TLC.  The pointers are interchangeable.
EXTENDS RefBase, TLC

Symmetry == Permutations(Pointers)
=============================================================================
