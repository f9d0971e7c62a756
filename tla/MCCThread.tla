----------------------------- MODULE MCCThread -----------------------------
\* Instances of CThread for TLC: the thread ids are interchangeable.
EXTENDS CThread, TLC

Symmetry == Permutations(Tids)
=============================================================================
