------------------------------ MODULE MCLists ------------------------------
\* Instances of CQueue and of VmQueue for TLC: a behaviour is one of either
\* class.  Items and queues are interchangeable.
EXTENDS CQueue, VmQueue

VARIABLE class

ListInit == CInit /\ VInit /\ class \in {"CQueue", "MQUEUE"}

ListNext ==
    \/ class = "CQueue" /\ CNext /\ UNCHANGED <<head, class>>
    \/ class = "MQUEUE" /\ VNext /\ UNCHANGED <<iterator, class>>

ListSpec == ListInit /\ [][ListNext]_<<cvars, head, class>>

\* Chains, items and marks of a CQueue agree, see ListsAreSound.  An MQUEUE that
\* is cleared leaves the marks of its items (mqueue_clear, VmQueue.cpp).
CQueueIsSound == class = "CQueue" => ListsAreSound

Symmetry == Permutations(Queues) \cup Permutations(Items)
=============================================================================
