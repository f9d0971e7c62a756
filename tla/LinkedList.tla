----------------------------- MODULE LinkedList -----------------------------
(***************************************************************************)
(* The circular doubly linked list with a head node that VmQueue.cpp and   *)
(* Queue.hpp both write out, pointer by pointer.  Items are the nodes the  *)
(* callers bring; the head node of a queue is named by the queue itself.   *)
(*                                                                         *)
(* order is an auxiliary variable: the operations write it, none reads it. *)
(* It is what the links are meant to say, and what maps the calls CQueue   *)
(* and VmQueue make of these operations to the queues of Fifo.             *)
(***************************************************************************)
EXTENDS Sequences, SequencesExt, Integers

CONSTANTS Queues, Items, NULL

ASSUME ListAssumption ==
    /\ Queues \cap Items = {}
    /\ NULL \notin Queues \cup Items

Nodes == Items \cup Queues

VARIABLES
    next,    \* next[n], prev[n]: the links of node n
    prev,
    mQueue,  \* mQueue[i]: the queue that linked item i, or NULL
    fLength, \* fLength[q]: the counter of q
    order,   \* order[q]: the items of q, oldest first
    result   \* what the last call that takes an item out returned

links == <<next, prev, mQueue, fLength, order>>

TypeOK ==
    /\ next \in [Nodes -> Nodes \cup {NULL}]
    /\ prev \in [Nodes -> Nodes \cup {NULL}]
    /\ mQueue \in [Items -> Queues \cup {NULL}]
    /\ fLength \in [Queues -> Int]
    /\ order \in [Queues -> Seq(Items)]

\* A new item points nowhere, the head of a new queue to itself.
Init ==
    /\ next = [n \in Nodes |-> IF n \in Queues THEN n ELSE NULL]
    /\ prev = [n \in Nodes |-> IF n \in Queues THEN n ELSE NULL]
    /\ mQueue = [i \in Items |-> NULL]
    /\ fLength = [q \in Queues |-> 0]
    /\ order = [q \in Queues |-> <<>>]

\* (Mutants: the old last item keeps pointing to the head; the new first item
\* keeps pointing back.)
LinkLastHalf(q, i) ==
    /\ next' = [next EXCEPT ![i] = q]
    /\ prev' = [prev EXCEPT ![i] = prev[q], ![q] = i]
    /\ mQueue' = [mQueue EXCEPT ![i] = q]
    /\ fLength' = [fLength EXCEPT ![q] = @ + 1]
    /\ order' = [order EXCEPT ![q] = Append(@, i)]

UnlinkFirstHalf(q) ==
    /\ next' = [next EXCEPT ![q] = next[next[q]]]
    /\ mQueue' = [i \in Items |-> IF i = next[q] THEN NULL ELSE mQueue[i]]
    /\ fLength' = [fLength EXCEPT ![q] = @ - 1]
    /\ order' = [order EXCEPT ![q] = SubSeq(@, 2, Len(@))]
    /\ UNCHANGED prev

\* head.prev->next = i; i.prev = head.prev; i.next = head; head.prev = i
LinkLast(q, i) ==
    /\ next' = [next EXCEPT ![prev[q]] = i, ![i] = q]
    /\ prev' = [prev EXCEPT ![i] = prev[q], ![q] = i]
    /\ mQueue' = [mQueue EXCEPT ![i] = q]
    /\ fLength' = [fLength EXCEPT ![q] = @ + 1]
    /\ order' = [order EXCEPT ![q] = Append(@, i)]

\* i = head.next; head.next = i.next; i.next->prev = head.  The links of i
\* itself stay as they were.
UnlinkFirst(q) ==
    /\ next' = [next EXCEPT ![q] = next[next[q]]]
    /\ prev' = [prev EXCEPT ![next[next[q]]] = q]
    /\ mQueue' = [i \in Items |-> IF i = next[q] THEN NULL ELSE mQueue[i]]
    /\ fLength' = [fLength EXCEPT ![q] = @ - 1]
    /\ order' = [order EXCEPT ![q] = SubSeq(@, 2, Len(@))]

\* i.prev->next = i.next; i.next->prev = i.prev
Unlink(q, i) ==
    /\ next' = [next EXCEPT ![prev[i]] = next[i]]
    /\ prev' = [prev EXCEPT ![next[i]] = prev[i]]
    /\ mQueue' = [mQueue EXCEPT ![i] = NULL]
    /\ fLength' = [fLength EXCEPT ![q] = @ - 1]
    /\ order' = [order EXCEPT ![q] =
                     RemoveAt(@, CHOOSE k \in DOMAIN @ : @[k] = i)]

-----------------------------------------------------------------------------
\* Position k of q: the head is in position 0 and again behind the last item.
At(q, k) == IF k \in DOMAIN order[q] THEN order[q][k] ELSE q

\* Forwards and backwards, the links of a queue spell the same items in the
\* same order and close in the head: three hand-written surgeries, each of
\* which has to write four fields of three nodes in the right order, keep two
\* chains in step.
LinksSpellOrder ==
    \A q \in Queues : \A k \in 0..Len(order[q]) :
        /\ next[At(q, k)] = At(q, k + 1)
        /\ prev[At(q, k + 1)] = At(q, k)

\* The counter is the number of items linked: DeQueue looks at nothing else to
\* tell an empty queue, and would hand out the head node.
LengthIsExact == \A q \in Queues : fLength[q] = Len(order[q])

\* An item in a queue knows its queue, and is in it once.
MembersKnowQueue ==
    \A q \in Queues :
        /\ IsInjective(order[q])
        /\ \A i \in ToSet(order[q]) : mQueue[i] = q

-----------------------------------------------------------------------------
\* The linked lists behave as the sequences of Fifo.
F == INSTANCE Fifo WITH content <- order
RefinesFifo == F!Spec
=============================================================================
