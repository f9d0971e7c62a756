-------------------------------- MODULE Fifo --------------------------------
(***************************************************************************)
(* What the intrusive lists of sutils/VmQueue.cpp and of                   *)
(* include/sutils/Queue.hpp promise their callers ("in at the tail, out at *)
(* the head", says the comment above both): every queue is a sequence of   *)
(* items and an item is in one queue at most.                              *)
(***************************************************************************)
EXTENDS Sequences, SequencesExt, Integers

CONSTANTS Queues, Items, NULL

VARIABLES
    content, \* content[q]: the items of q, oldest first
    result   \* what the last call returned

vars == <<content, result>>

Queued(i) == \E q \in Queues : i \in ToSet(content[q])

IndexOf(s, i) == CHOOSE k \in DOMAIN s : s[k] = i

Init ==
    /\ content = [q \in Queues |-> <<>>]
    /\ result = NULL

\* An item that is in a queue already is refused without a word.
EnQueue(q, i) ==
    /\ content' = IF Queued(i) THEN content
                  ELSE [content EXCEPT ![q] = Append(@, i)]
    /\ UNCHANGED result

DeQueueEmpty(q) ==
    /\ content[q] = <<>>
    /\ result' = NULL
    /\ UNCHANGED content

DeQueue(q) ==
    /\ content[q] # <<>>
    /\ result' = content[q][1]
    /\ content' = [content EXCEPT ![q] = Tail(@)]

RemoveFrom(q, i) ==
    /\ i \in ToSet(content[q])
    /\ content' = [content EXCEPT ![q] = RemoveAt(@, IndexOf(@, i))]
    /\ UNCHANGED result

Clear(q) ==
    /\ content' = [content EXCEPT ![q] = <<>>]
    /\ UNCHANGED result

Next ==
    \E q \in Queues :
        \/ DeQueueEmpty(q) \/ DeQueue(q) \/ Clear(q)
        \/ \E i \in Items : EnQueue(q, i) \/ RemoveFrom(q, i)

Spec == Init /\ [][Next]_vars
=============================================================================
