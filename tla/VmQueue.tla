------------------------------- MODULE VmQueue -------------------------------
(***************************************************************************)
(* MQUEUE of sutils/VmQueue.cpp, the list under VmBlockingQueue.  The      *)
(* asserts of mqueue_push are guards: a caller who fails one has no next   *)
(* state.  mqueue_remove, which no header declares, is left out.           *)
(***************************************************************************)
EXTENDS LinkedList

VARIABLE
    head    \* head[q]: the head node of q is allocated

vvars == <<links, result, head>>

VTypeOK ==
    /\ TypeOK
    /\ result \in Items \cup {NULL}
    /\ head \in [Queues -> BOOLEAN]

\* mqueue_init has been called, new_mqueue_item has made the items.
VInit ==
    /\ Init
    /\ result = NULL
    /\ head = [q \in Queues |-> TRUE]

-----------------------------------------------------------------------------
\* (Mutant of mqueue_pop: the newest item is returned.)
PopNewest(q) ==
    /\ IF fLength[q] = 0
       THEN result' = NULL /\ UNCHANGED links
       ELSE result' = prev[q] /\ UnlinkFirst(q)
    /\ UNCHANGED head

mqueue_push(q, i) ==
    /\ head[q]
    /\ mQueue[i] = NULL
    /\ LinkLast(q, i)
    /\ UNCHANGED <<result, head>>

mqueue_pop(q) ==
    /\ IF fLength[q] = 0
       THEN result' = NULL /\ UNCHANGED links
       ELSE result' = next[q] /\ UnlinkFirst(q)
    /\ UNCHANGED head

\* (Mutant of mqueue_clear: the counter survives.)
ClearLinks(q) ==
    /\ next' = [next EXCEPT ![q] = q]
    /\ prev' = [prev EXCEPT ![q] = q]
    /\ order' = [order EXCEPT ![q] = <<>>]
    /\ UNCHANGED <<mQueue, fLength>>

\* The head points to itself again; the items that were linked are not told.
EmptyList(q) ==
    /\ next' = [next EXCEPT ![q] = q]
    /\ prev' = [prev EXCEPT ![q] = q]
    /\ fLength' = [fLength EXCEPT ![q] = 0]
    /\ order' = [order EXCEPT ![q] = <<>>]
    /\ UNCHANGED mQueue

mqueue_clear(q) ==
    /\ IF head[q] THEN EmptyList(q) ELSE UNCHANGED links
    /\ UNCHANGED <<result, head>>

\* Clears the list and frees the head, once.
mqueue_free(q) ==
    /\ IF head[q] THEN EmptyList(q) ELSE UNCHANGED links
    /\ head' = [head EXCEPT ![q] = FALSE]
    /\ UNCHANGED result

\* A list that has a head gets a new one: its items are gone as after a clear.
mqueue_init(q) ==
    /\ EmptyList(q)
    /\ head' = [head EXCEPT ![q] = TRUE]
    /\ UNCHANGED result

-----------------------------------------------------------------------------
\* VmBlockingQueue calls all of these but mqueue_clear.
VNext ==
    \E q \in Queues :
        \/ mqueue_init(q) \/ mqueue_free(q) \/ mqueue_clear(q) \/ mqueue_pop(q)
        \/ \E i \in Items : mqueue_push(q, i)

VSpec == VInit /\ [][VNext]_vvars
=============================================================================
