------------------------------- MODULE CQueue -------------------------------
(***************************************************************************)
(* CQueue, CQueueItem and CQueueIterator of include/sutils/Queue.hpp: the  *)
(* calls of one thread, in any order, on any queues and items, and one     *)
(* iterator that lives through them.                                       *)
(***************************************************************************)
EXTENDS LinkedList

VARIABLES
    queue,        \* the iterator: the queue it was made for, NULL before that
    fCurrentItem, \* and where it stands
    tracking      \* auxiliary: nothing has unlinked the node it stands on

iterator == <<queue, fCurrentItem, tracking>>
cvars == <<links, result, iterator>>

CTypeOK ==
    /\ TypeOK
    /\ result \in Items \cup {NULL}
    /\ queue \in Queues \cup {NULL}
    /\ fCurrentItem \in Nodes \cup {NULL}
    /\ tracking \in BOOLEAN

CInit ==
    /\ Init
    /\ result = NULL
    /\ queue = NULL /\ fCurrentItem = NULL /\ tracking = TRUE

-----------------------------------------------------------------------------
GetHeadItem(q) == IF fLength[q] > 0 THEN next[q] ELSE NULL
GetTailItem(q) == IF fLength[q] > 0 THEN prev[q] ELSE NULL

\* The iterator stops being of use when its node leaves the queue.
Untrack(i) ==
    /\ tracking' = (tracking /\ fCurrentItem # i)
    /\ UNCHANGED <<queue, fCurrentItem>>

\* An item that is in a queue is refused without a word.
EnQueue(q, i) ==
    /\ IF mQueue[i] # NULL THEN UNCHANGED links ELSE LinkLast(q, i)
    /\ UNCHANGED <<result, iterator>>

DeQueue(q) ==
    IF fLength[q] <= 0
    THEN result' = NULL /\ UNCHANGED <<links, iterator>>
    ELSE result' = next[q] /\ UnlinkFirst(q) /\ Untrack(next[q])

\* Remove of an item that is NULL or the head of the queue does nothing, and
\* neither does that of an item of another queue.
RemoveFrom(q, i) ==
    /\ IF mQueue[i] # q THEN UNCHANGED <<links, iterator>>
       ELSE Unlink(q, i) /\ Untrack(i)
    /\ UNCHANGED result

\* CQueueItem::Remove: from the queue the item is in.
RemoveItem(i) ==
    /\ mQueue[i] # NULL
    /\ RemoveFrom(mQueue[i], i)

-----------------------------------------------------------------------------
\* The constructor with a queue, and Reset.
IterateFromHead(q) ==
    /\ queue' = q
    /\ fCurrentItem' = GetHeadItem(q)
    /\ tracking' = TRUE
    /\ UNCHANGED <<links, result>>

Reset == queue # NULL /\ IterateFromHead(queue)

\* The constructor with a queue and an item or NULL.  For an item of another queue
\* it returns without having written fCurrentItem, which then holds anything.
IterateFromItem(q, i) ==
    /\ queue' = q
    /\ IF i = NULL \/ mQueue[i] = q
       THEN fCurrentItem' = i /\ tracking' = TRUE
       ELSE fCurrentItem' \in Nodes \cup {NULL} /\ tracking' = FALSE
    /\ UNCHANGED <<links, result>>

\* (Mutant of IteratorNext: one node too far.)
IteratorNextNode ==
    /\ queue # NULL /\ fCurrentItem # NULL
    /\ fCurrentItem' = next[fCurrentItem]
    /\ UNCHANGED <<links, result, queue, tracking>>

\* CQueueIterator::Next, which callers may use until IsDone.
IteratorNext ==
    /\ queue # NULL /\ fCurrentItem # NULL
    /\ fCurrentItem' = IF fCurrentItem = GetTailItem(queue) THEN NULL
                       ELSE next[fCurrentItem]
    /\ UNCHANGED <<links, result, queue, tracking>>

CNext ==
    \/ \E q \in Queues :
          \/ DeQueue(q) \/ IterateFromHead(q)
          \/ \E i \in Items : EnQueue(q, i) \/ RemoveFrom(q, i)
          \/ \E i \in Items \cup {NULL} : IterateFromItem(q, i)
    \/ \E i \in Items : RemoveItem(i)
    \/ Reset
    \/ IteratorNext

CSpec == CInit /\ [][CNext]_cvars

-----------------------------------------------------------------------------
(***************************************************************************)
(* Properties, besides LinksSpellOrder, LengthIsExact and MembersKnowQueue.*)
(***************************************************************************)

\* IsMember, IsMemberOfAnyQueue and InQueue answer from a field of the item:
\* an item that says it is in a queue is in it.
QueueKnowsMembers ==
    \A i \in Items : mQueue[i] # NULL => i \in ToSet(order[mQueue[i]])

\* Chains, items and marks agree: forwards and backwards a queue's links spell
\* the same items, each of them knows its queue, and no other item claims one.
\* Six links and two marks in three objects change in every operation.
ListsAreSound == LinksSpellOrder /\ MembersKnowQueue /\ QueueKnowsMembers

\* Whatever else was linked and unlinked meanwhile, an iterator whose own item
\* stayed stands on an item of its queue or is done: it never shows the head,
\* an item of another queue or one that was removed.
IteratorStaysInQueue ==
    (tracking /\ queue # NULL) =>
        fCurrentItem \in ToSet(order[queue]) \cup {NULL}

\* The place of the iterator's item in its queue.
Position == CHOOSE k \in DOMAIN order[queue] : order[queue][k] = fCurrentItem

GoesToSuccessor ==
    (IteratorNext /\ tracking) =>
        fCurrentItem' = IF Position = Len(order[queue]) THEN NULL
                        ELSE order[queue][Position + 1]

\* Next goes to the next item of the queue as it now is, and ends after the
\* last one: with the invariant, one pass shows each item once, in order.
NextIsSuccessor == [][GoesToSuccessor]_cvars
=============================================================================
