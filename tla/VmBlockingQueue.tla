-------------------------- MODULE VmBlockingQueue --------------------------
(***************************************************************************)
(* The blocking queue of sutils/VmBlockingQueue.cpp; CBlockingQueue of     *)
(* include/sutils/Queue.hpp is the same algorithm over another list.       *)
(*                                                                         *)
(* Everything done between the acquisition of waitMutex and its release,   *)
(* or its atomic release by Condition::wait, is one step.  What happens    *)
(* outside the mutex is a step of its own: the signal that ends EnQueue    *)
(* and the broadcast of ExitQueue.  The list itself is a sequence here:    *)
(* VmQueue.tla shows the linked list to behave as one.                     *)
(***************************************************************************)
EXTENDS Sequences, SequencesExt, FiniteSets, Integers

CONSTANTS Producers,  \* threads that call EnQueue
          Consumers,  \* threads that call DeQueue in a loop
          Items,      \* the MQUEUE_ITEM objects
          NULL        \* what DeQueue returns when it has no item

ASSUME QueueAssumption ==
    /\ IsFiniteSet(Producers) /\ IsFiniteSet(Consumers)
    /\ NULL \notin Items

\* The waitDuration argument of DeQueue: -1, or a number of nanoseconds.
Durations == {"forever", "bounded"}

VARIABLES
    mQueue,       \* the items in the list, oldest first
    producer,     \* producer[p]: "idle", or "signal" once p has pushed
    consumer,     \* consumer[c]: where c stands in DeQueue
    waitDuration, \* waitDuration[c]: the argument of c's current call
    item          \* item[c]: what c's last call returned and c still owns

vars == <<mQueue, producer, consumer, waitDuration, item>>

\* A consumer blocked in Condition::wait, and one that has left it but has
\* not got waitMutex back yet (the call returned 0, or TIMED_OUT).
Waiting    == {c \in Consumers : consumer[c] = "waiting"}
Woken      == {c \in Consumers : consumer[c] = "woken"}
Signalling == {p \in Producers : producer[p] = "signal"}

Free(i) == i \notin ToSet(mQueue) /\ \A c \in Consumers : item[c] # i

TypeOK ==
    /\ mQueue \in Seq(Items)
    /\ producer \in [Producers -> {"idle", "signal"}]
    /\ consumer \in [Consumers -> {"idle", "waiting", "woken", "timedOut"}]
    /\ waitDuration \in [Consumers -> Durations]
    /\ item \in [Consumers -> Items \cup {NULL}]

Init ==
    /\ mQueue = <<>>
    /\ producer = [p \in Producers |-> "idle"]
    /\ consumer = [c \in Consumers |-> "idle"]
    /\ waitDuration = [c \in Consumers |-> "forever"]
    /\ item = [c \in Consumers |-> NULL]

-----------------------------------------------------------------------------
\* (Mutant of Pop: the popped item stays linked.)
PopKeepingItem(c) ==
    /\ item' = [item EXCEPT ![c] = IF mQueue = <<>> THEN NULL ELSE Head(mQueue)]
    /\ consumer' = [consumer EXCEPT ![c] = "idle"]
    /\ UNCHANGED mQueue

\* mqueue_pop under the mutex, and the return of DeQueue: the caller gets the
\* oldest item, or NULL when the list is empty.
Pop(c) ==
    /\ item' = [item EXCEPT ![c] = IF mQueue = <<>> THEN NULL ELSE Head(mQueue)]
    /\ mQueue' = IF mQueue = <<>> THEN <<>> ELSE Tail(mQueue)
    /\ consumer' = [consumer EXCEPT ![c] = "idle"]

\* (Mutant of DeQueue: it waits without looking at the list.)
DeQueueBlind(c) ==
    /\ consumer[c] = "idle"
    /\ \E d \in Durations : waitDuration' = [waitDuration EXCEPT ![c] = d]
    /\ consumer' = [consumer EXCEPT ![c] = "waiting"]
    /\ item' = [item EXCEPT ![c] = NULL]
    /\ UNCHANGED <<mQueue, producer>>

\* DeQueue up to its return or its wait.  The caller has freed the item of its
\* previous call.
DeQueue(c) ==
    /\ consumer[c] = "idle"
    /\ \E d \in Durations : waitDuration' = [waitDuration EXCEPT ![c] = d]
    /\ \/ mQueue # <<>> /\ Pop(c)
       \/ /\ mQueue = <<>>
          /\ consumer' = [consumer EXCEPT ![c] = "waiting"]
          /\ item' = [item EXCEPT ![c] = NULL]
          /\ UNCHANGED mQueue
    /\ UNCHANGED producer

\* waitRelative gives up; a wait of -1 never does.
TimeOut(c) ==
    /\ consumer[c] = "waiting"
    /\ waitDuration[c] = "bounded"
    /\ consumer' = [consumer EXCEPT ![c] = "timedOut"]
    /\ UNCHANGED <<mQueue, producer, waitDuration, item>>

\* pthread_cond_wait may return although nobody signalled.
SpuriousWakeup(c) ==
    /\ consumer[c] = "waiting"
    /\ consumer' = [consumer EXCEPT ![c] = "woken"]
    /\ UNCHANGED <<mQueue, producer, waitDuration, item>>

\* The wait returned 0 and the mutex is held again: the list is popped without
\* another look at its length.
ResumeDeQueue(c) ==
    /\ consumer[c] = "woken"
    /\ Pop(c)
    /\ UNCHANGED <<producer, waitDuration>>

\* The wait returned TIMED_OUT: DeQueue returns NULL and leaves the list alone.
ReturnTimedOut(c) ==
    /\ consumer[c] = "timedOut"
    /\ consumer' = [consumer EXCEPT ![c] = "idle"]
    /\ item' = [item EXCEPT ![c] = NULL]
    /\ UNCHANGED <<mQueue, producer, waitDuration>>

\* EnQueue under the mutex, with an item nobody else owns.
EnQueue(p) ==
    /\ producer[p] = "idle"
    /\ \E i \in Items : Free(i) /\ mQueue' = Append(mQueue, i)
    /\ producer' = [producer EXCEPT ![p] = "signal"]
    /\ UNCHANGED <<consumer, waitDuration, item>>

\* Condition::signal: one of the waiters leaves the wait, if there are any.
Signal ==
    IF Waiting = {} THEN UNCHANGED consumer
    ELSE \E c \in Waiting : consumer' = [consumer EXCEPT ![c] = "woken"]

\* (Mutant of SignalEnQueued: signal only when the list was empty before.)
SignalIfFirst(p) ==
    /\ producer[p] = "signal"
    /\ IF Len(mQueue) = 1 THEN Signal ELSE UNCHANGED consumer
    /\ producer' = [producer EXCEPT ![p] = "idle"]
    /\ UNCHANGED <<mQueue, waitDuration, item>>

\* The end of EnQueue, after waitMutex was released.
SignalEnQueued(p) ==
    /\ producer[p] = "signal"
    /\ Signal
    /\ producer' = [producer EXCEPT ![p] = "idle"]
    /\ UNCHANGED <<mQueue, waitDuration, item>>

\* ExitQueue: every waiter leaves the wait.  The mutex is not taken and nothing
\* records that the queue was asked to exit.
ExitQueue ==
    /\ Waiting # {}
    /\ consumer' = [c \in Consumers |->
                       IF c \in Waiting THEN "woken" ELSE consumer[c]]
    /\ UNCHANGED <<mQueue, producer, waitDuration, item>>

-----------------------------------------------------------------------------
Consume(c) == DeQueue(c) \/ ResumeDeQueue(c) \/ ReturnTimedOut(c)
Produce(p) == EnQueue(p) \/ SignalEnQueued(p)

Next ==
    \/ \E c \in Consumers : Consume(c) \/ TimeOut(c) \/ SpuriousWakeup(c)
    \/ \E p \in Producers : Produce(p)
    \/ ExitQueue

Spec == Init /\ [][Next]_vars

\* A consumer calls DeQueue again and again (LoggerThread::_threadLoop,
\* SerialWriteTask::threadLoop), and a thread that can run is eventually
\* scheduled.  Nothing obliges a producer to enqueue, a signal is sent once
\* the item was pushed, and no timeout or spurious wakeup is counted on.
Fairness ==
    /\ \A c \in Consumers : WF_vars(Consume(c))
    /\ \A p \in Producers : WF_vars(SignalEnQueued(p))

FairSpec == Spec /\ Fairness

-----------------------------------------------------------------------------
(***************************************************************************)
(* Properties.                                                             *)
(***************************************************************************)

\* No lost wakeup: while somebody sleeps in DeQueue, every item in the list is
\* accounted for by a consumer already woken or by a producer whose signal is
\* still to come.  EnQueue signals outside the mutex, signals once per item and
\* a woken consumer may find its item taken by a thread that did not wait.
NoLostWakeup ==
    Waiting # {} => Len(mQueue) <= Cardinality(Woken) + Cardinality(Signalling)

\* An item is in the list at most once, and never both in the list and in the
\* hands of a consumer, or in the hands of two: DeQueue gives ownership away,
\* and the consumer frees the item (LoggerThread::_threadLoop).
OwnedOnce ==
    /\ IsInjective(mQueue)
    /\ \A c \in Consumers : item[c] # NULL =>
          /\ item[c] \notin ToSet(mQueue)
          /\ \A d \in Consumers \ {c} : item[d] # item[c]

\* Every item put in the list is eventually taken out of it.
EventuallyDeQueued ==
    \A i \in Items : i \in ToSet(mQueue) ~> i \notin ToSet(mQueue)
=============================================================================
