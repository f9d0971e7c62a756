----------------------------- MODULE WinCondition -----------------------------
(***************************************************************************)
(* The Windows Condition of sutils/Condition.cpp: a condition variable     *)
(* built from a semaphore, an auto-reset event, a counter and a mutex of   *)
(* its own.  Waiters lock the caller's mutex and wait; callers signal and  *)
(* broadcast, holding that mutex (as CThread does) or not (as              *)
(* VmBlockingQueue does).                                                  *)
(*                                                                         *)
(* What is done under waitersCountLock is one step.  SignalObjectAndWait   *)
(* is the atomic operation the code's comments take it for.  A released    *)
(* semaphore hands its tokens to sleeping threads at once, to any of them. *)
(***************************************************************************)
EXTENDS Integers, FiniteSets

CONSTANTS Waiters,          \* threads that call wait and waitRelative
          TimedWaiters,     \* those whose wait has an absolute time
          Callers,          \* threads that call signal and broadcast
          CallersHoldMutex, \* whether they hold the external mutex
          MaxTokens,        \* bound: no call is begun beyond it
          NoThread

ASSUME ConditionAssumption ==
    /\ IsFiniteSet(Waiters) /\ TimedWaiters \subseteq Waiters
    /\ Waiters \cap Callers = {}
    /\ CallersHoldMutex \in BOOLEAN
    /\ MaxTokens \in Nat \ {0}
    /\ NoThread \notin Waiters \cup Callers

Threads == Waiters \cup Callers

VARIABLES
    pc,            \* where each thread stands
    mutex,         \* the owner of the external mutex, hMutex
    internalMutex, \* the owner of internalMutex
    waitersCount,
    sema,          \* the semaphore's count
    waitersDone,   \* the auto-reset event
    wasBroadcast,
    awaited        \* auxiliary: the waiters the broadcast under way has to see

vars == <<pc, mutex, internalMutex, waitersCount, sema, waitersDone,
          wasBroadcast, awaited>>

InWait   == {"counted", "sleeping", "woken", "timedOut"}
Sleeping == {w \in Waiters : pc[w] = "sleeping"}

TypeOK ==
    /\ pc \in [Threads -> InWait \cup
                 {"idle", "locked", "last", "passing", "relock",
                  "signal", "release", "broadcast", "awaitDone", "reset", "done"}]
    /\ mutex \in Threads \cup {NoThread}
    /\ internalMutex \in Callers \cup {NoThread}
    /\ waitersCount \in 0..Cardinality(Waiters)
    /\ sema \in Nat
    /\ waitersDone \in BOOLEAN /\ wasBroadcast \in BOOLEAN
    /\ awaited \subseteq Waiters

Init ==
    /\ pc = [t \in Threads |-> "idle"]
    /\ mutex = NoThread /\ internalMutex = NoThread
    /\ waitersCount = 0 /\ sema = 0
    /\ waitersDone = FALSE /\ wasBroadcast = FALSE
    /\ awaited = {}

Goto(t, label) == pc' = [pc EXCEPT ![t] = label]

-----------------------------------------------------------------------------
\* The external mutex.
Lock(t) ==
    /\ pc[t] = "idle" /\ mutex = NoThread
    /\ t \in Callers => CallersHoldMutex
    /\ mutex' = t
    /\ Goto(t, "locked")
    /\ UNCHANGED <<internalMutex, waitersCount, sema, waitersDone, wasBroadcast, awaited>>

Unlock(t) ==
    /\ pc[t] = "locked"
    /\ mutex' = NoThread
    /\ Goto(t, "idle")
    /\ UNCHANGED <<internalMutex, waitersCount, sema, waitersDone, wasBroadcast, awaited>>

\* ReleaseSemaphore(sema, n, 0) on the way of thread c to label.
ReleaseSemaphore(c, n, label) ==
    \E woken \in SUBSET Sleeping :
        /\ Cardinality(woken) = IF n < Cardinality(Sleeping) THEN n
                                ELSE Cardinality(Sleeping)
        /\ sema' = sema + n - Cardinality(woken)
        /\ pc' = [t \in Threads |-> IF t \in woken THEN "woken"
                                    ELSE IF t = c THEN label ELSE pc[t]]

-----------------------------------------------------------------------------
\* WinCondition::wait.
EnterWait(w) ==
    /\ pc[w] = "locked"
    /\ waitersCount' = waitersCount + 1
    /\ Goto(w, "counted")
    /\ UNCHANGED <<mutex, internalMutex, sema, waitersDone, wasBroadcast, awaited>>

\* SignalObjectAndWait(hMutex, sema).
Sleep(w) ==
    /\ pc[w] = "counted"
    /\ mutex' = NoThread
    /\ IF sema > 0 THEN sema' = sema - 1 /\ Goto(w, "woken")
       ELSE Goto(w, "sleeping") /\ UNCHANGED sema
    /\ UNCHANGED <<internalMutex, waitersCount, waitersDone, wasBroadcast, awaited>>

TimeOut(w) ==
    /\ pc[w] = "sleeping" /\ w \in TimedWaiters
    /\ Goto(w, "timedOut")
    /\ UNCHANGED <<mutex, internalMutex, waitersCount, sema, waitersDone,
                   wasBroadcast, awaited>>

Leave(w, lastWaiter) ==
    /\ Goto(w, IF lastWaiter THEN "last" ELSE "passing")
    /\ awaited' = awaited \ {w}
    /\ UNCHANGED <<mutex, internalMutex, sema, waitersDone, wasBroadcast>>

\* (Mutants of LeaveWait: the counter is read before it is decremented; every
\* waiter of a broadcast is the last.)
LeaveWaitReadFirst(w) ==
    /\ pc[w] \in {"woken", "timedOut"}
    /\ waitersCount' = waitersCount - 1
    /\ Leave(w, wasBroadcast /\ waitersCount = 0)

LeaveWaitEach(w) ==
    /\ pc[w] \in {"woken", "timedOut"}
    /\ waitersCount' = waitersCount - 1
    /\ Leave(w, wasBroadcast)

\* No longer waiting: is this the last waiter after a broadcast?
LeaveWait(w) ==
    /\ pc[w] \in {"woken", "timedOut"}
    /\ waitersCount' = waitersCount - 1
    /\ Leave(w, wasBroadcast /\ waitersCount' = 0)

\* The last waiter sets the event and queues for the internal mutex in one.
SetWaitersDone(w) ==
    /\ pc[w] = "last"
    /\ waitersDone' = TRUE
    /\ Goto(w, "passing")
    /\ UNCHANGED <<mutex, internalMutex, waitersCount, sema, wasBroadcast, awaited>>

\* Grab the internal mutex and release it.
PassInternal(w) ==
    /\ pc[w] = "passing" /\ internalMutex = NoThread
    /\ Goto(w, "relock")
    /\ UNCHANGED <<mutex, internalMutex, waitersCount, sema, waitersDone,
                   wasBroadcast, awaited>>

\* Grab the external mutex: wait returns.
Relock(w) ==
    /\ pc[w] = "relock" /\ mutex = NoThread
    /\ mutex' = w
    /\ Goto(w, "locked")
    /\ UNCHANGED <<internalMutex, waitersCount, sema, waitersDone, wasBroadcast, awaited>>

-----------------------------------------------------------------------------
\* Condition::signal and Condition::broadcast lock the internal mutex first.
Enter(c, label) ==
    /\ pc[c] = IF CallersHoldMutex THEN "locked" ELSE "idle"
    /\ internalMutex = NoThread
    /\ sema < MaxTokens
    /\ internalMutex' = c
    /\ Goto(c, label)
    /\ UNCHANGED <<mutex, waitersCount, sema, waitersDone, wasBroadcast, awaited>>

BeginSignal(c) == Enter(c, "signal")

BeginBroadcast(c) == Enter(c, "broadcast")

\* (Mutant of SignalLooks: with no waiters it returns at once.)
SignalReturns(c) ==
    /\ pc[c] = "signal"
    /\ Goto(c, IF waitersCount > 0 THEN "release"
               ELSE IF CallersHoldMutex THEN "locked" ELSE "idle")
    /\ UNCHANGED <<mutex, internalMutex, waitersCount, sema, waitersDone,
                   wasBroadcast, awaited>>

\* haveWaiters, read under waitersCountLock and used after it was left.
SignalLooks(c) ==
    /\ pc[c] = "signal"
    /\ Goto(c, IF waitersCount > 0 THEN "release" ELSE "done")
    /\ UNCHANGED <<mutex, internalMutex, waitersCount, sema, waitersDone,
                   wasBroadcast, awaited>>

SignalReleases(c) ==
    /\ pc[c] = "release"
    /\ ReleaseSemaphore(c, 1, "done")
    /\ UNCHANGED <<mutex, internalMutex, waitersCount, waitersDone, wasBroadcast, awaited>>

\* (Mutant of BroadcastReleases: one token, as for a signal.)
BroadcastReleasesOne(c) ==
    /\ pc[c] = "broadcast"
    /\ IF waitersCount > 0
       THEN /\ wasBroadcast' = TRUE
            /\ ReleaseSemaphore(c, 1, "awaitDone")
            /\ awaited' = {w \in Waiters : pc[w] \in InWait}
       ELSE /\ Goto(c, "done")
            /\ UNCHANGED <<sema, wasBroadcast, awaited>>
    /\ UNCHANGED <<mutex, internalMutex, waitersCount, waitersDone>>

\* All of it under waitersCountLock.
BroadcastReleases(c) ==
    /\ pc[c] = "broadcast"
    /\ IF waitersCount > 0
       THEN /\ wasBroadcast' = TRUE
            /\ ReleaseSemaphore(c, waitersCount, "awaitDone")
            /\ awaited' = {w \in Waiters : pc[w] \in InWait}
       ELSE /\ Goto(c, "done")
            /\ UNCHANGED <<sema, wasBroadcast, awaited>>
    /\ UNCHANGED <<mutex, internalMutex, waitersCount, waitersDone>>

BroadcastIsDone(c) ==
    /\ pc[c] = "awaitDone" /\ waitersDone
    /\ waitersDone' = FALSE
    /\ Goto(c, "reset")
    /\ UNCHANGED <<mutex, internalMutex, waitersCount, sema, wasBroadcast, awaited>>

\* wasBroadcast = 0, without waitersCountLock.
BroadcastResets(c) ==
    /\ pc[c] = "reset"
    /\ wasBroadcast' = FALSE
    /\ Goto(c, "done")
    /\ UNCHANGED <<mutex, internalMutex, waitersCount, sema, waitersDone, awaited>>

\* Release the internal mutex and return.
Return(c) ==
    /\ pc[c] = "done"
    /\ internalMutex' = NoThread
    /\ Goto(c, IF CallersHoldMutex THEN "locked" ELSE "idle")
    /\ UNCHANGED <<mutex, waitersCount, sema, waitersDone, wasBroadcast, awaited>>

-----------------------------------------------------------------------------
WaitStep(w) ==
    EnterWait(w) \/ Sleep(w) \/ LeaveWait(w) \/ SetWaitersDone(w)

CallStep(c) ==
    \/ SignalLooks(c) \/ SignalReleases(c)
    \/ BroadcastReleases(c) \/ BroadcastIsDone(c) \/ BroadcastResets(c)
    \/ Return(c)

Next ==
    \/ \E t \in Threads : Lock(t) \/ Unlock(t)
    \/ \E w \in Waiters : WaitStep(w) \/ TimeOut(w) \/ PassInternal(w) \/ Relock(w)
    \/ \E c \in Callers : CallStep(c) \/ BeginSignal(c) \/ BeginBroadcast(c)

Spec == Init /\ [][Next]_vars

\* A call that has begun goes on, and a mutex is given to those who queue for
\* it in turn ("everybody is in the mutex FIFO").  Who locks the external mutex
\* does not make calls under it for ever (it is locked by an Autolock).  Nothing
\* obliges a thread to call wait, signal or broadcast, and no wait is counted on
\* to time out.
Fairness ==
    /\ \A w \in Waiters : /\ WF_vars(Sleep(w) \/ LeaveWait(w) \/ SetWaitersDone(w))
                          /\ SF_vars(PassInternal(w)) /\ SF_vars(Relock(w))
                          /\ WF_vars(Unlock(w))
    /\ \A c \in Callers : WF_vars(CallStep(c)) /\ SF_vars(Unlock(c))

FairSpec == Spec /\ Fairness

-----------------------------------------------------------------------------
(***************************************************************************)
(* Properties.                                                             *)
(***************************************************************************)

\* A broadcast that waits for the last waiter has one on its way: it does not
\* sit on the internal mutex for a thread it has not woken.
BroadcastIsAnswered ==
    \A c \in Callers : pc[c] = "awaitDone" =>
        \/ waitersDone
        \/ \E w \in Waiters : pc[w] \in {"counted", "woken", "timedOut", "last"}

\* "Then we wait until all of the threads have actually been woken before
\* releasing the internal mutex."
AllWokenBeforeRelease ==
    \A c \in Callers : pc[c] = "reset" => awaited = {}

\* The two sides of a broadcast by who holds the external mutex: the event it
\* waits for is set for it, and for it alone, when its last waiter has left.
BroadcastHandshake == BroadcastIsAnswered /\ AllWokenBeforeRelease

\* A broadcast returns.  The comments above and in WinCondition say so of callers
\* who do not hold the external mutex as well ("un-optimized to have the correct
\* behavior", "so we don't have to lock external mutex on signal/broadcast").
BroadcastReturns ==
    \A c \in Callers : pc[c] = "awaitDone" ~> pc[c] # "awaitDone"

\* A thread that was woken gets out of wait.
WokenReturns ==
    \A w \in Waiters : pc[w] = "woken" ~> pc[w] = "locked"

-----------------------------------------------------------------------------
(***************************************************************************)
(* The abstract specification.                                             *)
(***************************************************************************)
At(S, places) == {t \in S : pc[t] \in places}

Promised == INSTANCE Condition WITH
    waiting      <- Sleeping,
    returning    <- At(Waiters, {"woken", "timedOut", "last", "passing", "relock"}),
    signalling   <- At(Callers, {"signal", "release"}),
    broadcasting <- At(Callers, {"broadcast"}),
    spare        <- sema

\* The semaphore, the event and the counter make a condition variable: a signal
\* that reads the counter, leaves waitersCountLock and then releases the semaphore
\* misses nobody who is asleep, the tokens of a broadcast are enough for all of
\* them, and no token is kept while somebody sleeps, whatever times out meanwhile.
RefinesCondition == Promised!Spec
=============================================================================
