------------------------------ MODULE CThread ------------------------------
(***************************************************************************)
(* One CThread object (sutils/Thread.cpp), the operating-system threads of *)
(* the program that call it, and the threads it creates to run its         *)
(* threadLoop.                                                             *)
(*                                                                         *)
(* What is done under mLock is one step, except in run, which holds mLock  *)
(* while it creates the thread: mLock is the thread inside run, and every  *)
(* step that needs the mutex waits for it to be NULL.  mExitedCondition    *)
(* and mWaitCondition are the sets of threads that wait on them.  The      *)
(* object's reference count is abstracted to who holds a reference:        *)
(* RefBase.tla shows the count to be exactly that.                         *)
(***************************************************************************)
EXTENDS Integers, FiniteSets

CONSTANTS Tids,     \* thread ids; the system reuses the id of an ended thread
          NULL,     \* no thread: vthread_id_t(-1)
          MaxRuns   \* how often run() may start the thread again

ASSUME CThreadAssumption ==
    /\ IsFiniteSet(Tids) /\ NULL \notin Tids
    /\ MaxRuns \in Nat

VARIABLES
    mLock,        \* the thread inside run(), or NULL
    m_ThreadId, mStatus, mExitPending, mRunning,
    mHoldSelf,    \* does the object hold the reference to itself?
    fresh,        \* was no strong reference taken yet?
    code,         \* code[t]: what thread t executes
    call,         \* call[t]: where t stands inside a call of the object
    ref,          \* ref[t]: does t hold a strong reference of its own?
    runs          \* how often run() has started the thread

object == <<m_ThreadId, mStatus, mExitPending, mRunning, mHoldSelf>>
vars == <<mLock, object, fresh, code, call, ref, runs>>

\* A thread of _threadLoop, up to where it gives mRunning back: "again" and
\* "finished" are the results true and false of threadLoop or readyToRun.
LiveCode == {"start", "ready", "check", "loop", "again", "finished", "release", "promote"}
UserCode == {"ready", "loop"}

Codes == {"free", "client", "exited"} \cup LiveCode
Calls == {"none", "create", "assignId", "unlock", "exitWait", "exitWoken",
          "joinWait", "joinWoken", "sleepLock", "sleepWait", "sleepWoken", "usleep"}

Live == {t \in Tids : code[t] \in LiveCode}

\* The local variable strong of _threadLoop, and all the references there are.
HoldsStrong(t) == code[t] \in {"ready", "check", "loop", "again", "finished", "release", "exited"}

Alive == fresh \/ mHoldSelf \/ \E t \in Tids : ref[t] \/ HoldsStrong(t)

TypeOK ==
    /\ mLock \in Tids \cup {NULL} /\ m_ThreadId \in Tids \cup {NULL}
    /\ mStatus \in {"NO_ERROR", "UNKNOWN_ERROR", "readyToRunFailed"}
    /\ mExitPending \in BOOLEAN /\ mRunning \in BOOLEAN
    /\ mHoldSelf \in BOOLEAN /\ fresh \in BOOLEAN
    /\ code \in [Tids -> Codes]
    /\ call \in [Tids -> Calls]
    /\ ref \in [Tids -> BOOLEAN]
    /\ runs \in 0..MaxRuns

Init ==
    /\ mLock = NULL /\ m_ThreadId = NULL
    /\ mStatus = "NO_ERROR" /\ mExitPending = FALSE /\ mRunning = FALSE
    /\ mHoldSelf = FALSE /\ fresh = TRUE
    /\ \E t \in Tids : code = [u \in Tids |-> IF u = t THEN "client" ELSE "free"]
    /\ call = [t \in Tids |-> "none"]
    /\ ref = [t \in Tids |-> FALSE]
    /\ runs = 0

-----------------------------------------------------------------------------
(***************************************************************************)
(* The threads of the program: they start and end, and share the object.   *)
(***************************************************************************)
Moves(t, place)   == code' = [code EXCEPT ![t] = place]
Enters(t, place)  == call' = [call EXCEPT ![t] = place]
Returns(t)        == Enters(t, "none")

\* t may call the object: it holds a reference, or is the object's own thread
\* inside readyToRun or threadLoop.
MayCall(t) ==
    /\ call[t] = "none"
    /\ (code[t] = "client" /\ ref[t]) \/ code[t] \in UserCode

StartClient(t) ==
    /\ code[t] = "free" /\ Moves(t, "client")
    /\ UNCHANGED <<mLock, object, fresh, call, ref, runs>>

EndClient(t) ==
    /\ code[t] = "client" /\ call[t] = "none" /\ ~ref[t] /\ ~fresh
    /\ Moves(t, "free")
    /\ UNCHANGED <<mLock, object, fresh, call, ref, runs>>

\* The creator's first sp<>, and copies handed to other threads.
TakeRef(t) ==
    /\ code[t] = "client" /\ call[t] = "none" /\ ~ref[t]
    /\ fresh \/ \E u \in Tids : ref[u] \/ code[u] \in UserCode
    /\ ref' = [ref EXCEPT ![t] = TRUE]
    /\ fresh' = FALSE
    /\ UNCHANGED <<mLock, object, code, call, runs>>

DropRef(t) ==
    /\ call[t] = "none" /\ ref[t]
    /\ ref' = [ref EXCEPT ![t] = FALSE]
    /\ UNCHANGED <<mLock, object, fresh, code, call, runs>>

-----------------------------------------------------------------------------
(***************************************************************************)
(* run.                                                                    *)
(***************************************************************************)

\* (Mutants of RunBegin: the object does not hold itself; a thread that runs
\* already is not noticed.)
RunUnheld(t) ==
    /\ MayCall(t) /\ mLock = NULL /\ ~mRunning /\ runs < MaxRuns
    /\ mLock' = t
    /\ mStatus' = "NO_ERROR" /\ mExitPending' = FALSE /\ m_ThreadId' = NULL
    /\ mRunning' = TRUE
    /\ fresh' = FALSE /\ runs' = runs + 1
    /\ Enters(t, "create")
    /\ UNCHANGED <<mHoldSelf, code, ref>>

RunTwice(t) ==
    /\ MayCall(t) /\ mLock = NULL /\ runs < MaxRuns
    /\ mLock' = t
    /\ mStatus' = "NO_ERROR" /\ mExitPending' = FALSE /\ m_ThreadId' = NULL
    /\ mHoldSelf' = TRUE /\ mRunning' = TRUE
    /\ fresh' = FALSE /\ runs' = runs + 1
    /\ Enters(t, "create")
    /\ UNCHANGED <<code, ref>>

\* run up to the creation of the thread.  (A thread that runs already makes it
\* return INVALID_OPERATION, and nothing changes.)
RunBegin(t) ==
    /\ MayCall(t) /\ mLock = NULL /\ ~mRunning /\ runs < MaxRuns
    /\ mLock' = t
    /\ mStatus' = "NO_ERROR" /\ mExitPending' = FALSE /\ m_ThreadId' = NULL
    /\ mHoldSelf' = TRUE /\ mRunning' = TRUE
    /\ fresh' = FALSE /\ runs' = runs + 1
    /\ Enters(t, "create")
    /\ UNCHANGED <<code, ref>>

\* createRawThread: the new thread u may run before its id is stored.
CreateRawThread(t) ==
    /\ call[t] = "create"
    /\ \E u \in Tids : code[u] = "free" /\ Moves(u, "start")
    /\ Enters(t, "assignId")
    /\ UNCHANGED <<mLock, object, fresh, ref, runs>>

\* The id of the thread created last: the only one there is (OneIncarnation).
AssignThreadId(t) ==
    /\ call[t] = "assignId"
    /\ \E u \in Live : m_ThreadId' = u
    /\ mLock' = NULL
    /\ Returns(t)
    /\ UNCHANGED <<mStatus, mExitPending, mRunning, mHoldSelf, fresh, code, ref, runs>>

\* createRawThread failed: run gives up, and then unlocks mLock.
RunFails(t) ==
    /\ call[t] = "create"
    /\ mStatus' = "UNKNOWN_ERROR" /\ mRunning' = FALSE /\ m_ThreadId' = NULL
    /\ mHoldSelf' = FALSE
    /\ Enters(t, "unlock")
    /\ UNCHANGED <<mLock, mExitPending, fresh, code, ref, runs>>

UnlockAfterFailure(t) ==
    /\ call[t] = "unlock"
    /\ mLock' = NULL
    /\ Returns(t)
    /\ UNCHANGED <<object, fresh, code, ref, runs>>

Run(t) ==
    \/ CreateRawThread(t) \/ AssignThreadId(t)
    \/ RunFails(t) \/ UnlockAfterFailure(t)

-----------------------------------------------------------------------------
(***************************************************************************)
(* _threadLoop, in the thread that run created.                            *)
(***************************************************************************)

\* strong takes the reference over from mHoldSelf, which nobody else uses now.
ThreadStarts(t) ==
    /\ code[t] = "start" /\ Moves(t, "ready")
    /\ mHoldSelf' = FALSE
    /\ UNCHANGED <<mLock, m_ThreadId, mStatus, mExitPending, mRunning, fresh, call, ref, runs>>

ReadyToRunReturns(t) ==
    /\ code[t] = "ready" /\ call[t] = "none"
    /\ \/ mStatus' = "NO_ERROR" /\ Moves(t, "check")
       \/ mStatus' = "readyToRunFailed" /\ Moves(t, "finished")
    /\ UNCHANGED <<mLock, m_ThreadId, mExitPending, mRunning, mHoldSelf, fresh, call, ref, runs>>

\* exitPending(), before threadLoop is called for the first time.
CheckExitPending(t) ==
    /\ code[t] = "check" /\ mLock = NULL
    /\ Moves(t, IF mExitPending THEN "again" ELSE "loop")
    /\ UNCHANGED <<mLock, object, fresh, call, ref, runs>>

ThreadLoopReturns(t) ==
    /\ code[t] = "loop" /\ call[t] = "none"
    /\ Moves(t, "again") \/ Moves(t, "finished")
    /\ UNCHANGED <<mLock, object, fresh, call, ref, runs>>

\* mExitedCondition.broadcast().
ExitedBroadcast ==
    call' = [t \in Tids |-> CASE call[t] = "exitWait" -> "exitWoken"
                              [] call[t] = "joinWait" -> "joinWoken"
                              [] OTHER -> call[t]]

\* (Mutants of Decide: the thread id is not cleared; nobody is told; the exit
\* request is not looked at.)
DecideKeepingId(t) ==
    /\ code[t] \in {"again", "finished"} /\ mLock = NULL
    /\ IF code[t] = "finished" \/ mExitPending
       THEN /\ mExitPending' = TRUE /\ mRunning' = FALSE
            /\ ExitedBroadcast /\ Moves(t, "exited")
       ELSE Moves(t, "release") /\ UNCHANGED <<mExitPending, mRunning, call>>
    /\ UNCHANGED <<mLock, m_ThreadId, mStatus, mHoldSelf, fresh, ref, runs>>

DecideSilently(t) ==
    /\ code[t] \in {"again", "finished"} /\ mLock = NULL
    /\ IF code[t] = "finished" \/ mExitPending
       THEN /\ mExitPending' = TRUE /\ mRunning' = FALSE /\ m_ThreadId' = NULL
            /\ Moves(t, "exited")
       ELSE Moves(t, "release") /\ UNCHANGED <<mExitPending, mRunning, m_ThreadId>>
    /\ UNCHANGED <<mLock, mStatus, mHoldSelf, fresh, call, ref, runs>>

DecideByResult(t) ==
    /\ code[t] \in {"again", "finished"} /\ mLock = NULL
    /\ IF code[t] = "finished"
       THEN /\ mExitPending' = TRUE /\ mRunning' = FALSE /\ m_ThreadId' = NULL
            /\ ExitedBroadcast /\ Moves(t, "exited")
       ELSE Moves(t, "release") /\ UNCHANGED <<mExitPending, mRunning, m_ThreadId, call>>
    /\ UNCHANGED <<mLock, mStatus, mHoldSelf, fresh, ref, runs>>

\* After each call of threadLoop: the thread gives mRunning back and ends, or
\* goes on.
Decide(t) ==
    /\ code[t] \in {"again", "finished"} /\ mLock = NULL
    /\ IF code[t] = "finished" \/ mExitPending
       THEN /\ mExitPending' = TRUE /\ mRunning' = FALSE /\ m_ThreadId' = NULL
            /\ ExitedBroadcast /\ Moves(t, "exited")
       ELSE Moves(t, "release") /\ UNCHANGED <<mExitPending, mRunning, m_ThreadId, call>>
    /\ UNCHANGED <<mLock, mStatus, mHoldSelf, fresh, ref, runs>>

\* strong.clear(); the object may be destroyed by this.
ReleaseStrong(t) ==
    /\ code[t] = "release" /\ Moves(t, "promote")
    /\ UNCHANGED <<mLock, object, fresh, call, ref, runs>>

\* weak.promote(): the thread ends when the object is gone.
PromoteWeak(t) ==
    /\ code[t] = "promote"
    /\ Moves(t, IF Alive THEN "loop" ELSE "free")
    /\ UNCHANGED <<mLock, object, fresh, call, ref, runs>>

\* The thread ends, and its local strong with it.
ThreadEnds(t) ==
    /\ code[t] = "exited" /\ Moves(t, "free")
    /\ UNCHANGED <<mLock, object, fresh, call, ref, runs>>

OwnThread(t) ==
    \/ ThreadStarts(t) \/ CheckExitPending(t) \/ Decide(t)
    \/ ReleaseStrong(t) \/ PromoteWeak(t) \/ ThreadEnds(t)

-----------------------------------------------------------------------------
(***************************************************************************)
(* The other calls.  isRunning and exitPending change nothing.             *)
(***************************************************************************)
RequestExit(t) ==
    /\ MayCall(t) /\ mLock = NULL
    /\ mExitPending' = TRUE
    /\ UNCHANGED <<mLock, m_ThreadId, mStatus, mRunning, mHoldSelf, fresh, code, call, ref, runs>>

\* requestExitAndWait up to its return or its wait.  (Called in the object's
\* own thread it returns WOULD_BLOCK, and nothing changes.)
RequestExitAndWait(t) ==
    /\ MayCall(t) /\ mLock = NULL /\ m_ThreadId # t
    /\ IF mRunning THEN mExitPending' = TRUE /\ Enters(t, "exitWait")
                   ELSE mExitPending' = FALSE /\ UNCHANGED call
    /\ UNCHANGED <<mLock, m_ThreadId, mStatus, mRunning, mHoldSelf, fresh, code, ref, runs>>

\* (Mutant of ResumeExitWait: an if in the place of the while.)
ResumeExitIf(t) ==
    /\ call[t] = "exitWoken" /\ mLock = NULL
    /\ mExitPending' = FALSE /\ Returns(t)
    /\ UNCHANGED <<mLock, m_ThreadId, mStatus, mRunning, mHoldSelf, fresh, code, ref, runs>>

ResumeExitWait(t) ==
    /\ call[t] = "exitWoken" /\ mLock = NULL
    /\ IF mRunning THEN Enters(t, "exitWait") /\ UNCHANGED mExitPending
                   ELSE Returns(t) /\ mExitPending' = FALSE
    /\ UNCHANGED <<mLock, m_ThreadId, mStatus, mRunning, mHoldSelf, fresh, code, ref, runs>>

\* join waits in the same way and asks for nothing.
Join(t) ==
    /\ MayCall(t) /\ mLock = NULL /\ m_ThreadId # t /\ mRunning
    /\ Enters(t, "joinWait")
    /\ UNCHANGED <<mLock, object, fresh, code, ref, runs>>

\* (Mutant of ResumeJoin: an if in the place of the while.)
ResumeJoinIf(t) ==
    /\ call[t] = "joinWoken" /\ mLock = NULL
    /\ Returns(t)
    /\ UNCHANGED <<mLock, object, fresh, code, ref, runs>>

ResumeJoin(t) ==
    /\ call[t] = "joinWoken" /\ mLock = NULL
    /\ IF mRunning THEN Enters(t, "joinWait") ELSE Returns(t)
    /\ UNCHANGED <<mLock, object, fresh, code, ref, runs>>

\* Sleep reads the thread id without mLock: the object's own thread waits on
\* mWaitCondition, where Wakeup reaches it, any other thread calls usleep.
Sleep(t) ==
    /\ MayCall(t)
    /\ Enters(t, IF m_ThreadId = t THEN "sleepLock" ELSE "usleep")
    /\ UNCHANGED <<mLock, object, fresh, code, ref, runs>>

SleepWait(t) ==
    /\ call[t] = "sleepLock" /\ mLock = NULL
    /\ Enters(t, "sleepWait")
    /\ UNCHANGED <<mLock, object, fresh, code, ref, runs>>

SleepEnds(t) ==
    /\ \/ call[t] = "sleepWoken" /\ mLock = NULL
       \/ call[t] = "usleep"
    /\ Returns(t)
    /\ UNCHANGED <<mLock, object, fresh, code, ref, runs>>

Wakeup(t) ==
    /\ MayCall(t) /\ mLock = NULL
    /\ call' = [u \in Tids |-> IF call[u] = "sleepWait" THEN "sleepWoken" ELSE call[u]]
    /\ UNCHANGED <<mLock, object, fresh, code, ref, runs>>

\* The time of a Sleep is over; a wait on mExitedCondition has no limit.
TimeOut(t) ==
    /\ call[t] = "sleepWait" /\ Enters(t, "sleepWoken")
    /\ UNCHANGED <<mLock, object, fresh, code, ref, runs>>

SpuriousWakeup(t) ==
    /\ \/ call[t] = "exitWait" /\ Enters(t, "exitWoken")
       \/ call[t] = "joinWait" /\ Enters(t, "joinWoken")
    /\ UNCHANGED <<mLock, object, fresh, code, ref, runs>>

Calling(t) ==
    \/ RunBegin(t) \/ RequestExit(t) \/ RequestExitAndWait(t) \/ Join(t)
    \/ Sleep(t) \/ Wakeup(t)

Resuming(t) ==
    \/ ResumeExitWait(t) \/ ResumeJoin(t) \/ SleepWait(t) \/ SleepEnds(t) \/ TimeOut(t)

Program(t) == StartClient(t) \/ EndClient(t) \/ TakeRef(t) \/ DropRef(t)

Next ==
    \E t \in Tids :
       \/ Program(t) \/ Calling(t) \/ Run(t) \/ Resuming(t) \/ SpuriousWakeup(t)
       \/ OwnThread(t) \/ ReadyToRunReturns(t) \/ ThreadLoopReturns(t)

Spec == Init /\ [][Next]_vars

\* A thread that can run is eventually scheduled, a mutex that is free again
\* and again is eventually got, and readyToRun and threadLoop return however
\* often they call the object.  Nobody is obliged to call anything.
Fairness ==
    \A t \in Tids :
       /\ WF_vars(Run(t)) /\ WF_vars(Resuming(t)) /\ WF_vars(OwnThread(t))
       /\ SF_vars(ReadyToRunReturns(t)) /\ SF_vars(ThreadLoopReturns(t))

FairSpec == Spec /\ Fairness

-----------------------------------------------------------------------------
(***************************************************************************)
(* Properties.                                                             *)
(***************************************************************************)

\* The object is alive whenever a thread is inside one of its functions: the
\* caller of run may drop its reference at once, the new thread is kept alive
\* by mHoldSelf until it has a reference of its own, and goes without one
\* between strong.clear() and weak.promote() only.
ObjectHeldWhileUsed ==
    (\E t \in Tids : call[t] # "none" \/ code[t] \in LiveCode \ {"promote"}) => Alive

\* run never starts a second thread while the first may still call threadLoop:
\* mRunning stands for exactly one thread, being created or at work.
OneIncarnation ==
    /\ Cardinality(Live) <= 1
    /\ Live # {} => mRunning
    /\ mRunning /\ Alive => Live # {} \/ \E t \in Tids : call[t] = "create"

\* m_ThreadId is the id of the thread at work, and of no other, whenever
\* somebody can look at it under mLock: join and requestExitAndWait recognise
\* the object's own thread (they would wait for themselves) and refuse nobody
\* else, although the id of an ended thread is given to new ones.
ThreadIdExact ==
    mLock = NULL /\ Alive => \A t \in Tids : m_ThreadId = t <=> t \in Live

\* A request to exit is not taken back while the thread it is meant for runs,
\* by no other caller that waited for an earlier exit (a part of RefinesWorker).
ExitRequestSticks ==
    [][mRunning /\ mExitPending /\ mRunning' => mExitPending']_vars

\* join and requestExitAndWait return from their wait only when no thread is
\* left that could call threadLoop, whatever woke them.
WaitersSeeItStopped ==
    [][\A t \in Tids :
          call[t] \in {"exitWoken", "joinWoken"} /\ call'[t] = "none" => Live = {}]_vars

\* A thread that is asked to exit stops, or finds its object gone.
ExitRequestStops ==
    mRunning /\ mExitPending ~> ~mRunning \/ ~Alive

\* Whoever waits in requestExitAndWait gets out while its request stands, or
\* once the thread has ended, unless run starts the thread again before that.
ExitWaitEnds ==
    \A t \in Tids : \A n \in 0..MaxRuns :
       /\ call[t] \in {"exitWait", "exitWoken"} /\ runs = n
       /\ mExitPending \/ ~mRunning
       ~> call[t] = "none" \/ runs > n

-----------------------------------------------------------------------------
(***************************************************************************)
(* The abstract specification.                                             *)
(***************************************************************************)

\* Where the object's own thread stands: it is in a round from the decision to
\* call threadLoop again until that call has returned.
Round ==
    CASE \E t \in Live : code[t] = "loop"                   -> "inside"
      [] \E t \in Live : code[t] \in {"release", "promote"} -> "granted"
      [] \E t \in Live : code[t] = "again"                  -> "over"
      [] \E t \in Live : code[t] = "finished"               -> "done"
      [] \E t \in Live : code[t] \in {"start", "ready", "check"} -> "new"
      [] OTHER                                              -> "none"

In(places) == {t \in Tids : call[t] \in places}

Object == INSTANCE Worker WITH
    Threads   <- Tids,
    alive     <- Alive,
    running   <- mRunning,
    exitAsked <- mExitPending,
    worker    <- Live,
    round     <- Round,
    joiners   <- In({"joinWait", "joinWoken"}),
    exiters   <- In({"exitWait", "exitWoken"})

\* The thread id, the lock held over the creation of the thread and the weak
\* pointer give those who share the object one worker: asked to exit it begins no
\* round that was not decided upon, nobody waits for himself or returns early, a
\* request does not outlive its stop, and the object goes between rounds only.
RefinesWorker == Object!Spec
=============================================================================
