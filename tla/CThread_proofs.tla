--------------------------- MODULE CThread_proofs ---------------------------
(***************************************************************************)
(* Theorems about CThread, for any finite set of thread ids and any number *)
(* of calls of run.                                                        *)
(***************************************************************************)
EXTENDS CThread, FiniteSetTheorems, TLAPS

\* The calls in which mLock is held from one step to the next.
InRun == {"create", "assignId", "unlock"}

\* mLock is held by the thread inside run, and by no other.
LockOK == \A t \in Tids : call[t] \in InRun <=> mLock = t

\* Who is inside a call has a reference of its own, or is the object's thread
\* with its local strong.
CallsOK ==
    \A t \in Tids : call[t] # "none" =>
       code[t] \in UserCode \/ (code[t] = "client" /\ ref[t])

\* The object holds itself from the decision to create a thread until that
\* thread takes the reference over.
HoldSelfOK ==
    mHoldSelf <=> \E t \in Tids : call[t] = "create" \/ code[t] = "start"

OneLive == \A t, u \in Live : t = u

\* mRunning is given back with the thread's end, and m_ThreadId with it; while
\* the object lives it stands for one thread, whose id is known outside run.
RunningOK ==
    /\ ~mRunning => Live = {} /\ m_ThreadId = NULL
    /\ mRunning /\ mLock = NULL /\ Alive => m_ThreadId \in Live

\* What run knows at each of its places.  A thread whose id is not stored yet
\* gets no further than its first use of mLock.
RunOK ==
    \A t \in Tids :
       /\ call[t] = "create"   => mRunning /\ Live = {}
       /\ call[t] = "assignId" =>
             /\ mRunning /\ Live # {}
             /\ \A u \in Live : code[u] \in {"start", "ready", "check", "finished"}
       /\ call[t] = "unlock"   => ~mRunning

IInv == TypeOK /\ LockOK /\ CallsOK /\ HoldSelfOK /\ OneLive /\ RunningOK /\ RunOK

-----------------------------------------------------------------------------
\* One client, and nobody else.
LEMMA InitIsTyped == Init => TypeOK
<1> SUFFICES ASSUME Init PROVE TypeOK
  OBVIOUS
<1>1. PICK t \in Tids : code = [u \in Tids |-> IF u = t THEN "client" ELSE "free"]
  BY DEF Init
<1>2. code \in [Tids -> Codes]
  BY <1>1 DEF Codes
<1>3. runs \in 0..MaxRuns
  BY CThreadAssumption DEF CThreadAssumption, Init
<1> QED
  BY <1>2, <1>3 DEF Init, TypeOK, Calls

\* Every action keeps every variable within its type.
LEMMA TypeCorrect == Spec => []TypeOK
<1> USE CThreadAssumption DEF CThreadAssumption, TypeOK, Codes, Calls, LiveCode
<1>2. TypeOK /\ [Next]_vars => TypeOK'
  <2> SUFFICES ASSUME TypeOK, [Next]_vars PROVE TypeOK'
    OBVIOUS
  <2>1. ASSUME NEW t \in Tids, Program(t) PROVE TypeOK'
    BY <2>1 DEF Program, StartClient, EndClient, TakeRef, DropRef, Moves, object
  <2>2. ASSUME NEW t \in Tids, Calling(t) PROVE TypeOK'
    <3>1. CASE RunBegin(t)
      <4>1. runs' \in 0..MaxRuns
        BY <3>1 DEF RunBegin
      <4>2. QED
        BY <3>1, <4>1 DEF RunBegin, Enters
    <3>2. CASE RequestExit(t) \/ RequestExitAndWait(t)
      BY <3>2 DEF RequestExit, RequestExitAndWait, Enters
    <3>3. CASE Join(t) \/ Sleep(t) \/ Wakeup(t)
      BY <3>3 DEF Join, Sleep, Wakeup, Enters, object
    <3>4. QED
      BY <2>2, <3>1, <3>2, <3>3 DEF Calling
  <2>3. ASSUME NEW t \in Tids, Run(t) PROVE TypeOK'
    BY <2>3 DEF Run, CreateRawThread, AssignThreadId, RunFails, UnlockAfterFailure,
                Moves, Enters, Returns, Live, object
  <2>4. ASSUME NEW t \in Tids, Resuming(t) \/ SpuriousWakeup(t) PROVE TypeOK'
    BY <2>4 DEF Resuming, ResumeExitWait, ResumeJoin, SleepWait, SleepEnds, TimeOut,
                SpuriousWakeup, Enters, Returns, object
  <2>5. ASSUME NEW t \in Tids, OwnThread(t) PROVE TypeOK'
    <3>1. CASE Decide(t)
      BY <3>1 DEF Decide, ExitedBroadcast, Moves
    <3>2. CASE ~Decide(t)
      BY <2>5, <3>2 DEF OwnThread, ThreadStarts, CheckExitPending, ReleaseStrong,
                        PromoteWeak, ThreadEnds, Moves, object
    <3>3. QED
      BY <3>1, <3>2
  <2>6. ASSUME NEW t \in Tids, ReadyToRunReturns(t) \/ ThreadLoopReturns(t) PROVE TypeOK'
    BY <2>6 DEF ReadyToRunReturns, ThreadLoopReturns, Moves, object
  <2>7. CASE UNCHANGED vars
    BY <2>7 DEF vars, object
  <2>8. QED
    BY <2>1, <2>2, <2>3, <2>4, <2>5, <2>6, <2>7 DEF Next
<1>3. QED
  BY InitIsTyped, <1>2, PTL DEF Spec
-----------------------------------------------------------------------------
\* An object that is gone does not come back: a promote of the last weak pointer
\* fails, and nobody is left to make another strong one.
LEMMA GoneForGood == IInv /\ TypeOK' /\ [Next]_vars /\ ~Alive => ~Alive'
<1> SUFFICES ASSUME IInv, TypeOK', [Next]_vars, ~Alive PROVE ~Alive'
  OBVIOUS
<1> USE DEF Alive, HoldsStrong
<1>1. /\ ~fresh /\ ~mHoldSelf
      /\ \A t \in Tids : /\ ~ref[t]
                         /\ code[t] \in {"free", "client", "promote"}
                         /\ call[t] = "none"
  BY DEF IInv, TypeOK, Codes, LiveCode, UserCode, CallsOK, HoldSelfOK
<1>2. ASSUME NEW t \in Tids, Program(t) PROVE ~Alive'
  BY <1>1, <1>2 DEF Program, StartClient, EndClient, TakeRef, DropRef, Moves,
                    object, IInv, TypeOK, UserCode
<1>3. ASSUME NEW t \in Tids, Calling(t) \/ Run(t) \/ Resuming(t) \/ SpuriousWakeup(t)
      PROVE  FALSE
  <2>1. ~MayCall(t)
    BY <1>1 DEF MayCall, UserCode
  <2> QED
    BY <1>1, <1>3, <2>1
    DEF Calling, RunBegin, RequestExit, RequestExitAndWait, Join, Sleep, Wakeup,
        Run, CreateRawThread, AssignThreadId, RunFails, UnlockAfterFailure,
        Resuming, ResumeExitWait, ResumeJoin, SleepWait, SleepEnds, TimeOut,
        SpuriousWakeup
<1>4. ASSUME NEW t \in Tids, OwnThread(t) \/ ReadyToRunReturns(t) \/ ThreadLoopReturns(t)
      PROVE  ~Alive'
  <2>1. PromoteWeak(t)
    BY <1>1, <1>4 DEF OwnThread, ThreadStarts, CheckExitPending, Decide, ReleaseStrong,
                      ThreadEnds, ReadyToRunReturns, ThreadLoopReturns
  <2> QED
    BY <1>1, <2>1 DEF PromoteWeak, Moves, object, IInv, TypeOK
<1>5. CASE UNCHANGED vars
  BY <1>5 DEF vars, object
<1> QED
  BY <1>2, <1>3, <1>4, <1>5 DEF Next

\* Most steps leave the lock, the object's fields, what run is at and the set of
\* live threads alone, and no thread gets further than mLock lets it.
LEMMA QuietStep ==
    ASSUME IInv, TypeOK', Alive' => Alive, CallsOK',
           UNCHANGED <<mLock, m_ThreadId, mRunning, mHoldSelf>>, Live' = Live,
           \A t \in Tids : /\ call[t] \in InRun \/ call'[t] \in InRun => call'[t] = call[t]
                           /\ code'[t] = "start" <=> code[t] = "start",
           \A t \in Tids : code[t] \in {"start", "ready", "check", "finished"}
                           /\ code'[t] \in LiveCode /\ mLock # NULL
                              => code'[t] \in {"start", "ready", "check", "finished"}
    PROVE  IInv'
<1>1. LockOK' /\ HoldSelfOK'
  BY DEF IInv, LockOK, HoldSelfOK, InRun
<1>2. OneLive' /\ RunningOK'
  BY DEF IInv, OneLive, RunningOK
<1>3. RunOK'
  BY CThreadAssumption DEF CThreadAssumption, IInv, RunOK, InRun, Live, LockOK
<1> QED
  BY <1>1, <1>2, <1>3 DEF IInv

LEMMA NextKeepsInv == IInv /\ TypeOK' /\ [Next]_vars => IInv'
<1> SUFFICES ASSUME IInv, TypeOK', [Next]_vars PROVE IInv'
  OBVIOUS
<1>a. Alive' => Alive
  BY GoneForGood
<1>t. /\ code \in [Tids -> Codes] /\ call \in [Tids -> Calls] /\ ref \in [Tids -> BOOLEAN]
      /\ CallsOK /\ NULL \notin Tids
  BY CThreadAssumption DEF CThreadAssumption, IInv, TypeOK
<1> USE DEF Moves, Enters, Returns, object, Live, LiveCode, UserCode, InRun
<1>1. ASSUME NEW t \in Tids, Program(t) PROVE IInv'
  BY <1>a, <1>t, <1>1, QuietStep
  DEF Program, StartClient, EndClient, TakeRef, DropRef, CallsOK
<1>2. ASSUME NEW t \in Tids,
             \/ RequestExit(t) \/ RequestExitAndWait(t) \/ Join(t) \/ Sleep(t) \/ Wakeup(t)
      PROVE  IInv'
  BY <1>a, <1>t, <1>2, QuietStep
  DEF RequestExit, RequestExitAndWait, Join, Sleep, Wakeup, MayCall, CallsOK
<1>3. ASSUME NEW t \in Tids, Resuming(t) \/ SpuriousWakeup(t) PROVE IInv'
  BY <1>a, <1>t, <1>3, QuietStep
  DEF Resuming, ResumeExitWait, ResumeJoin, SleepWait, SleepEnds, TimeOut,
      SpuriousWakeup, CallsOK
<1>4. ASSUME NEW t \in Tids,
             \/ CheckExitPending(t) \/ ReleaseStrong(t)
             \/ ReadyToRunReturns(t) \/ ThreadLoopReturns(t)
      PROVE  IInv'
  BY <1>a, <1>t, <1>4, QuietStep
  DEF CheckExitPending, ReleaseStrong, ReadyToRunReturns, ThreadLoopReturns, CallsOK
<1>5. ASSUME NEW t \in Tids, ThreadEnds(t) PROVE IInv'
  BY <1>a, <1>t, <1>5, QuietStep DEF ThreadEnds, CallsOK
<1> USE DEF IInv, LockOK, CallsOK, HoldSelfOK, OneLive, RunningOK, RunOK
\* run finds no thread left, and nobody else is inside run until it unlocks.
<1>6. ASSUME NEW t \in Tids, RunBegin(t) PROVE IInv'
  BY <1>t, <1>6 DEF RunBegin, MayCall
<1>7. ASSUME NEW t \in Tids, CreateRawThread(t) PROVE IInv'
  BY <1>a, <1>t, <1>7 DEF CreateRawThread
<1>8. ASSUME NEW t \in Tids, AssignThreadId(t) PROVE IInv'
  BY <1>a, <1>t, <1>8 DEF AssignThreadId
<1>9. ASSUME NEW t \in Tids, RunFails(t) PROVE IInv'
  BY <1>t, <1>9 DEF RunFails
<1>10. ASSUME NEW t \in Tids, UnlockAfterFailure(t) PROVE IInv'
  BY <1>t, <1>10 DEF UnlockAfterFailure
\* The thread is the only live one: what it gives back is its own.
<1>11. ASSUME NEW t \in Tids, ThreadStarts(t) PROVE IInv'
  BY <1>a, <1>t, <1>11 DEF ThreadStarts
<1>12. ASSUME NEW t \in Tids, Decide(t) PROVE IInv'
  BY <1>a, <1>t, <1>12 DEF Decide, ExitedBroadcast
<1>13. ASSUME NEW t \in Tids, PromoteWeak(t) PROVE IInv'
  BY <1>a, <1>t, <1>13 DEF PromoteWeak
<1>14. CASE UNCHANGED vars
  BY <1>t, <1>a, <1>14, QuietStep DEF vars
<1> QED
  BY <1>1, <1>2, <1>3, <1>4, <1>5, <1>6, <1>7, <1>8, <1>9, <1>10, <1>11, <1>12,
     <1>13, <1>14 DEF Next, Calling, Run, OwnThread

\* The inductive invariant, for any threads and any number of runs.
THEOREM Invariant == Spec => []IInv
<1>1. Init => IInv
  <2> SUFFICES ASSUME Init, TypeOK PROVE IInv
    BY InitIsTyped
  <2>1. /\ mLock = NULL /\ m_ThreadId = NULL /\ ~mRunning /\ ~mHoldSelf
        /\ \A t \in Tids : call[t] = "none" /\ code[t] \in {"client", "free"}
    BY DEF Init
  <2> QED
    BY <2>1, CThreadAssumption
    DEF CThreadAssumption, IInv, LockOK, InRun, CallsOK, HoldSelfOK, OneLive,
        RunningOK, RunOK, Live, LiveCode
<1> QED
  BY <1>1, TypeCorrect, NextKeepsInv, PTL DEF Spec

-----------------------------------------------------------------------------
\* Whoever is inside a function of the object finds it alive.
THEOREM ObjectIsHeld == Spec => []ObjectHeldWhileUsed
<1>1. IInv => ObjectHeldWhileUsed
  BY DEF IInv, ObjectHeldWhileUsed, Alive, HoldsStrong, LiveCode, UserCode,
         CallsOK, HoldSelfOK
<1> QED
  BY <1>1, Invariant, PTL

\* mRunning stands for one thread.
THEOREM OneThreadRuns == Spec => []OneIncarnation
<1>1. IInv => OneIncarnation
  <2> SUFFICES ASSUME IInv PROVE OneIncarnation
    OBVIOUS
  <2>1. Cardinality(Live) <= 1
    <3>1. CASE Live = {}
      BY <3>1, FS_EmptySet
    <3>2. ASSUME NEW t \in Live PROVE Cardinality(Live) = 1
      <4>1. Live = {t}
        BY <3>2 DEF IInv, OneLive
      <4> QED
        BY <4>1, FS_Singleton
    <3> QED
      BY <3>1, <3>2
  <2>2. Live # {} => mRunning
    BY DEF IInv, RunningOK
  <2>3. ASSUME mRunning, Alive PROVE Live # {} \/ \E t \in Tids : call[t] = "create"
    <3>1. CASE mLock = NULL
      BY <2>3, <3>1 DEF IInv, RunningOK
    <3>2. CASE mLock # NULL
      <4>1. mLock \in Tids /\ call[mLock] \in InRun
        BY <3>2 DEF IInv, TypeOK, LockOK
      <4> QED
        BY <2>3, <4>1 DEF IInv, RunOK, InRun
    <3> QED
      BY <3>1, <3>2
  <2> QED
    BY <2>1, <2>2, <2>3 DEF OneIncarnation
<1> QED
  BY <1>1, Invariant, PTL

\* Outside run, m_ThreadId is the id of the thread at work and of no other.
THEOREM IdIsExact == Spec => []ThreadIdExact
<1>1. IInv => ThreadIdExact
  BY CThreadAssumption
  DEF CThreadAssumption, IInv, ThreadIdExact, RunningOK, OneLive, Live
<1> QED
  BY <1>1, Invariant, PTL

-----------------------------------------------------------------------------
\* No step takes back a request to exit while the thread runs.
THEOREM ExitRequestsStick == Spec => ExitRequestSticks
<1>1. [Next]_vars => (mRunning /\ mExitPending /\ mRunning' => mExitPending')
  <2> SUFFICES ASSUME [Next]_vars, mRunning, mExitPending, mRunning'
               PROVE  mExitPending'
    OBVIOUS
  <2>1. ASSUME NEW t \in Tids, Program(t) \/ Run(t) \/ SpuriousWakeup(t) PROVE mExitPending'
    BY <2>1 DEF Program, StartClient, EndClient, TakeRef, DropRef, Run, CreateRawThread,
                AssignThreadId, RunFails, UnlockAfterFailure, SpuriousWakeup, object
  <2>2. ASSUME NEW t \in Tids, Calling(t) \/ Resuming(t) PROVE mExitPending'
    BY <2>2 DEF Calling, RunBegin, RequestExit, RequestExitAndWait, Join, Sleep, Wakeup,
                Resuming, ResumeExitWait, ResumeJoin, SleepWait, SleepEnds, TimeOut, object
  <2>3. ASSUME NEW t \in Tids, OwnThread(t) \/ ReadyToRunReturns(t) \/ ThreadLoopReturns(t)
        PROVE  mExitPending'
    BY <2>3 DEF OwnThread, ThreadStarts, CheckExitPending, Decide, ReleaseStrong,
                PromoteWeak, ThreadEnds, ReadyToRunReturns, ThreadLoopReturns, object
  <2> QED
    BY <2>1, <2>2, <2>3 DEF Next, vars, object
<1> QED
  BY <1>1, PTL DEF Spec, ExitRequestSticks

\* Whoever returns from a wait for the exit has seen mRunning given back.
THEOREM WaitersSeeTheEnd == Spec => WaitersSeeItStopped
<1>1. ASSUME IInv, TypeOK', [Next]_vars, NEW t \in Tids,
             call[t] \in {"exitWoken", "joinWoken"}, call'[t] = "none"
      PROVE  Live = {}
  <2> USE DEF Enters, Returns, object
  <2>0. call \in [Tids -> Calls]
    BY <1>1 DEF IInv, TypeOK
  <2>1. ASSUME NEW u \in Tids, Program(u) \/ Calling(u) \/ Run(u) \/ SpuriousWakeup(u)
        PROVE  FALSE
    BY <1>1, <2>0, <2>1
    DEF Program, StartClient, EndClient, TakeRef, DropRef, Calling, RunBegin,
        RequestExit, RequestExitAndWait, Join, Sleep, Wakeup, MayCall, Run,
        CreateRawThread, AssignThreadId, RunFails, UnlockAfterFailure, SpuriousWakeup
  <2>2. ASSUME NEW u \in Tids, OwnThread(u) \/ ReadyToRunReturns(u) \/ ThreadLoopReturns(u)
        PROVE  FALSE
    BY <1>1, <2>0, <2>2
    DEF OwnThread, ThreadStarts, CheckExitPending, Decide, ExitedBroadcast, ReleaseStrong,
        PromoteWeak, ThreadEnds, ReadyToRunReturns, ThreadLoopReturns
  <2>3. ASSUME NEW u \in Tids, Resuming(u) PROVE ~mRunning
    BY <1>1, <2>0, <2>3
    DEF Resuming, ResumeExitWait, ResumeJoin, SleepWait, SleepEnds, TimeOut
  <2>4. CASE UNCHANGED vars
    BY <1>1, <2>4 DEF vars
  <2> QED
    BY <1>1, <2>1, <2>2, <2>3, <2>4 DEF Next, IInv, RunningOK
<1>2. IInv /\ TypeOK' /\ [Next]_vars =>
         \A t \in Tids :
            call[t] \in {"exitWoken", "joinWoken"} /\ call'[t] = "none" => Live = {}
  BY <1>1
<1> QED
  BY <1>2, Invariant, TypeCorrect, PTL DEF Spec, WaitersSeeItStopped

-----------------------------------------------------------------------------
(***************************************************************************)
(* CThread implements Worker.                                              *)
(***************************************************************************)

\* The calls that wait are those of join and requestExitAndWait.
Joining == {"joinWait", "joinWoken"}
Exiting == {"exitWait", "exitWoken"}

\* A step that changes nothing in Worker but, at most, lets the object go.
LEMMA HiddenStep ==
    ASSUME IInv, IInv', Alive' => Alive, Live' = Live, Round' = Round,
           UNCHANGED <<mLock, m_ThreadId, mRunning, mExitPending>>,
           \A t \in Tids : /\ call[t] \in Joining <=> call'[t] \in Joining
                           /\ call[t] \in Exiting <=> call'[t] \in Exiting
                           /\ call[t] \in InRun <=> call'[t] \in InRun
    PROVE  [Object!Next]_(Object!vars)
<1>1. In(Joining)' = In(Joining) /\ In(Exiting)' = In(Exiting)
  BY DEF In
<1>2. CASE Alive' = Alive
  BY <1>1, <1>2 DEF Object!vars, Object!waiting, Joining, Exiting
<1>3. CASE Alive /\ ~Alive'
  <2>1. /\ \A t \in Tids : call'[t] = "none"
        /\ \A t \in Live : code'[t] = "promote"
    <3>1. \A t \in Tids :
             call'[t] = "none" /\ code'[t] \in {"free", "client", "promote"}
      BY <1>3 DEF IInv, TypeOK, Codes, Alive, HoldsStrong, CallsOK, HoldSelfOK, LiveCode,
                  UserCode
    <3> QED
      BY <3>1 DEF Live, LiveCode
  <2>2. In(Joining) = {} /\ In(Exiting) = {}
    BY <2>1, <1>1 DEF In, Joining, Exiting
  <2>3. ASSUME mRunning PROVE Round = "granted"
    <3>1. mLock = NULL
      BY <2>1 DEF IInv, TypeOK, LockOK, InRun
    <3>2. m_ThreadId \in Live
      BY <1>3, <2>3, <3>1 DEF IInv, RunningOK
    <3> QED
      BY <2>1, <3>2 DEF Round, Live
  <2> QED
    BY <1>1, <1>3, <2>2, <2>3
    DEF Object!Next, Object!Vanish, Object!waiting, Joining, Exiting
<1> QED
  BY <1>2, <1>3 DEF Alive
\* Every action of CThread is an action of Worker or hidden from it.
LEMMA WorkerStep ==
    ASSUME IInv, IInv', TypeOK', Next
    PROVE  [Object!Next]_(Object!vars)
<1>a. Alive' => Alive
  BY GoneForGood
<1>t. /\ code \in [Tids -> Codes] /\ call \in [Tids -> Calls] /\ ref \in [Tids -> BOOLEAN]
      /\ NULL \notin Tids
  BY CThreadAssumption DEF CThreadAssumption, IInv, TypeOK
<1> USE DEF Moves, Enters, Returns, object, Joining, Exiting, InRun
\* The steps that Worker does not see.
<1>1. ASSUME NEW t \in Tids, Program(t) PROVE [Object!Next]_(Object!vars)
  <2>1. Live' = Live /\ Round' = Round
    BY <1>t, <1>1 DEF Program, StartClient, EndClient, TakeRef, DropRef, Live, LiveCode, Round
  <2> QED
    BY <1>a, <1>t, <1>1, <2>1, HiddenStep DEF Program, StartClient, EndClient, TakeRef, DropRef
<1>2. ASSUME NEW t \in Tids, Sleep(t) \/ Wakeup(t) \/ SpuriousWakeup(t)
                             \/ SleepWait(t) \/ SleepEnds(t) \/ TimeOut(t)
      PROVE  [Object!Next]_(Object!vars)
  <2>1. Live' = Live /\ Round' = Round
    BY <1>2 DEF Sleep, Wakeup, SpuriousWakeup, SleepWait, SleepEnds, TimeOut, Live, Round
  <2> QED
    BY <1>a, <1>t, <1>2, <2>1, HiddenStep
    DEF Sleep, Wakeup, SpuriousWakeup, SleepWait, SleepEnds, TimeOut, MayCall
<1>3. ASSUME NEW t \in Tids, ReleaseStrong(t) \/ ThreadEnds(t)
      PROVE  [Object!Next]_(Object!vars)
  <2>1. Live' = Live /\ Round' = Round
    BY <1>t, <1>3 DEF ReleaseStrong, ThreadEnds, Live, LiveCode, Round
  <2> QED
    BY <1>a, <1>t, <1>3, <2>1, HiddenStep DEF ReleaseStrong, ThreadEnds
\* The steps that it sees.  run is under way, or begins.
<1>4. ASSUME NEW t \in Tids, RunBegin(t) PROVE Object!Start
  <2>1. Alive /\ Alive'
    BY <1>4 DEF RunBegin, MayCall, Alive, HoldsStrong, UserCode
  <2>2. Live' = Live /\ Round' = Round
    BY <1>4 DEF RunBegin, Live, Round
  <2>3. In(Joining)' = In(Joining) /\ In(Exiting)' = In(Exiting)
    BY <1>t, <1>4 DEF RunBegin, MayCall, In
  <2> QED
    BY <1>4, <2>1, <2>2, <2>3 DEF RunBegin, Object!Start, Object!waiting
<1>5. ASSUME NEW t \in Tids, CreateRawThread(t) PROVE \E u \in Tids : Object!Begin(u)
  <2>1. PICK u \in Tids : code[u] = "free" /\ Moves(u, "start")
    BY <1>5 DEF CreateRawThread
  <2>2. Alive /\ Alive' /\ mRunning /\ Live = {}
    BY <1>5 DEF CreateRawThread, IInv, HoldSelfOK, RunOK, Alive
  <2>3. Live' = {u}
    BY <1>t, <2>1, <2>2 DEF Live, LiveCode
  <2>4. Round' = "new"
    BY <1>t, <2>1, <2>3 DEF Round
  <2>5. In(Joining)' = In(Joining) /\ In(Exiting)' = In(Exiting)
    BY <1>t, <1>5 DEF CreateRawThread, In
  <2>6. u \notin In(Joining) \cup In(Exiting)
    BY <2>1 DEF In, IInv, CallsOK, UserCode
  <2> QED
    BY <1>5, <2>2, <2>3, <2>4, <2>5, <2>6
    DEF CreateRawThread, Object!Begin, Object!waiting
<1>6. ASSUME NEW t \in Tids, AssignThreadId(t) \/ UnlockAfterFailure(t)
      PROVE  UNCHANGED Object!vars
  <2>1. Live' = Live /\ Round' = Round /\ Alive' = Alive
    BY <1>6 DEF AssignThreadId, UnlockAfterFailure, Live, Round, Alive, HoldsStrong
  <2>2. In(Joining)' = In(Joining) /\ In(Exiting)' = In(Exiting)
    BY <1>t, <1>6 DEF AssignThreadId, UnlockAfterFailure, In
  <2> QED
    BY <1>6, <2>1, <2>2
    DEF AssignThreadId, UnlockAfterFailure, Object!vars, Object!waiting
<1>7. ASSUME NEW t \in Tids, RunFails(t) PROVE Object!Fail
  <2>1. mRunning /\ Live = {}
    BY <1>7 DEF RunFails, IInv, RunOK
  <2>2. Alive /\ Alive'
    BY <1>7, <2>1 DEF RunFails, IInv, CallsOK, UserCode, Live, LiveCode, Alive, HoldsStrong
  <2>3. Live' = Live /\ Round' = Round
    BY <1>7 DEF RunFails, Live, Round
  <2>4. In(Joining)' = In(Joining) /\ In(Exiting)' = In(Exiting)
    BY <1>t, <1>7 DEF RunFails, In
  <2> QED
    BY <1>7, <2>1, <2>2, <2>3, <2>4 DEF RunFails, Object!Fail, Object!waiting
\* The object's thread.
<1>own. ASSUME NEW t \in Live
        PROVE  Live = {t}
  BY DEF IInv, OneLive
<1>8. ASSUME NEW t \in Tids, ThreadStarts(t) PROVE UNCHANGED Object!vars
  <2>1. Live' = Live /\ Round' = Round /\ Alive' = Alive
    <3>1. Live = {t} /\ Live' = {t}
      BY <1>t, <1>8, <1>own DEF ThreadStarts, Live, LiveCode
    <3>2. mHoldSelf
      BY <1>8 DEF ThreadStarts, IInv, HoldSelfOK
    <3> QED
      BY <1>t, <1>8, <3>1, <3>2 DEF ThreadStarts, Round, Alive, HoldsStrong
  <2> QED
    BY <1>8, <2>1 DEF ThreadStarts, Object!vars, Object!waiting, In
<1>9. ASSUME NEW t \in Tids,
             \/ CheckExitPending(t) \/ ReadyToRunReturns(t) \/ ThreadLoopReturns(t)
             \/ Decide(t) \/ (PromoteWeak(t) /\ Alive)
      PROVE  [Object!Next]_(Object!vars)
  <2>1. Live = {t} /\ code[t] \in LiveCode
    BY <1>9, <1>own
    DEF CheckExitPending, ReadyToRunReturns, ThreadLoopReturns, Decide, PromoteWeak,
        Live, LiveCode
  <2>2. Alive /\ Alive'
    BY <1>t, <1>9 DEF CheckExitPending, ReadyToRunReturns, ThreadLoopReturns, Decide,
                      PromoteWeak, Alive, HoldsStrong
  <2>3. In(Joining)' = In(Joining) /\ In(Exiting)' = In(Exiting)
    BY <1>t, <1>9 DEF CheckExitPending, ReadyToRunReturns, ThreadLoopReturns, Decide,
                      ExitedBroadcast, PromoteWeak, In
  <2>4. CASE Live' = {t}
    <3>1. /\ code[t] = "loop" <=> Round = "inside"
          /\ code[t] \in {"release", "promote"} <=> Round = "granted"
          /\ code[t] = "again" <=> Round = "over"
          /\ code[t] = "finished" <=> Round = "done"
          /\ code[t] \in {"start", "ready", "check"} <=> Round = "new"
      BY <2>1 DEF Round, LiveCode
    <3>2. code'[t] \in LiveCode
      BY <2>4 DEF Live
    <3>3. /\ code'[t] = "loop" <=> Round' = "inside"
          /\ code'[t] \in {"release", "promote"} <=> Round' = "granted"
          /\ code'[t] = "again" <=> Round' = "over"
          /\ code'[t] = "finished" <=> Round' = "done"
          /\ code'[t] \in {"start", "ready", "check"} <=> Round' = "new"
      BY <2>4, <3>2 DEF Round, LiveCode
    <3>4. CASE CheckExitPending(t)
      <4>1. CASE mExitPending
        BY <1>t, <2>1, <2>2, <2>3, <2>4, <3>1, <3>3, <3>4, <4>1
        DEF CheckExitPending, Object!Next, Object!Leave, Object!waiting
      <4>2. CASE ~mExitPending
        BY <1>t, <2>1, <2>2, <2>3, <2>4, <3>1, <3>3, <3>4, <4>2
        DEF CheckExitPending, Object!Next, Object!Grant, Object!waiting
      <4> QED
        BY <4>1, <4>2
    <3>5. CASE ReadyToRunReturns(t)
      <4>1. CASE code'[t] = "check"
        <5>1. Round' = Round
          BY <3>1, <3>3, <3>5, <4>1 DEF ReadyToRunReturns
        <5> QED
          BY <2>1, <2>2, <2>3, <2>4, <3>5, <5>1
          DEF ReadyToRunReturns, Object!vars, Object!waiting
      <4>2. CASE code'[t] = "finished"
        BY <1>t, <2>1, <2>2, <2>3, <2>4, <3>1, <3>3, <3>5, <4>2
        DEF ReadyToRunReturns, Object!Next, Object!Leave, Object!waiting
      <4> QED
        BY <1>t, <3>5, <4>1, <4>2 DEF ReadyToRunReturns
    <3>6. CASE ThreadLoopReturns(t)
      BY <1>t, <2>1, <2>2, <2>3, <2>4, <3>1, <3>3, <3>6
      DEF ThreadLoopReturns, Object!Next, Object!Leave, Object!waiting
    <3>7. CASE Decide(t)
      <4>1. code'[t] = "release" /\ code[t] = "again" /\ ~mExitPending
            /\ UNCHANGED <<mExitPending, mRunning>>
        BY <1>t, <3>2, <3>7 DEF Decide, LiveCode
      <4> QED
        BY <2>1, <2>2, <2>3, <2>4, <3>1, <3>3, <4>1
        DEF Object!Next, Object!Grant, Object!waiting
    <3>8. CASE PromoteWeak(t) /\ Alive
      BY <1>t, <2>1, <2>2, <2>3, <2>4, <3>1, <3>3, <3>8
      DEF PromoteWeak, Object!Next, Object!Enter, Object!waiting
    <3> QED
      BY <1>9, <3>4, <3>5, <3>6, <3>7, <3>8
  <2>5. CASE Live' # {t}
    <3>1. Decide(t) /\ (code[t] = "finished" \/ mExitPending) /\ Live' = {}
      BY <1>t, <1>9, <2>1, <2>5
      DEF CheckExitPending, ReadyToRunReturns, ThreadLoopReturns, Decide, PromoteWeak,
          Live, LiveCode
    <3>2. Round' = "none" /\ (Round = "done" \/ (Round = "over" /\ mExitPending))
      BY <2>1, <3>1 DEF Decide, Round
    <3> QED
      BY <2>2, <2>3, <3>1, <3>2 DEF Decide, Object!Next, Object!Stop, Object!waiting
  <2> QED
    BY <2>4, <2>5
<1>10. ASSUME NEW t \in Tids, PromoteWeak(t), ~Alive PROVE Object!Abandon
  <2>1. Live = {t} /\ Live' = {} /\ ~Alive'
    BY <1>t, <1>a, <1>10, <1>own DEF PromoteWeak, Live, LiveCode
  <2>2. Round = "granted" /\ Round' = "none"
    BY <1>10, <2>1 DEF PromoteWeak, Round
  <2>3. Alive' = Alive
    BY <1>10, <2>1 DEF Alive
  <2> QED
    BY <1>10, <2>2, <2>1, <2>3 DEF PromoteWeak, Object!Abandon, Object!waiting, In
\* The calls.
<1>11. ASSUME NEW t \in Tids,
              \/ RequestExit(t) \/ RequestExitAndWait(t) \/ Join(t)
              \/ ResumeExitWait(t) \/ ResumeJoin(t)
       PROVE  [Object!Next]_(Object!vars)
  <2>1. Live' = Live /\ Round' = Round
    BY <1>11 DEF RequestExit, RequestExitAndWait, Join, ResumeExitWait, ResumeJoin, Live, Round
  <2>2. Alive /\ Alive'
    BY <1>t, <1>11
    DEF RequestExit, RequestExitAndWait, Join, ResumeExitWait, ResumeJoin, MayCall,
        IInv, CallsOK, UserCode, Alive, HoldsStrong
  <2>3. CASE RequestExit(t)
    BY <2>1, <2>2, <2>3
    DEF RequestExit, Object!Next, Object!Ask, Object!waiting, In
  <2>4. CASE RequestExitAndWait(t) /\ ~mRunning
    BY <2>1, <2>2, <2>4
    DEF RequestExitAndWait, Object!Next, Object!Forget, Object!waiting, In
  <2>5. ASSUME mRunning, mLock = NULL, m_ThreadId # t PROVE t \notin Live
    BY <2>2, <2>5 DEF IInv, RunningOK, OneLive
  <2>6. CASE RequestExitAndWait(t) /\ mRunning
    <3>1. /\ In(Joining)' = In(Joining) /\ In(Exiting)' = In(Exiting) \cup {t}
          /\ t \notin In(Joining) \cup In(Exiting)
      BY <1>t, <2>6 DEF RequestExitAndWait, MayCall, In
    <3> QED
      BY <2>1, <2>2, <2>5, <2>6, <3>1
      DEF RequestExitAndWait, Object!Next, Object!AwaitExit, Object!waiting
  <2>7. CASE Join(t)
    <3>1. /\ In(Joining)' = In(Joining) \cup {t} /\ In(Exiting)' = In(Exiting)
          /\ t \notin In(Joining) \cup In(Exiting)
      BY <1>t, <2>7 DEF Join, MayCall, In
    <3> QED
      BY <2>1, <2>2, <2>5, <2>7, <3>1
      DEF Join, Object!Next, Object!Join, Object!waiting
  <2>8. CASE (ResumeExitWait(t) \/ ResumeJoin(t)) /\ mRunning
    <3>1. In(Joining)' = In(Joining) /\ In(Exiting)' = In(Exiting)
      BY <1>t, <2>8 DEF ResumeExitWait, ResumeJoin, In
    <3> QED
      BY <2>1, <2>2, <2>8, <3>1
      DEF ResumeExitWait, ResumeJoin, Object!vars, Object!waiting
  <2>9. ~mRunning => Live = {}
    BY DEF IInv, RunningOK
  <2>10. CASE ResumeExitWait(t) /\ ~mRunning
    <3>1. /\ In(Joining)' = In(Joining) /\ In(Exiting)' = In(Exiting) \ {t}
          /\ t \in In(Exiting)
      BY <1>t, <2>10 DEF ResumeExitWait, In
    <3> QED
      BY <2>1, <2>2, <2>9, <2>10, <3>1
      DEF ResumeExitWait, Object!Next, Object!Return, Object!waiting
  <2>11. CASE ResumeJoin(t) /\ ~mRunning
    <3>1. /\ In(Joining)' = In(Joining) \ {t} /\ In(Exiting)' = In(Exiting)
          /\ t \in In(Joining)
      BY <1>t, <2>11 DEF ResumeJoin, In
    <3> QED
      BY <2>1, <2>2, <2>9, <2>11, <3>1
      DEF ResumeJoin, Object!Next, Object!Return, Object!waiting
  <2> QED
    BY <1>11, <2>3, <2>4, <2>6, <2>7, <2>8, <2>10, <2>11
<1> QED
  <2>1. \E t \in Tids : Program(t) \/ Calling(t) \/ Run(t) \/ Resuming(t)
           \/ SpuriousWakeup(t) \/ OwnThread(t) \/ ReadyToRunReturns(t) \/ ThreadLoopReturns(t)
    BY DEF Next
  <2> QED
    BY <2>1, <1>1, <1>2, <1>3, <1>4, <1>5, <1>6, <1>7, <1>8, <1>9, <1>10, <1>11
    DEF Calling, Run, Resuming, OwnThread, Object!Next

LEMMA WorkerInit == Init => Object!Init
<1> SUFFICES ASSUME Init PROVE Object!Init
  OBVIOUS
<1>1. \A t \in Tids : code[t] \in {"client", "free"} /\ call[t] = "none"
  BY DEF Init
<1>2. Live = {} /\ In(Joining) = {} /\ In(Exiting) = {}
  BY <1>1 DEF Live, LiveCode, In, Joining, Exiting
<1>3. Round = "none"
  BY <1>2 DEF Round
<1> QED
  BY <1>2, <1>3 DEF Init, Object!Init, Alive, Joining, Exiting

\* Whoever shares a CThread may take it for an object with one worker, whatever
\* the order in which the calls, run and the thread's own steps are taken.
THEOREM ThreadIsWorker == Spec => RefinesWorker
<1>1. IInv /\ IInv' /\ TypeOK' /\ [Next]_vars => [Object!Next]_(Object!vars)
  <2> SUFFICES ASSUME IInv, IInv', TypeOK', [Next]_vars PROVE [Object!Next]_(Object!vars)
    OBVIOUS
  <2>1. CASE Next
    BY <2>1, WorkerStep
  <2>2. CASE UNCHANGED vars
    BY <2>2 DEF vars, object, Object!vars, Object!waiting, Alive, HoldsStrong, Live, Round, In
  <2> QED
    BY <2>1, <2>2
<1> QED
  BY <1>1, WorkerInit, Invariant, TypeCorrect, PTL DEF Spec, RefinesWorker, Object!Spec
====
