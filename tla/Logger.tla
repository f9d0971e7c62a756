------------------------------- MODULE Logger -------------------------------
(***************************************************************************)
(* Logger (sutils/Logger.cpp) and LoggerThread (sutils/LoggerThread.cpp):  *)
(* threads that log put lines in a VmBlockingQueue, one thread of the      *)
(* logger's own takes them out and prints them.                            *)
(*                                                                         *)
(* The queue is VmBlockingQueue.tla with the logging threads as producers  *)
(* and the loop as its one consumer; every step here that touches the      *)
(* queue is a step there.  A line is named by the order in which the lines *)
(* got their time stamps.  The log file is left out.                       *)
(***************************************************************************)
EXTENDS Sequences, SequencesExt, Integers, FiniteSets

CONSTANTS Callers,         \* threads that log
          Loop,            \* the thread of LoggerThread::_threadLoop
          MessageLevels,   \* the levels they log at
          RequestedLevels, \* the arguments of SetLogLevel
          MaxLines,        \* bound: how many lines are logged
          NULL

\* vmodule_LogPriority
UNKNOWN == 0
VERBOSE == 2
DEBUG   == 3
ERROR   == 6
SILENT  == 8

ASSUME LoggerAssumption ==
    /\ IsFiniteSet(Callers) /\ Loop \notin Callers
    /\ MessageLevels \subseteq UNKNOWN..SILENT
    /\ RequestedLevels \subseteq Int
    /\ MaxLines \in Nat
    /\ NULL \notin Nat /\ NULL \notin Callers

VARIABLES
    mQueue, producer, consumer, waitDuration, item, \* mBlockingQueue
    call,       \* call[c]: where thread c stands in Log
    critSec,    \* the owner of critSec, or NULL
    m_logLevel,
    line,       \* line[c]: the line c has formatted
    stamped,    \* auxiliary: how many lines got their time stamp
    mRunning,
    stopping,   \* where ~LoggerGlobals stands in stop()
    loop,       \* where the loop stands
    printed     \* the lines printed

Lines == 1..MaxLines

Q == INSTANCE VmBlockingQueue
       WITH Producers <- Callers, Consumers <- {Loop}, Items <- Lines

queue == <<mQueue, producer, consumer, waitDuration, item>>
logging == <<call, critSec, m_logLevel, line, stamped>>
running == <<mRunning, stopping>>
vars == <<queue, logging, running, loop, printed>>

TypeOK ==
    /\ Q!TypeOK
    /\ call \in [Callers -> {"idle", "logString", "send"}]
    /\ critSec \in Callers \cup {NULL}
    /\ m_logLevel \in UNKNOWN..SILENT
    /\ line \in [Callers -> 0..MaxLines] /\ stamped \in 0..MaxLines
    /\ mRunning \in BOOLEAN /\ stopping \in {"no", "exitQueue", "stopped"}
    /\ loop \in {"none", "test", "dequeue", "waiting", "got", "ended"}
    /\ printed \in Seq(Lines)

\* The constructors: start() sets mRunning and creates the thread, or not.
Init ==
    /\ Q!Init
    /\ call = [c \in Callers |-> "idle"] /\ critSec = NULL
    /\ m_logLevel = DEBUG
    /\ line = [c \in Callers |-> 0] /\ stamped = 0
    /\ stopping = "no" /\ printed = <<>>
    /\ \/ mRunning = TRUE /\ loop = "test"
       \/ mRunning = FALSE /\ loop = "none"

-----------------------------------------------------------------------------
(***************************************************************************)
(* The threads that log.                                                   *)
(***************************************************************************)
IsLogLevelLogged(current, level) ==
    /\ current > UNKNOWN
    /\ current >= DEBUG \/ level >= VERBOSE

Pending == {c \in Callers : call[c] = "logString"}

\* Log, up to critSec.  (A line whose level is not logged changes nothing.)
Log(c) ==
    /\ call[c] = "idle" /\ stamped + Cardinality(Pending) < MaxLines
    /\ \E level \in MessageLevels : IsLogLevelLogged(m_logLevel, level)
    /\ call' = [call EXCEPT ![c] = "logString"]
    /\ UNCHANGED <<queue, critSec, m_logLevel, line, stamped, running, loop, printed>>

\* (Mutant of LogString: the lock is gone.)
LogStringUnlocked(c) ==
    /\ call[c] = "logString"
    /\ stamped' = stamped + 1
    /\ line' = [line EXCEPT ![c] = stamped + 1]
    /\ call' = [call EXCEPT ![c] = "send"]
    /\ UNCHANGED <<queue, critSec, m_logLevel, running, loop, printed>>

\* LogString locks critSec, which is not recursive, and formats the line with
\* the time.
LogString(c) ==
    /\ call[c] = "logString" /\ critSec = NULL
    /\ critSec' = c
    /\ stamped' = stamped + 1
    /\ line' = [line EXCEPT ![c] = stamped + 1]
    /\ call' = [call EXCEPT ![c] = "send"]
    /\ UNCHANGED <<queue, m_logLevel, running, loop, printed>>

\* A line of nothing but white space is not logged.
LogBlank(c) ==
    /\ call[c] = "logString" /\ critSec = NULL
    /\ call' = [call EXCEPT ![c] = "idle"]
    /\ UNCHANGED <<queue, critSec, m_logLevel, line, stamped, running, loop, printed>>

\* (Mutant of SendDebugMessage: the item of the line before is sent again.)
SendAgain(c) ==
    /\ call[c] = "send" /\ producer[c] = "idle"
    /\ mQueue' = mQueue \o IF mQueue = <<>> THEN <<line[c]>> ELSE <<Last(mQueue)>>
    /\ producer' = [producer EXCEPT ![c] = "signal"]
    /\ UNCHANGED <<consumer, waitDuration, item, logging, running, loop, printed>>

\* sendDebugMessage makes a new item for the line and enqueues it.
SendDebugMessage(c) ==
    /\ call[c] = "send" /\ producer[c] = "idle"
    /\ mQueue' = Append(mQueue, line[c])
    /\ producer' = [producer EXCEPT ![c] = "signal"]
    /\ UNCHANGED <<consumer, waitDuration, item, logging, running, loop, printed>>

\* The signal at the end of EnQueue; critSec is released.
LogReturns(c) ==
    /\ Q!SignalEnQueued(c)
    /\ critSec' = NULL
    /\ call' = [call EXCEPT ![c] = "idle"]
    /\ UNCHANGED <<m_logLevel, line, stamped, running, loop, printed>>

\* SetLogLevel logs what it has done with critSec locked: unless that line is
\* not to be logged it waits in LogString for itself.
SetLogLevel(c) ==
    /\ call[c] = "idle" /\ critSec = NULL
    /\ \E level \in RequestedLevels :
          LET valid == level \in UNKNOWN..SILENT IN
          /\ m_logLevel' = IF valid THEN level ELSE m_logLevel
          /\ IF IsLogLevelLogged(m_logLevel', IF valid THEN VERBOSE ELSE ERROR)
             THEN critSec' = c /\ call' = [call EXCEPT ![c] = "logString"]
             ELSE UNCHANGED <<critSec, call>>
    /\ UNCHANGED <<queue, line, stamped, running, loop, printed>>

-----------------------------------------------------------------------------
(***************************************************************************)
(* LoggerThread::_threadLoop.                                              *)
(***************************************************************************)
TestRunning ==
    /\ loop = "test"
    /\ loop' = IF mRunning THEN "dequeue" ELSE "ended"
    /\ UNCHANGED <<queue, logging, running, printed>>

DeQueue ==
    /\ loop = "dequeue"
    /\ Q!DeQueue(Loop) /\ waitDuration'[Loop] = "forever"
    /\ loop' = IF consumer'[Loop] = "waiting" THEN "waiting" ELSE "got"
    /\ UNCHANGED <<logging, running, printed>>

SpuriousWakeup ==
    /\ Q!SpuriousWakeup(Loop)
    /\ UNCHANGED <<logging, running, loop, printed>>

ResumeDeQueue ==
    /\ Q!ResumeDeQueue(Loop)
    /\ loop' = "got"
    /\ UNCHANGED <<logging, running, printed>>

\* (Mutant of PrintLine: no item ends the loop, as a stop would.)
PrintOrBreak ==
    /\ loop = "got"
    /\ IF item[Loop] # NULL
       THEN printed' = Append(printed, item[Loop]) /\ loop' = "test"
       ELSE loop' = "ended" /\ UNCHANGED printed
    /\ UNCHANGED <<queue, logging, running>>

\* An item is printed and freed; no item is no reason to end.
PrintLine ==
    /\ loop = "got"
    /\ printed' = IF item[Loop] # NULL THEN Append(printed, item[Loop]) ELSE printed
    /\ loop' = "test"
    /\ UNCHANGED <<queue, logging, running>>

\* LoggerThread::stop, called by the destructor of the globals.
Stop ==
    /\ stopping = "no"
    /\ mRunning' = FALSE /\ stopping' = "exitQueue"
    /\ UNCHANGED <<queue, logging, loop, printed>>

StopWakesQueue ==
    /\ stopping = "exitQueue"
    /\ IF Q!Waiting # {} THEN Q!ExitQueue ELSE UNCHANGED queue
    /\ stopping' = "stopped"
    /\ UNCHANGED <<mRunning, logging, loop, printed>>

-----------------------------------------------------------------------------
LoopStep == TestRunning \/ DeQueue \/ ResumeDeQueue \/ PrintLine

Next ==
    \/ \E c \in Callers :
          \/ Log(c) \/ LogString(c) \/ LogBlank(c) \/ SendDebugMessage(c)
          \/ LogReturns(c) \/ SetLogLevel(c)
    \/ LoopStep \/ SpuriousWakeup
    \/ Stop \/ StopWakesQueue

Spec == Init /\ [][Next]_vars

\* The loop runs when it can, and so does a thread that has begun to send.
Fairness ==
    /\ WF_vars(LoopStep)
    /\ \A c \in Callers : WF_vars(SendDebugMessage(c) \/ LogReturns(c))
    /\ WF_vars(StopWakesQueue)

FairSpec == Spec /\ Fairness

-----------------------------------------------------------------------------
(***************************************************************************)
(* Properties.                                                             *)
(***************************************************************************)

\* What the loop has taken and not printed, and what a caller has formatted
\* and not sent.
InHand  == IF loop = "got" /\ item[Loop] # NULL THEN <<item[Loop]>> ELSE <<>>
Unsent(c) == call[c] = "send" /\ producer[c] = "idle"
InFlight ==
    IF \E c \in Callers : Unsent(c)
    THEN <<line[CHOOSE c \in Callers : Unsent(c)]>> ELSE <<>>

\* Lines are printed in the order of their time stamps, each once and none
\* skipped, whichever threads log them: critSec is held from the time stamp to
\* the queue, the queue is first in first out and has one consumer.
EveryLineOnceInOrder ==
    printed \o InHand \o mQueue \o InFlight = [k \in 1..stamped |-> k]

\* The logger uses its queue as a VmBlockingQueue is used, so that what holds
\* of that one (NoLostWakeup, OwnedOnce) holds of this one.
UsesQueue == Q!Spec

\* A line in the queue is printed, unless the logger is stopped.
EveryLineIsPrinted ==
    \A k \in Lines : k \in ToSet(mQueue) ~> k \in ToSet(printed) \/ ~mRunning

\* "Force wakeup mBlockingQueue": after stop the loop comes to its end.
StopEndsLoop == stopping = "stopped" /\ loop # "none" ~> loop = "ended"
=============================================================================
