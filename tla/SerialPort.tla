----------------------------- MODULE SerialPort -----------------------------
(***************************************************************************)
(* One CSerialPort (hardware/serial/SerialPort.cpp), the threads that share *)
(* it, and its read task.  The table of descriptors is the process's: other *)
(* parts of the program open and close files, and numbers are used again.  *)
(*                                                                         *)
(* The reference count of the port is the set strong of those who hold it  *)
(* (RefBase shows the count to be exactly that): whoever leaves it empty   *)
(* runs ~CSerialPort.  The read task's loop is CThread's, with mExitPending *)
(* and with mRunning said by pc[Task].  What is done under m_critical is one *)
(* step, but for ReadFile on Windows, which waits with the mutex locked.   *)
(***************************************************************************)
EXTENDS Integers

CONSTANTS Users,          \* threads that share the port
          Initialisers,   \* those of them that call InitPort
          Task,           \* the read task's thread
          Fds,            \* descriptors
          MaxPending,     \* how many bytes the device holds for the reader
          Builds,         \* the platforms looked at
          NULL

INVALID == -1             \* INVALID_HANDLE_VALUE

ASSUME SerialPortAssumption ==
    /\ Initialisers \subseteq Users /\ Task \notin Users
    /\ NULL \notin Users \cup {Task}
    /\ Fds \subseteq Nat /\ MaxPending \in Nat \ {0}
    /\ Builds \subseteq {"posix", "windows"}

VARIABLES
    build,          \* the platform the program is built for
    m_file, m_critical, readset,
    m_ReadTask,     \* does the port have a read task?
    mExitPending,   \* was the read task asked to exit?
    strong,         \* who holds the port
    gone,           \* has ~CSerialPort run to its end?
    pc,             \* where each thread stands
    bytesInQue,     \* what GetTotalBytes returned, counted down
    pending,        \* bytes the device holds
    rxchar,         \* a character event WaitCommEvent has not reported yet
    settings,       \* on Windows: which of InitPort's settings the device took
    fdTable         \* whose file a descriptor is

device == <<pending, rxchar, settings>>
port   == <<m_file, m_critical, readset, m_ReadTask, mExitPending, gone>>
vars   == <<build, port, device, strong, pc, bytesInQue, fdTable>>

Threads == Users \cup {Task}

Init ==
    /\ build \in Builds
    /\ m_file = INVALID /\ m_critical = NULL /\ readset = {}
    /\ m_ReadTask = FALSE /\ mExitPending = FALSE /\ gone = FALSE
    /\ \E u \in Users : strong = {u}
    /\ pc = [t \in Threads |-> IF t = Task THEN "none" ELSE "idle"]
    /\ bytesInQue = 0
    /\ pending = 0 /\ rxchar = FALSE /\ settings = {}
    /\ fdTable = [f \in Fds |-> "free"]

Goto(t, place) == pc' = [pc EXCEPT ![t] = place]

-----------------------------------------------------------------------------
(***************************************************************************)
(* The holders of the port, and ~CSerialPort in the thread of the last.    *)
(***************************************************************************)

\* t lets go of the port and goes on at place, or destroys it.
Release(t, place) ==
    /\ strong' = strong \ {t}
    /\ Goto(t, IF strong # {t} THEN place
               ELSE IF m_ReadTask THEN "exitTask" ELSE "closePort")

Share(u, v) ==
    /\ u \in strong /\ pc[u] = "idle" /\ v \notin strong /\ pc[v] = "idle"
    /\ strong' = strong \cup {v}
    /\ UNCHANGED <<build, port, device, pc, bytesInQue, fdTable>>

Drop(u) ==
    /\ u \in strong /\ pc[u] = "idle"
    /\ Release(u, "idle")
    /\ UNCHANGED <<build, port, device, bytesInQue, fdTable>>

RequestTaskExit(t) ==
    /\ pc[t] = "exitTask"
    /\ mExitPending' = TRUE
    /\ Goto(t, "joinTask")
    /\ UNCHANGED <<build, m_file, m_critical, readset, m_ReadTask, gone, device,
                   strong, bytesInQue, fdTable>>

\* (Mutant of JoinTask: join does not know its own thread.)
JoinAnyTask(t) ==
    /\ pc[t] = "joinTask"
    /\ pc[Task] \in {"none", "ended"}
    /\ Goto(t, "clearTask")
    /\ UNCHANGED <<build, port, device, strong, bytesInQue, fdTable>>

\* join waits until the task's thread has ended; in that thread it returns
\* WOULD_BLOCK, and the destructor goes on.
JoinTask(t) ==
    /\ pc[t] = "joinTask"
    /\ t = Task \/ pc[Task] \in {"none", "ended"}
    /\ Goto(t, "clearTask")
    /\ UNCHANGED <<build, port, device, strong, bytesInQue, fdTable>>

ClearTask(t) ==
    /\ pc[t] = "clearTask"
    /\ m_ReadTask' = FALSE
    /\ Goto(t, "closePort")
    /\ UNCHANGED <<build, m_file, m_critical, readset, mExitPending, gone, device,
                   strong, bytesInQue, fdTable>>

\* The bytes the device still holds are lost with its descriptor.
ClosePort(t) ==
    /\ pc[t] = "closePort"
    /\ fdTable' = [f \in Fds |-> IF f = m_file THEN "free" ELSE fdTable[f]]
    /\ m_file' = INVALID /\ gone' = TRUE
    /\ pending' = 0 /\ rxchar' = FALSE /\ settings' = {}
    /\ Goto(t, IF t = Task THEN "decide" ELSE "idle")
    /\ UNCHANGED <<build, m_critical, readset, m_ReadTask, mExitPending,
                   strong, bytesInQue>>

Destructor(t) == RequestTaskExit(t) \/ JoinTask(t) \/ ClearTask(t) \/ ClosePort(t)

-----------------------------------------------------------------------------
(***************************************************************************)
(* InitPort.                                                               *)
(***************************************************************************)

\* (Mutant of InitPort: an open port may be initialised again.)
InitPortAgain(u) ==
    /\ u \in strong \cap Initialisers /\ pc[u] = "idle"
    /\ Goto(u, "openPort")
    /\ UNCHANGED <<build, port, device, strong, bytesInQue, fdTable>>

\* The test for an open port is made without the mutex.  (An open port makes
\* InitPort return INVALID_OPERATION, and nothing changes.)
InitPort(u) ==
    /\ u \in strong \cap Initialisers /\ pc[u] = "idle"
    /\ m_file = INVALID
    /\ Goto(u, "openPort")
    /\ UNCHANGED <<build, port, device, strong, bytesInQue, fdTable>>

OpenPort(u) ==
    /\ pc[u] = "openPort" /\ m_critical = NULL
    /\ \/ \E f \in {g \in Fds : fdTable[g] = "free"} :
             /\ m_file' = f /\ fdTable' = [fdTable EXCEPT ![f] = "port"]
             /\ Goto(u, "configure")
       \/ /\ m_file' = INVALID /\ UNCHANGED fdTable
          /\ Goto(u, "idle")
    /\ UNCHANGED <<build, m_critical, readset, m_ReadTask, mExitPending, gone,
                   device, strong, bytesInQue>>

\* (Mutant of RefuseSettings: an InitPort that fails closes the port again.)
RefuseAndClose(u) ==
    /\ pc[u] = "configure" /\ m_critical = NULL
    /\ fdTable' = [fdTable EXCEPT ![m_file] = "free"] /\ m_file' = INVALID
    /\ Goto(u, "idle")
    /\ UNCHANGED <<build, m_critical, readset, m_ReadTask, mExitPending, gone,
                   device, strong, bytesInQue>>

\* InitPort fails and leaves the port open: parity, stop bits or tcsetattr refuse,
\* before or after the input was flushed (POSIX), or GetCommState fails once
\* timeouts and mask are set (Windows).
RefuseSettings(u) ==
    /\ pc[u] = "configure" /\ m_critical = NULL
    /\ \/ build = "posix" /\ pending' \in {0, pending} /\ UNCHANGED settings
       \/ build = "windows" /\ settings' = {"timeouts", "mask"} /\ UNCHANGED pending
    /\ Goto(u, "idle")
    /\ UNCHANGED <<build, port, rxchar, strong, bytesInQue, fdTable>>

\* The input is flushed and the first InitPort to get here makes the read task;
\* run may fail, which nobody looks at.  On Windows neither does anybody look at
\* what SetCommTimeouts, SetCommMask and SetCommState say: when one fails those
\* after it are not called, and InitPort goes on to its OK.  A character may come
\* between the mask and the flush.
Configure(u) ==
    /\ pc[u] = "configure" /\ m_critical = NULL
    /\ settings' \in IF build = "posix" THEN {{}}
                     ELSE {{}, {"timeouts"}, {"timeouts", "mask"}}
    /\ pending' = 0
    /\ rxchar' \in BOOLEAN /\ (rxchar' => "mask" \in settings')
    /\ readset' = {m_file} \ {INVALID}
    /\ m_ReadTask' = TRUE
    /\ \/ ~m_ReadTask /\ pc' = [pc EXCEPT ![u] = "idle", ![Task] = "decide"]
       \/ Goto(u, "idle")
    /\ UNCHANGED <<build, m_file, m_critical, mExitPending, gone, strong,
                   bytesInQue, fdTable>>

-----------------------------------------------------------------------------
(***************************************************************************)
(* ReadByte and WriteData.                                                 *)
(***************************************************************************)

\* Where a thread goes on after ReadByte: the task's loop goes on while bytes
\* come (POSIX), or until it has read as many as there were (Windows).
AfterRead(t, ok) ==
    IF t # Task
    THEN Goto(t, "idle") /\ UNCHANGED bytesInQue
    ELSE IF build = "posix"
    THEN Goto(t, IF ok THEN "drain" ELSE "release") /\ UNCHANGED bytesInQue
    ELSE /\ bytesInQue' = bytesInQue - 1
         /\ Goto(t, IF bytesInQue > 1 THEN "drain" ELSE "release")

\* Both test m_file before they lock the mutex.
StartIo(t) ==
    /\ \/ /\ t \in Users \cap strong /\ pc[t] = "idle" /\ m_file # INVALID
          /\ Goto(t, "readByte") \/ Goto(t, "writeData")
          /\ UNCHANGED bytesInQue
       \/ /\ t = Task /\ pc[t] = "drain"
          /\ IF m_file = INVALID THEN AfterRead(t, FALSE)
             ELSE Goto(t, "readByte") /\ UNCHANGED bytesInQue
    /\ UNCHANGED <<build, port, device, strong, fdTable>>

ByteRead(t) == pending > 0 /\ pending' = pending - 1 /\ AfterRead(t, TRUE)

\* On POSIX the descriptor does not block, and nothing to read is an error.  On
\* Windows an error purges the input.
ReadFails(t) ==
    /\ IF build = "windows" THEN pending' = 0 ELSE UNCHANGED pending
    /\ AfterRead(t, FALSE)

\* (Mutant of ReadByte: openPort leaves out O_NONBLOCK.)
ReadByteBlocking(t) ==
    /\ pc[t] = "readByte" /\ m_critical = NULL
    /\ \/ (ByteRead(t) \/ ReadFails(t)) /\ UNCHANGED m_critical
       \/ /\ pending = 0
          /\ m_critical' = t /\ Goto(t, "readFile")
          /\ UNCHANGED <<pending, bytesInQue>>
    /\ UNCHANGED <<build, m_file, readset, m_ReadTask, mExitPending, gone, rxchar,
                   settings, strong, fdTable>>

\* On Windows ReadFile waits for a byte where every timeout was set to 0.
ReadByte(t) ==
    /\ pc[t] = "readByte" /\ m_critical = NULL
    /\ \/ (ByteRead(t) \/ ReadFails(t)) /\ UNCHANGED m_critical
       \/ /\ build = "windows" /\ pending = 0
          /\ m_critical' = t /\ Goto(t, "readFile")
          /\ UNCHANGED <<pending, bytesInQue>>
    /\ UNCHANGED <<build, m_file, readset, m_ReadTask, mExitPending, gone, rxchar,
                   settings, strong, fdTable>>

ReadFileReturns(t) ==
    /\ pc[t] = "readFile"
    /\ ByteRead(t)
    /\ m_critical' = NULL
    /\ UNCHANGED <<build, m_file, readset, m_ReadTask, mExitPending, gone, rxchar,
                   settings, strong, fdTable>>

\* Without InitPort's timeouts the device has its own, and ReadFile may return with
\* nothing: ReadByte says OK.
ReadTimesOut(t) ==
    /\ pc[t] = "readFile" /\ "timeouts" \notin settings
    /\ AfterRead(t, TRUE)
    /\ m_critical' = NULL
    /\ UNCHANGED <<build, m_file, readset, m_ReadTask, mExitPending, gone, device,
                   strong, fdTable>>

\* A write that fails on Windows purges the input, not the output.
WriteData(u) ==
    /\ pc[u] = "writeData" /\ m_critical = NULL
    /\ \/ UNCHANGED pending
       \/ build = "windows" /\ pending' = 0
    /\ Goto(u, "idle")
    /\ UNCHANGED <<build, port, rxchar, settings, strong, bytesInQue, fdTable>>

-----------------------------------------------------------------------------
(***************************************************************************)
(* The read task.  Its threadLoop holds the port from promote to return.   *)
(***************************************************************************)

\* "quit" is the way to return false with the port in hand.
Turn ==
    /\ pc[Task] = "turn"
    /\ IF strong = {}
       THEN Goto(Task, "ended") /\ UNCHANGED strong
       ELSE /\ strong' = strong \cup {Task}
            /\ Goto(Task, IF build = "posix" /\ m_file = INVALID THEN "quit" ELSE "wait")
    /\ UNCHANGED <<build, port, device, bytesInQue, fdTable>>

\* select looks at the descriptors of the set below its first argument, m_file,
\* and waits without a limit for one that can be read.
Ready == {f \in readset : f < m_file /\ pending > 0}

\* select leaves in the set those that are ready, or after an error the set as
\* it was, and the task goes on to read if its own is there.
Select(left) ==
    /\ pc[Task] = "wait" /\ build = "posix"
    /\ left = readset \/ (left = Ready /\ left # {})
    /\ readset' = left
    /\ Goto(Task, IF m_file \in left THEN "drain" ELSE "release")
    /\ UNCHANGED <<build, m_file, m_critical, m_ReadTask, mExitPending, gone,
                   device, strong, bytesInQue, fdTable>>

\* A signal ends the turn.
Interrupt ==
    /\ pc[Task] = "wait" /\ build = "posix"
    /\ Goto(Task, "release")
    /\ UNCHANGED <<build, port, device, strong, bytesInQue, fdTable>>

\* The wait ends with the next event of the mask, or at once for one that came
\* since the last wait; a mask without characters reports none.
WaitCommEvent ==
    /\ pc[Task] = "wait" /\ build = "windows"
    /\ rxchar
    /\ rxchar' = FALSE
    /\ Goto(Task, "count")
    /\ UNCHANGED <<build, port, pending, settings, strong, bytesInQue, fdTable>>

WaitFails ==
    /\ pc[Task] = "wait" /\ build = "windows"
    /\ Goto(Task, "release")
    /\ UNCHANGED <<build, port, device, strong, bytesInQue, fdTable>>

\* (Mutant of GetTotalBytes: one byte is read for one event.)
GetOneByte ==
    /\ pc[Task] = "count"
    /\ bytesInQue' = IF pending = 0 THEN 0 ELSE 1
    /\ Goto(Task, IF pending = 0 THEN "release" ELSE "drain")
    /\ UNCHANGED <<build, port, device, strong, fdTable>>

\* (ClearCommError is taken to succeed on an open port.)
GetTotalBytes ==
    /\ pc[Task] = "count"
    /\ bytesInQue' = pending
    /\ Goto(Task, IF pending = 0 THEN "release" ELSE "drain")
    /\ UNCHANGED <<build, port, device, strong, fdTable>>

\* The end of threadLoop: client goes out of scope.
EndTurn ==
    /\ \/ pc[Task] = "release" /\ Release(Task, "decide")
       \/ pc[Task] = "quit" /\ Release(Task, "ended")
    /\ UNCHANGED <<build, port, device, bytesInQue, fdTable>>

\* CThread's loop: the thread ends when asked to, or when the task is gone.
Decide ==
    /\ pc[Task] = "decide"
    /\ Goto(Task, IF mExitPending \/ ~m_ReadTask THEN "ended" ELSE "turn")
    /\ UNCHANGED <<build, port, device, strong, bytesInQue, fdTable>>

TaskStep == Turn \/ GetTotalBytes \/ EndTurn \/ Decide

-----------------------------------------------------------------------------
(***************************************************************************)
(* The device, and the rest of the program.                                *)
(***************************************************************************)
ByteArrives ==
    /\ m_file # INVALID /\ pending < MaxPending
    /\ pending' = pending + 1
    /\ rxchar' = (rxchar \/ "mask" \in settings)
    /\ UNCHANGED <<build, port, settings, strong, pc, bytesInQue, fdTable>>

OtherFiles ==
    /\ \E f \in Fds :
          \/ fdTable[f] = "free"  /\ fdTable' = [fdTable EXCEPT ![f] = "other"]
          \/ fdTable[f] = "other" /\ fdTable' = [fdTable EXCEPT ![f] = "free"]
    /\ UNCHANGED <<build, port, device, strong, pc, bytesInQue>>

Working(t) ==
    \/ Destructor(t) \/ OpenPort(t) \/ Configure(t) \/ RefuseSettings(t)
    \/ ReadFileReturns(t) \/ (t = Task /\ StartIo(Task))

Next ==
    \/ \E u, v \in Users : Drop(u) \/ InitPort(u) \/ Share(u, v)
    \/ \E t \in Threads : Working(t) \/ StartIo(t) \/ ReadByte(t) \/ ReadTimesOut(t)
                         \/ WriteData(t)
    \/ TaskStep \/ Interrupt \/ WaitCommEvent \/ WaitFails
    \/ \E left \in SUBSET Fds : Select(left)
    \/ ByteArrives \/ OtherFiles

Spec == Init /\ [][Next]_vars

\* Threads run; a mutex that is free again and again is got; a wait that can
\* report a descriptor or an event does not fail for ever.  Nobody need call
\* anything, and neither bytes nor signals need come.
Fairness ==
    /\ \A t \in Threads :
          WF_vars(Working(t)) /\ SF_vars(ReadByte(t)) /\ SF_vars(WriteData(t))
    /\ WF_vars(TaskStep) /\ SF_vars(WaitCommEvent)
    /\ SF_vars(Ready # {} /\ Select(Ready))

FairSpec == Spec /\ Fairness

-----------------------------------------------------------------------------
(***************************************************************************)
(* Properties.                                                             *)
(***************************************************************************)

\* Whoever is about to use m_file, having tested it before, without the mutex,
\* uses the port's own open descriptor: it was not closed meanwhile, and its
\* number is not another file's by now.
IoOnOwnPort ==
    \A t \in Threads :
       pc[t] \in {"configure", "readByte", "readFile", "writeData", "wait", "count", "drain"} =>
          m_file # INVALID /\ fdTable[m_file] = "port"

\* No descriptor of the port is left open that m_file does not name, through
\* failed calls of InitPort, repeated ones, and the end of the port; where one
\* thread only initialises the port.
NoDescriptorLost == \A f \in Fds : fdTable[f] = "port" => m_file = f

\* The last pointer may be the read task's own: ~CSerialPort then runs in the
\* thread it wants to join.  It ends all the same, the port is closed and the
\* thread comes to its end.
DestructionEnds ==
    \A t \in Threads :
       pc[t] = "exitTask" ~> (gone /\ pc[Task] \in {"none", "ended"})

\* "default EV_RXCHAR, that is, whenever any character is sent or received an
\* event is produced" (SerialPort.h:52): a byte that came while the task was
\* busy or waits makes it read.
CharacterIsEvent ==
    (pc[Task] = "wait" /\ pending > 0) ~> (pc[Task] = "readByte" \/ pending = 0)

\* So it is on Windows, once the device took the mask: the task counts what is
\* there after every event, so that no byte of several stays behind.  (When
\* SetCommTimeouts or SetCommMask fails InitPort says OK and no event ever comes.)
WindowsCharacterIsEvent ==
    ("mask" \in settings /\ pc[Task] = "wait" /\ pending > 0)
    ~> (pc[Task] = "readByte" \/ pending = 0)

\* On POSIX, where nobody waits with m_critical locked, a call of the port
\* returns whatever the other threads do.
PosixCallsReturn ==
    \A u \in Users :
       (build = "posix" /\ pc[u] \in {"openPort", "configure", "readByte", "writeData"})
       ~> pc[u] = "idle"
=============================================================================
