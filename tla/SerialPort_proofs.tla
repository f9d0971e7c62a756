-------------------------- MODULE SerialPort_proofs --------------------------
(***************************************************************************)
(* Theorems about SerialPort, for any set of threads and descriptors and   *)
(* on both platforms, where one thread at most initialises the port: two   *)
(* that do would both pass InitPort's test, and the second would open over *)
(* the first one's descriptor.                                             *)
(***************************************************************************)
EXTENDS SerialPort, TLAPS

OneInitialiser == \A u, v \in Initialisers : u = v

\* Where a thread stands.
InDestructor == {"exitTask", "joinTask", "clearTask", "closePort"}
InInit       == {"openPort", "configure"}
InIo         == {"readByte", "readFile", "writeData"}
InTurn       == {"wait", "count", "drain", "release", "quit"}

TypeOK ==
    /\ build \in Builds
    /\ m_file \in Fds \cup {INVALID} /\ m_critical \in Threads \cup {NULL}
    /\ readset \subseteq Fds
    /\ m_ReadTask \in BOOLEAN /\ mExitPending \in BOOLEAN /\ gone \in BOOLEAN
    /\ strong \subseteq Threads
    /\ pc \in [Threads -> InDestructor \cup InInit \cup InIo \cup InTurn \cup
                          {"none", "idle", "turn", "decide", "ended"}]
    /\ bytesInQue \in Int /\ pending \in Nat /\ rxchar \in BOOLEAN
    /\ settings \subseteq {"timeouts", "mask"}
    /\ fdTable \in [Fds -> {"free", "port", "other"}]

\* Who is inside a call, and the task in a turn of its loop, holds the port.
HoldersOK == \A t \in Threads : pc[t] \in InInit \cup InIo \cup InTurn => t \in strong

\* Who destroys the port has nobody beside it who could still hold it.
DestructorOK == \A t \in Threads : pc[t] \in InDestructor => strong = {}

InitialisersOK == \A t \in Threads : pc[t] \in InInit => t \in Initialisers

\* m_file is INVALID or the one descriptor that is the port's.
FileOK ==
    /\ m_file # INVALID => fdTable[m_file] = "port"
    /\ NoDescriptorLost

\* What was true of m_file when it was tested, without the mutex, still is.
TestedOK ==
    \A t \in Threads :
       /\ pc[t] = "openPort" => m_file = INVALID
       /\ pc[t] \in InIo \cup InTurn \cup {"configure"} => m_file # INVALID

\* The read task starts after the port was opened, and so it stays until nobody
\* can promote the task's weak pointer any more.
TaskOK == pc[Task] # "none" => m_file # INVALID \/ strong = {}

IInv == TypeOK /\ HoldersOK /\ DestructorOK /\ InitialisersOK /\ FileOK /\ TestedOK /\ TaskOK

-----------------------------------------------------------------------------
USE SerialPortAssumption DEF SerialPortAssumption, Threads, INVALID, InDestructor, InInit,
    InIo, InTurn, Goto

LEMMA InitIsSafe == Init => IInv
<1> SUFFICES ASSUME Init PROVE IInv
  OBVIOUS
<1>1. TypeOK
  <2>1. strong \subseteq Threads /\ readset \subseteq Fds
    BY DEF Init
  <2>2. pc \in [Threads -> InDestructor \cup InInit \cup InIo \cup InTurn \cup
                             {"none", "idle", "turn", "decide", "ended"}]
    BY DEF Init
  <2>3. fdTable \in [Fds -> {"free", "port", "other"}]
    BY DEF Init
  <2>4. build \in Builds /\ m_file \in Fds \cup {INVALID} /\ m_critical \in Threads \cup {NULL}
    BY DEF Init
  <2>5. m_ReadTask \in BOOLEAN /\ mExitPending \in BOOLEAN /\ gone \in BOOLEAN
        /\ rxchar \in BOOLEAN
    BY DEF Init
  <2>6. bytesInQue \in Int /\ pending \in Nat /\ settings = {}
    BY DEF Init
  <2> QED
    BY <2>1, <2>2, <2>3, <2>4, <2>5, <2>6 DEF TypeOK
<1>2. \A t \in Threads : pc[t] \in {"none", "idle"} /\ pc[Task] = "none"
  BY DEF Init
<1>3. HoldersOK /\ DestructorOK /\ InitialisersOK /\ TestedOK /\ TaskOK
  BY <1>2 DEF HoldersOK, DestructorOK, InitialisersOK, TestedOK, TaskOK
<1>4. FileOK
  BY DEF Init, FileOK, NoDescriptorLost
<1> QED
  BY <1>1, <1>3, <1>4 DEF IInv

\* Holding on to the port, letting it go, and destroying it.
LEMMA HoldersKeepInv ==
    ASSUME IInv, NEW t \in Threads,
           \/ \E v \in Users : Share(t, v)
           \/ Drop(t) \/ RequestTaskExit(t) \/ JoinTask(t) \/ ClearTask(t)
    PROVE  IInv'
<1> USE DEF IInv, TypeOK, HoldersOK, DestructorOK, InitialisersOK, FileOK, TestedOK, TaskOK,
            NoDescriptorLost, port, device
<1>1. ASSUME NEW v \in Users, Share(t, v) PROVE IInv'
  BY <1>1 DEF Share
<1>2. CASE Drop(t)
  BY <1>2 DEF Drop, Release
<1>3. CASE RequestTaskExit(t)
  BY <1>3 DEF RequestTaskExit
<1>4. CASE JoinTask(t)
  BY <1>4 DEF JoinTask
<1>5. CASE ClearTask(t)
  BY <1>5 DEF ClearTask
<1> QED
  BY <1>1, <1>2, <1>3, <1>4, <1>5

\* ~CSerialPort closes the port, and nobody is about to use it.
LEMMA ClosePortKeepsInv == ASSUME IInv, NEW t \in Threads, ClosePort(t) PROVE IInv'
BY DEF IInv, TypeOK, HoldersOK, DestructorOK, InitialisersOK, FileOK, TestedOK, TaskOK,
       NoDescriptorLost, ClosePort

\* InitPort.  The initialiser is the only one, so that the port is still closed
\* when it opens it.
LEMMA InitPortKeepsInv ==
    ASSUME IInv, OneInitialiser, NEW t \in Threads,
           InitPort(t) \/ OpenPort(t) \/ RefuseSettings(t) \/ Configure(t)
    PROVE  IInv'
<1> USE DEF IInv, TypeOK, HoldersOK, DestructorOK, InitialisersOK, FileOK, TestedOK, TaskOK,
            NoDescriptorLost, OneInitialiser, port, device
<1>1. CASE InitPort(t)
  BY <1>1 DEF InitPort
<1>2. CASE OpenPort(t)
  BY <1>2 DEF OpenPort
<1>3. CASE RefuseSettings(t)
  <2>1. settings' \subseteq {"timeouts", "mask"} /\ pending' \in Nat
    <3>1. settings' \in {settings, {"timeouts", "mask"}} /\ pending' \in {0, pending}
      BY <1>3 DEF RefuseSettings
    <3> QED
      BY <3>1
  <2>2. /\ pc[t] = "configure" /\ pc' = [pc EXCEPT ![t] = "idle"]
        /\ UNCHANGED <<build, m_file, m_critical, readset, m_ReadTask, mExitPending,
                       gone, rxchar, strong, bytesInQue, fdTable>>
    BY <1>3 DEF RefuseSettings
  <2> QED
    BY <2>1, <2>2
<1>4. CASE Configure(t)
  <2>1. \E p \in {pc, [pc EXCEPT ![Task] = "decide"]} : pc' = [p EXCEPT ![t] = "idle"]
    BY <1>4 DEF Configure
  <2>2. TypeOK'
    <3>1. settings' \subseteq {"timeouts", "mask"}
      <4>1. settings' \in {{}, {"timeouts"}, {"timeouts", "mask"}}
        BY <1>4 DEF Configure
      <4> QED
        BY <4>1
    <3>2. rxchar' \in BOOLEAN
      BY <1>4 DEF Configure
    <3>3. /\ pending' = 0 /\ m_ReadTask' = TRUE /\ readset' = {m_file} \ {INVALID}
          /\ UNCHANGED <<build, m_file, m_critical, mExitPending, gone, strong,
                         bytesInQue, fdTable>>
      BY <1>4 DEF Configure
    <3> QED
      BY <2>1, <3>1, <3>2, <3>3
  <2>3. m_file # INVALID /\ UNCHANGED <<m_file, strong, fdTable>>
    BY <1>4 DEF Configure
  <2> QED
    BY <2>1, <2>2, <2>3
<1> QED
  BY <1>1, <1>2, <1>3, <1>4

\* ReadByte and WriteData leave m_file alone, and go from one place that needs
\* it open to the next.
LEMMA IoKeepsInv ==
    ASSUME IInv, NEW t \in Threads,
           \/ StartIo(t) \/ ReadByte(t) \/ ReadFileReturns(t)
           \/ ReadTimesOut(t) \/ WriteData(t)
    PROVE  IInv'
<1> USE DEF IInv, TypeOK, HoldersOK, DestructorOK, InitialisersOK, FileOK, TestedOK, TaskOK,
            NoDescriptorLost, port, device, AfterRead, ByteRead, ReadFails
<1>1. CASE StartIo(t)
  BY <1>1 DEF StartIo
<1>2. CASE ReadByte(t)
  BY <1>2 DEF ReadByte
<1>3. CASE ReadFileReturns(t)
  BY <1>3 DEF ReadFileReturns
<1>4. CASE WriteData(t)
  BY <1>4 DEF WriteData
<1>5. CASE ReadTimesOut(t)
  BY <1>5 DEF ReadTimesOut
<1> QED
  BY <1>1, <1>2, <1>3, <1>4, <1>5

\* The read task.
LEMMA TaskKeepsInv ==
    ASSUME IInv,
           \/ TaskStep \/ Interrupt \/ WaitCommEvent \/ WaitFails
           \/ \E left \in SUBSET Fds : Select(left)
    PROVE  IInv'
<1> USE DEF IInv, TypeOK, HoldersOK, DestructorOK, InitialisersOK, FileOK, TestedOK, TaskOK,
            NoDescriptorLost, port, device
<1>1. CASE Turn
  BY <1>1 DEF Turn
<1>2. CASE GetTotalBytes
  BY <1>2 DEF GetTotalBytes
<1>3. CASE EndTurn
  BY <1>3 DEF EndTurn, Release
<1>4. CASE Decide
  BY <1>4 DEF Decide
<1>5. CASE Interrupt
  BY <1>5 DEF Interrupt
<1>6. CASE WaitFails
  BY <1>6 DEF WaitFails
<1>7. CASE WaitCommEvent
  BY <1>7 DEF WaitCommEvent
<1>8. ASSUME NEW left \in SUBSET Fds, Select(left) PROVE IInv'
  BY <1>8 DEF Select
<1> QED
  BY <1>1, <1>2, <1>3, <1>4, <1>5, <1>6, <1>7, <1>8 DEF TaskStep

LEMMA NextKeepsInv == ASSUME OneInitialiser, IInv, [Next]_vars PROVE IInv'
<1>1. CASE ByteArrives
  BY <1>1 DEF ByteArrives, IInv, TypeOK, HoldersOK, DestructorOK, InitialisersOK, FileOK,
              TestedOK, TaskOK, NoDescriptorLost, port
<1>2. CASE OtherFiles
  BY <1>2 DEF OtherFiles, IInv, TypeOK, HoldersOK, DestructorOK, InitialisersOK, FileOK,
              TestedOK, TaskOK, NoDescriptorLost, port, device
<1>3. CASE UNCHANGED vars
  BY <1>3 DEF vars, IInv, TypeOK, HoldersOK, DestructorOK, InitialisersOK, FileOK, TestedOK,
              TaskOK, NoDescriptorLost, port, device
<1> QED
  BY <1>1, <1>2, <1>3, HoldersKeepInv, ClosePortKeepsInv, InitPortKeepsInv, IoKeepsInv,
     TaskKeepsInv
  DEF Next, Working, Destructor

\* What each place in the code may rely on: who works in the port holds it, who
\* destroys it is alone, and what was true of m_file when it was tested still is.
THEOREM Invariant == ASSUME OneInitialiser PROVE Spec => []IInv
BY InitIsSafe, NextKeepsInv, PTL DEF Spec

\* Whoever tested m_file and then waits for the mutex finds the port's own open
\* descriptor: in ReadByte, WriteData, InitPort and the read task, and whoever
\* lets go of the port or closes other files meanwhile.
THEOREM IoIsOnOwnPort == ASSUME OneInitialiser PROVE Spec => []IoOnOwnPort
<1>1. IInv => IoOnOwnPort
  BY DEF IInv, FileOK, TestedOK, IoOnOwnPort
<1> QED
  BY <1>1, Invariant, PTL

\* The port never leaves a descriptor open that m_file does not name.
THEOREM DescriptorsAreNamed == ASSUME OneInitialiser PROVE Spec => []NoDescriptorLost
<1>1. IInv => NoDescriptorLost
  BY DEF IInv, FileOK
<1> QED
  BY <1>1, Invariant, PTL
=============================================================================
