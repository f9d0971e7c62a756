---------------------------- MODULE Logger_proofs ----------------------------
(***************************************************************************)
(* The logger uses its queue as VmBlockingQueue allows, and prints every   *)
(* line once and in the order of the time stamps, for any finite set of    *)
(* logging threads, any levels and any number of lines.                    *)
(***************************************************************************)
EXTENDS Logger, SequenceTheorems, FiniteSetTheorems, TLAPS

\* The threads with a line formatted and not sent, and those in LogString that
\* do not hold critSec themselves.
Sending  == {c \in Callers : Unsent(c)}
Queueing == {c \in Callers : call[c] = "logString" /\ critSec # c}

\* s is the lines from + 1, from + 2, ...
IsRun(s, from) == \A k \in 1..Len(s) : s[k] = from + k

\* Who sends holds critSec, who holds it is not idle, who has to signal is
\* still sending.
OwnerOK ==
    \A c \in Callers :
       /\ call[c] = "send" => critSec = c
       /\ critSec = c => call[c] # "idle"
       /\ producer[c] = "signal" => call[c] = "send"

\* The loop is inside DeQueue exactly as the queue's consumer is.
LoopOK == consumer[Loop] # "idle" => loop = "waiting"

\* There is room for the lines that are going to be stamped.
RoomOK == stamped + Cardinality(Queueing) <= MaxLines

\* The lines printed, in hand and queued follow each other without a gap, and
\* at most the last one stamped is not queued yet.
LinesOK ==
    /\ IsRun(printed, 0)
    /\ IsRun(InHand, Len(printed))
    /\ IsRun(mQueue, Len(printed) + Len(InHand))
    /\ Len(printed) + Len(InHand) + Len(mQueue)
         + (IF Sending = {} THEN 0 ELSE 1) = stamped
    /\ \A c \in Sending : line[c] = stamped
    /\ item[Loop] # NULL => item[Loop] <= Len(printed) + Len(InHand)

\* The inductive invariant.
IInv == TypeOK /\ OwnerOK /\ LoopOK /\ RoomOK /\ LinesOK

-----------------------------------------------------------------------------
\* What the loop holds is no line or one.
LEMMA InHandType ==
    ASSUME TypeOK
    PROVE  /\ InHand \in Seq(Lines)
           /\ loop = "got" /\ item[Loop] # NULL =>
                 /\ InHand = <<item[Loop]>> /\ Len(InHand) = 1
                 /\ InHand[1] = item[Loop] /\ item[Loop] \in Lines
           /\ ~(loop = "got" /\ item[Loop] # NULL) =>
                 InHand = <<>> /\ Len(InHand) = 0
<1>1. item[Loop] \in Lines \cup {NULL}
  BY DEF TypeOK, Q!TypeOK
<1> QED
  BY <1>1 DEF InHand

\* At most the owner of critSec has a line to send.
LEMMA OneSender ==
    ASSUME OwnerOK
    PROVE  /\ \A c, d \in Sending : c = d
           /\ \A c \in Sending : critSec = c
           /\ critSec = NULL => Sending = {}
<1>1. \A c \in Sending : c \in Callers /\ critSec = c
  BY DEF OwnerOK, Sending, Unsent
<1> QED
  BY <1>1, LoggerAssumption

LEMMA QueueingIsFinite ==
    /\ IsFiniteSet(Queueing) /\ Cardinality(Queueing) \in Nat
    /\ IsFiniteSet(Pending) /\ Cardinality(Pending) \in Nat
    /\ Cardinality(Queueing) <= Cardinality(Pending)
<1>1. Queueing \in SUBSET Pending /\ Pending \in SUBSET Callers
  BY DEF Queueing, Pending
<1> QED
  BY <1>1, LoggerAssumption, FS_Subset, FS_CardinalityType

-----------------------------------------------------------------------------
LEMMA InitEstablishesInv == Init => IInv
<1> SUFFICES ASSUME Init PROVE IInv
  OBVIOUS
<1> USE LoggerAssumption DEF Init, Q!Init
<1>1. TypeOK
  <2>1. Q!TypeOK
    BY DEF Q!TypeOK, Q!Durations
  <2>2. m_logLevel \in UNKNOWN..SILENT
    BY DEF UNKNOWN, SILENT, DEBUG
  <2>3. stamped \in 0..MaxLines /\ line \in [Callers -> 0..MaxLines]
    OBVIOUS
  <2>4. printed \in Seq(Lines) /\ call \in [Callers -> {"idle", "logString", "send"}]
    OBVIOUS
  <2>5. /\ critSec \in Callers \cup {NULL}
        /\ mRunning \in BOOLEAN /\ stopping \in {"no", "exitQueue", "stopped"}
        /\ loop \in {"none", "test", "dequeue", "waiting", "got", "ended"}
    OBVIOUS
  <2>6. QED
    BY <2>1, <2>2, <2>3, <2>4, <2>5 DEF TypeOK
<1>2. OwnerOK /\ LoopOK
  BY DEF OwnerOK, LoopOK
<1>3. Queueing = {} /\ Sending = {}
  BY DEF Queueing, Sending, Unsent
<1>4. RoomOK
  BY <1>3, FS_EmptySet DEF RoomOK
<1>5. InHand = <<>>
  BY DEF InHand
<1>6. LinesOK
  BY <1>3, <1>5 DEF LinesOK, IsRun
<1> QED
  BY <1>1, <1>2, <1>4, <1>6 DEF IInv

\* A step that leaves the lines alone keeps them in order.
LEMMA LinesUntouched ==
    ASSUME LinesOK, printed' = printed, InHand' = InHand, mQueue' = mQueue,
           item' = item, stamped' = stamped, Sending' = Sending, line' = line
    PROVE  LinesOK'
BY DEF LinesOK, IsRun

-----------------------------------------------------------------------------
(***************************************************************************)
(* The threads that log.                                                   *)
(***************************************************************************)
LEMMA LogStep ==
    ASSUME IInv, NEW c \in Callers, Log(c)
    PROVE  IInv'
<1> USE DEF IInv, Log, queue, running
<1>0. c \notin Queueing /\ Queueing' = Queueing \cup {c}
  BY LoggerAssumption DEF Queueing, OwnerOK, TypeOK
<1>1. TypeOK'
  BY DEF TypeOK, Q!TypeOK
<1>2. OwnerOK' /\ LoopOK'
  BY DEF OwnerOK, LoopOK, TypeOK
<1>3. Cardinality(Queueing') = Cardinality(Queueing) + 1
  BY <1>0, QueueingIsFinite, FS_AddElement
<1>4. RoomOK'
  BY <1>3, QueueingIsFinite, LoggerAssumption DEF RoomOK, TypeOK
<1>5. InHand' = InHand /\ Sending' = Sending
  BY DEF InHand, Sending, Unsent, TypeOK
<1>6. LinesOK'
  BY <1>5, LinesUntouched
<1> QED
  BY <1>1, <1>2, <1>4, <1>6

LEMMA LogStringStep ==
    ASSUME IInv, NEW c \in Callers, LogString(c)
    PROVE  IInv'
<1> USE DEF IInv, LogString, queue, running
<1>0. c \in Queueing /\ Queueing' = Queueing \ {c} /\ c # NULL
  BY LoggerAssumption DEF Queueing, TypeOK
<1>1. Cardinality(Queueing') = Cardinality(Queueing) - 1 /\ Cardinality(Queueing') \in Nat
  BY <1>0, QueueingIsFinite, FS_RemoveElement, FS_CardinalityType
<1>2. RoomOK'
  BY <1>1, QueueingIsFinite, LoggerAssumption DEF RoomOK, TypeOK
<1>3. stamped + 1 \in 0..MaxLines
  BY <1>1, QueueingIsFinite, LoggerAssumption DEF RoomOK, TypeOK
<1>4. TypeOK'
  BY <1>3 DEF TypeOK, Q!TypeOK
<1>5. OwnerOK' /\ LoopOK'
  <2>1. \A d \in Callers \ {c} : call[d] # "send" /\ producer[d] # "signal" /\ d # c
    BY LoggerAssumption DEF OwnerOK
  <2>2. OwnerOK'
    BY <1>0, <2>1, LoggerAssumption DEF OwnerOK, TypeOK, Q!TypeOK
  <2>3. LoopOK'
    BY DEF LoopOK
  <2>4. QED
    BY <2>2, <2>3
<1>6. Sending = {}
  BY OneSender
<1>7. Sending' = {c}
  BY <1>6 DEF Sending, Unsent, OwnerOK, TypeOK, Q!TypeOK
<1>8. InHand' = InHand
  BY DEF InHand
<1>9. Len(printed) \in Nat /\ Len(InHand) \in Nat /\ Len(mQueue) \in Nat
  BY InHandType, LenProperties DEF TypeOK, Q!TypeOK
<1>10. LinesOK'
  <2>1. \A d \in Sending' : line'[d] = stamped'
    BY <1>7 DEF TypeOK
  <2>2. IsRun(printed, 0)' /\ IsRun(InHand, Len(printed))'
        /\ IsRun(mQueue, Len(printed) + Len(InHand))'
    BY <1>8 DEF LinesOK, IsRun
  <2>3. (Len(printed) + Len(InHand) + Len(mQueue)
           + (IF Sending = {} THEN 0 ELSE 1) = stamped)'
    BY <1>6, <1>7, <1>8, <1>9 DEF LinesOK
  <2>4. (item[Loop] # NULL => item[Loop] <= Len(printed) + Len(InHand))'
    BY <1>8 DEF LinesOK
  <2>5. QED
    BY <2>1, <2>2, <2>3, <2>4 DEF LinesOK
<1> QED
  BY <1>2, <1>4, <1>5, <1>10

LEMMA LogBlankStep ==
    ASSUME IInv, NEW c \in Callers, LogBlank(c)
    PROVE  IInv'
<1> USE DEF IInv, LogBlank, queue, running
<1>0. c \in Queueing /\ Queueing' = Queueing \ {c}
  BY LoggerAssumption DEF Queueing, TypeOK
<1>1. Cardinality(Queueing') = Cardinality(Queueing) - 1
  BY <1>0, QueueingIsFinite, FS_RemoveElement
<1>2. RoomOK'
  BY <1>1, QueueingIsFinite, LoggerAssumption DEF RoomOK, TypeOK
<1>3. TypeOK'
  BY DEF TypeOK, Q!TypeOK
<1>4. OwnerOK' /\ LoopOK'
  BY LoggerAssumption DEF OwnerOK, LoopOK, TypeOK
<1>5. InHand' = InHand /\ Sending' = Sending
  BY DEF InHand, Sending, Unsent, TypeOK
<1>6. LinesOK'
  BY <1>5, LinesUntouched
<1> QED
  BY <1>2, <1>3, <1>4, <1>6

LEMMA SendStep ==
    ASSUME IInv, NEW c \in Callers, SendDebugMessage(c)
    PROVE  IInv' /\ Q!EnQueue(c)
<1> USE DEF IInv, SendDebugMessage, logging, running
<1>0. /\ Len(printed) \in Nat /\ Len(InHand) \in Nat /\ Len(mQueue) \in Nat
      /\ mQueue \in Seq(Lines) /\ stamped \in 0..MaxLines /\ item[Loop] \in Lines \cup {NULL}
  BY InHandType, LenProperties DEF TypeOK, Q!TypeOK
<1>1. Sending = {c} /\ line[c] = stamped
  BY OneSender DEF Sending, Unsent, LinesOK
<1>2. stamped = Len(printed) + Len(InHand) + Len(mQueue) + 1 /\ line[c] \in Lines
  BY <1>0, <1>1, LoggerAssumption DEF LinesOK, Lines
<1>3. ~ \E k \in 1..Len(mQueue) : mQueue[k] = line[c]
  BY <1>0, <1>1, <1>2 DEF LinesOK, IsRun
<1>4. line[c] \notin ToSet(mQueue)
  BY <1>0, <1>3 DEF ToSet
<1>5. item[Loop] # line[c]
  BY <1>0, <1>1, <1>2, LoggerAssumption DEF LinesOK, Lines
<1>6. Q!EnQueue(c)
  BY <1>2, <1>4, <1>5 DEF Q!EnQueue, Q!Free, Q!ToSet, ToSet
<1>7. TypeOK'
  BY <1>0, <1>2 DEF TypeOK, Q!TypeOK
<1>8. OwnerOK' /\ LoopOK'
  BY DEF OwnerOK, LoopOK, TypeOK, Q!TypeOK
<1>9. Queueing' = Queueing
  BY DEF Queueing
<1>10. RoomOK'
  BY <1>9 DEF RoomOK
<1>11. Sending' = {}
  BY <1>1 DEF Sending, Unsent, TypeOK, Q!TypeOK
<1>12. InHand' = InHand
  BY DEF InHand
<1>13. /\ Len(mQueue') = Len(mQueue) + 1
       /\ \A k \in 1..Len(mQueue) : mQueue'[k] = mQueue[k]
       /\ mQueue'[Len(mQueue) + 1] = line[c]
  BY <1>0, <1>2
<1>14. IsRun(mQueue', Len(printed) + Len(InHand))
  <2>1. \A k \in 1..Len(mQueue) : mQueue[k] = Len(printed) + Len(InHand) + k
    BY DEF LinesOK, IsRun
  <2>2. mQueue'[Len(mQueue) + 1] = Len(printed) + Len(InHand) + (Len(mQueue) + 1)
    BY <1>0, <1>1, <1>2, <1>13
  <2>3. ASSUME NEW k \in 1..Len(mQueue')
        PROVE  mQueue'[k] = Len(printed) + Len(InHand) + k
    <3>1. k \in 1..Len(mQueue) \/ k = Len(mQueue) + 1
      BY <1>0, <1>13
    <3>2. QED
      BY <1>13, <2>1, <2>2, <3>1
  <2>4. QED
    BY <2>3 DEF IsRun
<1>15. LinesOK'
  BY <1>0, <1>1, <1>2, <1>11, <1>12, <1>13, <1>14 DEF LinesOK, IsRun
<1> QED
  BY <1>6, <1>7, <1>8, <1>10, <1>15
\* What Condition::signal may do to the loop: nothing, or it leaves the wait.
LEMMA SignalEffect ==
    ASSUME IInv, Q!Signal \/ (Q!Waiting # {} /\ Q!ExitQueue) \/ consumer' = consumer
    PROVE  /\ consumer' \in [{Loop} -> {"idle", "waiting", "woken", "timedOut"}]
           /\ loop' = loop => LoopOK'
<1>0. consumer \in [{Loop} -> {"idle", "waiting", "woken", "timedOut"}] /\ LoopOK
  BY DEF IInv, TypeOK, Q!TypeOK
<1>1. CASE Q!Signal
  BY <1>0, <1>1 DEF Q!Signal, Q!Waiting, LoopOK
<1>2. CASE Q!ExitQueue
  BY <1>0, <1>2 DEF Q!ExitQueue, Q!Waiting, LoopOK
<1>3. CASE consumer' = consumer
  BY <1>0, <1>3 DEF LoopOK
<1> QED
  BY <1>1, <1>2, <1>3

LEMMA LogReturnsStep ==
    ASSUME IInv, NEW c \in Callers, LogReturns(c)
    PROVE  IInv'
<1> USE DEF IInv, LogReturns, Q!SignalEnQueued, running
<1>0. call[c] = "send" /\ critSec = c /\ c # NULL
  BY LoggerAssumption DEF OwnerOK
<1>1. consumer' \in [{Loop} -> {"idle", "waiting", "woken", "timedOut"}] /\ LoopOK'
  BY SignalEffect
<1>2. TypeOK'
  BY <1>1 DEF TypeOK, Q!TypeOK
<1>3. \A d \in Callers \ {c} : call[d] # "send" /\ producer[d] # "signal"
  BY <1>0 DEF OwnerOK
<1>4. OwnerOK'
  BY <1>3, LoggerAssumption DEF OwnerOK, TypeOK, Q!TypeOK
<1>5. Queueing' = Queueing
  BY <1>0, LoggerAssumption DEF Queueing, TypeOK
<1>6. RoomOK'
  BY <1>5 DEF RoomOK
<1>7. Sending' = Sending /\ InHand' = InHand
  BY <1>0, <1>3 DEF Sending, Unsent, InHand, TypeOK, Q!TypeOK
<1>8. LinesOK'
  BY <1>7, LinesUntouched
<1> QED
  BY <1>1, <1>2, <1>4, <1>6, <1>8

LEMMA SetLogLevelStep ==
    ASSUME IInv, NEW c \in Callers, SetLogLevel(c)
    PROVE  IInv'
<1> USE DEF IInv, SetLogLevel, queue, running
<1>0. m_logLevel' \in UNKNOWN..SILENT
  BY DEF TypeOK
<1>1. \/ critSec' = c /\ call' = [call EXCEPT ![c] = "logString"]
      \/ UNCHANGED <<critSec, call>>
  OBVIOUS
<1>2. TypeOK'
  BY <1>0, <1>1 DEF TypeOK, Q!TypeOK
<1>3. OwnerOK' /\ LoopOK'
  BY <1>1, LoggerAssumption DEF OwnerOK, LoopOK, TypeOK
<1>4. Queueing' = Queueing
  BY <1>1, LoggerAssumption DEF Queueing, TypeOK
<1>5. RoomOK'
  BY <1>4 DEF RoomOK
<1>6. Sending' = Sending /\ InHand' = InHand
  BY <1>1 DEF Sending, Unsent, InHand, TypeOK
<1>7. LinesOK'
  BY <1>6, LinesUntouched
<1> QED
  BY <1>2, <1>3, <1>5, <1>7

-----------------------------------------------------------------------------
(***************************************************************************)
(* The loop.                                                               *)
(***************************************************************************)

\* A step of the loop leaves the logging threads as they are.
LEMMA LoopLeavesCallers ==
    ASSUME IInv, UNCHANGED <<producer, logging>>
    PROVE  OwnerOK' /\ RoomOK' /\ Sending' = Sending
<1>1. Queueing' = Queueing /\ Sending' = Sending
  BY DEF Queueing, Sending, Unsent, logging
<1>2. QED
  BY <1>1 DEF IInv, OwnerOK, RoomOK, logging

\* mqueue_pop moves the first line of the queue into the loop's hand.
LEMMA PopStep ==
    ASSUME IInv, InHand = <<>>, Q!Pop(Loop), loop' = "got",
           UNCHANGED <<producer, logging, running, printed>>,
           waitDuration' \in [{Loop} -> Q!Durations]
    PROVE  IInv'
<1> USE DEF IInv, Q!Pop, logging, running
<1>0. /\ mQueue \in Seq(Lines) /\ printed \in Seq(Lines)
      /\ Len(mQueue) \in Nat /\ Len(printed) \in Nat
      /\ item \in [{Loop} -> Lines \cup {NULL}]
      /\ consumer \in [{Loop} -> {"idle", "waiting", "woken", "timedOut"}]
  BY LenProperties DEF TypeOK, Q!TypeOK
<1>1. OwnerOK' /\ RoomOK' /\ Sending' = Sending
  BY LoopLeavesCallers
<1>2. LoopOK'
  BY <1>0 DEF LoopOK
<1>3. CASE mQueue = <<>>
  <2>1. mQueue' = mQueue /\ item' = [item EXCEPT ![Loop] = NULL]
    BY <1>3
  <2>2. TypeOK'
    BY <1>0, <2>1 DEF TypeOK, Q!TypeOK
  <2>3. InHand' = <<>> /\ item'[Loop] = NULL
    BY <1>0, <2>1 DEF InHand
  <2>4. LinesOK'
    BY <1>1, <2>1, <2>3 DEF LinesOK, IsRun
  <2>5. QED
    BY <1>1, <1>2, <2>2, <2>4
<1>4. CASE mQueue # <<>>
  <2>1. mQueue' = Tail(mQueue) /\ item' = [item EXCEPT ![Loop] = Head(mQueue)]
    BY <1>4
  <2>2. /\ Head(mQueue) \in Lines /\ Tail(mQueue) \in Seq(Lines)
        /\ Len(mQueue) >= 1 /\ Head(mQueue) = mQueue[1]
        /\ Len(Tail(mQueue)) = Len(mQueue) - 1
        /\ \A k \in 1..Len(mQueue) - 1 : Tail(mQueue)[k] = mQueue[k + 1]
    BY <1>0, <1>4, HeadTailProperties, EmptySeq
  <2>3. TypeOK'
    BY <1>0, <2>1, <2>2 DEF TypeOK, Q!TypeOK
  <2>4. item'[Loop] = Head(mQueue) /\ Head(mQueue) # NULL
    BY <1>0, <2>1, <2>2, LoggerAssumption DEF Lines
  <2>5. InHand' = <<Head(mQueue)>>
    BY <2>4 DEF InHand
  <2>6. Head(mQueue) = Len(printed) + 1
    BY <1>0, <2>2 DEF LinesOK, IsRun
  <2>7. IsRun(InHand', Len(printed)) /\ Len(InHand') = 1
    BY <2>5, <2>6 DEF IsRun
  <2>8. ASSUME NEW k \in 1..Len(mQueue')
        PROVE  mQueue'[k] = Len(printed) + 1 + k
    <3>1. k \in 1..Len(mQueue) - 1 /\ k + 1 \in 1..Len(mQueue)
      BY <1>0, <2>1, <2>2
    <3>2. mQueue[k + 1] = Len(printed) + 0 + (k + 1)
      BY <3>1 DEF LinesOK, IsRun
    <3>3. QED
      BY <1>0, <2>1, <2>2, <3>1, <3>2
  <2>9. IsRun(mQueue', Len(printed) + Len(InHand'))
    BY <2>7, <2>8 DEF IsRun
  <2>10. LinesOK'
    <3>1. (Len(printed) + Len(InHand) + Len(mQueue)
             + (IF Sending = {} THEN 0 ELSE 1) = stamped)'
      <4> DEFINE unsent == IF Sending = {} THEN 0 ELSE 1
      <4>1. unsent \in {0, 1} /\ unsent' = unsent
        BY <1>1
      <4>2. Len(printed) + 0 + Len(mQueue) + unsent = stamped
        BY DEF LinesOK
      <4>3. Len(printed') = Len(printed) /\ Len(mQueue') = Len(mQueue) - 1 /\ stamped' = stamped
        BY <2>1, <2>2
      <4> HIDE DEF unsent
      <4>4. Len(printed) + 1 + (Len(mQueue) - 1) + unsent = stamped
        BY <1>0, <4>1, <4>2
      <4>5. Len(printed') + Len(InHand') + Len(mQueue') + unsent' = stamped'
        BY ONLY <2>7, <4>1, <4>3, <4>4
      <4>6. QED
        BY <4>5 DEF unsent
    <3>2. (\A c \in Sending : line[c] = stamped)'
      BY <1>1 DEF LinesOK
    <3>3. (item[Loop] # NULL => item[Loop] <= Len(printed) + Len(InHand))'
      BY <1>0, <2>4, <2>6, <2>7
    <3>4. IsRun(printed, 0)'
      BY DEF LinesOK, IsRun
    <3>5. QED
      BY <2>7, <2>9, <3>1, <3>2, <3>3, <3>4 DEF LinesOK
  <2>11. QED
    BY <1>1, <1>2, <2>3, <2>10
<1> QED
  BY <1>3, <1>4

LEMMA DeQueueStep ==
    ASSUME IInv, DeQueue
    PROVE  IInv'
<1> USE DEF IInv, DeQueue, Q!DeQueue
<1>0. /\ item \in [{Loop} -> Lines \cup {NULL}]
      /\ consumer \in [{Loop} -> {"idle", "waiting", "woken", "timedOut"}]
      /\ waitDuration' \in [{Loop} -> Q!Durations]
  BY DEF TypeOK, Q!TypeOK
<1>1. InHand = <<>>
  BY DEF InHand
<1>2. CASE mQueue # <<>> /\ Q!Pop(Loop)
  <2>1. loop' = "got"
    BY <1>0, <1>2 DEF Q!Pop
  <2>2. QED
    BY <1>0, <1>1, <1>2, <2>1, PopStep
<1>3. CASE /\ mQueue = <<>> /\ UNCHANGED mQueue
           /\ consumer' = [consumer EXCEPT ![Loop] = "waiting"]
           /\ item' = [item EXCEPT ![Loop] = NULL]
  <2>1. loop' = "waiting" /\ item'[Loop] = NULL
    BY <1>0, <1>3
  <2>2. TypeOK'
    BY <1>0, <1>3, <2>1 DEF TypeOK, Q!TypeOK, logging, running
  <2>3. OwnerOK' /\ RoomOK' /\ Sending' = Sending
    BY LoopLeavesCallers
  <2>4. InHand' = <<>>
    BY <2>1 DEF InHand
  <2>5. LinesOK'
    BY <1>1, <1>3, <2>1, <2>3, <2>4 DEF LinesOK, IsRun, logging
  <2>6. QED
    BY <2>1, <2>2, <2>3, <2>5 DEF LoopOK
<1> QED
  BY <1>2, <1>3

LEMMA ResumeStep ==
    ASSUME IInv, ResumeDeQueue
    PROVE  IInv'
<1> USE DEF IInv, ResumeDeQueue, Q!ResumeDeQueue
<1>1. InHand = <<>>
  BY DEF LoopOK, InHand
<1>2. waitDuration' \in [{Loop} -> Q!Durations]
  BY DEF TypeOK, Q!TypeOK
<1> QED
  BY <1>1, <1>2, PopStep

LEMMA PrintStep ==
    ASSUME IInv, PrintLine
    PROVE  IInv'
<1> USE DEF IInv, PrintLine, queue
<1>0. /\ printed \in Seq(Lines) /\ Len(printed) \in Nat
      /\ item[Loop] \in Lines \cup {NULL}
  BY LenProperties DEF TypeOK, Q!TypeOK
<1>1. OwnerOK' /\ RoomOK' /\ Sending' = Sending
  BY LoopLeavesCallers
<1>2. LoopOK'
  BY DEF LoopOK
<1>3. InHand' = <<>>
  BY DEF InHand
<1>4. TypeOK'
  BY <1>0 DEF TypeOK, Q!TypeOK, logging, running
<1>5. CASE item[Loop] = NULL
  <2>1. InHand = <<>> /\ printed' = printed
    BY <1>5 DEF InHand
  <2>2. LinesOK'
    BY <1>1, <1>3, <1>5, <2>1 DEF LinesOK, IsRun, logging
  <2>3. QED
    BY <1>1, <1>2, <1>4, <2>2
<1>6. CASE item[Loop] # NULL
  <2>1. /\ printed' = Append(printed, item[Loop])
        /\ Len(InHand) = 1 /\ InHand[1] = item[Loop] /\ item[Loop] \in Lines
    BY <1>6, InHandType
  <2>2. item[Loop] = Len(printed) + 1
    BY <2>1 DEF LinesOK, IsRun
  <2>3. /\ Len(printed') = Len(printed) + 1
        /\ \A k \in 1..Len(printed) : printed'[k] = printed[k]
        /\ printed'[Len(printed) + 1] = item[Loop]
    BY <1>0, <2>1
  <2>4. ASSUME NEW k \in 1..Len(printed') PROVE printed'[k] = 0 + k
    <3>1. k \in 1..Len(printed) \/ k = Len(printed) + 1
      BY <1>0, <2>3
    <3>2. \A j \in 1..Len(printed) : printed[j] = 0 + j
      BY DEF LinesOK, IsRun
    <3>3. QED
      BY <1>0, <2>2, <2>3, <3>1, <3>2
  <2>5. IsRun(printed', 0)
    BY <2>4 DEF IsRun
  <2>6. LinesOK'
    <3>1. Len(InHand') = 0 /\ IsRun(InHand', Len(printed'))
      BY <1>3 DEF IsRun
    <3>2. IsRun(mQueue', Len(printed') + Len(InHand'))
      <4>1. \A k \in 1..Len(mQueue) : mQueue[k] = Len(printed) + 1 + k
        BY <2>1 DEF LinesOK, IsRun
      <4>2. Len(printed') + Len(InHand') = Len(printed) + 1
        BY <1>0, <2>3, <3>1
      <4>3. QED
        BY <4>1, <4>2 DEF IsRun
    <3>3. (Len(printed) + Len(InHand) + Len(mQueue)
             + (IF Sending = {} THEN 0 ELSE 1) = stamped)'
      <4> DEFINE unsent == IF Sending = {} THEN 0 ELSE 1
      <4>1. unsent \in {0, 1} /\ unsent' = unsent
        BY <1>1
      <4>2. Len(printed) + 1 + Len(mQueue) + unsent = stamped
        BY <2>1 DEF LinesOK
      <4>3. /\ Len(mQueue') = Len(mQueue) /\ Len(mQueue) \in Nat
            /\ stamped' = stamped
        BY LenProperties DEF TypeOK, Q!TypeOK, logging
      <4> HIDE DEF unsent
      <4>4. Len(printed') + Len(InHand') + Len(mQueue') + unsent' = stamped'
        BY <1>0, <2>3, <3>1, <4>1, <4>2, <4>3
      <4>5. QED
        BY <4>4 DEF unsent
    <3>4. (\A c \in Sending : line[c] = stamped)'
      BY <1>1 DEF LinesOK, logging
    <3>5. (item[Loop] # NULL => item[Loop] <= Len(printed) + Len(InHand))'
      BY <1>0, <2>2, <2>3, <3>1
    <3>6. QED
      BY <2>5, <3>1, <3>2, <3>3, <3>4, <3>5 DEF LinesOK
  <2>7. QED
    BY <1>1, <1>2, <1>4, <2>6
<1> QED
  BY <1>5, <1>6

-----------------------------------------------------------------------------
\* Every other step leaves the lines and the logging threads alone.
LEMMA QuietStep ==
    ASSUME IInv, TestRunning \/ SpuriousWakeup \/ Stop \/ StopWakesQueue
    PROVE  IInv'
<1> USE DEF IInv
<1>0. UNCHANGED <<mQueue, producer, waitDuration, item, logging, printed>>
  BY DEF TestRunning, SpuriousWakeup, Q!SpuriousWakeup, Stop, StopWakesQueue,
         Q!ExitQueue, queue
<1>1. OwnerOK' /\ RoomOK' /\ Sending' = Sending
  BY <1>0, LoopLeavesCallers
<1>2. InHand' = InHand
  BY <1>0 DEF TestRunning, SpuriousWakeup, Stop, StopWakesQueue, InHand
<1>3. LinesOK'
  BY <1>0, <1>1, <1>2, LinesUntouched DEF logging
<1>4. CASE TestRunning
  <2>1. LoopOK'
    BY <1>4 DEF TestRunning, LoopOK, queue
  <2>2. TypeOK'
    BY <1>4 DEF TestRunning, TypeOK, Q!TypeOK, queue, logging, running
  <2>3. QED
    BY <1>1, <1>3, <2>1, <2>2
<1>5. CASE SpuriousWakeup
  <2>1. LoopOK'
    BY <1>5 DEF SpuriousWakeup, Q!SpuriousWakeup, LoopOK
  <2>2. TypeOK'
    BY <1>5 DEF SpuriousWakeup, Q!SpuriousWakeup, TypeOK, Q!TypeOK, logging, running
  <2>3. QED
    BY <1>1, <1>3, <2>1, <2>2
<1>6. CASE Stop
  <2>1. LoopOK'
    BY <1>6 DEF Stop, LoopOK, queue
  <2>2. TypeOK'
    BY <1>6 DEF Stop, TypeOK, Q!TypeOK, queue, logging
  <2>3. QED
    BY <1>1, <1>3, <2>1, <2>2
<1>7. CASE StopWakesQueue
  <2>1. /\ consumer' \in [{Loop} -> {"idle", "waiting", "woken", "timedOut"}]
        /\ LoopOK'
    BY <1>7, SignalEffect DEF StopWakesQueue, queue
  <2>2. TypeOK'
    BY <1>0, <1>7, <2>1 DEF StopWakesQueue, TypeOK, Q!TypeOK, logging
  <2>3. QED
    BY <1>1, <1>3, <2>1, <2>2
<1> QED
  BY <1>4, <1>5, <1>6, <1>7

LEMMA InvIsInductive == IInv /\ [Next]_vars => IInv'
<1> SUFFICES ASSUME IInv, [Next]_vars PROVE IInv'
  OBVIOUS
<1>1. ASSUME NEW c \in Callers,
             \/ Log(c) \/ LogString(c) \/ LogBlank(c) \/ SendDebugMessage(c)
             \/ LogReturns(c) \/ SetLogLevel(c)
      PROVE  IInv'
  BY <1>1, LogStep, LogStringStep, LogBlankStep, SendStep, LogReturnsStep,
     SetLogLevelStep
<1>2. CASE LoopStep \/ SpuriousWakeup \/ Stop \/ StopWakesQueue
  BY <1>2, DeQueueStep, ResumeStep, PrintStep, QuietStep DEF LoopStep
<1>3. CASE UNCHANGED vars
  <2>1. InHand' = InHand /\ Sending' = Sending /\ Queueing' = Queueing
    BY <1>3 DEF vars, queue, logging, running, InHand, Sending, Unsent, Queueing
  <2>2. TypeOK' /\ OwnerOK' /\ LoopOK'
    BY <1>3 DEF vars, queue, logging, running, IInv, TypeOK, Q!TypeOK, OwnerOK, LoopOK
  <2>3. RoomOK' /\ LinesOK'
    BY <1>3, <2>1 DEF vars, queue, logging, running, IInv, RoomOK, LinesOK, IsRun
  <2>4. QED
    BY <2>2, <2>3 DEF IInv
<1> QED
  BY <1>1, <1>2, <1>3 DEF Next

THEOREM Invariant == Spec => []IInv
BY InitEstablishesInv, InvIsInductive, PTL DEF Spec
-----------------------------------------------------------------------------
\* Every step of the logger that touches the queue is a step of the queue.
THEOREM LoggerUsesQueue == Spec => UsesQueue
<1>1. Init => Q!Init
  BY DEF Init
<1>2. IInv /\ [Next]_vars => [Q!Next]_(Q!vars)
  <2> SUFFICES ASSUME IInv, [Next]_vars PROVE [Q!Next]_(Q!vars)
    OBVIOUS
  <2>1. CASE UNCHANGED queue
    BY <2>1 DEF queue, Q!vars
  <2>2. ASSUME NEW c \in Callers, SendDebugMessage(c) PROVE Q!Next
    <3>1. Q!EnQueue(c)
      BY <2>2, SendStep
    <3>2. QED
      BY <3>1 DEF Q!Next, Q!Produce
  <2>3. ASSUME NEW c \in Callers, LogReturns(c) PROVE Q!Next
    BY <2>3 DEF LogReturns, Q!Next, Q!Produce
  <2>4. CASE DeQueue \/ ResumeDeQueue
    BY <2>4 DEF DeQueue, ResumeDeQueue, Q!Next, Q!Consume
  <2>5. CASE SpuriousWakeup
    BY <2>5 DEF SpuriousWakeup, Q!Next
  <2>6. CASE StopWakesQueue
    BY <2>1, <2>6 DEF StopWakesQueue, Q!Next
  <2>7. ASSUME NEW c \in Callers,
               Log(c) \/ LogString(c) \/ LogBlank(c) \/ SetLogLevel(c)
        PROVE  UNCHANGED queue
    BY <2>7 DEF Log, LogString, LogBlank, SetLogLevel
  <2>8. CASE TestRunning \/ PrintLine \/ Stop
    <3>1. UNCHANGED queue
      BY <2>8 DEF TestRunning, PrintLine, Stop
    <3>2. QED
      BY <2>1, <3>1
  <2>9. CASE UNCHANGED vars
    BY <2>1, <2>9 DEF vars
  <2>10. QED
    BY <2>1, <2>2, <2>3, <2>4, <2>5, <2>6, <2>7, <2>8, <2>9 DEF Next, LoopStep
<1> QED
  BY <1>1, <1>2, Invariant, PTL DEF Spec, UsesQueue, Q!Spec

-----------------------------------------------------------------------------
\* Runs of lines that follow each other make one run.
LEMMA RunConcat ==
    ASSUME NEW s \in Seq(Nat), NEW t \in Seq(Nat),
           IsRun(s, 0), IsRun(t, Len(s))
    PROVE  /\ s \o t \in Seq(Nat) /\ Len(s \o t) = Len(s) + Len(t)
           /\ IsRun(s \o t, 0)
<1>1. /\ Len(s) \in Nat /\ Len(t) \in Nat
      /\ s \o t \in Seq(Nat) /\ Len(s \o t) = Len(s) + Len(t)
      /\ \A k \in 1..Len(s) + Len(t) :
            (s \o t)[k] = IF k <= Len(s) THEN s[k] ELSE t[k - Len(s)]
  BY ConcatProperties, LenProperties
<1>2. ASSUME NEW k \in 1..Len(s) + Len(t) PROVE (s \o t)[k] = 0 + k
  <2>1. CASE k <= Len(s)
    BY <1>1, <2>1 DEF IsRun
  <2>2. CASE k > Len(s)
    <3>1. k - Len(s) \in 1..Len(t) /\ ~(k <= Len(s))
      BY <1>1, <2>2
    <3>2. t[k - Len(s)] = Len(s) + (k - Len(s))
      BY <3>1 DEF IsRun
    <3>3. QED
      BY <1>1, <3>1, <3>2
  <2>3. QED
    BY <1>1, <2>1, <2>2
<1>3. IsRun(s \o t, 0)
  BY <1>1, <1>2 DEF IsRun
<1> QED
  BY <1>1, <1>3

LEMMA InvGivesOrder == IInv => EveryLineOnceInOrder
<1> SUFFICES ASSUME IInv PROVE EveryLineOnceInOrder
  OBVIOUS
<1> DEFINE a == printed \o InHand
           b == a \o mQueue
           all == b \o InFlight
<1>0. /\ printed \in Seq(Nat) /\ InHand \in Seq(Nat) /\ mQueue \in Seq(Nat)
      /\ stamped \in Nat
  <2>1. /\ printed \in Seq(Lines) /\ InHand \in Seq(Lines) /\ mQueue \in Seq(Lines)
        /\ stamped \in Nat
    BY InHandType, LoggerAssumption DEF IInv, TypeOK, Q!TypeOK
  <2>2. Lines \subseteq Nat
    BY LoggerAssumption DEF Lines
  <2>3. QED
    BY <2>1, <2>2, SeqMonotonic
<1>1. /\ IsRun(printed, 0) /\ IsRun(InHand, Len(printed))
      /\ IsRun(mQueue, Len(printed) + Len(InHand))
  BY DEF IInv, LinesOK
<1>2. a \in Seq(Nat) /\ Len(a) = Len(printed) + Len(InHand) /\ IsRun(a, 0)
  BY <1>0, <1>1, RunConcat
<1>3. b \in Seq(Nat) /\ Len(b) = Len(a) + Len(mQueue) /\ IsRun(b, 0)
  <2> HIDE DEF a
  <2>1. IsRun(mQueue, Len(a))
    BY <1>1, <1>2
  <2>2. QED
    BY <1>0, <1>2, <2>1, RunConcat
<1>4. /\ InFlight \in Seq(Nat) /\ IsRun(InFlight, Len(b))
      /\ Len(b) + Len(InFlight) = stamped
  <2> HIDE DEF a, b
  <2>0. Len(a) \in Nat /\ Len(b) \in Nat /\ Len(mQueue) \in Nat
    BY <1>0, <1>2, <1>3, LenProperties
  <2>1. CASE Sending = {}
    <3>1. InFlight = <<>>
      BY <2>1 DEF InFlight, Sending
    <3>2. Len(b) = stamped
      BY <1>2, <1>3, <2>0, <2>1 DEF IInv, LinesOK
    <3>3. QED
      BY <1>0, <3>1, <3>2 DEF IsRun
  <2>2. CASE Sending # {}
    <3>1. PICK c \in Callers : InFlight = <<line[c]>> /\ c \in Sending
      BY <2>2 DEF InFlight, Sending
    <3>2. line[c] = stamped /\ Len(b) + 1 = stamped
      BY <1>2, <1>3, <2>0, <2>2, <3>1 DEF IInv, LinesOK
    <3>3. QED
      BY <1>0, <2>0, <3>1, <3>2 DEF IsRun
  <2>3. QED
    BY <2>1, <2>2
<1>5. all \in Seq(Nat) /\ Len(all) = stamped /\ IsRun(all, 0)
  <2> HIDE DEF a, b
  <2>1. QED
    BY <1>3, <1>4, RunConcat
<1>6. all = [k \in 1..stamped |-> k]
  <2> HIDE DEF all
  <2>1. DOMAIN all = 1..stamped /\ \A k \in 1..stamped : all[k] = k
    BY <1>0, <1>5 DEF IsRun
  <2>2. QED
    BY <1>5, <2>1
<1> QED
  BY <1>6 DEF EveryLineOnceInOrder

\* Lines are printed each once, in the order of their time stamps.
THEOREM LinesComeInOrder == Spec => []EveryLineOnceInOrder
BY Invariant, InvGivesOrder, PTL
=============================================================================
