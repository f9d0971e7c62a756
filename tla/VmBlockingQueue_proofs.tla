----------------------- MODULE VmBlockingQueue_proofs -----------------------
(***************************************************************************)
(* Theorems about VmBlockingQueue, for any finite sets of producers and    *)
(* consumers and any set of items.                                         *)
(***************************************************************************)
EXTENDS VmBlockingQueue, SequenceTheorems, FiniteSetTheorems, TLAPS

\* Every action keeps every variable within its type.
LEMMA TypeInvariant == Spec => []TypeOK
<1> USE QueueAssumption DEF TypeOK, Durations
<1>1. Init => TypeOK
  BY DEF Init
<1>2. TypeOK /\ [Next]_vars => TypeOK'
  <2> SUFFICES ASSUME TypeOK, [Next]_vars PROVE TypeOK'
    OBVIOUS
  <2>1. ASSUME NEW c \in Consumers, Pop(c)
        PROVE  /\ mQueue' \in Seq(Items)
               /\ item' \in [Consumers -> Items \cup {NULL}]
               /\ consumer' \in [Consumers -> {"idle", "waiting", "woken", "timedOut"}]
    <3>1. CASE mQueue = <<>>
      BY <2>1, <3>1 DEF Pop
    <3>2. CASE mQueue # <<>>
      <4>1. Head(mQueue) \in Items /\ Tail(mQueue) \in Seq(Items)
        BY <3>2, HeadTailProperties
      <4>2. QED
        BY <2>1, <3>2, <4>1 DEF Pop
    <3>3. QED
      BY <3>1, <3>2
  <2>2. ASSUME NEW c \in Consumers, DeQueue(c) PROVE TypeOK'
    <3>1. CASE Pop(c)
      BY <2>1, <2>2, <3>1 DEF DeQueue
    <3>2. CASE ~Pop(c)
      BY <2>2, <3>2 DEF DeQueue
    <3>3. QED
      BY <3>1, <3>2
  <2>3. ASSUME NEW c \in Consumers, ResumeDeQueue(c) PROVE TypeOK'
    BY <2>1, <2>3 DEF ResumeDeQueue
  <2>4. ASSUME NEW c \in Consumers, ReturnTimedOut(c) PROVE TypeOK'
    BY <2>4 DEF ReturnTimedOut
  <2>5. ASSUME NEW c \in Consumers, TimeOut(c) PROVE TypeOK'
    BY <2>5 DEF TimeOut
  <2>6. ASSUME NEW c \in Consumers, SpuriousWakeup(c) PROVE TypeOK'
    BY <2>6 DEF SpuriousWakeup
  <2>7. ASSUME NEW p \in Producers, EnQueue(p) PROVE TypeOK'
    BY <2>7 DEF EnQueue
  <2>8. ASSUME NEW p \in Producers, SignalEnQueued(p) PROVE TypeOK'
    BY <2>8 DEF SignalEnQueued, Signal, Waiting
  <2>9. ASSUME ExitQueue PROVE TypeOK'
    BY <2>9 DEF ExitQueue, Waiting
  <2>10. CASE UNCHANGED vars
    BY <2>10 DEF vars
  <2>11. QED
    BY <2>2, <2>3, <2>4, <2>5, <2>6, <2>7, <2>8, <2>9, <2>10
    DEF Next, Consume, Produce
<1>3. QED
  BY <1>1, <1>2, PTL DEF Spec

-----------------------------------------------------------------------------
\* The consumers and producers the invariant counts are finitely many.
LEMMA CountsAreNaturals ==
    /\ IsFiniteSet(Woken) /\ Cardinality(Woken) \in Nat
    /\ IsFiniteSet(Signalling) /\ Cardinality(Signalling) \in Nat
<1>1. Woken \in SUBSET Consumers /\ Signalling \in SUBSET Producers
  BY DEF Woken, Signalling
<1>2. QED
  BY <1>1, QueueAssumption, FS_Subset, FS_CardinalityType

\* While somebody sleeps in DeQueue no item is without a wakeup under way.
THEOREM NoWakeupIsLost == Spec => []NoLostWakeup
<1>1. Init => NoLostWakeup
  BY DEF Init, NoLostWakeup, Waiting
<1>2. TypeOK /\ TypeOK' /\ NoLostWakeup /\ [Next]_vars => NoLostWakeup'
  <2> SUFFICES ASSUME TypeOK, TypeOK', NoLostWakeup, [Next]_vars, Waiting' # {}
               PROVE  Len(mQueue') <= Cardinality(Woken') + Cardinality(Signalling')
    BY DEF NoLostWakeup
  <2>0. /\ Len(mQueue) \in Nat
        /\ IsFiniteSet(Woken) /\ IsFiniteSet(Signalling)
        /\ Cardinality(Woken) \in Nat /\ Cardinality(Signalling) \in Nat
    BY CountsAreNaturals, LenProperties DEF TypeOK
  <2>1. ASSUME NEW c \in Consumers, DeQueue(c)
        PROVE  Len(mQueue') <= Cardinality(Woken') + Cardinality(Signalling')
    <3>1. Woken' = Woken /\ Signalling' = Signalling
      BY <2>1 DEF DeQueue, Pop, Woken, Signalling, TypeOK
    <3>2. CASE mQueue = <<>>
      <4>1. mQueue' = <<>>
        BY <2>1, <3>2 DEF DeQueue, Pop
      <4>2. QED
        BY <2>0, <3>1, <4>1, EmptySeq
    <3>3. CASE mQueue # <<>>
      <4>1. Waiting # {}
        BY <2>1, <3>3 DEF DeQueue, Pop, Waiting, TypeOK
      <4>2. Len(mQueue') = Len(mQueue) - 1
        BY <2>1, <3>3, HeadTailProperties DEF DeQueue, Pop, TypeOK
      <4>3. QED
        BY <2>0, <3>1, <4>1, <4>2 DEF NoLostWakeup
    <3>4. QED
      BY <3>2, <3>3
  <2>2. ASSUME NEW c \in Consumers, ResumeDeQueue(c)
        PROVE  Len(mQueue') <= Cardinality(Woken') + Cardinality(Signalling')
    <3>1. Woken' = Woken \ {c} /\ c \in Woken /\ Signalling' = Signalling
      BY <2>2 DEF ResumeDeQueue, Pop, Woken, Signalling, TypeOK
    <3>2. Cardinality(Woken') = Cardinality(Woken) - 1
      BY <2>0, <3>1, FS_RemoveElement
    <3>3. Waiting # {}
      BY <2>2 DEF ResumeDeQueue, Pop, Waiting, TypeOK
    <3>4. CASE mQueue = <<>>
      <4>1. mQueue' = <<>>
        BY <2>2, <3>4 DEF ResumeDeQueue, Pop
      <4>2. Len(mQueue') = 0
        BY <4>1, EmptySeq
      <4>3. QED
        BY <3>1, <4>2, FS_RemoveElement, FS_CardinalityType, <2>0
    <3>5. CASE mQueue # <<>>
      <4>1. Len(mQueue') = Len(mQueue) - 1
        BY <2>2, <3>5, HeadTailProperties DEF ResumeDeQueue, Pop, TypeOK
      <4>2. QED
        BY <2>0, <3>1, <3>2, <3>3, <4>1 DEF NoLostWakeup
    <3>6. QED
      BY <3>4, <3>5
  <2>3. ASSUME NEW c \in Consumers, ReturnTimedOut(c) \/ TimeOut(c)
        PROVE  Len(mQueue') <= Cardinality(Woken') + Cardinality(Signalling')
    <3>1. Woken' = Woken /\ Signalling' = Signalling /\ mQueue' = mQueue
      BY <2>3 DEF ReturnTimedOut, TimeOut, Woken, Signalling, TypeOK
    <3>2. Waiting # {}
      BY <2>3 DEF ReturnTimedOut, TimeOut, Waiting, TypeOK
    <3>3. QED
      BY <3>1, <3>2 DEF NoLostWakeup
  <2>4. ASSUME NEW c \in Consumers, SpuriousWakeup(c)
        PROVE  Len(mQueue') <= Cardinality(Woken') + Cardinality(Signalling')
    <3>1. /\ Woken' = Woken \cup {c} /\ c \notin Woken
          /\ Signalling' = Signalling /\ mQueue' = mQueue
      BY <2>4 DEF SpuriousWakeup, Woken, Signalling, TypeOK
    <3>2. Cardinality(Woken') = Cardinality(Woken) + 1
      BY <2>0, <3>1, FS_AddElement
    <3>3. Waiting # {}
      BY <2>4 DEF SpuriousWakeup, Waiting
    <3>4. QED
      BY <2>0, <3>1, <3>2, <3>3 DEF NoLostWakeup
  <2>5. ASSUME NEW p \in Producers, EnQueue(p)
        PROVE  Len(mQueue') <= Cardinality(Woken') + Cardinality(Signalling')
    <3>1. Woken' = Woken /\ Waiting' = Waiting
      BY <2>5 DEF EnQueue, Woken, Waiting
    <3>2. Signalling' = Signalling \cup {p} /\ p \notin Signalling
      BY <2>5 DEF EnQueue, Signalling, TypeOK
    <3>3. Cardinality(Signalling') = Cardinality(Signalling) + 1
      BY <2>0, <3>2, FS_AddElement
    <3>4. Len(mQueue') = Len(mQueue) + 1
      BY <2>5 DEF EnQueue, TypeOK
    <3>5. QED
      BY <2>0, <3>1, <3>3, <3>4 DEF NoLostWakeup
  <2>6. ASSUME NEW p \in Producers, SignalEnQueued(p)
        PROVE  Len(mQueue') <= Cardinality(Woken') + Cardinality(Signalling')
    <3>1. Signalling' = Signalling \ {p} /\ p \in Signalling /\ mQueue' = mQueue
      BY <2>6 DEF SignalEnQueued, Signalling, TypeOK
    <3>2. Cardinality(Signalling') = Cardinality(Signalling) - 1
      BY <2>0, <3>1, FS_RemoveElement
    <3>3. Waiting # {}
      BY <2>6 DEF SignalEnQueued, Signal, Waiting, TypeOK
    <3>4. PICK c \in Waiting : consumer' = [consumer EXCEPT ![c] = "woken"]
      BY <2>6, <3>3 DEF SignalEnQueued, Signal
    <3>5. Woken' = Woken \cup {c} /\ c \notin Woken
      BY <3>4 DEF Woken, Waiting, TypeOK
    <3>6. Cardinality(Woken') = Cardinality(Woken) + 1
      BY <2>0, <3>5, FS_AddElement
    <3>7. QED
      BY <2>0, <3>1, <3>2, <3>3, <3>6 DEF NoLostWakeup
  <2>7. ASSUME ExitQueue
        PROVE  Len(mQueue') <= Cardinality(Woken') + Cardinality(Signalling')
    BY <2>7 DEF ExitQueue, Waiting
  <2>8. CASE UNCHANGED vars
    BY <2>8 DEF vars, NoLostWakeup, Waiting, Woken, Signalling
  <2>9. QED
    BY <2>1, <2>2, <2>3, <2>4, <2>5, <2>6, <2>7, <2>8 DEF Next, Consume, Produce
<1>3. QED
  BY <1>1, <1>2, TypeInvariant, PTL DEF Spec

-----------------------------------------------------------------------------
\* Popping a list without duplicates yields an item that is not in what
\* remains, and what remains has no duplicates.
LEMMA PopInjective ==
    ASSUME NEW S, NEW s \in Seq(S), s # <<>>, IsInjective(s)
    PROVE  /\ IsInjective(Tail(s))
           /\ Head(s) \in ToSet(s)
           /\ ToSet(Tail(s)) = ToSet(s) \ {Head(s)}
<1>1. /\ Len(s) \in Nat \ {0} /\ DOMAIN s = 1 .. Len(s) /\ Head(s) = s[1]
      /\ Tail(s) \in Seq(S) /\ Len(Tail(s)) = Len(s) - 1
      /\ DOMAIN Tail(s) = 1 .. Len(s) - 1
      /\ \A i \in 1 .. Len(s) - 1 : Tail(s)[i] = s[i + 1]
  BY EmptySeq, LenProperties, HeadTailProperties
<1>2. IsInjective(Tail(s))
  BY <1>1 DEF IsInjective
<1>3. Head(s) \in ToSet(s)
  BY <1>1 DEF ToSet
<1>4. ASSUME NEW x \in ToSet(Tail(s)) PROVE x \in ToSet(s) \ {Head(s)}
  BY <1>1 DEF ToSet, IsInjective
<1>5. ASSUME NEW x \in ToSet(s) \ {Head(s)} PROVE x \in ToSet(Tail(s))
  <2>1. PICK i \in 1 .. Len(s) : s[i] = x
    BY <1>1 DEF ToSet
  <2>2. i - 1 \in 1 .. Len(s) - 1 /\ Tail(s)[i - 1] = x
    BY <1>1, <1>5, <2>1
  <2>3. QED
    BY <1>1, <2>2 DEF ToSet
<1>6. QED
  BY <1>2, <1>3, <1>4, <1>5

\* Pushing an item that is not in the list keeps the list free of duplicates.
LEMMA PushInjective ==
    ASSUME NEW S, NEW s \in Seq(S), NEW x \in S, x \notin ToSet(s), IsInjective(s)
    PROVE  /\ IsInjective(Append(s, x))
           /\ ToSet(Append(s, x)) = ToSet(s) \cup {x}
<1>1. /\ Len(s) \in Nat /\ DOMAIN s = 1 .. Len(s)
      /\ DOMAIN Append(s, x) = 1 .. Len(s) + 1
      /\ \A i \in 1 .. Len(s) : Append(s, x)[i] = s[i]
      /\ Append(s, x)[Len(s) + 1] = x
  BY LenProperties
<1>2. IsInjective(Append(s, x))
  BY <1>1 DEF IsInjective, ToSet
<1>3. QED
  BY <1>1, <1>2 DEF ToSet

\* An item is in the list once, or with one consumer, or free.
THEOREM EveryItemIsOwnedOnce == Spec => []OwnedOnce
<1>1. Init => OwnedOnce
  BY DEF Init, OwnedOnce, IsInjective
<1>2. TypeOK /\ OwnedOnce /\ [Next]_vars => OwnedOnce'
  <2> SUFFICES ASSUME TypeOK, OwnedOnce, [Next]_vars PROVE OwnedOnce'
    OBVIOUS
  <2>1. ASSUME NEW c \in Consumers, Pop(c) PROVE OwnedOnce'
    <3>1. CASE mQueue = <<>>
      BY <2>1, <3>1 DEF Pop, OwnedOnce, TypeOK
    <3>2. CASE mQueue # <<>>
      <4>1. /\ IsInjective(Tail(mQueue)) /\ Head(mQueue) \in ToSet(mQueue)
            /\ ToSet(Tail(mQueue)) = ToSet(mQueue) \ {Head(mQueue)}
        BY <3>2, PopInjective DEF OwnedOnce, TypeOK
      <4>2. mQueue' = Tail(mQueue) /\ item' = [item EXCEPT ![c] = Head(mQueue)]
        BY <2>1, <3>2 DEF Pop
      <4>3. QED
        BY <4>1, <4>2 DEF OwnedOnce, TypeOK
    <3>3. QED
      BY <3>1, <3>2
  <2>2. ASSUME NEW c \in Consumers, mQueue' = mQueue,
               item' = [item EXCEPT ![c] = NULL]
        PROVE  OwnedOnce'
    BY <2>2 DEF OwnedOnce, TypeOK
  <2>3. ASSUME NEW p \in Producers, EnQueue(p) PROVE OwnedOnce'
    <3>1. PICK i \in Items : Free(i) /\ mQueue' = Append(mQueue, i)
      BY <2>3 DEF EnQueue
    <3>2. IsInjective(mQueue') /\ ToSet(mQueue') = ToSet(mQueue) \cup {i}
      BY <3>1, PushInjective DEF Free, OwnedOnce, TypeOK
    <3>3. item' = item /\ \A c \in Consumers : item[c] # i
      BY <2>3, <3>1 DEF EnQueue, Free
    <3>4. QED
      BY <3>2, <3>3 DEF OwnedOnce, TypeOK
  <2>4. CASE UNCHANGED <<mQueue, item>>
    BY <2>4 DEF OwnedOnce
  <2>5. QED
    BY <2>1, <2>2, <2>3, <2>4
    DEF Next, Consume, Produce, DeQueue, ResumeDeQueue, ReturnTimedOut, TimeOut,
        SpuriousWakeup, SignalEnQueued, ExitQueue, vars
<1>3. QED
  BY <1>1, <1>2, TypeInvariant, PTL DEF Spec
=============================================================================
