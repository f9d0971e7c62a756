------------------------- MODULE WinCondition_proofs -------------------------
(***************************************************************************)
(* Theorems about WinCondition, for any finite set of waiters and any set  *)
(* of callers.                                                             *)
(*                                                                         *)
(* Those about broadcast ask that the callers hold the external mutex, as  *)
(* CThread's do: without it a thread that comes while a broadcast is under *)
(* way is counted among those the broadcast waits for, and not woken.      *)
(***************************************************************************)
EXTENDS WinCondition, FiniteSetTheorems, TLAPS

\* Where a caller stands while it has the internal mutex.
InCall == {"signal", "release", "broadcast", "awaitDone", "reset", "done"}

\* The waiters that waitersCount counts, and the last of a broadcast on its way
\* to set the event.
Counted == {w \in Waiters : pc[w] \in InWait}
Lasts   == {w \in Waiters : pc[w] = "last"}

PlacesOK ==
    /\ \A w \in Waiters : pc[w] \in InWait \cup {"idle", "locked", "last", "passing", "relock"}
    /\ \A c \in Callers : pc[c] \in InCall \cup {"idle", "locked"}

\* Every place but pc and waitersCount keeps its type by itself.
VariablesOK ==
    /\ pc \in [Threads -> InWait \cup
                 {"idle", "locked", "last", "passing", "relock",
                  "signal", "release", "broadcast", "awaitDone", "reset", "done"}]
    /\ mutex \in Threads \cup {NoThread}
    /\ internalMutex \in Callers \cup {NoThread}
    /\ sema \in Nat
    /\ waitersDone \in BOOLEAN /\ wasBroadcast \in BOOLEAN

CountOK   == waitersCount = Cardinality(Counted)
AwaitedOK == awaited \subseteq Counted

\* Both mutexes exclude.  A waiter lets the external one go with SignalObjectAndWait.
InternalOK == \A c \in Callers : pc[c] \in InCall <=> internalMutex = c
MutexOK    == \A t \in Threads : pc[t] \in {"locked", "counted"} \cup InCall <=> mutex = t

\* What holds while a broadcast waits for the event: all who were counted have
\* been woken, nobody came since, and of the three (a counted waiter, the last
\* one, the event) exactly one kind is there.
AwaitOK ==
    \A c \in Callers : pc[c] = "awaitDone" =>
       /\ wasBroadcast
       /\ \A w \in Counted : pc[w] \in {"woken", "timedOut"}
       /\ waitersDone \/ Lasts # {} => Counted = {}
       /\ Counted # {} \/ Lasts # {} \/ waitersDone
       /\ waitersDone => Lasts = {}

\* The flag and the event belong to a broadcast under way.
FlagsOK ==
    /\ waitersDone \/ Lasts # {} => \E c \in Callers : pc[c] = "awaitDone"
    /\ wasBroadcast => \E c \in Callers : pc[c] \in {"awaitDone", "reset"}
    /\ \A u, w \in Lasts : u = w

ResetOK == \A c \in Callers : pc[c] = "reset" => Counted = {}

BroadcastOK == AwaitOK /\ FlagsOK /\ ResetOK

\* IInv, of which the first part needs no hypothesis about the callers.
CountInv == VariablesOK /\ PlacesOK /\ CountOK /\ AwaitedOK /\ InternalOK
IInv     == CountInv /\ MutexOK /\ BroadcastOK

-----------------------------------------------------------------------------
\* The sets whose sizes the counter and the semaphore deal in.
LEMMA CountedIsFinite ==
    ASSUME VariablesOK
    PROVE  /\ IsFiniteSet(Counted) /\ Cardinality(Counted) \in 0..Cardinality(Waiters)
           /\ IsFiniteSet(Sleeping) /\ Cardinality(Sleeping) \in Nat
           /\ Sleeping \subseteq Counted
           /\ Cardinality(Sleeping) <= Cardinality(Counted)
<1>1. IsFiniteSet(Waiters)
  BY ConditionAssumption DEF ConditionAssumption
<1>2. Counted \subseteq Waiters /\ Sleeping \subseteq Counted
  BY DEF Counted, Sleeping, InWait
<1>3. IsFiniteSet(Counted) /\ Cardinality(Counted) <= Cardinality(Waiters)
  BY <1>1, <1>2, FS_Subset
<1>4. IsFiniteSet(Sleeping) /\ Cardinality(Sleeping) <= Cardinality(Counted)
  BY <1>2, <1>3, FS_Subset
<1> QED
  BY <1>1, <1>2, <1>3, <1>4, FS_CardinalityType

\* ReleaseSemaphore(sema, n, 0) wakes sleeping threads, moves its caller, and
\* leaves the rest where they are; no token is lost, and with a token for each
\* all the sleeping ones are woken.
LEMMA ReleaseWakes ==
    ASSUME VariablesOK, NEW c \in Callers, NEW n \in Nat, NEW label,
           ReleaseSemaphore(c, n, label)
    PROVE  \E woken \in SUBSET Sleeping :
              /\ sema' \in Nat
              /\ pc' = [t \in Threads |-> IF t \in woken THEN "woken"
                                          ELSE IF t = c THEN label ELSE pc[t]]
              /\ n >= Cardinality(Sleeping) => woken = Sleeping
<1>1. PICK woken \in SUBSET Sleeping :
        /\ Cardinality(woken) = IF n < Cardinality(Sleeping) THEN n
                                ELSE Cardinality(Sleeping)
        /\ sema' = sema + n - Cardinality(woken)
        /\ pc' = [t \in Threads |-> IF t \in woken THEN "woken"
                                    ELSE IF t = c THEN label ELSE pc[t]]
  BY DEF ReleaseSemaphore
<1>2. IsFiniteSet(Sleeping) /\ Cardinality(Sleeping) \in Nat
  BY CountedIsFinite
<1>3. n >= Cardinality(Sleeping) => woken = Sleeping
  <2>1. Cardinality(Sleeping) = Cardinality(woken) => Sleeping = woken
    BY <1>1, <1>2, FS_Subset
  <2> QED
    BY <1>1, <1>2, <2>1
<1>4. sema' \in Nat
  BY <1>1, <1>2 DEF VariablesOK
<1> QED
  BY <1>1, <1>3, <1>4

-----------------------------------------------------------------------------
(***************************************************************************)
(* The part of the invariant that no hypothesis is needed for.             *)
(***************************************************************************)

LEMMA InitIsCounted == Init => CountInv
<1> SUFFICES ASSUME Init PROVE CountInv
  OBVIOUS
<1>1. VariablesOK /\ PlacesOK /\ AwaitedOK /\ InternalOK
  BY ConditionAssumption
  DEF ConditionAssumption, Init, VariablesOK, PlacesOK, AwaitedOK, InternalOK, Threads, InCall
<1>2. Counted = {}
  BY DEF Init, Counted, InWait, Threads
<1> QED
  BY <1>1, <1>2, FS_EmptySet DEF Init, CountInv, CountOK

\* A step of wait keeps the counter exact: it is raised by who comes and lowered
\* by who goes, under waitersCountLock.
LEMMA WaitKeepsCount ==
    ASSUME CountInv, NEW w \in Waiters,
           WaitStep(w) \/ TimeOut(w) \/ PassInternal(w) \/ Relock(w)
    PROVE  CountInv'
<1> USE DEF CountInv, VariablesOK, Threads
<1>0. w \notin Callers /\ w \in Threads
  BY ConditionAssumption DEF ConditionAssumption
<1>1. VariablesOK' /\ PlacesOK' /\ AwaitedOK' /\ InternalOK'
  <2> USE <1>0 DEF Goto, InWait, InCall, PlacesOK, AwaitedOK, Counted, InternalOK
  <2>1. CASE EnterWait(w) \/ SetWaitersDone(w) \/ TimeOut(w) \/ PassInternal(w) \/ Relock(w)
    BY <2>1 DEF EnterWait, SetWaitersDone, TimeOut, PassInternal, Relock
  <2>2. CASE Sleep(w)
    BY <2>2 DEF Sleep
  <2>3. CASE LeaveWait(w)
    BY <2>3 DEF LeaveWait, Leave
  <2> QED
    BY <2>1, <2>2, <2>3 DEF WaitStep
<1>2. CountOK'
  <2>0. IsFiniteSet(Counted) /\ Cardinality(Counted) \in Nat
    BY CountedIsFinite
  <2>1. CASE EnterWait(w)
    <3>1. Counted' = Counted \cup {w} /\ w \notin Counted
      BY <1>0, <2>1 DEF EnterWait, Goto, Counted, InWait
    <3> QED
      BY <2>0, <2>1, <3>1, FS_AddElement DEF EnterWait, CountOK
  <2>2. CASE LeaveWait(w)
    <3>1. Counted' = Counted \ {w} /\ w \in Counted
      BY <1>0, <2>2 DEF LeaveWait, Leave, Goto, Counted, InWait
    <3> QED
      BY <2>0, <2>2, <3>1, FS_RemoveElement DEF LeaveWait, CountOK
  <2>3. CASE Sleep(w) \/ SetWaitersDone(w) \/ TimeOut(w) \/ PassInternal(w) \/ Relock(w)
    <3>1. Counted' = Counted /\ waitersCount' = waitersCount
      BY <1>0, <2>3 DEF Sleep, SetWaitersDone, TimeOut, PassInternal, Relock, Goto, Counted,
                        InWait
    <3> QED
      BY <3>1 DEF CountOK
  <2> QED
    BY <2>1, <2>2, <2>3 DEF WaitStep
<1> QED
  BY <1>1, <1>2

\* What the callers and the external mutex do leaves who is counted alone.
LEMMA CallersKeepCount ==
    ASSUME CountInv, [Next]_vars,
           ~ \E w \in Waiters : WaitStep(w) \/ TimeOut(w) \/ PassInternal(w) \/ Relock(w)
    PROVE  CountInv' /\ Counted' = Counted
<1> USE ConditionAssumption DEF ConditionAssumption, CountInv, VariablesOK, Threads
<1> USE DEF InCall, PlacesOK, AwaitedOK, InternalOK, CountOK, InWait, Counted, Goto
<1>1. ASSUME NEW t \in Threads, Lock(t) \/ Unlock(t)
      PROVE  CountInv' /\ Counted' = Counted
  <2>1. Counted' = Counted
    BY <1>1 DEF Lock, Unlock
  <2>2. VariablesOK' /\ PlacesOK' /\ AwaitedOK' /\ InternalOK'
    BY <1>1 DEF Lock, Unlock
  <2> QED
    BY <1>1, <2>1, <2>2 DEF Lock, Unlock
<1>2. ASSUME NEW c \in Callers, BeginSignal(c) \/ BeginBroadcast(c) \/ SignalLooks(c)
                \/ BroadcastIsDone(c) \/ BroadcastResets(c) \/ Return(c)
      PROVE  CountInv' /\ Counted' = Counted
  <2> USE DEF BeginSignal, BeginBroadcast, Enter, SignalLooks, BroadcastIsDone,
              BroadcastResets, Return
  <2>1. Counted' = Counted
    BY <1>2
  <2>2. VariablesOK'
    BY <1>2
  <2>3. PlacesOK' /\ AwaitedOK'
    BY <1>2
  <2>4. InternalOK'
    BY <1>2
  <2> QED
    BY <1>2, <2>1, <2>2, <2>3, <2>4
<1>3. ASSUME NEW c \in Callers, NEW n \in Nat, NEW label \in InCall,
             ReleaseSemaphore(c, n, label), pc[c] \in InCall,
             UNCHANGED <<mutex, internalMutex, waitersCount, waitersDone>>,
             wasBroadcast' \in BOOLEAN, awaited' = awaited \/ awaited' = Counted
      PROVE  CountInv' /\ Counted' = Counted
  <2>1. PICK woken \in SUBSET Sleeping :
              /\ sema' \in Nat
              /\ pc' = [t \in Threads |-> IF t \in woken THEN "woken"
                                          ELSE IF t = c THEN label ELSE pc[t]]
    BY <1>3, ReleaseWakes
  <2>2. Counted' = Counted
    BY <1>3, <2>1 DEF Sleeping
  <2>3. VariablesOK' /\ PlacesOK' /\ AwaitedOK' /\ InternalOK'
    BY <1>3, <2>1, <2>2 DEF Sleeping
  <2> QED
    BY <1>3, <2>2, <2>3
<1>4. ASSUME NEW c \in Callers, SignalReleases(c) PROVE CountInv' /\ Counted' = Counted
  BY <1>3, <1>4 DEF SignalReleases
<1>5. ASSUME NEW c \in Callers, BroadcastReleases(c) PROVE CountInv' /\ Counted' = Counted
  <2>1. CASE waitersCount > 0
    <3>1. waitersCount \in Nat
      BY CountedIsFinite
    <3> QED
      BY <1>3, <1>5, <2>1, <3>1 DEF BroadcastReleases
  <2>2. CASE ~(waitersCount > 0)
    <3>1. Counted' = Counted
      BY <1>5, <2>2 DEF BroadcastReleases
    <3>2. VariablesOK' /\ PlacesOK' /\ AwaitedOK' /\ InternalOK'
      BY <1>5, <2>2 DEF BroadcastReleases
    <3> QED
      BY <1>5, <2>2, <3>1, <3>2 DEF BroadcastReleases
  <2> QED
    BY <2>1, <2>2
<1>6. CASE UNCHANGED vars
  BY <1>6 DEF vars
<1> QED
  BY <1>1, <1>2, <1>4, <1>5, <1>6 DEF Next, CallStep

LEMMA NextKeepsCount == CountInv /\ [Next]_vars => CountInv'
BY WaitKeepsCount, CallersKeepCount

\* waitersCount is the number of threads between the two places where wait takes
\* waitersCountLock, so it never goes below zero nor above the number of waiters.
THEOREM TypeCorrect == Spec => []TypeOK
<1>1. CountInv => TypeOK
  BY CountedIsFinite DEF CountInv, VariablesOK, CountOK, AwaitedOK, Counted, TypeOK
<1> QED
  BY <1>1, InitIsCounted, NextKeepsCount, PTL DEF Spec

-----------------------------------------------------------------------------
(***************************************************************************)
(* Broadcast, by callers that hold the external mutex.                     *)
(***************************************************************************)

LEMMA InitIsQuiet == Init => MutexOK /\ BroadcastOK
BY ConditionAssumption
DEF ConditionAssumption, Init, MutexOK, BroadcastOK, AwaitOK, FlagsOK, ResetOK, Lasts,
    Counted, InWait, InCall, Threads

\* While a broadcast waits, its caller has both mutexes: no other caller is in a
\* call, no waiter is at the places it holds the external mutex at.
LEMMA OneInCall ==
    ASSUME IInv, NEW c \in Callers, pc[c] \in InCall
    PROVE  /\ \A d \in Callers : pc[d] \in InCall => d = c
           /\ \A w \in Waiters : pc[w] \notin {"locked", "counted"}
BY ConditionAssumption
DEF ConditionAssumption, IInv, CountInv, InternalOK, MutexOK, Threads

LEMMA MutexExcludes == ASSUME CallersHoldMutex, IInv, [Next]_vars PROVE MutexOK'
<1> USE ConditionAssumption
    DEF ConditionAssumption, IInv, CountInv, VariablesOK, Threads, InCall, Goto, MutexOK
<1>1. ASSUME NEW t \in Threads, Lock(t) \/ Unlock(t) PROVE MutexOK'
  BY <1>1 DEF Lock, Unlock
<1>2. ASSUME NEW w \in Waiters, WaitStep(w) \/ TimeOut(w) \/ PassInternal(w) \/ Relock(w)
      PROVE  MutexOK'
  <2>1. CASE EnterWait(w) \/ SetWaitersDone(w) \/ TimeOut(w) \/ PassInternal(w)
    BY <1>2, <2>1 DEF EnterWait, SetWaitersDone, TimeOut, PassInternal
  <2>2. CASE Sleep(w)
    BY <2>2 DEF Sleep
  <2>3. CASE LeaveWait(w)
    BY <2>3 DEF LeaveWait, Leave
  <2>4. CASE Relock(w)
    BY <2>4 DEF Relock
  <2> QED
    BY <1>2, <2>1, <2>2, <2>3, <2>4 DEF WaitStep
<1>3. ASSUME NEW c \in Callers, BeginSignal(c) \/ BeginBroadcast(c) \/ SignalLooks(c)
                \/ BroadcastIsDone(c) \/ BroadcastResets(c) \/ Return(c)
      PROVE  MutexOK'
  BY <1>3 DEF BeginSignal, BeginBroadcast, Enter, SignalLooks, BroadcastIsDone,
              BroadcastResets, Return
<1>4. ASSUME NEW c \in Callers, NEW n \in Nat, NEW label \in InCall,
             ReleaseSemaphore(c, n, label), pc[c] \in InCall, UNCHANGED mutex
      PROVE  MutexOK'
  <2>1. PICK woken \in SUBSET Sleeping :
           pc' = [t \in Threads |-> IF t \in woken THEN "woken"
                                   ELSE IF t = c THEN label ELSE pc[t]]
    BY <1>4, ReleaseWakes
  <2> QED
    BY <1>4, <2>1 DEF Sleeping
<1>5. ASSUME NEW c \in Callers, SignalReleases(c) PROVE MutexOK'
  BY <1>4, <1>5 DEF SignalReleases
<1>6. ASSUME NEW c \in Callers, BroadcastReleases(c) PROVE MutexOK'
  <2>1. waitersCount \in Nat
    BY CountedIsFinite DEF CountOK
  <2>2. CASE waitersCount > 0
    BY <1>4, <1>6, <2>1, <2>2 DEF BroadcastReleases
  <2>3. CASE ~(waitersCount > 0)
    BY <1>6, <2>3 DEF BroadcastReleases
  <2> QED
    BY <2>2, <2>3
<1>7. CASE UNCHANGED vars
  BY <1>7 DEF vars
<1> QED
  BY <1>1, <1>2, <1>3, <1>5, <1>6, <1>7 DEF Next, CallStep

\* The waiters' steps.  Those that could disturb a broadcast under way need the
\* external mutex, which its caller has; the counter reaches zero at the leaving
\* of exactly one of the woken.
LEMMA WaitKeepsBroadcast ==
    ASSUME IInv, NEW w \in Waiters,
           WaitStep(w) \/ TimeOut(w) \/ PassInternal(w) \/ Relock(w)
    PROVE  BroadcastOK'
<1> USE DEF IInv, CountInv, VariablesOK, Threads, Goto, BroadcastOK, AwaitOK, FlagsOK,
            ResetOK, Lasts
<1>0. w \notin Callers /\ w \in Threads
  BY ConditionAssumption DEF ConditionAssumption
<1>1. CASE EnterWait(w) \/ Sleep(w)
  <2>1. pc[w] \in {"locked", "counted"}
    BY <1>1 DEF EnterWait, Sleep
  <2>2. \A c \in Callers : pc[c] \notin InCall
    BY <2>1, OneInCall
  <2>3. /\ \A c \in Callers : pc'[c] = pc[c]
        /\ Lasts' = Lasts /\ waitersDone' = waitersDone /\ wasBroadcast' = wasBroadcast
    BY <1>0, <1>1, <2>1 DEF EnterWait, Sleep
  <2> QED
    BY <2>2, <2>3 DEF InCall
<1>2. CASE TimeOut(w) \/ PassInternal(w) \/ Relock(w)
  <2>1. /\ \A c \in Callers : pc'[c] = pc[c]
        /\ Lasts' = Lasts /\ Counted' = Counted
        /\ \A u \in Counted : pc'[u] = pc[u] \/ pc'[u] = "timedOut"
        /\ waitersDone' = waitersDone /\ wasBroadcast' = wasBroadcast
    BY <1>0, <1>2 DEF TimeOut, PassInternal, Relock, Counted, InWait
  <2> QED
    BY <2>1
<1>3. CASE LeaveWait(w)
  <2>0. IsFiniteSet(Counted) /\ waitersCount = Cardinality(Counted)
    BY CountedIsFinite DEF CountOK
  <2>1. /\ w \in Counted /\ Counted' = Counted \ {w}
        /\ waitersCount' = Cardinality(Counted')
        /\ waitersCount' = 0 <=> Counted' = {}
    <3>1. w \in Counted /\ Counted' = Counted \ {w}
      BY <1>0, <1>3 DEF LeaveWait, Leave, Counted, InWait
    <3>2. CountOK'
      BY <1>3, WaitKeepsCount DEF WaitStep
    <3>3. IsFiniteSet(Counted')
      BY <2>0, <3>1, FS_RemoveElement
    <3> QED
      BY <3>1, <3>2, <3>3, FS_EmptySet DEF CountOK
  <2>2. /\ \A c \in Callers : pc'[c] = pc[c]
        /\ \A u \in Counted' : pc'[u] = pc[u]
        /\ Lasts' = IF wasBroadcast /\ Counted' = {} THEN Lasts \cup {w} ELSE Lasts
        /\ waitersDone' = waitersDone /\ wasBroadcast' = wasBroadcast
    <3>1. pc' = [pc EXCEPT ![w] = IF wasBroadcast /\ Counted' = {} THEN "last" ELSE "passing"]
      BY <1>3, <2>1 DEF LeaveWait, Leave
    <3>2. w \notin Lasts /\ w \notin Counted'
      BY <1>3, <2>1 DEF LeaveWait
    <3> QED
      BY <1>0, <1>3, <2>1, <3>1, <3>2 DEF LeaveWait, Leave, Counted
  <2>3. ~waitersDone /\ Lasts = {}
    BY <2>1
  <2>4. \A c \in Callers : pc[c] # "reset"
    BY <2>1
  <2> QED
    BY <2>1, <2>2, <2>3, <2>4
<1>4. CASE SetWaitersDone(w)
  <2>1. Lasts = {w} /\ Lasts' = {}
    BY <1>0, <1>4 DEF SetWaitersDone
  <2>2. /\ \A c \in Callers : pc'[c] = pc[c]
        /\ Counted' = Counted /\ \A u \in Counted : pc'[u] = pc[u]
        /\ waitersDone' /\ wasBroadcast' = wasBroadcast
    BY <1>0, <1>4 DEF SetWaitersDone, Counted, InWait
  <2> QED
    BY <2>1, <2>2
<1> QED
  BY <1>1, <1>2, <1>3, <1>4 DEF WaitStep

\* The callers' steps.  BroadcastReleases finds tokens for all who sleep.
LEMMA CallersKeepBroadcast ==
    ASSUME IInv, [Next]_vars,
           ~ \E w \in Waiters : WaitStep(w) \/ TimeOut(w) \/ PassInternal(w) \/ Relock(w)
    PROVE  BroadcastOK'
<1> USE ConditionAssumption
    DEF ConditionAssumption, IInv, CountInv, VariablesOK, Threads, Goto, InCall,
        BroadcastOK, AwaitOK, FlagsOK, ResetOK, Lasts
<1>0. Counted' = Counted
  BY CallersKeepCount
<1>1. ASSUME NEW t \in Threads, Lock(t) \/ Unlock(t) PROVE BroadcastOK'
  <2>1. /\ \A c \in Callers : pc'[c] \in {"awaitDone", "reset"} <=> pc[c] \in {"awaitDone", "reset"}
        /\ \A c \in Callers : pc[c] \in {"awaitDone", "reset"} => pc'[c] = pc[c]
        /\ Lasts' = Lasts /\ waitersDone' = waitersDone /\ wasBroadcast' = wasBroadcast
        /\ \A w \in Counted : pc'[w] = pc[w]
    BY <1>1 DEF Lock, Unlock, Counted, InWait
  <2> QED
    BY <1>0, <2>1
<1>2. ASSUME NEW c \in Callers, BeginSignal(c) \/ BeginBroadcast(c) \/ SignalLooks(c) \/ Return(c)
      PROVE  BroadcastOK'
  <2>1. /\ \A d \in Callers : pc'[d] = pc[d] \/ {pc[d], pc'[d]} \cap {"awaitDone", "reset"} = {}
        /\ Lasts' = Lasts /\ waitersDone' = waitersDone /\ wasBroadcast' = wasBroadcast
        /\ \A w \in Counted : pc'[w] = pc[w]
    BY <1>2 DEF BeginSignal, BeginBroadcast, Enter, SignalLooks, Return, Counted, InWait
  <2> QED
    BY <1>0, <2>1
<1>3. ASSUME NEW c \in Callers, SignalReleases(c) PROVE BroadcastOK'
  <2>1. PICK woken \in SUBSET Sleeping :
           pc' = [t \in Threads |-> IF t \in woken THEN "woken"
                                   ELSE IF t = c THEN "done" ELSE pc[t]]
    BY <1>3, ReleaseWakes DEF SignalReleases
  <2>2. \A d \in Callers : pc[d] \in InCall => d = c
    BY <1>3, OneInCall DEF SignalReleases
  <2>3. ~wasBroadcast /\ ~waitersDone /\ Lasts = {}
    BY <1>3, <2>2 DEF SignalReleases
  <2>4. \A d \in Callers : pc'[d] \notin {"awaitDone", "reset"}
    BY <1>3, <2>1, <2>2 DEF SignalReleases, Sleeping
  <2>5. Lasts' = {}
    BY <1>3, <2>1, <2>3 DEF Sleeping
  <2> QED
    BY <1>3, <2>3, <2>4, <2>5 DEF SignalReleases
<1>4. ASSUME NEW c \in Callers, BroadcastReleases(c) PROVE BroadcastOK'
  <2>1. /\ \A d \in Callers : pc[d] \in InCall => d = c
        /\ \A w \in Waiters : pc[w] \notin {"locked", "counted"}
    BY <1>4, OneInCall DEF BroadcastReleases
  <2>2. ~wasBroadcast /\ ~waitersDone /\ Lasts = {}
    BY <1>4, <2>1 DEF BroadcastReleases
  <2>3. IsFiniteSet(Counted) /\ waitersCount = Cardinality(Counted) /\ waitersCount \in Nat
        /\ Cardinality(Sleeping) <= waitersCount
    BY CountedIsFinite DEF CountOK
  <2>4. CASE waitersCount > 0
    <3>1. pc' = [t \in Threads |-> IF t \in Sleeping THEN "woken"
                                  ELSE IF t = c THEN "awaitDone" ELSE pc[t]]
      BY <1>4, <2>3, <2>4, ReleaseWakes DEF BroadcastReleases
    <3>2. \A w \in Counted' : pc'[w] \in {"woken", "timedOut"}
      BY <1>0, <2>1, <3>1 DEF Counted, Sleeping, InWait
    <3>3. Counted' # {}
      BY <1>0, <2>3, <2>4, FS_EmptySet
    <3>4. Lasts' = {}
      BY <2>2, <3>1 DEF Sleeping
    <3>5. /\ pc'[c] = "awaitDone"
          /\ \A d \in Callers : pc'[d] # "reset"
      BY <2>1, <3>1 DEF Sleeping
    <3> QED
      BY <1>4, <2>2, <2>4, <3>2, <3>3, <3>4, <3>5 DEF BroadcastReleases
  <2>5. CASE ~(waitersCount > 0)
    <3>1. /\ pc' = [pc EXCEPT ![c] = "done"]
          /\ wasBroadcast' = wasBroadcast /\ waitersDone' = waitersDone
      BY <1>4, <2>5 DEF BroadcastReleases
    <3>2. Lasts' = {} /\ \A d \in Callers : pc'[d] \notin {"awaitDone", "reset"}
      BY <2>1, <2>2, <3>1
    <3> QED
      BY <2>2, <3>1, <3>2
  <2> QED
    BY <2>4, <2>5
<1>5. ASSUME NEW c \in Callers, BroadcastIsDone(c) \/ BroadcastResets(c) PROVE BroadcastOK'
  <2>1. /\ \A d \in Callers : pc[d] \in InCall => d = c
    BY <1>5, OneInCall DEF BroadcastIsDone, BroadcastResets
  <2>2. Counted = {} /\ Lasts = {} /\ Lasts' = Lasts
    BY <1>5, <2>1 DEF BroadcastIsDone, BroadcastResets
  <2> QED
    BY <1>0, <1>5, <2>1, <2>2 DEF BroadcastIsDone, BroadcastResets
<1>6. CASE UNCHANGED vars
  BY <1>6 DEF vars, Counted
<1> QED
  BY <1>1, <1>2, <1>3, <1>4, <1>5, <1>6 DEF Next, CallStep

\* The inductive invariant.
THEOREM Invariant == ASSUME CallersHoldMutex PROVE Spec => []IInv
<1>1. Init => IInv
  BY InitIsCounted, InitIsQuiet DEF IInv
<1>2. IInv /\ [Next]_vars => IInv'
  <2>1. IInv /\ [Next]_vars => CountInv' /\ MutexOK'
    BY NextKeepsCount, MutexExcludes DEF IInv
  <2>2. IInv /\ [Next]_vars => BroadcastOK'
    BY WaitKeepsBroadcast, CallersKeepBroadcast
  <2> QED
    BY <2>1, <2>2 DEF IInv
<1> QED
  BY <1>1, <1>2, PTL DEF Spec

\* A broadcast that waits for the last waiter has one on its way, however many
\* waiters there are and whoever of them times out meanwhile, and the internal
\* mutex is not given back before every thread that was waiting at the broadcast
\* has counted itself out: the event is never one an earlier broadcast left behind.
THEOREM BroadcastsAreAnswered ==
    ASSUME CallersHoldMutex PROVE Spec => []BroadcastHandshake
<1>1. IInv => BroadcastIsAnswered
  BY DEF IInv, BroadcastOK, AwaitOK, BroadcastIsAnswered, Counted, Lasts
<1>2. IInv => AllWokenBeforeRelease
  BY DEF IInv, CountInv, AwaitedOK, BroadcastOK, ResetOK, AllWokenBeforeRelease
<1>3. IInv => BroadcastHandshake
  BY <1>1, <1>2 DEF BroadcastHandshake
<1> QED
  BY <1>3, Invariant, PTL

-----------------------------------------------------------------------------
(***************************************************************************)
(* WinCondition implements Condition, whether the callers hold the         *)
(* external mutex or not.                                                  *)
(***************************************************************************)

\* Who has the external mutex, by its place in the code.
HolderOK ==
    \A t \in Threads :
       \/ pc[t] \in {"locked", "counted"}
       \/ CallersHoldMutex /\ pc[t] \in InCall
       => mutex = t

\* The semaphore keeps no token while a thread sleeps on it.
TokensOK == sema > 0 => Sleeping = {}

CondInv == CountInv /\ HolderOK /\ TokensOK

Returning    == At(Waiters, {"woken", "timedOut", "last", "passing", "relock"})
Signalling   == At(Callers, {"signal", "release"})
Broadcasting == At(Callers, {"broadcast"})

\* What a step of one thread does to the sets of Condition.
LEMMA OneMoves ==
    ASSUME VariablesOK, NEW t \in Threads, NEW label, Goto(t, label)
    PROVE  /\ t \in Waiters =>
                /\ Signalling' = Signalling /\ Broadcasting' = Broadcasting
                /\ Sleeping' = IF label = "sleeping" THEN Sleeping \cup {t} ELSE Sleeping \ {t}
                /\ Returning' = IF label \in {"woken", "timedOut", "last", "passing", "relock"}
                                THEN Returning \cup {t} ELSE Returning \ {t}
           /\ t \in Callers =>
                /\ Sleeping' = Sleeping /\ Returning' = Returning
                /\ Signalling' = IF label \in {"signal", "release"}
                                 THEN Signalling \cup {t} ELSE Signalling \ {t}
                /\ Broadcasting' = IF label = "broadcast"
                                   THEN Broadcasting \cup {t} ELSE Broadcasting \ {t}
BY ConditionAssumption
DEF ConditionAssumption, VariablesOK, Threads, Goto, Sleeping, Returning, Signalling,
    Broadcasting, At

\* A release of the semaphore by c moves sleeping threads to those that return,
\* none if none sleeps, one if it has one token and one sleeps.
LEMMA ReleaseMoves ==
    ASSUME CondInv, NEW c \in Callers, NEW n \in Nat \ {0}, NEW label \in {"done", "awaitDone"},
           ReleaseSemaphore(c, n, label)
    PROVE  /\ Signalling' = Signalling \ {c} /\ Broadcasting' = Broadcasting \ {c}
           /\ \E woken \in SUBSET Sleeping :
                 /\ Sleeping' = Sleeping \ woken /\ Returning' = Returning \cup woken
                 /\ n >= Cardinality(Sleeping) => woken = Sleeping
                 /\ n = 1 /\ Sleeping # {} =>
                       (\E w \in Sleeping : woken = {w}) /\ sema' = sema
           /\ sema' \in Nat /\ sema' >= sema
           /\ n = 1 /\ Sleeping = {} => sema' = sema + 1
           /\ TokensOK'
<1>1. PICK woken \in SUBSET Sleeping :
        /\ Cardinality(woken) = IF n < Cardinality(Sleeping) THEN n
                                ELSE Cardinality(Sleeping)
        /\ sema' = sema + n - Cardinality(woken)
        /\ pc' = [t \in Threads |-> IF t \in woken THEN "woken"
                                    ELSE IF t = c THEN label ELSE pc[t]]
  BY DEF ReleaseSemaphore
<1>2. IsFiniteSet(Sleeping) /\ Cardinality(Sleeping) \in Nat /\ sema \in Nat
  BY CountedIsFinite DEF CondInv, CountInv, VariablesOK
<1>3. n >= Cardinality(Sleeping) => woken = Sleeping
  <2>1. Cardinality(Sleeping) = Cardinality(woken) => Sleeping = woken
    BY <1>1, <1>2, FS_Subset
  <2> QED
    BY <1>1, <1>2, <2>1
<1>4. /\ Signalling' = Signalling \ {c} /\ Broadcasting' = Broadcasting \ {c}
      /\ Sleeping' = Sleeping \ woken /\ Returning' = Returning \cup woken
  BY <1>1, ConditionAssumption
  DEF ConditionAssumption, CondInv, CountInv, VariablesOK, Threads, Sleeping, Returning,
      Signalling, Broadcasting, At
<1>5. Sleeping = {} => Cardinality(Sleeping) = 0
  BY FS_EmptySet
<1>6. Sleeping # {} => Cardinality(Sleeping) > 0
  BY <1>2, FS_EmptySet
<1>7. n = 1 /\ Sleeping # {} => (\E w \in Sleeping : woken = {w}) /\ sema' = sema
  <2> SUFFICES ASSUME n = 1, Sleeping # {}
               PROVE  (\E w \in Sleeping : woken = {w}) /\ sema' = sema
    OBVIOUS
  <2>1. Cardinality(woken) = 1
    BY <1>1, <1>2, <1>6
  <2>2. IsFiniteSet(woken)
    BY <1>1, <1>2, FS_Subset
  <2>3. \E w : woken = {w}
    BY <2>1, <2>2, FS_Singleton
  <2> QED
    BY <1>1, <1>2, <2>1, <2>3
<1>8. sema' \in Nat /\ sema' >= sema /\ (n = 1 /\ Sleeping = {} => sema' = sema + 1)
  BY <1>1, <1>2, <1>5
<1>9. TokensOK'
  <2>1. CASE n >= Cardinality(Sleeping)
    BY <1>3, <1>4, <2>1 DEF TokensOK
  <2>2. CASE ~(n >= Cardinality(Sleeping))
    <3>1. sema' = sema /\ Sleeping # {}
      BY <1>1, <1>2, <1>5, <2>2
    <3> QED
      BY <1>2, <3>1 DEF TokensOK, CondInv
  <2> QED
    BY <2>1, <2>2
<1> QED
  BY <1>1, <1>3, <1>4, <1>7, <1>8, <1>9

\* The steps of a waiter.
LEMMA WaiterPromised ==
    ASSUME CondInv, NEW w \in Waiters,
           WaitStep(w) \/ TimeOut(w) \/ PassInternal(w) \/ Relock(w)
    PROVE  [Promised!Next]_(Promised!vars) /\ HolderOK' /\ TokensOK'
<1> USE DEF Returning, Signalling, Broadcasting
<1>0. w \in Threads /\ w \notin Callers /\ NoThread \notin Threads /\ VariablesOK /\ sema \in Nat
  BY ConditionAssumption DEF ConditionAssumption, Threads, CondInv, CountInv, VariablesOK
\* w has the mutex before and after, or gets it, or gives it away.
<1>i. ASSUME NEW label \in InWait \cup {"locked", "last", "passing", "relock"}, Goto(w, label),
             \/ mutex' = mutex /\ (label = "counted" => pc[w] = "locked") /\ label # "locked"
             \/ mutex = NoThread /\ mutex' = w
             \/ mutex = w /\ mutex' = NoThread /\ label # "locked" /\ label # "counted"
      PROVE  HolderOK'
  BY <1>0, <1>i DEF HolderOK, CondInv, VariablesOK, Goto, InCall, InWait
<1>1. CASE EnterWait(w) \/ LeaveWait(w) \/ SetWaitersDone(w) \/ PassInternal(w)
  <2>1. PICK label \in {"counted", "last", "passing", "relock"} :
           Goto(w, label) /\ UNCHANGED <<mutex, sema>> /\ (label = "counted" <=> pc[w] = "locked")
           /\ (label # "counted" => pc[w] \in {"woken", "timedOut", "last", "passing"})
    BY <1>1 DEF EnterWait, LeaveWait, Leave, SetWaitersDone, PassInternal
  <2>2. UNCHANGED <<Sleeping, Returning, Signalling, Broadcasting>>
    BY <1>0, <2>1, OneMoves DEF Sleeping, At
  <2>3. HolderOK'
    BY <1>i, <2>1 DEF InWait
  <2> QED
    BY <2>1, <2>2, <2>3 DEF Promised!vars, TokensOK, CondInv
<1>2. CASE Sleep(w)
  <2>1. mutex = w /\ mutex' = NoThread
    BY <1>0, <1>2 DEF Sleep, CondInv, HolderOK
  <2>2. CASE sema > 0
    <3>1. Goto(w, "woken") /\ sema' = sema - 1
      BY <1>2, <2>2 DEF Sleep
    <3>2. /\ UNCHANGED <<Sleeping, Signalling, Broadcasting>>
          /\ Returning' = Returning \cup {w}
      BY <1>0, <1>2, <3>1, OneMoves DEF Sleep, Sleeping
    <3>3. HolderOK'
      BY <1>i, <2>1, <3>1 DEF InWait
    <3> QED
      BY <1>0, <2>1, <2>2, <3>1, <3>2, <3>3
      DEF Promised!Next, Promised!Wait, TokensOK, CondInv
  <2>3. CASE ~(sema > 0)
    <3>1. Goto(w, "sleeping") /\ sema' = sema /\ sema = 0
      BY <1>0, <1>2, <2>3 DEF Sleep
    <3>2. /\ UNCHANGED <<Returning, Signalling, Broadcasting>>
          /\ Sleeping' = Sleeping \cup {w}
      BY <1>0, <1>2, <3>1, OneMoves DEF Sleep, At
    <3>3. HolderOK'
      BY <1>i, <2>1, <3>1 DEF InWait
    <3> QED
      BY <1>0, <2>1, <3>1, <3>2, <3>3
      DEF Promised!Next, Promised!Wait, TokensOK, CondInv
  <2> QED
    BY <2>2, <2>3
<1>3. CASE TimeOut(w)
  <2>1. /\ UNCHANGED <<Signalling, Broadcasting>> /\ w \in Sleeping
        /\ Sleeping' = Sleeping \ {w} /\ Returning' = Returning \cup {w}
    BY <1>0, <1>3, OneMoves DEF TimeOut, Sleeping
  <2>2. HolderOK'
    BY <1>i, <1>3 DEF TimeOut, InWait
  <2> QED
    BY <1>0, <1>3, <2>1, <2>2
    DEF TimeOut, Promised!Next, Promised!TimeOut, Promised!Wakes, TokensOK, CondInv
<1>4. CASE Relock(w)
  <2>1. /\ UNCHANGED <<Sleeping, Signalling, Broadcasting>> /\ w \in Returning
        /\ Returning' = Returning \ {w}
    BY <1>0, <1>4, OneMoves DEF Relock, Sleeping, At
  <2>2. HolderOK'
    BY <1>i, <1>4 DEF Relock
  <2> QED
    BY <1>0, <1>4, <2>1, <2>2
    DEF Relock, Promised!Next, Promised!Return, TokensOK, CondInv
<1> QED
  BY <1>1, <1>2, <1>3, <1>4 DEF WaitStep

\* The steps of a caller.
LEMMA CallerPromised ==
    ASSUME CondInv, NEW c \in Callers, CallStep(c) \/ BeginSignal(c) \/ BeginBroadcast(c)
    PROVE  [Promised!Next]_(Promised!vars) /\ HolderOK' /\ TokensOK'
<1>0. c \in Threads /\ c \notin Waiters /\ NoThread \notin Threads /\ VariablesOK /\ sema \in Nat
  BY ConditionAssumption DEF ConditionAssumption, Threads, CondInv, CountInv, VariablesOK
<1>i. ASSUME NEW label \in InCall \cup {"locked", "idle"}, Goto(c, label), mutex' = mutex,
             pc[c] \in InCall \/ pc[c] = IF CallersHoldMutex THEN "locked" ELSE "idle",
             label \in InCall \/ label = IF CallersHoldMutex THEN "locked" ELSE "idle"
      PROVE  HolderOK'
  BY <1>0, <1>i, ConditionAssumption
  DEF ConditionAssumption, HolderOK, CondInv, VariablesOK, Goto, InCall
<1>1. CASE BeginSignal(c)
  <2>1. /\ UNCHANGED <<Sleeping, Returning, Broadcasting>>
        /\ Signalling' = Signalling \cup {c} /\ c \notin Signalling \cup Broadcasting
    BY <1>0, <1>1, OneMoves DEF BeginSignal, Enter, At, Returning, Signalling, Broadcasting
  <2>2. HolderOK'
    BY <1>i, <1>1 DEF BeginSignal, Enter, InCall
  <2> QED
    BY <1>1, <2>1, <2>2
    DEF BeginSignal, Enter, Promised!Next, Promised!CallSignal, TokensOK, CondInv, Returning, Signalling, Broadcasting
<1>2. CASE BeginBroadcast(c)
  <2>1. /\ UNCHANGED <<Sleeping, Returning, Signalling>>
        /\ Broadcasting' = Broadcasting \cup {c} /\ c \notin Signalling \cup Broadcasting
    BY <1>0, <1>2, OneMoves DEF BeginBroadcast, Enter, At, Returning, Signalling, Broadcasting
  <2>2. HolderOK'
    BY <1>i, <1>2 DEF BeginBroadcast, Enter, InCall
  <2> QED
    BY <1>2, <2>1, <2>2
    DEF BeginBroadcast, Enter, Promised!Next, Promised!CallBroadcast, TokensOK, CondInv, Returning, Signalling, Broadcasting
<1>3. ASSUME waitersCount = 0 PROVE Sleeping = {}
  BY <1>0, <1>3, CountedIsFinite, FS_EmptySet DEF CondInv, CountInv, CountOK
\* A signal that finds nobody counted finds nobody asleep.
<1>4. CASE SignalLooks(c)
  <2>0. waitersCount \in Nat
    BY <1>0, CountedIsFinite DEF CondInv, CountInv, CountOK
  <2>1. CASE waitersCount > 0
    <3>1. UNCHANGED <<Sleeping, Returning, Signalling, Broadcasting>>
      BY <1>0, <1>4, <2>1, OneMoves DEF SignalLooks, At, Returning, Signalling, Broadcasting
    <3>2. HolderOK'
      BY <1>i, <1>4, <2>1 DEF SignalLooks, InCall
    <3> QED
      BY <1>4, <3>1, <3>2 DEF SignalLooks, Promised!vars, TokensOK, CondInv, Returning, Signalling, Broadcasting
  <2>2. CASE ~(waitersCount > 0)
    <3>1. /\ UNCHANGED <<Sleeping, Returning, Broadcasting>>
          /\ c \in Signalling /\ Signalling' = Signalling \ {c}
      BY <1>0, <1>4, <2>2, OneMoves DEF SignalLooks, At, Returning, Signalling, Broadcasting
    <3>2. HolderOK'
      BY <1>i, <1>4, <2>2 DEF SignalLooks, InCall
    <3>3. Sleeping = {}
      BY <1>3, <2>0, <2>2
    <3> QED
      BY <1>4, <3>1, <3>2, <3>3
      DEF SignalLooks, Promised!Next, Promised!Signal, Promised!Wakes, TokensOK, CondInv, Returning, Signalling, Broadcasting
  <2> QED
    BY <2>1, <2>2
<1>r. ASSUME NEW n \in Nat \ {0}, NEW label \in {"done", "awaitDone"},
             ReleaseSemaphore(c, n, label), mutex' = mutex, pc[c] \in InCall
      PROVE  HolderOK'
  BY <1>0, <1>r DEF ReleaseSemaphore, HolderOK, CondInv, InCall, Sleeping, Threads
<1>5. CASE SignalReleases(c)
  <2>1. HolderOK'
    BY <1>r, <1>5 DEF SignalReleases, InCall
  <2>2. c \in Signalling /\ c \notin Broadcasting
    BY <1>5 DEF SignalReleases, At, Returning, Signalling, Broadcasting
  <2>r. ReleaseSemaphore(c, 1, "done") /\ 1 \in Nat \ {0}
    BY <1>5 DEF SignalReleases
  <2>3. TokensOK' /\ Signalling' = Signalling \ {c} /\ Broadcasting' = Broadcasting
    <3>1. TokensOK' /\ Signalling' = Signalling \ {c} /\ Broadcasting' = Broadcasting \ {c}
      BY <2>r, ReleaseMoves
    <3>2. Broadcasting \ {c} = Broadcasting
      BY <2>2
    <3> QED
      BY <3>1, <3>2
  <2>m. PICK woken \in SUBSET Sleeping :
           /\ Sleeping' = Sleeping \ woken /\ Returning' = Returning \cup woken
           /\ Sleeping # {} => (\E w \in Sleeping : woken = {w}) /\ sema' = sema
    BY <2>r, ReleaseMoves
  <2>4. CASE Sleeping = {}
    <3>1. sema' = sema + 1 /\ Sleeping' = {} /\ Returning' = Returning
      BY <2>r, <2>m, <2>4, ReleaseMoves
    <3>2. Promised!Signal(c)
      BY <1>5, <2>2, <2>3, <2>4, <3>1 DEF SignalReleases, Promised!Signal, Promised!Wakes, Returning, Signalling, Broadcasting
    <3> QED
      BY <2>1, <2>3, <3>2 DEF Promised!Next, Returning, Signalling, Broadcasting
  <2>5. CASE Sleeping # {}
    <3>1. Promised!Signal(c)
      BY <1>5, <2>2, <2>3, <2>5, <2>m DEF SignalReleases, Promised!Signal, Promised!Wakes, Returning, Signalling, Broadcasting
    <3> QED
      BY <2>1, <2>3, <3>1 DEF Promised!Next, Returning, Signalling, Broadcasting
  <2> QED
    BY <2>4, <2>5
\* The tokens of a broadcast are as many as are counted, so enough for those asleep.
<1>6. CASE BroadcastReleases(c)
  <2>0. waitersCount \in Nat /\ waitersCount >= Cardinality(Sleeping)
    BY <1>0, CountedIsFinite DEF CondInv, CountInv, CountOK
  <2>1. CASE waitersCount > 0
    <3>1. ReleaseSemaphore(c, waitersCount, "awaitDone") /\ UNCHANGED mutex
          /\ pc[c] = "broadcast"
      BY <1>6, <2>1 DEF BroadcastReleases
    <3>2. HolderOK'
      BY <1>r, <2>0, <2>1, <3>1 DEF InCall
    <3>3. c \in Broadcasting /\ c \notin Signalling
      BY <3>1 DEF At, Returning, Signalling, Broadcasting
    <3>4. /\ TokensOK' /\ Signalling' = Signalling /\ Broadcasting' = Broadcasting \ {c}
          /\ sema' \in Nat /\ sema' >= sema
      BY <2>0, <2>1, <3>1, <3>3, ReleaseMoves
    <3>m. Sleeping' = Sleeping \ Sleeping /\ Returning' = Returning \cup Sleeping
      BY <2>0, <2>1, <3>1, ReleaseMoves
    <3>5. Promised!Broadcast(c)
      BY <3>1, <3>3, <3>4, <3>m DEF Promised!Broadcast, Promised!Wakes, Returning, Signalling, Broadcasting
    <3> QED
      BY <3>2, <3>4, <3>5 DEF Promised!Next, Returning, Signalling, Broadcasting
  <2>2. CASE ~(waitersCount > 0)
    <3>1. /\ UNCHANGED <<Sleeping, Returning, Signalling>>
          /\ c \in Broadcasting /\ Broadcasting' = Broadcasting \ {c}
      BY <1>0, <1>6, <2>2, OneMoves DEF BroadcastReleases, At, Returning, Signalling, Broadcasting
    <3>2. HolderOK'
      BY <1>i, <1>6, <2>2 DEF BroadcastReleases, InCall
    <3>3. Sleeping = {}
      BY <1>3, <2>0, <2>2
    <3> QED
      BY <1>0, <1>6, <2>2, <3>1, <3>2, <3>3
      DEF BroadcastReleases, Promised!Next, Promised!Broadcast, Promised!Wakes, TokensOK, Returning, Signalling, Broadcasting
  <2> QED
    BY <2>1, <2>2
<1>7. CASE BroadcastIsDone(c) \/ BroadcastResets(c) \/ Return(c)
  <2>1. PICK label \in {"reset", "done", "locked", "idle"} :
           /\ Goto(c, label) /\ UNCHANGED <<mutex, sema>>
           /\ pc[c] \in {"awaitDone", "reset", "done"}
           /\ label \in {"reset", "done", IF CallersHoldMutex THEN "locked" ELSE "idle"}
    BY <1>7 DEF BroadcastIsDone, BroadcastResets, Return
  <2>2. UNCHANGED <<Sleeping, Returning, Signalling, Broadcasting>>
    BY <1>0, <2>1, OneMoves DEF At, Returning, Signalling, Broadcasting
  <2>3. HolderOK'
    BY <1>i, <2>1 DEF InCall
  <2> QED
    BY <2>1, <2>2, <2>3 DEF Promised!vars, TokensOK, CondInv, Returning, Signalling, Broadcasting
<1> QED
  BY <1>1, <1>2, <1>4, <1>5, <1>6, <1>7 DEF CallStep

\* The external mutex.
LEMMA LockPromised ==
    ASSUME CondInv, NEW t \in Threads, Lock(t) \/ Unlock(t)
    PROVE  [Promised!Next]_(Promised!vars) /\ HolderOK' /\ TokensOK'
<1> USE DEF Returning, Signalling, Broadcasting
<1>0. /\ t \in Waiters \cup Callers /\ NoThread \notin Threads /\ VariablesOK
      /\ Waiters \cap Callers = {}
  BY ConditionAssumption DEF ConditionAssumption, Threads, CondInv, CountInv, VariablesOK
<1>1. UNCHANGED <<Sleeping, Returning, Signalling, Broadcasting>>
      /\ t \notin Sleeping \cup Returning
  <2>1. /\ pc[t] \in {"idle", "locked"}
        /\ Goto(t, "idle") \/ Goto(t, "locked")
    BY DEF Lock, Unlock
  <2> QED
    BY <1>0, <2>1, OneMoves DEF At, Sleeping
<1>2. CASE Lock(t)
  BY <1>0, <1>1, <1>2
  DEF Lock, Promised!Next, Promised!Lock, HolderOK, TokensOK, CondInv, VariablesOK, Goto, InCall
<1>3. CASE Unlock(t)
  BY <1>0, <1>1, <1>3
  DEF Unlock, Promised!Next, Promised!Unlock, HolderOK, TokensOK, CondInv, VariablesOK, Goto,
      InCall
<1> QED
  BY <1>2, <1>3

\* Windows gives the condition variable that the callers of Condition count on:
\* no call misses who is asleep, and no wakeup waits while somebody sleeps.
THEOREM ConditionIsImplemented == Spec => RefinesCondition
<1>1. Init => CondInv /\ Promised!Init
  <2> SUFFICES ASSUME Init PROVE CondInv /\ Promised!Init
    OBVIOUS
  <2>1. \A t \in Threads : pc[t] = "idle"
    BY DEF Init
  <2>2. Sleeping = {} /\ Returning = {} /\ Signalling = {} /\ Broadcasting = {}
    BY <2>1 DEF Sleeping, Returning, Signalling, Broadcasting, At, Threads
  <2> QED
    BY <2>1, <2>2, InitIsCounted
    DEF Init, CondInv, HolderOK, TokensOK, InCall, Promised!Init, Returning, Signalling,
        Broadcasting
<1>2. CondInv /\ [Next]_vars => CondInv' /\ [Promised!Next]_(Promised!vars)
  <2> SUFFICES ASSUME CondInv, [Next]_vars
               PROVE  CondInv' /\ [Promised!Next]_(Promised!vars)
    OBVIOUS
  <2>1. CountInv'
    BY NextKeepsCount DEF CondInv
  <2>2. CASE UNCHANGED vars
    BY <2>1, <2>2
    DEF vars, CondInv, HolderOK, TokensOK, Sleeping, At, Promised!vars
  <2>3. CASE Next
    BY <2>1, <2>3, WaiterPromised, CallerPromised, LockPromised DEF Next, CondInv
  <2> QED
    BY <2>2, <2>3
<1> QED
  BY <1>1, <1>2, PTL DEF Spec, RefinesCondition, Promised!Spec
====
