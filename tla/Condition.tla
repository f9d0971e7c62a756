------------------------------ MODULE Condition ------------------------------
(***************************************************************************)
(* What a Condition (include/sutils/Condition.h) and its Mutex promise:    *)
(* who waits lets the mutex go and is asleep in one, a call of signal      *)
(* wakes one who waits and a call of broadcast all of them, a wakeup is    *)
(* not kept while somebody waits, and wait returns with the mutex.  How    *)
(* waiters are counted and woken is not said here.                         *)
(***************************************************************************)
EXTENDS Naturals

CONSTANTS Waiters, TimedWaiters, Callers, NoThread

VARIABLES
    mutex,         \* who has the mutex
    waiting,       \* who is asleep in wait
    returning,     \* who is awake in wait and has the mutex still to get
    signalling,    \* whose call of signal has had no effect yet
    broadcasting,  \* whose call of broadcast has had no effect yet
    spare          \* wakeups of calls that found nobody to take them

vars == <<mutex, waiting, returning, signalling, broadcasting, spare>>

Init ==
    /\ mutex = NoThread
    /\ waiting = {} /\ returning = {} /\ signalling = {} /\ broadcasting = {}
    /\ spare = 0

Lock(t) ==
    /\ mutex = NoThread /\ t \notin waiting \cup returning
    /\ mutex' = t
    /\ UNCHANGED <<waiting, returning, signalling, broadcasting, spare>>

Unlock(t) ==
    /\ mutex = t /\ mutex' = NoThread
    /\ UNCHANGED <<waiting, returning, signalling, broadcasting, spare>>

\* Nobody falls asleep over a spare wakeup.
Wait(w) ==
    /\ mutex = w /\ mutex' = NoThread
    /\ \/ /\ spare = 0
          /\ waiting' = waiting \cup {w} /\ UNCHANGED <<returning, spare>>
       \/ /\ spare > 0 /\ spare' = spare - 1
          /\ returning' = returning \cup {w} /\ UNCHANGED waiting
    /\ UNCHANGED <<signalling, broadcasting>>

Wakes(woken) ==
    /\ waiting' = waiting \ woken
    /\ returning' = returning \cup woken

TimeOut(w) ==
    /\ w \in waiting \cap TimedWaiters /\ Wakes({w})
    /\ UNCHANGED <<mutex, signalling, broadcasting, spare>>

Return(w) ==
    /\ w \in returning /\ mutex = NoThread
    /\ returning' = returning \ {w} /\ mutex' = w
    /\ UNCHANGED <<waiting, signalling, broadcasting, spare>>

-----------------------------------------------------------------------------
CallSignal(c) ==
    /\ c \notin signalling \cup broadcasting
    /\ signalling' = signalling \cup {c}
    /\ UNCHANGED <<mutex, waiting, returning, broadcasting, spare>>

CallBroadcast(c) ==
    /\ c \notin signalling \cup broadcasting
    /\ broadcasting' = broadcasting \cup {c}
    /\ UNCHANGED <<mutex, waiting, returning, signalling, spare>>

\* One is woken, if anyone is asleep; the wakeup may be left to the next if not.
Signal(c) ==
    /\ c \in signalling /\ signalling' = signalling \ {c}
    /\ \/ \E w \in waiting : Wakes({w}) /\ UNCHANGED spare
       \/ waiting = {} /\ Wakes({}) /\ spare' \in {spare, spare + 1}
    /\ UNCHANGED <<mutex, broadcasting>>

\* All are woken.
Broadcast(c) ==
    /\ c \in broadcasting /\ broadcasting' = broadcasting \ {c}
    /\ Wakes(waiting)
    /\ spare' \in Nat /\ spare' >= spare
    /\ UNCHANGED <<mutex, signalling>>

Next ==
    \/ \E t \in Waiters \cup Callers : Lock(t) \/ Unlock(t)
    \/ \E w \in Waiters : Wait(w) \/ TimeOut(w) \/ Return(w)
    \/ \E c \in Callers : CallSignal(c) \/ CallBroadcast(c) \/ Signal(c) \/ Broadcast(c)

Spec == Init /\ [][Next]_vars
=============================================================================
