------------------------------- MODULE Worker -------------------------------
(***************************************************************************)
(* What CThread (include/sutils/Thread.h) promises those who share one:    *)
(* an object with one worker at most, which calls threadLoop in rounds     *)
(* while nobody asks it to exit and the object is there.  There is no      *)
(* lock, no thread id and no reference count here.                         *)
(***************************************************************************)
CONSTANT Threads

VARIABLES
    alive,      \* whether the object is there
    running,    \* whether it was started and has not stopped
    exitAsked,  \* whether it is asked to exit
    worker,     \* the worker, a set of at most one thread
    round,      \* where the worker stands, or "none"
    joiners,    \* who waits for the worker to stop
    exiters     \* who waits for that and asked for it

vars == <<alive, running, exitAsked, worker, round, joiners, exiters>>

waiting == <<joiners, exiters>>

Init ==
    /\ alive = TRUE /\ running = FALSE /\ exitAsked = FALSE
    /\ worker = {} /\ round = "none"
    /\ joiners = {} /\ exiters = {}

-----------------------------------------------------------------------------
\* The worker comes after the object was started, or does not come at all.
Start ==
    /\ alive /\ ~running
    /\ running' = TRUE /\ exitAsked' = FALSE
    /\ UNCHANGED <<alive, worker, round, waiting>>

Fail ==
    /\ alive /\ running /\ worker = {}
    /\ running' = FALSE
    /\ UNCHANGED <<alive, exitAsked, worker, round, waiting>>

Begin(t) ==
    /\ alive /\ running /\ worker = {} /\ t \notin joiners \cup exiters
    /\ worker' = {t} /\ round' = "new"
    /\ UNCHANGED <<alive, running, exitAsked, waiting>>

\* A round is begun, or the next one decided upon, only if no exit is asked for:
\* after that there is the round under way, or decided upon, and no other.
Grant ==
    /\ ~exitAsked
    /\ \/ round = "new"  /\ round' = "inside"
       \/ round = "over" /\ round' = "granted"
    /\ UNCHANGED <<alive, running, exitAsked, worker, waiting>>

Enter ==
    /\ round = "granted" /\ alive /\ round' = "inside"
    /\ UNCHANGED <<alive, running, exitAsked, worker, waiting>>

\* The worker is ready to end without a round, or comes out of one.
Leave ==
    /\ \/ round = "new" /\ round' = "done"
       \/ round = "new" /\ exitAsked /\ round' = "over"
       \/ round = "inside" /\ round' \in {"over", "done"}
    /\ UNCHANGED <<alive, running, exitAsked, worker, waiting>>

\* It stops when it is done, or asked to.
Stop ==
    /\ alive
    /\ round = "done" \/ (round = "over" /\ exitAsked)
    /\ running' = FALSE /\ exitAsked' = TRUE
    /\ worker' = {} /\ round' = "none"
    /\ UNCHANGED <<alive, waiting>>

-----------------------------------------------------------------------------
Ask ==
    /\ alive /\ exitAsked' = TRUE
    /\ UNCHANGED <<alive, running, worker, round, waiting>>

\* Asking an object that has stopped leaves nothing behind for the next start.
Forget ==
    /\ alive /\ ~running /\ exitAsked' = FALSE
    /\ UNCHANGED <<alive, running, worker, round, waiting>>

\* The worker does not wait for itself.
AwaitExit(t) ==
    /\ alive /\ running /\ t \notin worker \cup joiners \cup exiters
    /\ exiters' = exiters \cup {t} /\ exitAsked' = TRUE
    /\ UNCHANGED <<alive, running, worker, round, joiners>>

Join(t) ==
    /\ alive /\ running /\ t \notin worker \cup joiners \cup exiters
    /\ joiners' = joiners \cup {t}
    /\ UNCHANGED <<alive, running, exitAsked, worker, round, exiters>>

\* Nobody returns before the worker has stopped.
Return(t) ==
    /\ alive /\ ~running /\ worker = {}
    /\ \/ /\ t \in joiners /\ joiners' = joiners \ {t}
          /\ UNCHANGED <<exitAsked, exiters>>
       \/ /\ t \in exiters /\ exiters' = exiters \ {t} /\ exitAsked' = FALSE
          /\ UNCHANGED joiners
    /\ UNCHANGED <<alive, running, worker, round>>

\* The object goes when nobody is inside it, the worker included, which then
\* ends without another round.
Vanish ==
    /\ alive /\ joiners = {} /\ exiters = {}
    /\ running => round = "granted"
    /\ alive' = FALSE
    /\ UNCHANGED <<running, exitAsked, worker, round, waiting>>

Abandon ==
    /\ ~alive /\ round = "granted"
    /\ worker' = {} /\ round' = "none"
    /\ UNCHANGED <<alive, running, exitAsked, waiting>>

Next ==
    \/ Start \/ Fail \/ Grant \/ Enter \/ Leave \/ Stop
    \/ Ask \/ Forget \/ Vanish \/ Abandon
    \/ \E t \in Threads : Begin(t) \/ AwaitExit(t) \/ Join(t) \/ Return(t)

Spec == Init /\ [][Next]_vars
=============================================================================
