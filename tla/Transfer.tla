------------------------------ MODULE Transfer ------------------------------
(***************************************************************************)
(* The calls that move bytes between a buffer of the caller and a          *)
(* descriptor: Read, Write, Readn and Writen of CSocket, ReadToBuffer and  *)
(* WriteToFile of CFileUtils.  Which byte of the stream went to, or came   *)
(* from, which place of the buffer is the relation copied.                 *)
(***************************************************************************)
EXTENDS Integers, FiniteSets

CONSTANT MaxBytes       \* the longest buffer, and the longest stream

TransferAssumption == MaxBytes \in Nat

RUNNING == -2           \* no call returns this
HUGE    == MaxBytes + 1 \* the size_t of -1: more than any stream has

VARIABLES
    op,         \* the call: one of Calls, or "none"
    size,       \* how many bytes it is to move
    avail,      \* how many the stream has, where it reads
    nleft, ptr, \* how many are left, and where in the buffer the next one is
    taken,      \* how many the stream has given or got
    copied,     \* {<<place in the buffer, place in the stream>>}
    result      \* what the call returned, or RUNNING

vars == <<op, size, avail, nleft, ptr, taken, copied, result>>

Reads  == {"Read", "Readn", "ReadToBuffer"}
Files  == {"ReadToBuffer", "WriteToFile"}
Single == {"Read", "Write"}
Calls  == Reads \cup {"Write", "Writen", "WriteToFile"}

Init ==
    /\ op = "none" /\ result = RUNNING /\ copied = {}
    /\ size = 0 /\ avail = 0 /\ nleft = 0 /\ ptr = 0 /\ taken = 0

\* ReadToBuffer takes a size of 0 for the whole file, and does not look whether
\* lseek could tell it; a file may fail to open.
Begin(c, n, a) ==
    /\ op = "none" /\ op' = c
    /\ size' \in IF c = "ReadToBuffer" /\ n = 0 THEN {a, HUGE} ELSE {n}
    /\ avail' = a /\ nleft' = size'
    /\ \/ UNCHANGED result
       \/ c \in Files /\ result' = 0
    /\ UNCHANGED <<ptr, taken, copied>>

Running == op # "none" /\ result = RUNNING

Return(r) == result' = r /\ UNCHANGED <<op, size, avail, nleft, ptr, taken, copied>>

\* The caller takes the result, and may make another call.
Finish ==
    /\ result # RUNNING
    /\ op' = "none" /\ result' = RUNNING /\ copied' = {}
    /\ size' = 0 /\ avail' = 0 /\ nleft' = 0 /\ ptr' = 0 /\ taken' = 0

-----------------------------------------------------------------------------
\* The loops end when nothing is left.
LoopEnds == Running /\ op \notin Single /\ nleft = 0 /\ Return(size)

\* (Mutant of Moves: a retry starts at the head of the buffer again.)
MovesToHead(n) ==
    /\ Running /\ op \notin Single /\ n \in 1..nleft
    /\ op \in Reads => taken + n <= avail
    /\ copied' = copied \cup {<<i, taken + i>> : i \in 1..n}
    /\ taken' = taken + n /\ nleft' = nleft - n
    /\ UNCHANGED <<op, size, avail, ptr, result>>

\* The system moves n of the bytes asked for, and the call one step ahead.
Moves(n) ==
    /\ Running /\ n \in 1..nleft
    /\ op \in Reads => taken + n <= avail
    /\ copied' = copied \cup {<<ptr + i, taken + i>> : i \in 1..n}
    /\ taken' = taken + n /\ nleft' = nleft - n /\ ptr' = ptr + n
    /\ result' = IF op \in Single THEN n ELSE result
    /\ UNCHANGED <<op, size, avail>>

\* (Mutant of MovesNothing: the end of the stream is no end for Readn.)
MovesNothingGoesOn ==
    /\ Running
    /\ op \in Single \/ nleft > 0
    /\ op \in Reads /\ nleft > 0 => taken = avail
    /\ CASE op \in Single  -> Return(0)
         [] op = "Writen"  -> Return(-1)
         [] OTHER          -> UNCHANGED vars

\* Read and Write that move nothing return; so does Readn at the end of the
\* stream, and Writen fails.  The two of CFileUtils try again.
MovesNothing ==
    /\ Running
    /\ op \in Single \/ nleft > 0
    /\ op \in Reads /\ nleft > 0 => taken = avail
    /\ CASE op \in Single  -> Return(0)
         [] op = "Readn"   -> Return(size - nleft)
         [] op = "Writen"  -> Return(-1)
         [] OTHER          -> UNCHANGED vars

\* A signal makes the sockets try again, and any other error fails.  The two of
\* CFileUtils return what they have on either.
Interrupted ==
    /\ Running /\ (op \in Single \/ nleft > 0)
    /\ IF op \in Files THEN Return(size - nleft) ELSE UNCHANGED vars

Fails ==
    /\ Running /\ (op \in Single \/ nleft > 0)
    /\ Return(IF op \in Files THEN size - nleft ELSE -1)

Next ==
    \/ \E c \in Calls, n, a \in 0..MaxBytes : (c \in Reads \/ a = 0) /\ Begin(c, n, a)
    \/ LoopEnds \/ MovesNothing \/ Interrupted \/ Fails \/ Finish
    \/ \E n \in 1..MaxBytes : Moves(n)

\* The system answers other than "again" some time, and tells the end of a
\* stream; it need not fail.
Fairness ==
    /\ WF_vars(LoopEnds)
    /\ WF_vars(\E n \in 1..MaxBytes : Moves(n))
    /\ WF_vars((op \in Reads \/ nleft = 0) /\ MovesNothing)

-----------------------------------------------------------------------------
\* Byte for byte, in order and once: what a call says it has moved is what it
\* has moved, from the head of the buffer on, and the stream has given or got
\* no more, whatever came in between; a call that fails only may have moved some.
\* Writen moves all or fails, and Readn returns less only at the end.
TransferExact ==
    result >= 0 =>
       /\ taken = result /\ copied = {<<i, i>> : i \in 1..result}
       /\ op = "Writen" => result = size
       /\ op = "Readn"  => result = size \/ result = avail

\* Every call returns, but for a ReadToBuffer that wants more than the file has, or
\* could not find out how much that is: it goes on reading nothing for ever.
CallsReturn ==
    Running ~> (~Running \/ (op = "ReadToBuffer" /\ taken = avail /\ nleft > 0))
=============================================================================
