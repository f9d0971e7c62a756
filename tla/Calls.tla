-------------------------------- MODULE Calls ---------------------------------
(***************************************************************************)
(* A thread that uses the rest of the library.  It makes one call at a     *)
(* time: to StringUtils, whose loops take a step a turn, to Timers, or to  *)
(* Transfer, Sockets and FileUtils, in which the system has a say at every *)
(* step.                                                                   *)
(***************************************************************************)
EXTENDS StringUtils

CONSTANTS MaxBytes, Fds, MaxAddresses,
          Nodes, Parent, Target, Plain, Special, Path, NULL,
          MILLI, INT_MAX, Instants, Years

VARIABLES tOp, size, avail, nleft, ptr, taken, copied, tResult,
          sOp, sAt, addresses, sNext, sfd, opened, usable, sFile, umask, sResult,
          fOp, arg, tree, before, fNext, stack, dirs, fResult,
          asked, told

T == INSTANCE Transfer  WITH op <- tOp, result <- tResult
S == INSTANCE Sockets   WITH op <- sOp, at <- sAt, next <- sNext, file <- sFile,
                             result <- sResult
F == INSTANCE FileUtils WITH op <- fOp, next <- fNext, result <- fResult
M == INSTANCE Timers    WITH answer <- told

ASSUME CallsAssumption ==
    /\ T!TransferAssumption /\ S!SocketsAssumption /\ F!FileUtilsAssumption
    /\ M!TimersAssumption

transfers == <<tOp, size, avail, nleft, ptr, taken, copied, tResult>>
sockets   == <<sOp, sAt, addresses, sNext, sfd, opened, usable, sFile, umask, sResult>>
files     == <<fOp, arg, tree, before, fNext, stack, dirs, fResult>>
times     == <<asked, told>>
calls     == <<strings, transfers, sockets, files, times>>

CallsInit == StringsInit /\ T!Init /\ S!Init /\ F!Init /\ M!Init

\* One call at a time.
Idle(op) == op = "none"

CallsNext ==
    \/ /\ Idle(tOp) /\ Idle(sOp) /\ Idle(fOp) /\ Idle(asked.f)
       /\ StringsNext /\ UNCHANGED <<transfers, sockets, files, times>>
    \/ /\ Idle(call.f) /\ Idle(sOp) /\ Idle(fOp) /\ Idle(asked.f)
       /\ T!Next /\ UNCHANGED <<strings, sockets, files, times>>
    \/ /\ Idle(call.f) /\ Idle(tOp) /\ Idle(fOp) /\ Idle(asked.f)
       /\ S!Next /\ UNCHANGED <<strings, transfers, files, times>>
    \/ /\ Idle(call.f) /\ Idle(tOp) /\ Idle(sOp) /\ Idle(asked.f)
       /\ F!Next /\ UNCHANGED <<strings, transfers, sockets, times>>
    \/ /\ Idle(call.f) /\ Idle(tOp) /\ Idle(sOp) /\ Idle(fOp)
       /\ M!Next /\ UNCHANGED <<strings, transfers, sockets, files>>

CallsSpec == CallsInit /\ [][CallsNext]_calls /\ T!Fairness /\ StringsFairness

-----------------------------------------------------------------------------
(***************************************************************************)
(* Properties: see the modules, and StringUtils for SplitReplaceJoin and   *)
(* TextKept.                                                               *)
(***************************************************************************)

\* Read, Write, Readn and Writen, ReadToBuffer and WriteToFile move each byte
\* once and in order, and say how many.
TransferExact == T!TransferExact

\* And they return, as the functions of StringUtils that loop do; but for a
\* ReadToBuffer that is asked for more than the file has.
CallsReturn == T!CallsReturn /\ LoopsEnd

\* Socket, NewUnixSocket, NewSocket and Accept leave no descriptor open that could
\* not be set up; and none but the one they return, where there is one address.
SetupLeavesNothing == S!SetupLeavesNothing

\* DeleteDir does to the tree what it answers; MakeDir makes directories of its
\* path only, and none when it fails.
TreeExact == F!TreeExact

\* Delays, but for one of INT_MAX milliseconds, are rounded up, and days counted,
\* as a clock and a calendar do.
TimesExact == M!TimesExact
=============================================================================
