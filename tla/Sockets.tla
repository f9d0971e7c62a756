------------------------------ MODULE Sockets -------------------------------
(***************************************************************************)
(* The calls of CSocket and CTcpSocket (socket/Socket.cpp, TcpSocket.cpp)  *)
(* that make a descriptor: Socket, NewUnixSocket, NewSocket and Accept.    *)
(* The system answers each of their system calls as it likes.              *)
(***************************************************************************)
EXTENDS Integers, Sequences

CONSTANTS Fds,          \* descriptors the process may get
          MaxAddresses  \* how many addresses getaddrinfo may return

SocketsAssumption == Fds \subseteq Nat \ {0, 1} /\ MaxAddresses \in Nat

RUNNING == -2           \* no call returns this
ABORTED == -3           \* an assertion ended the program

VARIABLES
    op,         \* the call: one of Calls, or "none"
    at,         \* the system call it is at
    addresses,  \* what getaddrinfo returned to NewSocket
    next,       \* how many of them it has tried
    sfd,        \* the call's own variable
    opened,     \* the descriptors open since the call began
    usable,     \* auxiliary: those of them that were set up
    file,       \* what there is at NewUnixSocket's path
    umask,      \* the process's own, or the call's
    result      \* what the call returned, or RUNNING

vars == <<op, at, addresses, next, sfd, opened, usable, file, umask, result>>

Calls    == {"Socket", "NewUnixSocket", "NewSocket", "Accept"}
Families == {"inet", "inet6"}

Init ==
    /\ op = "none" /\ at = "socket" /\ addresses = <<>> /\ next = 0 /\ result = RUNNING
    /\ sfd = -1 /\ opened = {} /\ usable = {} /\ file = "none" /\ umask = "own"

\* A NewUnixSocket without a path and a getaddrinfo that fails return 1 at once.
Begin(c, list, f) ==
    /\ op = "none" /\ op' = c
    /\ addresses' = list /\ file' = f
    /\ \/ UNCHANGED result
       \/ c \in {"NewUnixSocket", "NewSocket"} /\ result' = 1
    /\ UNCHANGED <<at, next, sfd, opened, usable, umask>>

\* The call stands before the system call p.
Running(p) == op # "none" /\ at = p /\ result = RUNNING

Goto(p)   == at' = p /\ UNCHANGED <<next, result>>
Return(r) == result' = r /\ UNCHANGED <<at, next>>

\* NewSocket goes on with the next address, the others return r.
NextOrReturn(r) ==
    IF op = "NewSocket" THEN at' = "socket" /\ next' = next + 1 /\ UNCHANGED result
    ELSE Return(r)

\* The caller takes the result, closes what it got, and may make another call.
Finish ==
    /\ result # RUNNING
    /\ op' = "none" /\ at' = "socket" /\ addresses' = <<>> /\ next' = 0 /\ result' = RUNNING
    /\ sfd' = -1 /\ opened' = {} /\ usable' = {} /\ file' = "none" /\ umask' = "own"

-----------------------------------------------------------------------------
\* accept is tried again when interrupted, or when the connection is gone.
Accept(f) ==
    /\ Running("socket") /\ op = "Accept"
    /\ sfd' = f /\ opened' = {f} \ {-1} /\ usable' = opened'
    /\ Return(f)
    /\ UNCHANGED <<op, addresses, file, umask>>

MoreToTry == op # "Accept" /\ (op = "NewSocket" => next < Len(addresses))

\* socket(); what is to block is ready.
SocketOpens(f) ==
    /\ Running("socket") /\ MoreToTry
    /\ f \notin opened /\ opened' = opened \cup {f} /\ sfd' = f
    /\ Goto("fcntl") \/ Goto("ready")
    /\ UNCHANGED <<op, addresses, usable, file, umask>>

\* Out of descriptors, NewSocket does not go on.
SocketFails ==
    /\ Running("socket") /\ MoreToTry
    /\ sfd' = -1
    /\ Return(-1) \/ NextOrReturn(-1)
    /\ UNCHANGED <<op, addresses, opened, usable, file, umask>>

SetNonBlocking ==
    /\ Running("fcntl")
    /\ Goto("ready")
    /\ UNCHANGED <<op, addresses, sfd, opened, usable, file, umask>>

\* (Mutant of NonBlockingFails: the descriptor stays open.)
NonBlockingFailsOpen ==
    /\ Running("fcntl")
    /\ sfd' = -1
    /\ NextOrReturn(-1)
    /\ UNCHANGED <<op, addresses, opened, usable, file, umask>>

NonBlockingFails ==
    /\ Running("fcntl")
    /\ opened' = opened \ {sfd} /\ sfd' = -1
    /\ NextOrReturn(-1)
    /\ UNCHANGED <<op, addresses, usable, file, umask>>

\* Socket returns; NewSocket has an address of IPv4, or could set IPV6_V6ONLY.
SetUp ==
    /\ Running("ready") /\ op \in {"Socket", "NewSocket"}
    /\ usable' = usable \cup {sfd}
    /\ NextOrReturn(sfd)
    /\ UNCHANGED <<op, addresses, sfd, opened, file, umask>>

\* (Mutant of V6OnlyFails: the descriptor stays open.)
V6OnlyFailsOpen ==
    /\ Running("ready") /\ op = "NewSocket" /\ addresses[next + 1] = "inet6"
    /\ NextOrReturn(-1)
    /\ UNCHANGED <<op, addresses, sfd, opened, usable, file, umask>>

\* sfd keeps the number of the descriptor that is closed.
V6OnlyFails ==
    /\ Running("ready") /\ op = "NewSocket" /\ addresses[next + 1] = "inet6"
    /\ opened' = opened \ {sfd}
    /\ NextOrReturn(-1)
    /\ UNCHANGED <<op, addresses, sfd, usable, file, umask>>

\* sfd is what the last address left in it.
NewSocketReturns ==
    /\ Running("socket") /\ op = "NewSocket" /\ next = Len(addresses)
    /\ Return(sfd)
    /\ UNCHANGED <<op, addresses, sfd, opened, usable, file, umask>>

\* lstat, and unlink of an old socket, which may fail, and the assertion that the
\* path is not too long for sun_path.
Unlinked == IF file = "socket" THEN {"socket", "none"} ELSE {file}

ClearPath ==
    /\ Running("ready") /\ op = "NewUnixSocket"
    /\ file' \in Unlinked
    /\ \/ umask' = "masked" /\ Goto("bind") /\ UNCHANGED opened
       \/ opened' = {} /\ Return(ABORTED) /\ UNCHANGED umask
    /\ UNCHANGED <<op, addresses, sfd, usable>>

Bind ==
    /\ Running("bind") /\ file = "none"
    /\ file' = "socket" /\ usable' = {sfd} /\ umask' = "own"
    /\ Return(sfd)
    /\ UNCHANGED <<op, addresses, sfd, opened>>

BindFails ==
    /\ Running("bind")
    /\ opened' = opened \ {sfd} /\ umask' = "own"
    /\ Return(1)
    /\ UNCHANGED <<op, addresses, sfd, usable, file>>

Lists == UNION {[1..n -> Families] : n \in 1..MaxAddresses}

Next ==
    \/ \E c \in {"Socket", "Accept"} : Begin(c, <<>>, "none")
    \/ \E f \in {"none", "socket", "other"} : Begin("NewUnixSocket", <<>>, f)
    \/ \E list \in Lists : Begin("NewSocket", list, "none")
    \/ \E f \in Fds : SocketOpens(f)
    \/ \E f \in Fds \cup {-1} : Accept(f)
    \/ SocketFails \/ SetNonBlocking \/ NonBlockingFails
    \/ SetUp \/ V6OnlyFails \/ NewSocketReturns
    \/ ClearPath \/ Bind \/ BindFails \/ Finish

-----------------------------------------------------------------------------
\* A call that returned has left nothing behind, whatever failed on its way: no
\* descriptor is open that was not set up, and the umask is the process's own
\* again.  The one descriptor open is the one returned, but for a NewSocket to
\* which getaddrinfo gave several addresses, which leaves one open for each it
\* could set up, or an address of IPv6, for which it may return a closed one.
SetupLeavesNothing ==
    result # RUNNING =>
       /\ umask = "own" /\ opened = usable
       /\ addresses \in {<<>>, <<"inet">>} => opened = {result} \ {-1, 1, ABORTED}
=============================================================================
