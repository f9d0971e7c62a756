----------------------------- MODULE Calls_proofs -----------------------------
(***************************************************************************)
(* Theorems about the calls of Calls: for buffers of every length, any set *)
(* of descriptors and every file system, whatever the system answers;      *)
(* about the delays and days of Timers, for all times and years; and about *)
(* the functions of StringUtils, for all strings of any length.            *)
(***************************************************************************)
EXTENDS Calls, FiniteSetTheorems, SequenceTheorems, WellFoundedInduction, TLAPS

\* Of a transfer: the bytes moved lie at the head of the buffer and of the
\* stream, and what is left to move lies behind them.
TransferInv ==
    /\ tOp \in T!Calls \cup {"none"}
    /\ size \in Nat /\ avail \in Nat /\ nleft \in Nat /\ taken \in Nat /\ tResult \in Int
    /\ ptr = taken /\ taken + nleft = size
    /\ copied = {<<i, i>> : i \in 1..taken}
    /\ tOp = "none" => tResult = T!RUNNING /\ size = 0
    /\ tOp \in T!Single /\ tResult = T!RUNNING => taken = 0
    /\ \/ tResult \in {T!RUNNING, -1}
       \/ /\ tResult = taken
          /\ tOp = "Writen" => tResult = size
          /\ tOp = "Readn"  => tResult = size \/ tResult = avail

\* Of a call that makes a descriptor: between two addresses what is open was set
\* up, and while one is being set up its own descriptor is open as well.
SetupTypes ==
    /\ sfd \in Fds \cup {-1} /\ sNext \in Nat /\ sAt \in {"socket", "fcntl", "ready", "bind"}
    /\ sResult \in Fds \cup {S!RUNNING, S!ABORTED, -1, 1}

Setting == sOp # "none" /\ sResult = S!RUNNING

OpenedOK ==
    Setting =>
       /\ sAt = "socket" => opened = usable
       /\ sAt # "socket" => sfd \in Fds /\ sfd \notin usable /\ opened = usable \cup {sfd}

\* Only NewSocket comes back to the first of its system calls; of a list of one
\* address of IPv4 it has set up that one or none.
PlaceOK ==
    Setting =>
       /\ sOp # "NewSocket" => /\ addresses = <<>> /\ usable = {}
                               /\ sAt = "socket" => sfd = -1
       /\ sOp = "Accept" => sAt = "socket"
       /\ sAt = "bind" => sOp = "NewUnixSocket"
       /\ umask = IF sAt = "bind" THEN "masked" ELSE "own"
       /\ sOp = "NewSocket" /\ addresses \in {<<>>, <<"inet">>} =>
             /\ sNext = 0 => usable = {} /\ (sAt = "socket" => sfd = -1)
             /\ sNext # 0 => sAt = "socket" /\ usable = {sfd} \ {-1}
       /\ sOp = "NewSocket" /\ sAt # "socket" => sNext < Len(addresses)

SetupInv ==
    /\ SetupTypes /\ OpenedOK /\ PlaceOK
    /\ sOp = "none" => S!Init
    /\ SetupLeavesNothing

\* Of a directory that is gone everything has gone that was in it.
GoneWithContents ==
    \A d \in before \ tree, m \in before : Parent[m] = F!Resolve(d) => m \notin tree

\* The calls of DeleteDir on the stack, the outermost for arg, are for
\* directories that are there, each in the one before it.
StackOK ==
    /\ stack \in Seq(Nodes) /\ stack # <<>> /\ stack[1] = arg
    /\ \A k \in 1..Len(stack) :
          /\ stack[k] \in tree \cap F!Below(arg)
          /\ F!Resolve(stack[k]) \in tree \cap F!Directories
    /\ \A k \in 1..(Len(stack) - 1) : Parent[stack[k + 1]] = F!Resolve(stack[k])
    /\ \A d \in dirs : \E k \in 1..Len(stack) : stack[k] = d

\* MakeDir has made nothing yet; what is not there of its path is a directory.
PathOK ==
    /\ tree = before /\ arg \in Nodes
    /\ fNext \in DOMAIN Path[arg]
    /\ \A k \in DOMAIN Path[arg] : Path[arg][k] \in tree \cup F!Directories

TreeInv ==
    /\ before \in F!Trees
    /\ fOp = "none" => F!Init
    /\ F!Running =>
          /\ fOp \in {"MakeDir", "DeleteDir"}
          /\ fOp = "MakeDir" => PathOK
          /\ fOp = "DeleteDir" => StackOK /\ fNext = 1
    /\ fOp = "DeleteDir" => /\ tree \subseteq before /\ GoneWithContents
                            /\ before \ tree \subseteq F!Below(arg)
    /\ TreeExact

-----------------------------------------------------------------------------
(***************************************************************************)
(* Transfer.                                                               *)
(***************************************************************************)

LEMMA TransferInit == T!Init => TransferInv
BY DEF T!Init, TransferInv, T!Single, T!Reads, T!RUNNING

\* n more bytes go to the next n places from the next n places.
LEMMA CopiedGrows ==
    ASSUME NEW k \in Nat, NEW n \in Nat
    PROVE  {<<i, i>> : i \in 1..k} \cup {<<k + i, k + i>> : i \in 1..n}
              = {<<i, i>> : i \in 1..(k + n)}
<1>1. ASSUME NEW i \in 1..(k + n)
      PROVE  <<i, i>> \in {<<j, j>> : j \in 1..k} \cup {<<k + j, k + j>> : j \in 1..n}
  <2>1. CASE i <= k
    BY <1>1, <2>1
  <2>2. CASE i > k
    <3>1. i - k \in 1..n /\ k + (i - k) = i
      BY <1>1, <2>2
    <3> QED
      BY <3>1
  <2> QED
    BY <1>1, <2>1, <2>2
<1>2. ASSUME NEW i \in 1..n PROVE k + i \in 1..(k + n)
  BY <1>2
<1>3. ASSUME NEW i \in 1..k PROVE i \in 1..(k + n)
  BY <1>3
<1> QED
  BY <1>1, <1>2, <1>3

LEMMA TransferNext == TransferInv /\ [T!Next]_transfers => TransferInv'
<1> SUFFICES ASSUME TransferInv, [T!Next]_transfers PROVE TransferInv'
  OBVIOUS
<1> USE CallsAssumption
    DEF CallsAssumption, T!TransferAssumption, TransferInv, T!RUNNING, T!Single, T!Reads,
        T!Files, T!Calls
<1>1. ASSUME NEW c \in T!Calls, NEW n \in 0..MaxBytes, NEW a \in 0..MaxBytes, T!Begin(c, n, a)
      PROVE  TransferInv'
  <2>1. /\ size' \in {n, a, MaxBytes + 1} /\ nleft' = size' /\ avail' = a /\ tOp' = c
        /\ ptr' = 0 /\ taken' = 0 /\ copied' = {} /\ 1..0 = {}
        /\ tResult' = -2 \/ (c \in {"ReadToBuffer", "WriteToFile"} /\ tResult' = 0)
    <3>1. tOp = "none" /\ tResult = -2 /\ taken = 0 /\ ptr = 0 /\ copied = {}
      <4>1. tOp = "none" /\ tResult = -2 /\ size = 0
        BY <1>1 DEF T!Begin
      <4>2. taken = 0 /\ ptr = 0
        BY <4>1
      <4> QED
        BY <4>1, <4>2
    <3> QED
      BY <1>1, <3>1 DEF T!Begin, T!HUGE
  <2>2. size' \in Nat /\ nleft' \in Nat /\ avail' \in Nat /\ taken' + nleft' = size'
    <3>1. n \in Nat /\ a \in Nat /\ MaxBytes + 1 \in Nat
      BY <1>1
    <3>2. size' \in Nat
      BY ONLY <2>1, <3>1
    <3>3. nleft' = size' /\ taken' = 0 /\ avail' \in Nat
      BY ONLY <2>1, <3>1
    <3>4. \A m \in Nat : 0 + m = m
      OBVIOUS
    <3>5. taken' + nleft' = size'
      BY ONLY <3>2, <3>3, <3>4, Zenon
    <3> QED
      BY ONLY <3>2, <3>3, <3>5
  <2>3. copied' = {<<i, i>> : i \in 1..taken'}
    BY <2>1
  <2>4. c # "none" /\ tResult' \in {-2, 0} /\ (tResult' = 0 => c \in {"ReadToBuffer", "WriteToFile"})
    BY <2>1
  <2>5. c \in T!Calls
    OBVIOUS
  <2> QED
    <3>1. /\ tOp' \in T!Calls \cup {"none"} /\ size' \in Nat /\ avail' \in Nat /\ nleft' \in Nat
          /\ taken' \in Nat /\ tResult' \in Int /\ ptr' = taken' /\ taken' + nleft' = size'
          /\ copied' = {<<i, i>> : i \in 1..taken'}
      BY ONLY <2>1, <2>2, <2>3, <2>4, <2>5
    <3>2. /\ tOp' # "none" /\ taken' = 0
          /\ tResult' \in {-2, -1} \/ (tResult' = taken' /\ tOp' \notin {"Writen", "Readn"})
      BY ONLY <2>1, <2>4
    <3> QED
      BY ONLY <3>1, <3>2 DEF TransferInv, T!RUNNING, T!Single, T!Reads, T!Calls
<1>2. ASSUME NEW n \in 1..MaxBytes, T!Moves(n) PROVE TransferInv'
  <2>1. /\ n \in Nat /\ taken' = taken + n /\ ptr' = taken' /\ nleft' = nleft - n
        /\ nleft' \in Nat /\ taken' \in Nat /\ taken' + nleft' = size
        /\ UNCHANGED <<tOp, size, avail>>
    BY <1>2 DEF T!Moves, T!Running
  <2>2. copied' = {<<i, i>> : i \in 1..taken'}
    <3>1. copied' = {<<i, i>> : i \in 1..taken} \cup {<<taken + i, taken + i>> : i \in 1..n}
      BY <1>2 DEF T!Moves
    <3>2. taken' = taken + n /\ taken \in Nat /\ n \in Nat
      BY <2>1
    <3>3. {<<i, i>> : i \in 1..taken} \cup {<<taken + i, taken + i>> : i \in 1..n}
             = {<<i, i>> : i \in 1..(taken + n)}
      BY ONLY <3>2, CopiedGrows
    <3> QED
      BY ONLY <3>1, <3>2, <3>3
  <2> QED
    BY <1>2, <2>1, <2>2 DEF T!Moves, T!Running
<1>3. CASE T!LoopEnds \/ T!Interrupted \/ T!Fails
  BY <1>3 DEF T!LoopEnds, T!Interrupted, T!Fails, T!Return, T!Running, T!vars
<1>4. CASE T!MovesNothing
  BY <1>4 DEF T!MovesNothing, T!Return, T!Running, T!vars
<1>5. CASE T!Finish
  BY <1>5 DEF T!Finish
<1>6. CASE UNCHANGED transfers
  BY <1>6 DEF transfers
<1> QED
  BY <1>1, <1>2, <1>3, <1>4, <1>5, <1>6 DEF T!Next

-----------------------------------------------------------------------------
(***************************************************************************)
(* Sockets.                                                                *)
(***************************************************************************)

LEMMA SetupInit == S!Init => SetupInv
BY DEF S!Init, SetupInv, SetupTypes, OpenedOK, PlaceOK, Setting, S!RUNNING,
       SetupLeavesNothing, S!SetupLeavesNothing

\* The only turn of a list of at most the one address.
LEMMA OneAddress ==
    ASSUME NEW list \in {<<>>, <<"inet">>}, NEW n \in Nat, n < Len(list)
    PROVE  list = <<"inet">> /\ n = 0 /\ list[n + 1] = "inet"
<1>1. CASE list = <<>>
  BY <1>1
<1>2. CASE list = <<"inet">>
  <2>1. Len(list) = 1 /\ list[1] = "inet"
    BY <1>2
  <2> QED
    BY <1>2, <2>1
<1> QED
  BY <1>1, <1>2

LEMMA SetupNext == SetupInv /\ [S!Next]_sockets => SetupInv'
<1> SUFFICES ASSUME SetupInv, [S!Next]_sockets PROVE SetupInv'
  OBVIOUS
<1>0. Fds \subseteq Nat \ {0, 1}
  BY CallsAssumption DEF CallsAssumption, S!SocketsAssumption
<1>one. /\ sNext \in Nat
        /\ addresses \in {<<>>, <<"inet">>} /\ sNext < Len(addresses) =>
             sNext = 0 /\ addresses[sNext + 1] = "inet"
  <2>1. sNext \in Nat
    BY DEF SetupInv, SetupTypes
  <2> QED
    BY ONLY <2>1, OneAddress
<1> USE DEF SetupInv, SetupTypes, OpenedOK, PlaceOK, Setting, S!RUNNING, S!ABORTED,
        S!Running, S!Calls, SetupLeavesNothing, S!SetupLeavesNothing, S!Goto, S!Return,
        S!NextOrReturn
<1>1. ASSUME NEW c \in S!Calls, NEW list, NEW f, S!Begin(c, list, f),
             c # "NewSocket" => list = <<>>
      PROVE  SetupInv'
  BY <1>0, <1>1 DEF S!Begin, S!Init
<1>2. ASSUME NEW f \in Fds \cup {-1}, S!Accept(f) PROVE SetupInv'
  BY <1>0, <1>2 DEF S!Accept
<1>3. ASSUME NEW f \in Fds, S!SocketOpens(f) PROVE SetupInv'
  BY <1>0, <1>one, <1>3 DEF S!SocketOpens, S!MoreToTry
<1>4. CASE S!SocketFails
  BY <1>0, <1>one, <1>4 DEF S!SocketFails, S!MoreToTry
<1>5. CASE S!SetNonBlocking
  BY <1>0, <1>5 DEF S!SetNonBlocking
<1>6. CASE S!NonBlockingFails
  BY <1>0, <1>one, <1>6 DEF S!NonBlockingFails
<1>7. CASE S!SetUp
  BY <1>0, <1>one, <1>7 DEF S!SetUp
<1>8. CASE S!V6OnlyFails
  BY <1>0, <1>one, <1>8 DEF S!V6OnlyFails
<1>9. CASE S!NewSocketReturns
  BY <1>0, <1>9 DEF S!NewSocketReturns
<1>10. CASE S!ClearPath
  <2>1. /\ sOp = "NewUnixSocket" /\ sAt = "ready" /\ Setting /\ addresses = <<>> /\ usable = {}
        /\ sfd \in Fds /\ opened = {sfd} /\ umask = "own"
        /\ UNCHANGED <<sOp, addresses, sNext, sfd, usable>>
    BY <1>10 DEF S!ClearPath
  <2>2. CASE umask' = "masked" /\ sAt' = "bind" /\ UNCHANGED <<opened, sResult>>
    BY <1>0, <2>1, <2>2
  <2>3. CASE opened' = {} /\ sResult' = -3 /\ UNCHANGED <<sAt, umask>>
    BY <1>0, <2>1, <2>3
  <2> QED
    BY <1>10, <2>2, <2>3 DEF S!ClearPath
<1>11. CASE S!Bind \/ S!BindFails
  <2>1. /\ sOp = "NewUnixSocket" /\ sAt = "bind" /\ Setting /\ addresses = <<>> /\ usable = {}
        /\ sfd \in Fds /\ opened = {sfd} /\ umask' = "own"
        /\ UNCHANGED <<sOp, sAt, addresses, sNext, sfd>>
    BY <1>11 DEF S!Bind, S!BindFails
  <2>2. CASE usable' = {sfd} /\ sResult' = sfd /\ UNCHANGED opened
    <3>1. sfd \notin {-1, 1, -3} /\ sfd # -2
      BY <1>0, <2>1
    <3> QED
      BY <2>1, <2>2, <3>1
  <2>3. CASE opened' = {} /\ sResult' = 1 /\ UNCHANGED usable
    BY <2>1, <2>3
  <2> QED
    BY <1>11, <2>1, <2>2, <2>3 DEF S!Bind, S!BindFails
<1>12. CASE S!Finish
  BY <1>0, <1>12 DEF S!Finish, S!Init
<1>13. CASE UNCHANGED sockets
  BY <1>13 DEF sockets, S!Init
<1> QED
  BY <1>1, <1>2, <1>3, <1>4, <1>5, <1>6, <1>7, <1>8, <1>9, <1>10, <1>11, <1>12, <1>13
  DEF S!Next

-----------------------------------------------------------------------------
(***************************************************************************)
(* FileUtils.                                                              *)
(***************************************************************************)

\* Below(n) is the least set that holds n and is closed.
LEMMA BelowIsLeast ==
    ASSUME NEW n \in before
    PROVE  /\ n \in F!Below(n)
           /\ \A d \in F!Below(n), m \in before :
                 Parent[m] = F!Resolve(d) => m \in F!Below(n)
           /\ \A gone \in SUBSET before :
                 n \in gone /\ F!Closed(gone) => F!Below(n) \subseteq gone
BY DEF F!Below, F!Closed

\* What is in a directory is in a directory.
LEMMA ParentIsDirectory ==
    ASSUME before \in F!Trees, NEW m \in before, NEW d \in Nodes, Parent[m] = F!Resolve(d)
    PROVE  F!Resolve(d) \in before \cap F!Directories /\ F!Resolve(F!Resolve(d)) = F!Resolve(d)
<1>1. F!FileUtilsAssumption
  BY CallsAssumption DEF CallsAssumption
<1>2. F!Resolve(d) \in Nodes /\ F!Resolve(d) # NULL
  BY <1>1 DEF F!FileUtilsAssumption, F!Resolve
<1>3. F!Resolve(d) \in before \cap F!Directories
  BY <1>2 DEF F!Trees
<1> QED
  BY <1>3 DEF F!Resolve, F!Directories

LEMMA TreeInit == F!Init => TreeInv
BY DEF F!Init, TreeInv, F!Trees, F!Running, TreeExact, F!TreeExact

LEMMA BeginKeepsTree ==
    ASSUME TreeInv, NEW n \in Nodes, NEW t \in F!Trees,
           NEW c \in {"MakeDir", "DeleteDir", "DirExist"}, F!Begin(c, n, t)
    PROVE  TreeInv'
<1>1. /\ fOp' = c /\ arg' = n /\ tree' = t /\ before' = t /\ fNext' = 1 /\ before' \in F!Trees
      /\ fResult = "running" /\ c # "none"
  BY DEF TreeInv, F!Begin, F!Init
<1>2. CASE c = "MakeDir"
  <2>1. fResult' = "running" /\ \A k \in DOMAIN Path[n] : Path[n][k] \in t \cup F!Directories
    BY <1>1, <1>2 DEF F!Begin
  <2>2. 1 \in DOMAIN Path[n]
    BY CallsAssumption DEF CallsAssumption, F!FileUtilsAssumption
  <2>3. PathOK'
    BY <1>1, <2>1, <2>2 DEF PathOK, F!Directories
  <2> QED
    BY <1>1, <1>2, <2>1, <2>3 DEF TreeInv, F!Running, TreeExact, F!TreeExact
<1>3. CASE c = "DeleteDir"
  <2>1. n \in t /\ t \in SUBSET Nodes
    BY <1>1, <1>3 DEF F!Begin, F!Trees
  <2>2. n \in F!Below(arg)'
    BY <1>1, <2>1 DEF F!Below, F!Closed
  <2>3. fResult' # "running" => fResult' = "failed"
    BY <1>1, <1>3 DEF F!Begin, F!Return
  <2>4. fResult' = "running" => StackOK'
    <3> SUFFICES ASSUME fResult' = "running" PROVE StackOK'
      OBVIOUS
    <3>1. stack' = <<n>> /\ dirs' = {n} /\ F!Resolve(n) \in t \cap F!Directories
      BY <1>1, <1>3 DEF F!Begin, F!Return
    <3>2. /\ stack' \in Seq(Nodes) /\ stack' # <<>> /\ Len(stack') = 1 /\ stack'[1] = n
          /\ \A k \in 1..1 : k = 1
      BY <2>1, <3>1
    <3> QED
      BY <1>1, <2>1, <2>2, <3>1, <3>2 DEF StackOK
  <2> QED
    BY <1>1, <1>3, <2>3, <2>4 DEF TreeInv, GoneWithContents, F!Running, TreeExact, F!TreeExact
<1>4. CASE c = "DirExist"
  <2>1. fResult' # "running"
    BY <1>1, <1>4 DEF F!Begin, F!Return
  <2> QED
    BY <1>1, <1>4, <2>1 DEF TreeInv, F!Running, TreeExact, F!TreeExact
<1> QED
  BY <1>2, <1>3, <1>4

\* The component that is made is a directory in a directory.
LEMMA DoMakeDirKeepsTree == TreeInv /\ F!DoMakeDir => TreeInv'
<1> SUFFICES ASSUME TreeInv, F!DoMakeDir PROVE TreeInv'
  OBVIOUS
<1> DEFINE d == Path[arg][fNext]
<1>1. /\ PathOK /\ fOp = "MakeDir" /\ before \in F!Trees
      /\ d \in tree \/ Parent[d] \in (tree \cap F!Directories) \cup {NULL}
      /\ tree' = tree \cup {d} /\ fResult' = "OK"
      /\ UNCHANGED <<fOp, arg, before, fNext>>
  BY DEF TreeInv, F!DoMakeDir, F!Return
<1>2. Path[arg] \in Seq(Nodes) /\ fNext \in DOMAIN Path[arg] /\ d \in tree \cup F!Directories
  BY <1>1, CallsAssumption DEF PathOK, CallsAssumption, F!FileUtilsAssumption
<1>3. d \in Nodes /\ d \in F!ToSet(Path[arg])
  BY <1>2 DEF F!ToSet
<1>4. tree' \in F!Trees
  BY <1>1, <1>2, <1>3 DEF F!Trees, PathOK, F!Directories
<1>5. /\ before \subseteq tree' /\ tree' \ before \subseteq F!ToSet(Path[arg]) \cap F!Directories
      /\ ~F!Running'
  BY <1>1, <1>2, <1>3 DEF PathOK, F!Running
<1> QED
  BY <1>1, <1>4, <1>5 DEF TreeInv, TreeExact, F!TreeExact, F!Trees, F!Directories

LEMMA MakeDirFailsKeepsTree == TreeInv /\ F!MakeDirFails => TreeInv'
<1> SUFFICES ASSUME TreeInv, F!MakeDirFails PROVE TreeInv'
  OBVIOUS
<1>1. /\ PathOK /\ fOp = "MakeDir" /\ before \in F!Trees
      /\ UNCHANGED <<fOp, arg, tree, before>>
  BY DEF TreeInv, F!MakeDirFails, F!Running
<1>2. CASE fNext = Len(Path[arg])
  <2>1. fResult' = "failed"
    BY <1>2 DEF F!MakeDirFails, F!Return
  <2> QED
    BY <1>1, <2>1 DEF TreeInv, PathOK, F!Running, TreeExact, F!TreeExact, F!Trees, F!Directories
<1>3. CASE fNext # Len(Path[arg])
  <2>1. fNext' = fNext + 1 /\ fResult' = "running"
    BY <1>3 DEF F!MakeDirFails, TreeInv, F!Running
  <2>2. Path[arg] \in Seq(Nodes) /\ fNext' \in DOMAIN Path[arg]
    BY <1>1, <1>3, <2>1, CallsAssumption DEF PathOK, CallsAssumption, F!FileUtilsAssumption
  <2>3. PathOK'
    BY <1>1, <2>2 DEF PathOK, F!Directories
  <2> QED
    BY <1>1, <2>1, <2>3 DEF TreeInv, F!Running, TreeExact, F!TreeExact, F!Trees
<1> QED
  BY <1>2, <1>3

-----------------------------------------------------------------------------
\* Where the calls of DeleteDir on the stack are: the last one's directory is
\* neither the directory of an earlier one nor what an earlier one leads to, if
\* nothing is left in it.
LEMMA StackIsAPath ==
    ASSUME StackOK, tree \subseteq before, before \in F!Trees
    PROVE  /\ Len(stack) \in Nat \ {0} /\ F!Last(stack) = stack[Len(stack)]
           /\ F!Last(stack) \in tree
           /\ \A n \in F!Contents(F!Last(stack)) : n \in tree \cap F!Below(arg)
           /\ F!Contents(F!Last(stack)) = {} =>
                 \A k \in 1..(Len(stack) - 1) :
                    F!Last(stack) # stack[k] /\ F!Last(stack) # F!Resolve(stack[k])
<1>1. /\ stack \in Seq(Nodes) /\ Len(stack) \in Nat \ {0} /\ F!Last(stack) = stack[Len(stack)]
      /\ Len(stack) \in 1..Len(stack) /\ arg \in before
  <2>1. stack \in Seq(Nodes) /\ stack # <<>> /\ Len(stack) \in Nat \ {0}
    BY DEF StackOK
  <2>2. 1 \in 1..Len(stack)
    BY <2>1
  <2> QED
    BY <2>1, <2>2 DEF StackOK, F!Last
<1>2. F!Last(stack) \in tree \cap F!Below(arg)
  BY <1>1 DEF StackOK
<1>3. ASSUME NEW n \in F!Contents(F!Last(stack)) PROVE n \in tree \cap F!Below(arg)
  BY <1>1, <1>2, BelowIsLeast DEF F!Contents
<1>4. ASSUME F!Contents(F!Last(stack)) = {}, NEW k \in 1..(Len(stack) - 1)
      PROVE  F!Last(stack) # stack[k] /\ F!Last(stack) # F!Resolve(stack[k])
  <2>1. k \in 1..Len(stack) /\ k + 1 \in 1..Len(stack)
    BY <1>1
  <2>2. /\ stack[k + 1] \in tree /\ Parent[stack[k + 1]] = F!Resolve(stack[k])
        /\ stack[k] \in Nodes /\ stack[k + 1] \in Nodes
    BY <1>1, <2>1 DEF StackOK
  <2>3. F!Resolve(F!Resolve(stack[k])) = F!Resolve(stack[k])
    <3>1. stack[k + 1] \in before
      BY <2>2
    <3> QED
      BY <2>2, <3>1, ParentIsDirectory
  <2>4. stack[k + 1] \notin F!Contents(F!Last(stack))
    BY <1>4
  <2> QED
    BY <2>2, <2>3, <2>4 DEF F!Contents
<1> QED
  BY <1>1, <1>2, <1>3, <1>4

\* What DeleteDir keeps while it runs, in one step.
LEMMA DeletingFacts ==
    ASSUME TreeInv, F!Deleting
    PROVE  /\ fOp = "DeleteDir" /\ fResult = "running" /\ fNext = 1
           /\ before \in F!Trees /\ before \subseteq Nodes /\ tree \subseteq before
           /\ StackOK /\ GoneWithContents /\ before \ tree \subseteq F!Below(arg)
           /\ arg \in before /\ arg \in tree
<1>1. /\ fOp = "DeleteDir" /\ fResult = "running" /\ fNext = 1
      /\ before \in F!Trees /\ before \subseteq Nodes /\ tree \subseteq before
      /\ StackOK /\ GoneWithContents /\ before \ tree \subseteq F!Below(arg)
  BY DEF TreeInv, F!Deleting, F!Running, F!Trees
<1>2. stack[1] = arg /\ 1 \in 1..Len(stack)
  BY <1>1, StackIsAPath DEF StackOK
<1>3. arg \in tree
  BY <1>1, <1>2 DEF StackOK
<1> QED
  BY <1>1, <1>3

LEMMA BelowStays == UNCHANGED <<arg, before>> => F!Below(arg)' = F!Below(arg)
BY DEF F!Below, F!Closed

LEMMA EnterDirKeepsTree ==
    ASSUME TreeInv, NEW e \in Nodes, F!EnterDir(e)
    PROVE  TreeInv'
<1>1. F!Deleting
  BY DEF F!EnterDir
<1>2. /\ fOp = "DeleteDir" /\ fResult = "running" /\ fNext = 1
      /\ before \in F!Trees /\ before \subseteq Nodes /\ tree \subseteq before
      /\ StackOK /\ GoneWithContents /\ before \ tree \subseteq F!Below(arg)
  BY <1>1, DeletingFacts
<1>3. /\ UNCHANGED <<fOp, arg, tree, before, fNext, fResult>>
      /\ stack' = Append(stack, e) /\ dirs' = dirs \cup {e}
      /\ e \in F!Contents(F!Last(stack)) /\ F!Resolve(e) \in tree \cap F!Directories
  BY DEF F!EnterDir, F!IsDir
<1>4. /\ Len(stack) \in Nat \ {0} /\ F!Last(stack) = stack[Len(stack)]
      /\ e \in tree \cap F!Below(arg) /\ Parent[e] = F!Resolve(stack[Len(stack)])
  BY <1>2, <1>3, StackIsAPath DEF F!Contents
<1>5. /\ stack' \in Seq(Nodes) /\ stack' # <<>> /\ Len(stack') = Len(stack) + 1
      /\ \A k \in 1..Len(stack) : stack'[k] = stack[k]
      /\ stack'[Len(stack) + 1] = e
  BY <1>2, <1>3, <1>4 DEF StackOK
<1>6. F!Below(arg)' = F!Below(arg)
  BY <1>3, BelowStays
<1>7. StackOK'
  <2>1. stack'[1] = arg'
    BY <1>2, <1>3, <1>4, <1>5 DEF StackOK
  <2>2. ASSUME NEW k \in 1..Len(stack')
        PROVE  /\ stack'[k] \in tree \cap F!Below(arg)
               /\ F!Resolve(stack'[k]) \in tree \cap F!Directories
    <3>1. CASE k = Len(stack) + 1
      BY <1>3, <1>4, <1>5, <3>1
    <3>2. CASE k \in 1..Len(stack)
      BY <1>2, <1>5, <3>2 DEF StackOK
    <3> QED
      BY <1>4, <1>5, <3>1, <3>2
  <2>3. ASSUME NEW k \in 1..(Len(stack') - 1)
        PROVE  Parent[stack'[k + 1]] = F!Resolve(stack'[k])
    <3>1. k \in 1..Len(stack)
      BY <1>4, <1>5
    <3>2. CASE k = Len(stack)
      BY <1>4, <1>5, <3>1, <3>2
    <3>3. CASE k # Len(stack)
      <4>1. k \in 1..(Len(stack) - 1) /\ k + 1 \in 1..Len(stack)
        BY <1>4, <3>1, <3>3
      <4> QED
        BY <1>2, <1>5, <3>1, <4>1 DEF StackOK
    <3> QED
      BY <3>2, <3>3
  <2>4. ASSUME NEW d \in dirs' PROVE \E k \in 1..Len(stack') : stack'[k] = d
    <3>1. CASE d = e
      <4>1. Len(stack) + 1 \in 1..Len(stack')
        BY <1>4, <1>5
      <4> QED
        BY <1>5, <3>1, <4>1
    <3>2. CASE d \in dirs
      <4>1. PICK k \in 1..Len(stack) : stack[k] = d
        BY <1>2, <3>2 DEF StackOK
      <4>2. k \in 1..Len(stack') /\ stack'[k] = d
        BY <1>4, <1>5, <4>1
      <4> QED
        BY <4>2
    <3> QED
      BY <1>3, <3>1, <3>2
  <2> QED
    BY <1>3, <1>5, <1>6, <2>1, <2>2, <2>3, <2>4 DEF StackOK, F!Resolve, F!Directories
<1> QED
  BY <1>2, <1>3, <1>6, <1>7
     DEF TreeInv, GoneWithContents, F!Running, F!Resolve, TreeExact, F!TreeExact

\* A link to nothing goes alone; what it led to went with all it held before.
LEMMA RemoveEntryKeepsTree ==
    ASSUME TreeInv, NEW e \in Nodes, F!RemoveEntry(e)
    PROVE  TreeInv'
<1>1. F!Deleting
  BY DEF F!RemoveEntry
<1>2. /\ fOp = "DeleteDir" /\ fResult = "running" /\ fNext = 1
      /\ before \in F!Trees /\ before \subseteq Nodes /\ tree \subseteq before
      /\ StackOK /\ GoneWithContents /\ before \ tree \subseteq F!Below(arg)
  BY <1>1, DeletingFacts
<1>3. /\ UNCHANGED <<fOp, arg, before, fNext, stack, dirs, fResult>>
      /\ tree' = tree \ {e}
      /\ e \in F!Contents(F!Last(stack)) /\ F!Resolve(e) \notin tree \cap F!Directories
  BY DEF F!RemoveEntry, F!IsDir
<1>4. e \in tree \cap F!Below(arg)
  BY <1>2, <1>3, StackIsAPath
<1>5. F!Below(arg)' = F!Below(arg)
  BY <1>3, BelowStays
<1>6. StackOK'
  <2>1. ASSUME NEW k \in 1..Len(stack) PROVE stack[k] # e /\ F!Resolve(stack[k]) # e
    <3>1. F!Resolve(stack[k]) \in tree \cap F!Directories
      BY <1>2 DEF StackOK
    <3>2. e \in F!Directories => F!Resolve(e) = e
      BY DEF F!Resolve, F!Directories
    <3> QED
      BY <1>3, <3>1, <3>2
  <2> QED
    BY <1>2, <1>3, <1>5, <2>1 DEF StackOK, F!Resolve, F!Directories
<1>7. GoneWithContents'
  <2>1. ASSUME NEW m \in before, Parent[m] = F!Resolve(e) PROVE m \notin tree
    <3>1. /\ F!Resolve(e) \in before \cap F!Directories
          /\ F!Resolve(F!Resolve(e)) = F!Resolve(e)
      BY <1>2, <2>1, ParentIsDirectory
    <3>2. F!Resolve(e) \in before \ tree
      BY <1>3, <3>1
    <3> QED
      BY <1>2, <2>1, <3>1, <3>2 DEF GoneWithContents
  <2> QED
    BY <1>2, <1>3, <2>1 DEF GoneWithContents, F!Resolve
<1> QED
  BY <1>2, <1>3, <1>4, <1>5, <1>6, <1>7 DEF TreeInv, F!Running, TreeExact, F!TreeExact

\* With the outermost directory everything below it has gone.
LEMMA RemoveDirKeepsTree == TreeInv /\ F!RemoveDir => TreeInv'
<1> SUFFICES ASSUME TreeInv, F!RemoveDir PROVE TreeInv'
  OBVIOUS
<1> DEFINE top == F!Last(stack)
<1>1. F!Deleting
  BY DEF F!RemoveDir
<1>2. /\ fOp = "DeleteDir" /\ fResult = "running" /\ fNext = 1
      /\ before \in F!Trees /\ before \subseteq Nodes /\ tree \subseteq before
      /\ StackOK /\ GoneWithContents /\ before \ tree \subseteq F!Below(arg)
      /\ arg \in before
  BY <1>1, DeletingFacts
<1>3. /\ UNCHANGED <<fOp, arg, before, fNext>>
      /\ tree' = tree \ {top} /\ F!Contents(top) = {}
      /\ dirs' = dirs \ {top} /\ stack' = F!Front(stack)
      /\ fResult' = IF Len(stack) = 1 THEN "OK" ELSE fResult
  BY DEF F!RemoveDir, F!Return
<1>4. /\ Len(stack) \in Nat \ {0} /\ top = stack[Len(stack)] /\ top \in tree
      /\ \A k \in 1..(Len(stack) - 1) : top # stack[k] /\ top # F!Resolve(stack[k])
  BY <1>2, <1>3, StackIsAPath
<1>5. F!Below(arg)' = F!Below(arg)
  BY <1>3, BelowStays
<1>6. GoneWithContents'
  <2>1. ASSUME NEW m \in before, Parent[m] = F!Resolve(top) PROVE m \notin tree
    BY <1>3, <2>1 DEF F!Contents
  <2> QED
    BY <1>2, <1>3, <2>1 DEF GoneWithContents, F!Resolve
<1>7. tree' \subseteq before' /\ before' \ tree' \subseteq F!Below(arg)'
  <2>1. top \in F!Below(arg)
    BY <1>2, <1>4 DEF StackOK
  <2> QED
    BY <1>2, <1>3, <1>5, <2>1
<1>8. CASE Len(stack) = 1
  <2>1. top = arg /\ fResult' = "OK"
    BY <1>2, <1>3, <1>4, <1>8 DEF StackOK
  <2>2. F!Closed(before \ tree')
    BY <1>3, <1>6 DEF F!Closed, GoneWithContents, F!Resolve
  <2>3. F!Below(arg) \subseteq before \ tree'
    BY <1>2, <1>3, <2>1, <2>2, BelowIsLeast
  <2>4. dirs' = {}
    <3>1. ASSUME NEW d \in dirs PROVE d = arg
      <4>1. PICK k \in 1..Len(stack) : stack[k] = d
        BY <1>2 DEF StackOK
      <4>2. k = 1
        BY <1>8, <4>1
      <4> QED
        BY <1>2, <4>1, <4>2 DEF StackOK
    <3> QED
      BY <1>3, <2>1, <3>1
  <2> QED
    BY <1>2, <1>3, <1>5, <1>6, <1>7, <2>1, <2>3, <2>4
       DEF TreeInv, F!Running, TreeExact, F!TreeExact
<1>9. CASE Len(stack) # 1
  <2>1. /\ stack' \in Seq(Nodes) /\ Len(stack') = Len(stack) - 1 /\ stack' # <<>>
        /\ \A k \in 1..(Len(stack) - 1) : stack'[k] = stack[k] /\ k \in 1..Len(stack)
    <3>0. stack \in Seq(Nodes)
      BY <1>2 DEF StackOK
    <3>1. Len(stack) \in Nat /\ Len(stack) > 1
      <4>1. Len(stack) # 1
        BY <1>9
      <4>2. Len(stack) \in Nat
        BY <1>4
      <4>3. Len(stack) # 0
        BY <1>4
      <4>4. Len(stack) > 1
        BY ONLY <4>1, <4>2, <4>3, SMTT(30)
      <4> QED
        BY ONLY <4>4, <4>2
    <3>2. stack' = SubSeq(stack, 1, Len(stack) - 1)
      BY <1>3 DEF F!Front
    <3>3. stack' \in Seq(Nodes) /\ Len(stack') = Len(stack) - 1
      BY <3>0, <3>1, <3>2
    <3>4. stack' # <<>>
      BY <3>0, <3>1, <3>3
    <3>5. \A k \in 1..(Len(stack) - 1) : stack'[k] = stack[k] /\ k \in 1..Len(stack)
      BY <3>0, <3>1, <3>2
    <3> QED
      BY <3>3, <3>4, <3>5
  <2>2. stack'[1] = arg'
    <3>1. 1 \in 1..(Len(stack) - 1)
      BY <1>4, <1>9
    <3> QED
      BY <1>2, <1>3, <2>1, <3>1 DEF StackOK
  <2>3. ASSUME NEW k \in 1..Len(stack')
        PROVE  /\ stack'[k] \in tree' \cap F!Below(arg)
               /\ F!Resolve(stack'[k]) \in tree' \cap F!Directories
    BY <1>2, <1>3, <1>4, <2>1 DEF StackOK
  <2>4. ASSUME NEW k \in 1..(Len(stack') - 1)
        PROVE  Parent[stack'[k + 1]] = F!Resolve(stack'[k])
    <3>1. k \in 1..(Len(stack) - 1) /\ k + 1 \in 1..(Len(stack) - 1)
      BY <1>4, <2>1
    <3> QED
      BY <1>2, <2>1, <3>1 DEF StackOK
  <2>5. ASSUME NEW d \in dirs' PROVE \E k \in 1..Len(stack') : stack'[k] = d
    <3>1. PICK k \in 1..Len(stack) : stack[k] = d
      BY <1>2, <1>3 DEF StackOK
    <3>2. k # Len(stack)
      BY <1>3, <1>4, <3>1
    <3>3. k \in 1..Len(stack')
      BY <1>4, <2>1, <3>1, <3>2
    <3> QED
      BY <2>1, <3>1, <3>3
  <2>6. StackOK'
    BY <1>3, <1>5, <2>1, <2>2, <2>3, <2>4, <2>5 DEF StackOK, F!Resolve, F!Directories
  <2> QED
    BY <1>2, <1>3, <1>5, <1>6, <1>7, <1>9, <2>6
       DEF TreeInv, F!Running, TreeExact, F!TreeExact
<1> QED
  BY <1>8, <1>9

LEMMA DeleteFailsKeepsTree == TreeInv /\ F!DeleteFails => TreeInv'
<1> SUFFICES ASSUME TreeInv, F!DeleteFails PROVE TreeInv'
  OBVIOUS
<1>1. F!Deleting
  BY DEF F!DeleteFails
<1>2. /\ fOp = "DeleteDir" /\ before \in F!Trees /\ tree \subseteq before /\ GoneWithContents
      /\ before \ tree \subseteq F!Below(arg) /\ arg \in tree
  BY <1>1, DeletingFacts
<1>3. UNCHANGED <<fOp, arg, tree, before, fNext>> /\ fResult' = "failed"
  BY DEF F!DeleteFails, F!Return
<1>4. F!Below(arg)' = F!Below(arg)
  BY <1>3, BelowStays
<1> QED
  BY <1>2, <1>3, <1>4
     DEF TreeInv, GoneWithContents, F!Running, F!Resolve, TreeExact, F!TreeExact

LEMMA TreeNext == TreeInv /\ [F!Next]_files => TreeInv'
<1> SUFFICES ASSUME TreeInv, [F!Next]_files PROVE TreeInv'
  OBVIOUS
<1>1. ASSUME NEW n \in Nodes, NEW t \in F!Trees,
             NEW c \in {"MakeDir", "DeleteDir", "DirExist"}, F!Begin(c, n, t)
      PROVE  TreeInv'
  BY <1>1, BeginKeepsTree
<1>2. CASE F!DoMakeDir
  BY <1>2, DoMakeDirKeepsTree
<1>3. CASE F!MakeDirFails
  BY <1>3, MakeDirFailsKeepsTree
<1>4. CASE F!RemoveDir
  BY <1>4, RemoveDirKeepsTree
<1>5. CASE F!DeleteFails
  BY <1>5, DeleteFailsKeepsTree
<1>6. CASE F!Finish
  BY <1>6 DEF F!Finish, TreeInv, F!Init, F!Trees, F!Running, TreeExact, F!TreeExact
<1>7. ASSUME NEW e \in Nodes, F!EnterDir(e) PROVE TreeInv'
  BY <1>7, EnterDirKeepsTree
<1>8. ASSUME NEW e \in Nodes, F!RemoveEntry(e) PROVE TreeInv'
  BY <1>8, RemoveEntryKeepsTree
<1>9. CASE UNCHANGED files
  BY <1>9
     DEF files, TreeInv, F!Init, F!Running, PathOK, StackOK, GoneWithContents, F!Below,
         F!Closed, F!Resolve, F!Directories, TreeExact, F!TreeExact, F!Trees
<1> QED
  BY <1>1, <1>2, <1>3, <1>4, <1>5, <1>6, <1>7, <1>8, <1>9 DEF F!Next

-----------------------------------------------------------------------------
(***************************************************************************)
(* Timers.                                                                 *)
(***************************************************************************)

LEMMA TimesAssumption == {MILLI, INT_MAX} \subseteq Nat \ {0}
BY CallsAssumption DEF CallsAssumption, M!TimersAssumption

LEMMA Quotient ==
    ASSUME NEW n \in Nat
    PROVE  /\ n \div MILLI \in Nat
           /\ MILLI * (n \div MILLI) <= n /\ n < MILLI * (n \div MILLI) + MILLI
BY TimesAssumption

LEMMA ProductOrder ==
    ASSUME NEW n \in Nat, NEW m \in Nat
    PROVE  n <= m <=> n * MILLI <= m * MILLI
BY TimesAssumption

Lasts(ms, referenceTime, timeoutTime) ==
    /\ referenceTime + ms * MILLI >= timeoutTime
    /\ ms > 0 => referenceTime + (ms - 1) * MILLI < timeoutTime

LEMMA LeastIsOne ==
    ASSUME NEW referenceTime \in Nat, NEW timeoutTime \in Nat,
           NEW ms \in Nat, Lasts(ms, referenceTime, timeoutTime)
    PROVE  M!LeastDelay(referenceTime, timeoutTime) = ms
<1> DEFINE range == 0..(timeoutTime \div MILLI + 1)
<1>1. timeoutTime \div MILLI \in Nat
  BY Quotient
<1>2. ms \in range
  <2>1. CASE ms = 0
    BY <1>1, <2>1
  <2>2. CASE ms # 0
    <3>1. ms - 1 \in Nat
      BY <2>2
    <3>2. (ms - 1) * MILLI < timeoutTime
      BY <2>2, <3>1, TimesAssumption DEF Lasts
    <3>3. /\ timeoutTime \div MILLI + 1 \in Nat
          /\ timeoutTime < (timeoutTime \div MILLI + 1) * MILLI
      <4>1. timeoutTime < MILLI * (timeoutTime \div MILLI) + MILLI
        BY Quotient
      <4> QED
        BY <1>1, <4>1, TimesAssumption
    <3>4. ~(timeoutTime \div MILLI + 1 <= ms - 1)
      BY <3>1, <3>2, <3>3, TimesAssumption, ProductOrder
    <3> QED
      BY <1>1, <3>1, <3>4
  <2> QED
    BY <2>1, <2>2
<1>3. ASSUME NEW n \in Nat, NEW m \in Nat, n < m,
             Lasts(n, referenceTime, timeoutTime), Lasts(m, referenceTime, timeoutTime)
      PROVE  FALSE
  <2>1. m - 1 \in Nat /\ n <= m - 1 /\ m > 0
    BY <1>3
  <2>2. n * MILLI <= (m - 1) * MILLI
    BY <2>1, TimesAssumption, ProductOrder
  <2> QED
    BY <1>3, <2>1, <2>2, TimesAssumption DEF Lasts
<1>4. ASSUME NEW n \in range, Lasts(n, referenceTime, timeoutTime) PROVE n = ms
  <2>1. n \in Nat
    BY <1>1
  <2> QED
    BY <1>3, <1>4, <2>1
<1>5. M!LeastDelay(referenceTime, timeoutTime)
         = CHOOSE n \in range : Lasts(n, referenceTime, timeoutTime)
  BY DEF M!LeastDelay, Lasts
<1> QED
  BY <1>2, <1>4, <1>5

\* For every two times M!toMillisecondTimeoutDelay answers the least number of
\* milliseconds that lasts until the timeout, or -1 where that is more than INT_MAX.
THEOREM DelayIsLeast ==
    ASSUME NEW referenceTime \in Nat, NEW timeoutTime \in Nat
    PROVE  M!IsDelay(M!toMillisecondTimeoutDelay(referenceTime, timeoutTime),
                   referenceTime, timeoutTime)
<1> DEFINE delay == timeoutTime - referenceTime
           ms    == (delay + MILLI - 1) \div MILLI
<1>1. CASE delay <= 0
  <2>1. Lasts(0, referenceTime, timeoutTime)
    BY <1>1, TimesAssumption DEF Lasts
  <2>2. M!LeastDelay(referenceTime, timeoutTime) = 0
    BY <2>1, LeastIsOne
  <2> QED
    BY <1>1, <2>2, TimesAssumption DEF M!IsDelay, M!toMillisecondTimeoutDelay
<1>2. CASE delay > 0
  <2>1. delay \in Nat /\ delay + MILLI - 1 \in Nat /\ delay > 0
    BY <1>2, TimesAssumption
  <2>2. /\ ms \in Nat
        /\ MILLI * ms <= delay + MILLI - 1 /\ delay + MILLI - 1 < MILLI * ms + MILLI
    BY <2>1, Quotient
  <2>3. ms * MILLI >= delay /\ ms > 0 /\ (ms - 1) * MILLI < delay
    BY <2>1, <2>2, TimesAssumption
  <2>4. Lasts(ms, referenceTime, timeoutTime)
    BY <2>2, <2>3, TimesAssumption DEF Lasts
  <2>5. M!LeastDelay(referenceTime, timeoutTime) = ms
    BY <2>2, <2>4, LeastIsOne
  <2>6. delay > (INT_MAX - 1) * MILLI <=> ms >= INT_MAX
    <3>1. INT_MAX \in Nat /\ INT_MAX - 1 \in Nat /\ ms - 1 \in Nat
      BY <2>2, <2>3, TimesAssumption
    <3>2. ms <= INT_MAX - 1 => ms * MILLI <= (INT_MAX - 1) * MILLI
      BY <2>2, <3>1, TimesAssumption, ProductOrder
    <3>3. INT_MAX - 1 <= ms - 1 => (INT_MAX - 1) * MILLI <= (ms - 1) * MILLI
      BY <3>1, TimesAssumption, ProductOrder
    <3> QED
      BY <2>1, <2>2, <2>3, <3>1, <3>2, <3>3, TimesAssumption
  <2> QED
    BY <1>2, <2>2, <2>5, <2>6, TimesAssumption DEF M!IsDelay, M!toMillisecondTimeoutDelay
<1> QED
  BY <1>1, <1>2, TimesAssumption

-----------------------------------------------------------------------------
\* A set of numbers that is not empty has a least one: the intervals that begin
\* with 1 are finite, and finite sets are well-founded by inclusion.
LEMMA LeastNumber ==
    ASSUME NEW numbers \in SUBSET Nat, numbers # {}
    PROVE  \E n \in numbers : \A m \in numbers : n <= m
<1> DEFINE intervals == {1..n : n \in numbers}
           R         == StrictSubsetOrdering(Nat)
           U         == FiniteSubsetsOf(Nat)
<1>1. intervals \subseteq U /\ intervals # {}
  <2>1. ASSUME NEW n \in numbers PROVE (1..n) \in U
    BY FS_Interval DEF FiniteSubsetsOf
  <2> QED
    BY <2>1
<1>2. \E x \in intervals : \A y \in intervals : ~(<<y, x>> \in R)
  <2>1. IsWellFoundedOn(R, U)
    BY FS_StrictSubsetOrderingWellFounded
  <2> HIDE DEF R, U, intervals
  <2> QED
    BY <1>1, <2>1, WFMin
<1>3. PICK n \in numbers : \A m \in numbers : ~(<<1..m, 1..n>> \in R)
  BY <1>2
<1>4. ASSUME NEW m \in numbers, m < n PROVE FALSE
  <2>1. /\ (1..m) \subseteq (1..n) /\ n \in 1..n /\ n \notin 1..m
        /\ (1..m) \in SUBSET Nat /\ (1..n) \in SUBSET Nat
    BY <1>4
  <2>2. <<1..m, 1..n>> \in R
    BY <2>1 DEF StrictSubsetOrdering
  <2> QED
    BY <1>3, <2>2
<1> QED
  BY <1>4

\* Induction, for sets of numbers.
LEMMA NumbersFrom ==
    ASSUME NEW first \in Nat, NEW good, first \in good,
           \A n \in Nat : n >= first /\ n \in good => n + 1 \in good
    PROVE  \A n \in Nat : n >= first => n \in good
<1> DEFINE bad == {n \in Nat : n >= first /\ n \notin good}
<1> SUFFICES ASSUME bad # {} PROVE FALSE
  OBVIOUS
<1>1. PICK least \in bad : \A m \in bad : least <= m
  BY LeastNumber
<1>2. least - 1 \in Nat /\ least - 1 >= first /\ least - 1 \notin bad
  BY <1>1
<1> QED
  BY <1>1, <1>2

\* Timers has a Cardinality of its own, which is the same.
LEMMA SameCount == ASSUME NEW things PROVE M!Cardinality(things) = Cardinality(things)
BY DEF M!Cardinality, Cardinality

-----------------------------------------------------------------------------
(***************************************************************************)
(* The calendar: a leap year adds a day, and so do the quotients by which  *)
(* the code counts them; a month adds its days.                            *)
(***************************************************************************)

LeapsBefore(year) == {y \in 1970..(year - 1) : M!IsLeap(y)}

LeapDays(year) == year \div 4 - year \div 100 + year \div 400

LEMMA LeapDaysStep ==
    ASSUME NEW year \in Nat
    PROVE  LeapDays(year + 1) = LeapDays(year) + (IF M!IsLeap(year + 1) THEN 1 ELSE 0)
<1>1. (year + 1) \div 4 = year \div 4 + (IF (year + 1) % 4 = 0 THEN 1 ELSE 0)
  OBVIOUS
<1>2. (year + 1) \div 100 = year \div 100 + (IF (year + 1) % 100 = 0 THEN 1 ELSE 0)
  OBVIOUS
<1>3. (year + 1) \div 400 = year \div 400 + (IF (year + 1) % 400 = 0 THEN 1 ELSE 0)
  OBVIOUS
<1>4. (year + 1) % 400 = 0 => (year + 1) % 100 = 0
  OBVIOUS
<1>5. (year + 1) % 100 = 0 => (year + 1) % 4 = 0
  OBVIOUS
<1> QED
  BY <1>1, <1>2, <1>3, <1>4, <1>5 DEF LeapDays, M!IsLeap

LEMMA LeapsCounted ==
    ASSUME NEW year \in Nat, year >= 1970
    PROVE  Cardinality(LeapsBefore(year)) = LeapDays(year - 1) - 477
<1> DEFINE good == {y \in Nat : y >= 1970 /\ IsFiniteSet(LeapsBefore(y))
                                 /\ Cardinality(LeapsBefore(y)) = LeapDays(y - 1) - 477}
<1>1. 1970 \in good
  <2>1. LeapsBefore(1970) = {}
    BY DEF LeapsBefore
  <2>2. LeapDays(1970 - 1) = 477
    BY DEF LeapDays
  <2> QED
    BY <2>1, <2>2, FS_EmptySet
<1>2. ASSUME NEW y \in Nat, y >= 1970, y \in good PROVE y + 1 \in good
  <2>1. LeapsBefore(y + 1) = IF M!IsLeap(y) THEN LeapsBefore(y) \cup {y} ELSE LeapsBefore(y)
    BY <1>2 DEF LeapsBefore
  <2>2. y \notin LeapsBefore(y)
    BY DEF LeapsBefore
  <2>3. LeapDays(y) = LeapDays(y - 1) + (IF M!IsLeap(y) THEN 1 ELSE 0)
    <3>1. y - 1 \in Nat /\ (y - 1) + 1 = y
      BY <1>2
    <3> QED
      BY <3>1, LeapDaysStep
  <2>4. IsFiniteSet(LeapsBefore(y)) /\ Cardinality(LeapsBefore(y)) = LeapDays(y - 1) - 477
    BY <1>2
  <2>5. /\ IsFiniteSet(LeapsBefore(y) \cup {y})
        /\ Cardinality(LeapsBefore(y) \cup {y}) = Cardinality(LeapsBefore(y)) + 1
    BY <2>2, <2>4, FS_AddElement
  <2>6. LeapDays(y - 1) \in Int /\ (y + 1) - 1 = y
    BY <1>2 DEF LeapDays
  <2>7. CASE M!IsLeap(y)
    <3>1. LeapsBefore(y + 1) = LeapsBefore(y) \cup {y}
      BY <2>1, <2>7
    <3>2. Cardinality(LeapsBefore(y + 1)) = LeapDays((y + 1) - 1) - 477
      BY <2>3, <2>4, <2>5, <2>6, <2>7, <3>1
    <3> QED
      BY <1>2, <2>5, <3>1, <3>2
  <2>8. CASE ~M!IsLeap(y)
    BY <1>2, <2>1, <2>3, <2>4, <2>6, <2>8
  <2> QED
    BY <2>7, <2>8
<1> HIDE DEF good
<1>3. year \in good
  BY <1>1, <1>2, NumbersFrom
<1> QED
  BY <1>3 DEF good

MonthsBefore(year, mon) ==
    {date \in (1..(mon - 1)) \X (1..31) : date[2] <= M!DaysIn(year, date[1])}

LEMMA MonthStep ==
    ASSUME NEW year \in Nat, NEW mon \in 1..12, IsFiniteSet(MonthsBefore(year, mon))
    PROVE  /\ IsFiniteSet(MonthsBefore(year, mon + 1))
           /\ Cardinality(MonthsBefore(year, mon + 1))
                 = Cardinality(MonthsBefore(year, mon)) + M!DaysIn(year, mon)
<1> DEFINE n     == M!DaysIn(year, mon)
           month == {mon} \X (1..n)
<1>1. n \in 1..31
  BY DEF M!DaysIn
<1>2. MonthsBefore(year, mon + 1) = MonthsBefore(year, mon) \cup month
  <2>1. ASSUME NEW m, NEW d
        PROVE  <<m, d>> \in MonthsBefore(year, mon + 1)
                  <=> <<m, d>> \in MonthsBefore(year, mon) \cup month
    <3>1. m \in 1..((mon + 1) - 1) <=> m \in 1..(mon - 1) \/ m = mon
      OBVIOUS
    <3>2. m = mon /\ d \in 1..31 /\ d <= n <=> m = mon /\ d \in 1..n
      BY <1>1
    <3> QED
      BY <3>1, <3>2 DEF MonthsBefore
  <2>2. MonthsBefore(year, mon + 1) \subseteq Nat \X Nat
    BY DEF MonthsBefore
  <2>3. MonthsBefore(year, mon) \cup month \subseteq Nat \X Nat
    BY <1>1 DEF MonthsBefore
  <2> HIDE DEF month
  <2> QED
    BY <2>1, <2>2, <2>3
<1>3. MonthsBefore(year, mon) \cap month = {}
  BY DEF MonthsBefore
<1>4. IsFiniteSet(month) /\ Cardinality(month) = n
  <2>1. IsFiniteSet(1..n) /\ Cardinality(1..n) = n
    <3> HIDE DEF n
    <3>1. IsFiniteSet(1..n) /\ Cardinality(1..n) = IF 1 > n THEN 0 ELSE n - 1 + 1
      BY <1>1, FS_Interval
    <3> QED
      BY <1>1, <3>1
  <2>2. IsFiniteSet({mon}) /\ Cardinality({mon}) = 1
    BY FS_Singleton
  <2>3. IsFiniteSet(month) /\ Cardinality(month) = 1 * n
    <3> HIDE DEF n
    <3> QED
      BY <2>1, <2>2, FS_Product, ZenonT(30)
  <2> QED
    BY <1>1, <2>3
<1>5. /\ IsFiniteSet(MonthsBefore(year, mon) \cup month)
      /\ Cardinality(MonthsBefore(year, mon) \cup month)
           = Cardinality(MonthsBefore(year, mon)) + Cardinality(month) - Cardinality({})
  <2> HIDE DEF month
  <2> QED
    BY <1>3, <1>4, FS_Union
<1>6. Cardinality(MonthsBefore(year, mon)) \in Nat
  BY FS_CardinalityType
<1> HIDE DEF n, month
<1>7. Cardinality(MonthsBefore(year, mon)) + n - 0 = Cardinality(MonthsBefore(year, mon)) + n
  BY <1>1, <1>6
<1> QED
  BY <1>2, <1>4, <1>5, <1>7, FS_EmptySet DEF n

LEMMA MonthsCounted ==
    ASSUME NEW year \in Nat, NEW mon \in 1..12
    PROVE  Cardinality(MonthsBefore(year, mon)) =
              IF mon <= 2 THEN 31 * (mon - 1)
              ELSE (367 * (mon - 2)) \div 12 + 29 + (IF M!IsLeap(year) THEN 1 ELSE 0)
<1> DEFINE leap   == IF M!IsLeap(year) THEN 1 ELSE 0
           C(m)   == Cardinality(MonthsBefore(year, m))
           Is(m, n) == IsFiniteSet(MonthsBefore(year, m)) /\ C(m) = n
<1>1. Is(1, 0)
  <2>1. MonthsBefore(year, 1) = {}
    BY DEF MonthsBefore
  <2> QED
    BY <2>1, FS_EmptySet
<1>2. ASSUME NEW m \in 1..11, NEW n \in Nat, Is(m, n) PROVE Is(m + 1, n + M!DaysIn(year, m))
  BY <1>2, MonthStep
<1>3. leap \in 0..1 /\ leap \in Nat
  OBVIOUS
<1>4. /\ M!DaysIn(year, 1) = 31 /\ M!DaysIn(year, 2) = 28 + leap /\ M!DaysIn(year, 3) = 31
      /\ M!DaysIn(year, 4) = 30 /\ M!DaysIn(year, 5) = 31 /\ M!DaysIn(year, 6) = 30
      /\ M!DaysIn(year, 7) = 31 /\ M!DaysIn(year, 8) = 31 /\ M!DaysIn(year, 9) = 30
      /\ M!DaysIn(year, 10) = 31 /\ M!DaysIn(year, 11) = 30
  BY DEF M!DaysIn
<1> HIDE DEF leap, Is
<1>5. Is(2, 31)
  BY <1>1, <1>2, <1>4
<1>6. Is(3, 59 + leap)
  BY <1>2, <1>3, <1>4, <1>5
<1>7. Is(4, 90 + leap)
  BY <1>2, <1>3, <1>4, <1>6
<1>8. Is(5, 120 + leap)
  BY <1>2, <1>3, <1>4, <1>7
<1>9. Is(6, 151 + leap)
  BY <1>2, <1>3, <1>4, <1>8
<1>10. Is(7, 181 + leap)
  BY <1>2, <1>3, <1>4, <1>9
<1>11. Is(8, 212 + leap)
  BY <1>2, <1>3, <1>4, <1>10
<1>12. Is(9, 243 + leap)
  BY <1>2, <1>3, <1>4, <1>11
<1>13. Is(10, 273 + leap)
  BY <1>2, <1>3, <1>4, <1>12
<1>14. Is(11, 304 + leap)
  BY <1>2, <1>3, <1>4, <1>13
<1>15. Is(12, 334 + leap)
  BY <1>2, <1>3, <1>4, <1>14
<1> QED
  BY <1>1, <1>3, <1>5, <1>6, <1>7, <1>8, <1>9, <1>10, <1>11, <1>12, <1>13, <1>14, <1>15
     DEF Is, leap

\* The days that systemMaketime counts, in years that begin in March, are those
\* of the calendar, for every date from 1970 on.
THEOREM DaysAreTheCalendars ==
    ASSUME NEW year \in Nat, year >= 1970, NEW mon \in 1..12, NEW day \in Nat
    PROVE  M!DaysSinceEpoch(year, mon, day) = M!CalendarDays(year, mon, day)
<1> DEFINE leap == IF M!IsLeap(year) THEN 1 ELSE 0
<1>1. M!CalendarDays(year, mon, day)
        = 365 * (year - 1970) + Cardinality(LeapsBefore(year))
            + Cardinality(MonthsBefore(year, mon)) + day - 1
  BY SameCount DEF M!CalendarDays, LeapsBefore, MonthsBefore
<1>2. Cardinality(LeapsBefore(year)) = LeapDays(year - 1) - 477
  BY LeapsCounted
<1>3. LeapDays(year) = LeapDays(year - 1) + leap
  <2>1. year - 1 \in Nat /\ (year - 1) + 1 = year
    OBVIOUS
  <2> QED
    BY <2>1, LeapDaysStep
<1>4. LeapDays(year) \in Int /\ LeapDays(year - 1) \in Int /\ leap \in 0..1
  BY DEF LeapDays
<1>5. CASE mon <= 2
  <2>1. M!DaysSinceEpoch(year, mon, day)
          = LeapDays(year - 1) + (367 * (mon + 10)) \div 12 + day + (year - 1) * 365 - 719499
    BY <1>5 DEF M!DaysSinceEpoch, LeapDays
  <2>2. Cardinality(MonthsBefore(year, mon)) = 31 * (mon - 1)
    BY <1>5, MonthsCounted
  <2>3. (367 * (mon + 10)) \div 12 = 336 + 31 * (mon - 1)
    BY <1>5
  <2> QED
    BY <1>1, <1>2, <1>4, <2>1, <2>2, <2>3
<1>6. CASE mon > 2
  <2>1. M!DaysSinceEpoch(year, mon, day)
          = LeapDays(year) + (367 * (mon - 2)) \div 12 + day + year * 365 - 719499
    BY <1>6 DEF M!DaysSinceEpoch, LeapDays
  <2>2. Cardinality(MonthsBefore(year, mon)) = (367 * (mon - 2)) \div 12 + 29 + leap
    BY <1>6, MonthsCounted
  <2>3. (367 * (mon - 2)) \div 12 \in Int
    BY <1>6
  <2> HIDE DEF leap
  <2> QED
    BY <1>1, <1>2, <1>3, <1>4, <2>1, <2>2, <2>3
<1> QED
  BY <1>5, <1>6

LEMMA TimesInit == M!Init => TimesExact
BY DEF M!Init, M!Nothing, TimesExact, M!TimesExact

LEMMA TimesNext == TimesExact /\ [M!Next]_times => TimesExact'
<1> SUFFICES ASSUME TimesExact, [M!Next]_times PROVE TimesExact'
  OBVIOUS
<1>1. ASSUME NEW now \in Instants, NEW later \in Instants, M!AskDelay(now, later)
      PROVE  TimesExact'
  <2>1. now \in Nat /\ later \in Nat
    BY CallsAssumption DEF CallsAssumption, M!TimersAssumption
  <2>2. M!IsDelay(M!toMillisecondTimeoutDelay(now, later), now, later)
    BY <2>1, DelayIsLeast
  <2> QED
    BY <1>1, <2>2 DEF M!AskDelay, TimesExact, M!TimesExact
<1>2. ASSUME NEW year \in Years, NEW mon \in 1..12, NEW day \in {1, 28, 29, 30, 31},
             M!AskDays(year, mon, day)
      PROVE  TimesExact'
  <2>1. year \in Nat /\ year >= 1970 /\ day \in Nat
    BY CallsAssumption DEF CallsAssumption, M!TimersAssumption
  <2>2. M!DaysSinceEpoch(year, mon, day) = M!CalendarDays(year, mon, day)
    BY <2>1, DaysAreTheCalendars
  <2> QED
    BY <1>2, <2>2 DEF M!AskDays, TimesExact, M!TimesExact
<1>3. CASE M!Forget
  BY <1>3 DEF M!Forget, M!Nothing, TimesExact, M!TimesExact
<1>4. CASE UNCHANGED times
  BY <1>4 DEF times, TimesExact, M!TimesExact
<1> QED
  BY <1>1, <1>2, <1>3, <1>4 DEF M!Next

-----------------------------------------------------------------------------
(***************************************************************************)
(* Strings: parts of them, occurrences of a pattern, pieces glued          *)
(* together, and what Replace, Split and Clean have done so far.           *)
(***************************************************************************)

LEMMA SubStrOf ==
    ASSUME NEW A, NEW str \in Seq(A), NEW first \in 0..Len(str), NEW n \in Nat
    PROVE  /\ SubStr(str, first, n) \in Seq(A)
           /\ Len(SubStr(str, first, n)) = Least(n, Len(str) - first)
           /\ Len(SubStr(str, first, n)) \in Nat
           /\ \A i \in 1..Len(SubStr(str, first, n)) : SubStr(str, first, n)[i] = str[first + i]
<1> DEFINE m == Least(n, Len(str) - first)
<1>1. Len(str) \in Nat /\ m \in 0..(Len(str) - first)
  BY LenProperties DEF Least
<1>2. \A i \in (first + 1)..(first + m) : str[i] \in A
  BY <1>1, ElementOfSeq
<1>3. SubStr(str, first, n) = SubSeq(str, first + 1, first + m)
  BY DEF SubStr
<1> HIDE DEF m
<1>4. /\ first + 1 \in Int /\ first + m \in Int
      /\ (first + m) - (first + 1) + 1 = m
      /\ ~(first + 1 <= first + m) => m = 0
  BY <1>1
<1>5. /\ SubSeq(str, first + 1, first + m) \in Seq(A)
      /\ Len(SubSeq(str, first + 1, first + m)) = m
      /\ \A i \in 1..m : SubSeq(str, first + 1, first + m)[i] = str[first + 1 + i - 1]
  BY <1>2, <1>4, SubSeqProperties
<1>6. \A i \in 1..m : first + 1 + i - 1 = first + i
  BY <1>1
<1>7. SubStr(str, first, n) = SubSeq(str, first + 1, first + m) /\ m = Least(n, Len(str) - first)
  BY <1>3 DEF m
<1>8. m \in Nat
  BY <1>1
<1> QED
  BY <1>5, <1>6, <1>7, <1>8

LEMMA FindIn ==
    ASSUME NEW A, NEW str \in Seq(A), NEW pat \in Seq(A), NEW from \in Nat, Len(str) < NPOS
    PROVE  /\ Find(str, pat, from) = NPOS =>
                 \A i \in from..(Len(str) - Len(pat)) : ~Occurs(str, pat, i)
           /\ Find(str, pat, from) # NPOS =>
                 /\ Find(str, pat, from) \in from..(Len(str) - Len(pat))
                 /\ Occurs(str, pat, Find(str, pat, from))
                 /\ \A i \in from..(Find(str, pat, from) - 1) : ~Occurs(str, pat, i)
           /\ Find(str, pat, from) \in Nat
<1> DEFINE at == {i \in from..(Len(str) - Len(pat)) : Occurs(str, pat, i)}
<1>0. Len(str) \in Nat /\ Len(pat) \in Nat /\ NPOS \in Nat
  BY LenProperties, StringUtilsAssumption DEF StringUtilsAssumption
<1>1. CASE at = {}
  <2>1. Find(str, pat, from) = NPOS
    BY <1>1 DEF Find
  <2> QED
    BY <1>0, <1>1, <2>1
<1>2. CASE at # {}
  <2>1. at \in SUBSET Nat
    BY <1>0
  <2>2. \E i \in at : \A j \in at : i <= j
    BY <1>2, <2>1, LeastNumber
  <2>3. Find(str, pat, from) = CHOOSE i \in at : \A j \in at : i <= j
    BY <1>2 DEF Find
  <2> DEFINE f == Find(str, pat, from)
  <2>4. f \in at /\ \A j \in at : f <= j
    BY <2>2, <2>3
  <2> HIDE DEF f
  <2>5. f \in from..(Len(str) - Len(pat)) /\ Occurs(str, pat, f) /\ f \in Nat
    BY <1>0, <2>4
  <2>6. ASSUME NEW i \in from..(f - 1) PROVE ~Occurs(str, pat, i)
    <3>1. i \in from..(Len(str) - Len(pat))
      BY <1>0, <2>5
    <3> QED
      BY <1>0, <2>4, <2>5, <3>1
  <2>7. f # NPOS
    BY <1>0, <2>5
  <2> QED
    BY <2>5, <2>6, <2>7 DEF f
<1> QED
  BY <1>1, <1>2

\* The characters of s between two places.
Part(s, m, n) == SubSeq(s, m + 1, n)

\* \o and Append, under names that the provers leave folded.
Cat(s, t) == s \o t
Add(s, x) == Append(s, x)

LEMMA CatOf ==
    ASSUME NEW A, NEW s \in Seq(A), NEW t \in Seq(A)
    PROVE  /\ Cat(s, t) \in Seq(A)
           /\ Len(Cat(s, t)) = Len(s) + Len(t)
           /\ \A i \in 1..(Len(s) + Len(t)) :
                 Cat(s, t)[i] = IF i <= Len(s) THEN s[i] ELSE t[i - Len(s)]
BY ConcatProperties DEF Cat

LEMMA CatAssociative ==
    ASSUME NEW A, NEW s \in Seq(A), NEW t \in Seq(A), NEW u \in Seq(A)
    PROVE  Cat(Cat(s, t), u) = Cat(s, Cat(t, u))
BY ConcatAssociative DEF Cat

LEMMA AddOf ==
    ASSUME NEW A, NEW s \in Seq(A), NEW x \in A
    PROVE  /\ Add(s, x) \in Seq(A) /\ Len(Add(s, x)) = Len(s) + 1
           /\ \A i \in 1..Len(s) : Add(s, x)[i] = s[i]
           /\ Add(s, x)[Len(s) + 1] = x
BY AppendProperties DEF Add

LEMMA OccursInWindow ==
    ASSUME NEW A, NEW str \in Seq(A), NEW pat \in Seq(A), NEW window \in Seq(A), NEW from \in Nat,
           \A k \in 1..Len(window) : window[k] = str[from + k],
           NEW i \in 0..(Len(window) - Len(pat))
    PROVE  Occurs(window, pat, i) <=> Occurs(str, pat, from + i)
<1>1. Len(window) \in Nat /\ Len(pat) \in Nat
  BY LenProperties
<1>2. ASSUME NEW k \in 1..Len(pat) PROVE window[i + k] = str[from + i + k]
  <2>1. i + k \in 1..Len(window) /\ from + (i + k) = from + i + k
    BY <1>1
  <2> QED
    BY <2>1
<1> QED
  BY <1>2 DEF Occurs

LEMMA PieceFound ==
    ASSUME NEW A, NEW str \in Seq(A), NEW pat \in Seq(A), Len(str) < NPOS,
           NEW from \in 0..Len(str), NEW index \in from..(Len(str) - Len(pat)),
           Occurs(str, pat, index), \A i \in from..(index - 1) : ~Occurs(str, pat, i)
    PROVE  LET piece == SubStr(str, from, index - from)
           IN  /\ piece \in Seq(A) /\ Len(piece) = index - from
               /\ Cat(piece, pat) = Part(str, from, index + Len(pat))
               /\ Find(Cat(piece, pat), pat, 0) = Len(piece)
<1> DEFINE piece  == SubStr(str, from, index - from)
           window == Cat(piece, pat)
<1>1. /\ Len(str) \in Nat /\ Len(pat) \in Nat /\ index - from \in Nat /\ NPOS \in Nat
      /\ Least(index - from, Len(str) - from) = index - from
  <2>1. Len(str) \in Nat /\ Len(pat) \in Nat
    BY LenProperties
  <2>2. NPOS \in Nat
    BY StringUtilsAssumption DEF StringUtilsAssumption
  <2> QED
    BY <2>1, <2>2 DEF Least
<1>2. /\ piece \in Seq(A) /\ Len(piece) = index - from
      /\ \A i \in 1..Len(piece) : piece[i] = str[from + i]
  BY <1>1, SubStrOf, ZenonT(30)
<1> HIDE DEF piece
<1>3. /\ window \in Seq(A) /\ Len(window) = Len(piece) + Len(pat)
      /\ \A k \in 1..(Len(piece) + Len(pat)) :
            window[k] = IF k <= Len(piece) THEN piece[k] ELSE pat[k - Len(piece)]
  BY <1>2, CatOf
<1> HIDE DEF window
<1>4. ASSUME NEW k \in 1..Len(window) PROVE window[k] = str[from + k]
  <2>0. k \in 1..(Len(piece) + Len(pat)) /\ Len(piece) \in Nat
    BY <1>1, <1>2, <1>3
  <2>1. CASE k <= Len(piece)
    <3>1. k \in 1..Len(piece)
      BY <2>0, <2>1
    <3> QED
      BY <1>2, <1>3, <2>0, <2>1, <3>1
  <2>2. CASE k > Len(piece)
    <3>1. k - Len(piece) \in 1..Len(pat) /\ index + (k - Len(piece)) = from + k
      BY <1>1, <1>2, <2>0, <2>2
    <3>2. str[index + (k - Len(piece))] = pat[k - Len(piece)]
      BY <3>1 DEF Occurs
    <3>3. window[k] = pat[k - Len(piece)]
      BY <1>3, <2>0, <2>2
    <3> QED
      BY <3>1, <3>2, <3>3
  <2> QED
    BY <2>0, <2>1, <2>2
<1>5. window = SubSeq(str, from + 1, index + Len(pat))
  <2> DEFINE sub == SubSeq(str, from + 1, index + Len(pat))
  <2>1. \A i \in (from + 1)..(index + Len(pat)) : str[i] \in A
    BY <1>1, ElementOfSeq
  <2>2. /\ sub \in Seq(A) 
        /\ Len(sub) = IF from + 1 <= index + Len(pat) THEN (index + Len(pat)) - (from + 1) + 1 ELSE 0
        /\ \A i \in 1..((index + Len(pat)) - (from + 1) + 1) : sub[i] = str[from + 1 + i - 1]
    BY <1>1, <2>1, SubSeqProperties
  <2> HIDE DEF sub
  <2>3. Len(sub) = Len(window)
    BY <1>1, <1>2, <1>3, <2>2
  <2>4. ASSUME NEW i \in 1..Len(window) PROVE window[i] = sub[i]
    <3>1. i \in 1..((index + Len(pat)) - (from + 1) + 1) /\ from + 1 + i - 1 = from + i
      BY <1>1, <1>2, <1>3
    <3> QED
      BY <1>4, <2>2, <3>1
  <2>5. window = sub
    BY <1>3, <2>2, <2>3, <2>4, SeqEqual
  <2> QED
    BY <2>5 DEF sub
<1>6. Find(window, pat, 0) = Len(piece)
  <2>1. Len(window) < NPOS /\ Len(window) - Len(pat) = Len(piece) /\ Len(piece) \in Nat
    BY <1>1, <1>2, <1>3
  <2>2. ASSUME NEW i \in 0..Len(piece) PROVE Occurs(window, pat, i) <=> i = Len(piece)
    <3>1. Occurs(window, pat, i) <=> Occurs(str, pat, from + i)
      <4>1. i \in 0..(Len(window) - Len(pat)) /\ from \in Nat
        BY <1>1, <2>1
      <4> QED
        BY <1>3, <1>4, <4>1, OccursInWindow
    <3>2. i = Len(piece) => from + i = index
      BY <1>1, <1>2
    <3>3. i # Len(piece) => from + i \in from..(index - 1)
      BY <1>1, <1>2
    <3> QED
      BY <3>1, <3>2, <3>3
  <2> DEFINE f == Find(window, pat, 0)
  <2>3. /\ f = NPOS => \A i \in 0..Len(piece) : ~Occurs(window, pat, i)
        /\ f # NPOS => f \in 0..Len(piece) /\ Occurs(window, pat, f)
    BY <1>3, <2>1, FindIn
  <2> HIDE DEF f
  <2>4. f = Len(piece)
    BY <2>1, <2>2, <2>3
  <2> QED
    BY <2>4 DEF f
<1> QED
  BY <1>2, <1>5, <1>6 DEF piece, window, Part

LEMMA RestHasNone ==
    ASSUME NEW A, NEW str \in Seq(A), NEW pat \in Seq(A), Len(str) < NPOS,
           NEW from \in 0..Len(str),
           \A i \in from..(Len(str) - Len(pat)) : ~Occurs(str, pat, i)
    PROVE  LET rest == SubStr(str, from, NPOS)
           IN  /\ rest \in Seq(A)
               /\ rest = Part(str, from, Len(str))
               /\ Find(rest, pat, 0) = NPOS
<1> DEFINE rest == SubStr(str, from, NPOS)
<1>1. /\ Len(str) \in Nat /\ Len(pat) \in Nat /\ NPOS \in Nat
      /\ Least(NPOS, Len(str) - from) = Len(str) - from
  BY LenProperties, StringUtilsAssumption DEF Least, StringUtilsAssumption
<1>2. /\ rest \in Seq(A) /\ Len(rest) = Len(str) - from
      /\ \A i \in 1..Len(rest) : rest[i] = str[from + i]
  BY <1>1, SubStrOf
<1>3. rest = SubSeq(str, from + 1, Len(str))
  BY <1>1 DEF SubStr
<1> HIDE DEF rest
<1>4. Find(rest, pat, 0) = NPOS
  <2> DEFINE f == Find(rest, pat, 0)
  <2>1. f # NPOS => f \in 0..(Len(rest) - Len(pat)) /\ Occurs(rest, pat, f)
    <3>1. Len(rest) < NPOS
      BY <1>1, <1>2
    <3> QED
      BY <1>2, <3>1, FindIn
  <2> HIDE DEF f
  <2>2. ASSUME f # NPOS PROVE FALSE
    <3>1. Occurs(str, pat, from + f)
      <4>1. from \in Nat /\ f \in 0..(Len(rest) - Len(pat)) /\ Occurs(rest, pat, f)
        BY <1>1, <2>1, <2>2
      <4> QED
        BY <1>2, <4>1, OccursInWindow
    <3>2. from + f \in from..(Len(str) - Len(pat))
      BY <1>1, <1>2, <2>1, <2>2
    <3> QED
      BY <3>1, <3>2
  <2> QED
    BY <2>2 DEF f
<1> QED
  BY <1>2, <1>3, <1>4 DEF rest, Part

\* What Glued computes step by step.
GluedTo(parts, glue) ==
    CHOOSE f : f = [k \in 0..Len(parts) |->
                      IF k = 0 THEN <<>> ELSE f[k - 1] \o parts[k] \o glue]

LEMMA GluedIs == ASSUME NEW parts, NEW glue PROVE Glued(parts, glue) = GluedTo(parts, glue)[Len(parts)]
BY DEF Glued, GluedTo

LEMMA GluedSteps ==
    ASSUME NEW A, NEW parts \in Seq(Seq(A)), NEW glue \in Seq(A)
    PROVE  /\ GluedTo(parts, glue)[0] = <<>>
           /\ \A k \in 1..Len(parts) :
                 GluedTo(parts, glue)[k] = GluedTo(parts, glue)[k - 1] \o parts[k] \o glue
           /\ \A k \in 0..Len(parts) : GluedTo(parts, glue)[k] \in Seq(A)
<1> DEFINE Def(f, n) == f = [k \in 0..n |-> IF k = 0 THEN <<>> ELSE f[k - 1] \o parts[k] \o glue]
           good == {n \in Nat : \E f : Def(f, n)}
           g    == GluedTo(parts, glue)
<1>0. Len(parts) \in Nat
  BY LenProperties
<1>1. 0 \in good
  <2>1. Def([k \in 0..0 |-> <<>>], 0)
    OBVIOUS
  <2> QED
    BY <2>1
<1>2. ASSUME NEW n \in Nat, n \in good PROVE n + 1 \in good
  <2>1. PICK f : Def(f, n)
    BY <1>2
  <2>2. \A k \in 0..n : f[k] = IF k = 0 THEN <<>> ELSE f[k - 1] \o parts[k] \o glue
    BY <2>1
  <2> DEFINE h == [k \in 0..(n + 1) |-> IF k <= n THEN f[k] ELSE f[n] \o parts[n + 1] \o glue]
  <2>3. \A k \in 0..n : h[k] = f[k]
    OBVIOUS
  <2>4. h[n + 1] = f[n] \o parts[n + 1] \o glue
    <3>1. n + 1 \in 0..(n + 1) /\ ~(n + 1 <= n)
      OBVIOUS
    <3> QED
      BY <3>1
  <2>5. h = [k \in 0..(n + 1) |-> h[k]]
    OBVIOUS
  <2> HIDE DEF h
  <2>6. ASSUME NEW k \in 0..(n + 1)
        PROVE  h[k] = IF k = 0 THEN <<>> ELSE h[k - 1] \o parts[k] \o glue
    <3>1. CASE k = 0
      <4>1. 0 \in 0..n
        OBVIOUS
      <4> QED
        BY <2>2, <2>3, <3>1, <4>1
    <3>2. CASE k \in 1..n
      <4>1. k - 1 \in 0..n /\ k \in 0..n /\ k # 0
        BY <3>2
      <4> QED
        BY <2>2, <2>3, <4>1
    <3>3. CASE k = n + 1
      <4>1. k - 1 = n /\ n \in 0..n /\ k # 0
        BY <3>3
      <4>2. h[k] = f[n] \o parts[k] \o glue /\ h[k - 1] = f[n]
        BY <2>3, <2>4, <3>3, <4>1
      <4> QED
        BY <4>1, <4>2
    <3> QED
      BY <3>1, <3>2, <3>3
  <2>7. Def(h, n + 1)
    BY <2>5, <2>6
  <2> HIDE DEF Def
  <2>8. \E x : Def(x, n + 1)
    BY <2>7
  <2> QED
    BY <2>8
<1>3. Len(parts) \in good
  <2> HIDE DEF good
  <2>1. \A n \in Nat : n >= 0 => n \in good
    BY <1>1, <1>2, NumbersFrom
  <2> QED
    BY <1>0, <2>1
<1>4. Def(g, Len(parts))
  <2>1. \E f : Def(f, Len(parts))
    BY <1>3
  <2>2. g = CHOOSE f : Def(f, Len(parts))
    BY DEF GluedTo
  <2> HIDE DEF Def, g
  <2> QED
    BY <2>1, <2>2
<1> HIDE DEF g
<1>5. g[0] = <<>>
  BY <1>0, <1>4
<1>6. ASSUME NEW k \in 1..Len(parts) PROVE g[k] = g[k - 1] \o parts[k] \o glue
  <2>1. k \in 0..Len(parts) /\ k # 0
    BY <1>0
  <2> QED
    BY <1>4, <2>1
<1> DEFINE typed == {k \in Nat : k <= Len(parts) => g[k] \in Seq(A)}
<1>7. 0 \in typed
  BY <1>5, EmptySeq
<1>8. ASSUME NEW n \in Nat, n \in typed PROVE n + 1 \in typed
  <2> SUFFICES ASSUME n + 1 <= Len(parts) PROVE g[n + 1] \in Seq(A)
    OBVIOUS
  <2>1. n + 1 \in 1..Len(parts) /\ (n + 1) - 1 = n /\ n <= Len(parts)
    BY <1>0
  <2>2. g[n + 1] = g[n] \o parts[n + 1] \o glue
    BY <1>6, <2>1
  <2>3. g[n] \in Seq(A) /\ parts[n + 1] \in Seq(A)
    BY <1>8, <2>1, ElementOfSeq
  <2> QED
    BY <2>2, <2>3, ConcatProperties
<1>9. \A k \in 0..Len(parts) : g[k] \in Seq(A)
  <2> HIDE DEF typed
  <2>1. \A n \in Nat : n >= 0 => n \in typed
    BY <1>7, <1>8, NumbersFrom
  <2>2. \A k \in 0..Len(parts) : k \in Nat /\ k >= 0 /\ k <= Len(parts)
    BY <1>0
  <2> QED
    BY <2>1, <2>2 DEF typed
<1> QED
  BY <1>5, <1>6, <1>9 DEF g

LEMMA GluedAppend ==
    ASSUME NEW A, NEW parts \in Seq(Seq(A)), NEW glue \in Seq(A), NEW part \in Seq(A)
    PROVE  /\ Glued(parts, glue) \in Seq(A)
           /\ Glued(Add(parts, part), glue) = Cat(Cat(Glued(parts, glue), part), glue)
           /\ Glued(Add(parts, part), glue) = Cat(Glued(parts, glue), Cat(part, glue))
<1> DEFINE more == Add(parts, part)
           g == GluedTo(parts, glue)
           h == GluedTo(more, glue)
           n == Len(parts)
<1>1. /\ more \in Seq(Seq(A)) /\ Len(more) = n + 1 /\ n \in Nat
      /\ \A k \in 1..n : more[k] = parts[k]
      /\ more[n + 1] = part
  BY AddOf, LenProperties
<1>2. /\ g[0] = <<>> /\ g[n] \in Seq(A)
      /\ \A k \in 1..n : g[k] = g[k - 1] \o parts[k] \o glue
  <2>1. n \in 0..n
    BY <1>1
  <2> QED
    BY <2>1, GluedSteps
<1> HIDE DEF more
<1>3. /\ h[0] = <<>>
      /\ \A k \in 1..(n + 1) : h[k] = h[k - 1] \o more[k] \o glue
  <2>1. /\ h[0] = <<>>
        /\ \A k \in 1..Len(more) : h[k] = h[k - 1] \o more[k] \o glue
    BY <1>1, GluedSteps
  <2> QED
    BY <1>1, <2>1
<1> HIDE DEF g, h
<1> DEFINE same == {k \in Nat : k <= n => h[k] = g[k]}
<1>4. 0 \in same
  BY <1>2, <1>3
<1>5. ASSUME NEW k \in Nat, k \in same PROVE k + 1 \in same
  <2> SUFFICES ASSUME k + 1 <= n PROVE h[k + 1] = g[k + 1]
    OBVIOUS
  <2>1. k + 1 \in 1..n /\ k + 1 \in 1..(n + 1) /\ (k + 1) - 1 = k /\ k <= n
    BY <1>1
  <2>2. h[k] = g[k]
    BY <1>5, <2>1
  <2> HIDE DEF n
  <2> QED
    BY <1>1, <1>2, <1>3, <2>1, <2>2
<1>6. h[n] = g[n]
  <2> HIDE DEF same
  <2>1. \A k \in Nat : k >= 0 => k \in same
    BY <1>4, <1>5, NumbersFrom
  <2> QED
    BY <1>1, <2>1 DEF same
<1>7. h[n + 1] = g[n] \o part \o glue
  <2>1. n + 1 \in 1..(n + 1) /\ (n + 1) - 1 = n
    BY <1>1
  <2> HIDE DEF n
  <2> QED
    BY <1>1, <1>3, <1>6, <2>1
<1> HIDE DEF n
<1>8. h[n + 1] = Cat(Cat(g[n], part), glue)
  BY <1>7 DEF Cat
<1>9. Cat(Cat(g[n], part), glue) = Cat(g[n], Cat(part, glue))
  BY <1>2, CatAssociative
<1> QED
  BY <1>1, <1>2, <1>8, <1>9, GluedIs DEF g, h, more, n

LEMMA GluedNone == ASSUME NEW A, NEW glue \in Seq(A) PROVE Glued(<<>>, glue) = <<>>
<1>1. <<>> \in Seq(Seq(A)) /\ Len(<<>>) = 0
  BY EmptySeq
<1> QED
  BY <1>1, GluedSteps, GluedIs

Chars == Letters \cup Spaces \cup Digits \cup {"minus"}

LEMMA PartOf ==
    ASSUME NEW A, NEW s \in Seq(A), NEW m \in Nat, NEW n \in m..Len(s)
    PROVE  /\ Part(s, m, n) \in Seq(A)
           /\ Len(Part(s, m, n)) = n - m
           /\ \A i \in 1..(n - m) : Part(s, m, n)[i] = s[m + i]
<1>1. Len(s) \in Nat /\ \A i \in (m + 1)..n : s[i] \in A
  BY LenProperties, ElementOfSeq
<1>2. m + 1 \in Int /\ n \in Int
  BY <1>1
<1>3. /\ SubSeq(s, m + 1, n) \in Seq(A)
      /\ Len(SubSeq(s, m + 1, n)) = IF m + 1 <= n THEN n - (m + 1) + 1 ELSE 0
      /\ \A i \in 1..(n - (m + 1) + 1) : SubSeq(s, m + 1, n)[i] = s[m + 1 + i - 1]
  BY <1>1, <1>2, SubSeqProperties
<1>4. n - (m + 1) + 1 = n - m /\ (~(m + 1 <= n) => n - m = 0) /\ \A i \in 1..(n - m) : m + 1 + i - 1 = m + i
  BY <1>1
<1> QED
  BY <1>3, <1>4 DEF Part

LEMMA PartHead ==
    ASSUME NEW A, NEW s \in Seq(A), NEW m \in 0..Len(s)
    PROVE  /\ Part(s, 0, m) \in Seq(A) /\ Len(Part(s, 0, m)) = m
           /\ \A i \in 1..m : Part(s, 0, m)[i] = s[i]
<1>1. /\ m - 0 = m /\ 0 \in Nat /\ m \in 0..Len(s)
      /\ \A i \in 1..m : 0 + i = i
  BY LenProperties
<1>2. /\ Part(s, 0, m) \in Seq(A) /\ Len(Part(s, 0, m)) = m - 0
      /\ \A i \in 1..(m - 0) : Part(s, 0, m)[i] = s[0 + i]
  BY <1>1, PartOf
<1> QED
  BY <1>1, <1>2

LEMMA PartsJoin ==
    ASSUME NEW A, NEW s \in Seq(A), NEW m \in 0..Len(s), NEW n \in m..Len(s)
    PROVE  Cat(Part(s, 0, m), Part(s, m, n)) = Part(s, 0, n)
<1>1. 1 \in 1..(Len(s) + 1) /\ m \in (1 - 1)..Len(s) /\ n \in m..Len(s)
  BY LenProperties
<1>2. SubSeq(s, 1, m) \o SubSeq(s, m + 1, n) = SubSeq(s, 1, n)
  BY <1>1, ConcatAdjacentSubSeq
<1> QED
  BY <1>2 DEF Part, Cat

LEMMA PartAll == ASSUME NEW A, NEW s \in Seq(A) PROVE Part(s, 0, Len(s)) = s
BY SubSeqFull DEF Part

\* From m on t is as s is from k on.
Follows(t, m, s, k) ==
    Len(t) - m = Len(s) - k /\ \A i \in 1..(Len(t) - m) : t[m + i] = s[k + i]

LEMMA FollowsOn ==
    ASSUME NEW A, NEW t \in Seq(A), NEW s \in Seq(A), NEW m \in Nat, NEW k \in Nat,
           NEW n \in Nat, Follows(t, m, s, k)
    PROVE  Follows(t, m + n, s, k + n)
<1>1. Len(t) \in Nat /\ Len(s) \in Nat /\ Len(t) - m = Len(s) - k
  BY LenProperties DEF Follows
<1>2. ASSUME NEW i \in 1..(Len(t) - (m + n)) PROVE t[(m + n) + i] = s[(k + n) + i]
  <2>1. /\ n + i \in 1..(Len(t) - m)
        /\ m + (n + i) = (m + n) + i /\ k + (n + i) = (k + n) + i
    BY <1>1
  <2>2. t[m + (n + i)] = s[k + (n + i)]
    BY <2>1 DEF Follows
  <2> QED
    BY <2>1, <2>2
<1>3. Len(t) - (m + n) = Len(s) - (k + n)
  BY <1>1
<1> QED
  BY <1>2, <1>3 DEF Follows

LEMMA FollowsTwo ==
    ASSUME NEW t, NEW s, NEW u, NEW m, NEW k, NEW j, Follows(t, m, s, k), Follows(s, k, u, j)
    PROVE  Follows(t, m, u, j)
BY DEF Follows

\* Two texts that are the same from two places on have the same pieces there.
LEMMA SameSubStr ==
    ASSUME NEW A, NEW s \in Seq(A), NEW t \in Seq(A), NEW m \in 0..Len(s), NEW k \in 0..Len(t),
           Follows(s, m, t, k), NEW n \in Nat
    PROVE  SubStr(s, m, n) = SubStr(t, k, n)
<1> DEFINE u == SubStr(s, m, n)  v == SubStr(t, k, n)
<1>0. Len(s) - m = Len(t) - k /\ \A i \in 1..(Len(s) - m) : s[m + i] = t[k + i]
  BY DEF Follows
<1>1. /\ u \in Seq(A) /\ Len(u) = Least(n, Len(s) - m)
      /\ \A i \in 1..Len(u) : u[i] = s[m + i]
  BY SubStrOf
<1>2. /\ v \in Seq(A) /\ Len(v) = Least(n, Len(s) - m)
      /\ \A i \in 1..Len(v) : v[i] = t[k + i]
  BY <1>0, SubStrOf
<1> HIDE DEF u, v
<1>3. Len(u) = Len(v) /\ Len(u) <= Len(s) - m /\ Len(u) \in Nat /\ Len(s) \in Nat
  BY <1>1, <1>2, LenProperties DEF Least
<1>4. ASSUME NEW i \in 1..Len(u) PROVE u[i] = v[i]
  <2>1. i \in 1..(Len(s) - m) /\ i \in 1..Len(v)
    BY <1>0, <1>3
  <2>2. u[i] = s[m + i] /\ v[i] = t[k + i]
    BY <1>1, <1>2, <2>1
  <2> QED
    BY <1>0, <2>1, <2>2
<1>5. u = v
  BY <1>1, <1>2, <1>3, <1>4, SeqEqual
<1> QED
  BY <1>5 DEF u, v

\* The next part goes on where the parts before it end.
LEMMA GluedGoesOn ==
    ASSUME NEW A, NEW str \in Seq(A), NEW glue \in Seq(A), NEW parts \in Seq(Seq(A)), NEW part \in Seq(A),
           NEW from \in 0..Len(str), NEW end \in from..Len(str),
           Glued(parts, glue) = Part(str, 0, from),
           Cat(part, glue) = Part(str, from, end)
    PROVE  Glued(Add(parts, part), glue) = Part(str, 0, end)
<1>2. Glued(Add(parts, part), glue) = Cat(Glued(parts, glue), Cat(part, glue))
  BY GluedAppend
<1>3. Cat(Part(str, 0, from), Part(str, from, end)) = Part(str, 0, end)
  BY PartsJoin
<1> QED
  BY <1>2, <1>3

\* The parts found before from, glued together, are the text up to there.
SplitTo(str, pat, parts, from) ==
    /\ parts \in Seq(Seq(Chars)) /\ from \in 0..Len(str) /\ Len(parts) <= from
    /\ Glued(parts, pat) = Part(str, 0, from)
    /\ \A i \in 1..Len(parts) : Find(Cat(parts[i], pat), pat, 0) = Len(parts[i])

LEMMA SplitMore ==
    ASSUME NEW str \in Seq(Chars), NEW pat \in Seq(Chars), pat # <<>>, Len(str) < NPOS,
           NEW parts, NEW from, SplitTo(str, pat, parts, from),
           NEW index \in from..(Len(str) - Len(pat)),
           Occurs(str, pat, index), \A i \in from..(index - 1) : ~Occurs(str, pat, i)
    PROVE  SplitTo(str, pat, Add(parts, SubStr(str, from, index - from)), index + Len(pat))
<1> DEFINE piece == SubStr(str, from, index - from)
           more  == Add(parts, piece)
           end   == index + Len(pat)
<1>1. /\ parts \in Seq(Seq(Chars)) /\ from \in 0..Len(str) /\ Len(parts) <= from
      /\ \A i \in 1..Len(parts) : Find(Cat(parts[i], pat), pat, 0) = Len(parts[i])
  BY DEF SplitTo
<1>g. Glued(parts, pat) = Part(str, 0, from)
  BY DEF SplitTo
<1>2. Len(str) \in Nat /\ Len(pat) \in Nat /\ Len(pat) > 0 /\ Len(parts) \in Nat
  BY <1>1, LenProperties, EmptySeq
<1>3. piece \in Seq(Chars) /\ Find(Cat(piece, pat), pat, 0) = Len(piece)
  BY <1>1, PieceFound
<1>p. Cat(piece, pat) = Part(str, from, end)
  BY <1>1, PieceFound
<1> HIDE DEF piece
<1>4. /\ more \in Seq(Seq(Chars)) /\ Len(more) = Len(parts) + 1
      /\ \A i \in 1..Len(parts) : more[i] = parts[i]
      /\ more[Len(parts) + 1] = piece
  BY <1>1, <1>3, AddOf
<1>5. Glued(more, pat) = Part(str, 0, end)
  <2>1. end \in from..Len(str)
    BY <1>1, <1>2
  <2> HIDE DEF end
  <2> QED
    BY <1>1, <1>g, <1>3, <1>p, <2>1, GluedGoesOn
<1>6. ASSUME NEW i \in 1..Len(more) PROVE Find(Cat(more[i], pat), pat, 0) = Len(more[i])
  <2>1. i \in 1..Len(parts) \/ i = Len(parts) + 1
    BY <1>2, <1>4
  <2> QED
    BY <1>1, <1>3, <1>4, <2>1
<1>7. end \in 0..Len(str) /\ Len(more) <= end
  BY <1>1, <1>2, <1>4
<1> HIDE DEF more, end
<1>8. SplitTo(str, pat, more, end)
  BY <1>4, <1>5, <1>6, <1>7 DEF SplitTo
<1> QED
  BY <1>8 DEF more, end, piece

LEMMA SplitLast ==
    ASSUME NEW str \in Seq(Chars), NEW pat \in Seq(Chars),
           NEW parts, NEW from, SplitTo(str, pat, parts, from)
    PROVE  LET rest == Part(str, from, Len(str))
               all  == Add(parts, rest)
           IN  /\ Len(all) = Len(parts) + 1 /\ all[Len(all)] = rest
               /\ Glued(all, pat) = Cat(str, pat)
               /\ Leftmost(all, pat)
<1> DEFINE rest == Part(str, from, Len(str))
           all  == Add(parts, rest)
<1>0. parts \in Seq(Seq(Chars)) /\ from \in 0..Len(str)
  BY DEF SplitTo
<1>1. /\ parts \in Seq(Seq(Chars)) /\ from \in 0..Len(str)
      /\ \A i \in 1..Len(parts) : Find(Cat(parts[i], pat), pat, 0) = Len(parts[i])
  BY DEF SplitTo
<1>g. Glued(parts, pat) = Part(str, 0, from)
  BY DEF SplitTo
<1>2. Len(str) \in Nat /\ Len(parts) \in Nat
  BY <1>1, LenProperties
<1>3. rest \in Seq(Chars)
  <2>1. from \in Nat /\ Len(str) \in from..Len(str)
    BY <1>1, <1>2
  <2> QED
    BY <2>1, PartOf
<1>r. Cat(Part(str, 0, from), rest) = str
  <2>1. Len(str) \in from..Len(str)
    BY <1>1, <1>2
  <2> QED
    BY <1>1, <2>1, PartsJoin, PartAll
<1> HIDE DEF rest
<1>4. /\ all \in Seq(Seq(Chars)) /\ Len(all) = Len(parts) + 1
      /\ \A i \in 1..Len(parts) : all[i] = parts[i]
      /\ all[Len(parts) + 1] = rest
  BY <1>0, <1>3, AddOf
<1>5. Glued(all, pat) = Cat(str, pat)
  <2>1. Glued(all, pat) = Cat(Cat(Glued(parts, pat), rest), pat)
    BY <1>1, <1>3, GluedAppend
  <2> QED
    BY <1>g, <1>r, <2>1
<1> HIDE DEF all
<1>6. Leftmost(all, pat)
  <2>1. Len(all) - 1 = Len(parts)
    BY <1>2, <1>4
  <2> QED
    BY <1>1, <1>4, <2>1 DEF Leftmost, Cat
<1> QED
  BY <1>2, <1>4, <1>5, <1>6 DEF all, rest

\* The text with n of its characters, from index on, replaced.
Spliced(now, index, n, new) ==
    Cat(Cat(Part(now, 0, index), new), Part(now, index + n, Len(now)))

LEMMA SplicedOf ==
    ASSUME NEW A, NEW now \in Seq(A), NEW new \in Seq(A),
           NEW index \in Nat, NEW n \in Nat, index + n <= Len(now)
    PROVE  /\ Spliced(now, index, n, new) \in Seq(A)
           /\ Len(Spliced(now, index, n, new)) = Len(now) - n + Len(new)
           /\ Part(Spliced(now, index, n, new), 0, index + Len(new))
                 = Cat(Part(now, 0, index), new)
           /\ Follows(Spliced(now, index, n, new), index + Len(new), now, index + n)
<1> DEFINE head == Cat(Part(now, 0, index), new)
           tail == Part(now, index + n, Len(now))
           t    == Cat(head, tail)
           m    == index + Len(new)
<1>1. Len(now) \in Nat /\ Len(new) \in Nat /\ m \in Nat
  BY LenProperties
<1>2. head \in Seq(A) /\ Len(head) = m
  <2>1. index \in 0..Len(now)
    BY <1>1
  <2>2. Part(now, 0, index) \in Seq(A) /\ Len(Part(now, 0, index)) = index
    BY <2>1, PartHead
  <2> QED
    BY <2>2, CatOf
<1>3. /\ tail \in Seq(A) /\ Len(tail) = Len(now) - index - n
      /\ \A i \in 1..(Len(now) - index - n) : tail[i] = now[index + n + i]
  <2>1. index + n \in Nat /\ Len(now) \in (index + n)..Len(now)
        /\ Len(now) - (index + n) = Len(now) - index - n
    BY <1>1
  <2>2. /\ tail \in Seq(A) /\ Len(tail) = Len(now) - (index + n)
        /\ \A i \in 1..(Len(now) - (index + n)) : tail[i] = now[(index + n) + i]
    BY <2>1, PartOf
  <2> QED
    BY <2>1, <2>2
<1> HIDE DEF head, tail
<1>h. head \in Seq(A) /\ tail \in Seq(A)
  BY <1>2, <1>3
<1>4. /\ t \in Seq(A) /\ Len(t) = Len(head) + Len(tail)
      /\ \A i \in 1..(Len(head) + Len(tail)) :
            t[i] = IF i <= Len(head) THEN head[i] ELSE tail[i - Len(head)]
  BY <1>h, CatOf
<1> HIDE DEF t
<1>5. Len(t) = Len(now) - n + Len(new)
  BY <1>1, <1>2, <1>3, <1>4
<1>6. Part(t, 0, m) = head
  <2> DEFINE p == Part(t, 0, m)
  <2>1. m \in 0..Len(t)
    BY <1>1, <1>5
  <2>2. p \in Seq(A) /\ Len(p) = m /\ \A i \in 1..m : p[i] = t[i]
    <3>1. t \in Seq(A)
      BY <1>4
    <3> HIDE DEF m
    <3> QED
      BY <2>1, <3>1, PartHead
  <2> HIDE DEF p, m
  <2>3. ASSUME NEW i \in 1..Len(p) PROVE p[i] = head[i]
    <3>1. i \in 1..(Len(head) + Len(tail)) /\ i <= Len(head) /\ i \in 1..m
      BY <1>1, <1>2, <1>3, <2>2
    <3> QED
      BY <1>4, <2>2, <3>1
  <2>4. p = head
    BY <1>2, <2>2, <2>3, SeqEqual
  <2> QED
    BY <2>4 DEF p
<1>7. ASSUME NEW i \in 1..(Len(now) - index - n) PROVE t[m + i] = now[index + n + i]
  <2>1. m + i \in 1..(Len(head) + Len(tail)) /\ ~(m + i <= Len(head)) /\ (m + i) - Len(head) = i
    <3>1. m \in Nat /\ Len(head) = m /\ Len(tail) = Len(now) - index - n /\ i \in 1..Len(tail)
      BY <1>1, <1>2, <1>3
    <3> HIDE DEF m
    <3> QED
      BY <3>1
  <2>2. t[m + i] = tail[(m + i) - Len(head)]
    BY <1>4, <2>1
  <2> QED
    BY <1>3, <2>1, <2>2
<1>8. Spliced(now, index, n, new) = t
  BY DEF Spliced, t, head, tail
<1>9. Follows(t, m, now, index + n)
  <2>1. Len(t) - m = Len(now) - (index + n) /\ Len(t) - m = Len(now) - index - n
    BY <1>1, <1>5
  <2> HIDE DEF m
  <2> QED
    BY <1>7, <2>1 DEF Follows
<1> QED
  BY <1>4, <1>5, <1>6, <1>8, <1>9 DEF head

\* Where in str a text goes on that is at from in now.
Place(str, now, from) == Len(str) - (Len(now) - from)

\* What Replace has made of str up to from, where it goes on as in str.
ReplacedTo(str, old, new, now, parts, from) ==
    /\ now \in Seq(Chars) /\ from \in 0..Len(now)
    /\ Follows(now, from, str, Place(str, now, from))
    /\ SplitTo(str, old, parts, Place(str, now, from))
    /\ Glued(parts, new) = Part(now, 0, from)
    /\ Len(now) <= Len(str) + Len(parts) * Len(new)

LEMMA ReplacedMore ==
    ASSUME NEW str \in Seq(Chars), NEW old \in Seq(Chars), NEW new \in Seq(Chars),
           old # <<>>, Len(str) < NPOS,
           NEW now, NEW parts, NEW from, ReplacedTo(str, old, new, now, parts, from),
           NEW index \in from..(Len(now) - Len(old)), Len(now) < NPOS,
           Occurs(now, old, index), \A i \in from..(index - 1) : ~Occurs(now, old, i)
    PROVE  ReplacedTo(str, old, new, Spliced(now, index, Len(old), new),
                      Add(parts, SubStr(now, from, index - from)), index + Len(new))
<1> DEFINE done  == Place(str, now, from)
           piece == SubStr(now, from, index - from)
           more  == Add(parts, piece)
           next  == Spliced(now, index, Len(old), new)
           end   == index + Len(new)
           passed == index - from
<1>1. now \in Seq(Chars) /\ from \in 0..Len(now)
  BY DEF ReplacedTo
<1>2. Follows(now, from, str, done)
  BY DEF ReplacedTo
<1>3. SplitTo(str, old, parts, done)
  BY DEF ReplacedTo
<1>4. Glued(parts, new) = Part(now, 0, from)
  BY DEF ReplacedTo
<1>5. Len(now) <= Len(str) + Len(parts) * Len(new)
  BY DEF ReplacedTo
<1>6. /\ Len(str) \in Nat /\ Len(old) \in Nat /\ Len(old) > 0 /\ Len(new) \in Nat /\ Len(now) \in Nat
      /\ from \in Nat /\ index \in Nat /\ passed \in Nat /\ from + passed = index
      /\ index + Len(old) <= Len(now)
  BY <1>1, LenProperties, EmptySeq
<1>7. done \in 0..Len(str) /\ done \in Nat /\ Len(str) - done = Len(now) - from
  BY <1>3, <1>6 DEF SplitTo, Place
<1> HIDE DEF done
<1>8. ASSUME NEW i \in from..(Len(now) - Len(old))
      PROVE  Occurs(str, old, done + (i - from)) <=> Occurs(now, old, i)
  <2>1. ASSUME NEW k \in 1..Len(old) PROVE now[i + k] = str[done + (i - from) + k]
    <3>1. /\ (i - from) + k \in 1..(Len(now) - from)
          /\ from + ((i - from) + k) = i + k
          /\ done + ((i - from) + k) = done + (i - from) + k
      BY <1>6, <1>7
    <3>2. now[from + ((i - from) + k)] = str[done + ((i - from) + k)]
      BY <1>2, <3>1 DEF Follows
    <3> QED
      BY <3>1, <3>2
  <2> QED
    BY <2>1 DEF Occurs
<1>9. piece = SubStr(str, done, passed)
  <2> HIDE DEF passed
  <2>1. SubStr(now, from, passed) = SubStr(str, done, passed)
    BY <1>1, <1>2, <1>6, <1>7, SameSubStr
  <2> QED
    BY <2>1 DEF passed
<1>10. SplitTo(str, old, more, done + passed + Len(old))
  <2> DEFINE place == done + passed
  <2>1. place \in done..(Len(str) - Len(old)) /\ place - done = passed
    BY <1>6, <1>7
  <2>2. Occurs(str, old, place)
    BY <1>8
  <2>3. ASSUME NEW i \in done..(place - 1) PROVE ~Occurs(str, old, i)
    <3>1. /\ from + (i - done) \in from..(index - 1)
          /\ from + (i - done) \in from..(Len(now) - Len(old))
          /\ done + ((from + (i - done)) - from) = i
      BY <1>6, <1>7
    <3> QED
      BY <1>8, <3>1
  <2> HIDE DEF piece, place, passed
  <2>4. SplitTo(str, old, Add(parts, SubStr(str, done, place - done)), place + Len(old))
    BY <1>3, <2>1, <2>2, <2>3, SplitMore
  <2> QED
    BY <1>9, <2>1, <2>4 DEF place
<1>11. parts \in Seq(Seq(Chars)) /\ Len(parts) \in Nat
  BY <1>3, LenProperties DEF SplitTo
<1>12. piece \in Seq(Chars) /\ Part(now, from, index) = piece
  <2>1. Least(passed, Len(now) - from) = passed
    BY <1>1, <1>6 DEF Least
  <2>2. piece \in Seq(Chars)
    BY <1>1, <1>6, SubStrOf
  <2> QED
    BY <1>6, <2>1, <2>2 DEF SubStr, Part
<1>13. /\ next \in Seq(Chars) /\ Len(next) = Len(now) - Len(old) + Len(new)
       /\ Part(next, 0, end) = Cat(Part(now, 0, index), new)
       /\ Follows(next, end, now, index + Len(old))
  <2> HIDE DEF piece, more, passed
  <2> QED
    BY <1>1, <1>6, SplicedOf
<1>14. Glued(more, new) = Part(next, 0, end)
  <2>1. Cat(Part(now, 0, from), Part(now, from, index)) = Part(now, 0, index)
    <3>1. index \in from..Len(now)
      BY <1>6
    <3> QED
      BY <1>1, <3>1, PartsJoin
  <2> HIDE DEF piece, next, end
  <2>2. Glued(more, new) = Cat(Cat(Glued(parts, new), piece), new)
    BY <1>11, <1>12, GluedAppend
  <2> QED
    BY <1>4, <1>12, <1>13, <2>1, <2>2
<1> HIDE DEF next, piece
<1>15. Len(more) = Len(parts) + 1
  BY <1>11, <1>12, AddOf
<1>16. Len(next) <= Len(str) + Len(more) * Len(new)
  <2>1. Len(more) * Len(new) = Len(parts) * Len(new) + Len(new)
    BY <1>6, <1>11, <1>15
  <2>2. Len(parts) * Len(new) \in Nat
    BY <1>6, <1>11
  <2> QED
    BY <1>5, <1>6, <1>13, <2>1, <2>2
<1>17. end \in 0..Len(next) /\ Place(str, next, end) = done + passed + Len(old)
  <2>1. Len(next) = Len(now) - Len(old) + Len(new)
    BY <1>13
  <2>2. end \in 0..Len(next)
    BY <1>6, <2>1
  <2>3. Len(str) - (Len(next) - end) = done + passed + Len(old)
    <3>1. Len(next) - end = Len(now) - Len(old) - index
      BY <1>6, <2>1
    <3>2. done = Len(str) - Len(now) + from
      BY <1>6, <1>7
    <3> QED
      BY <1>6, <3>1, <3>2, SMTT(20)
  <2> QED
    BY <2>2, <2>3 DEF Place
<1>18. Follows(next, end, str, Place(str, next, end))
  <2>1. from + (passed + Len(old)) = index + Len(old) /\ passed + Len(old) \in Nat
        /\ done + (passed + Len(old)) = done + passed + Len(old)
    BY <1>6, <1>7
  <2> DEFINE n == passed + Len(old)
  <2>2. Follows(now, from + n, str, done + n)
    <3>1. n \in Nat
      BY <2>1
    <3> HIDE DEF n
    <3> QED
      BY <1>1, <1>2, <1>6, <1>7, <3>1, FollowsOn
  <2> QED
    BY <1>13, <1>17, <2>1, <2>2, FollowsTwo
<1> HIDE DEF more, end, passed
<1>19. ReplacedTo(str, old, new, next, more, end)
  BY <1>10, <1>13, <1>14, <1>16, <1>17, <1>18 DEF ReplacedTo
<1> QED
  BY <1>19 DEF next, more, end, piece

LEMMA ReplacedAll ==
    ASSUME NEW str \in Seq(Chars), NEW old \in Seq(Chars), NEW new \in Seq(Chars),
           NEW now, NEW parts, NEW from, ReplacedTo(str, old, new, now, parts, from),
           Len(now) < NPOS, \A i \in from..(Len(now) - Len(old)) : ~Occurs(now, old, i)
    PROVE  LET all == Add(parts, SubStr(now, from, NPOS))
           IN  /\ Glued(all, old) = Cat(str, old) /\ Glued(all, new) = Cat(now, new)
               /\ Len(all) = Len(parts) + 1
               /\ Leftmost(all, old) /\ Remainder(all, old) = NPOS
<1> DEFINE rest == SubStr(now, from, NPOS)
           all  == Add(parts, rest)
           done == Place(str, now, from)
<1>1. now \in Seq(Chars) /\ from \in 0..Len(now)
  BY DEF ReplacedTo
<1>2. Follows(now, from, str, done)
  BY DEF ReplacedTo
<1>3. SplitTo(str, old, parts, done)
  BY DEF ReplacedTo
<1>4. Glued(parts, new) = Part(now, 0, from)
  BY DEF ReplacedTo
<1>5. Len(str) \in Nat /\ Len(now) \in Nat /\ from \in Nat /\ NPOS \in Nat
  BY <1>1, LenProperties, StringUtilsAssumption DEF StringUtilsAssumption
<1>6. done \in 0..Len(str) /\ done \in Nat /\ Len(str) - done = Len(now) - from
  BY <1>3, <1>5 DEF SplitTo, Place
<1>7. rest \in Seq(Chars) /\ rest = Part(now, from, Len(now)) /\ Find(rest, old, 0) = NPOS
  BY <1>1, RestHasNone
<1>8. rest = Part(str, done, Len(str))
  <2>1. SubStr(now, from, NPOS) = SubStr(str, done, NPOS)
    <3> HIDE DEF done
    <3> QED
      BY <1>1, <1>2, <1>5, <1>6, SameSubStr
  <2>2. Least(NPOS, Len(str) - done) = Len(str) - done /\ done + (Len(str) - done) = Len(str)
    <3>1. Len(str) - done < NPOS
      BY <1>5, <1>6
    <3> QED
      BY <1>5, <1>6, <3>1 DEF Least
  <2>3. SubStr(str, done, NPOS) = Part(str, done, Len(str))
    <3> HIDE DEF done
    <3> QED
      BY <2>2 DEF SubStr, Part
  <2> QED
    BY <2>1, <2>3
<1>9. parts \in Seq(Seq(Chars)) /\ Len(parts) \in Nat
  BY <1>3, LenProperties DEF SplitTo
<1>10. /\ Len(all) = Len(parts) + 1 /\ all[Len(all)] = rest
       /\ Glued(all, old) = Cat(str, old) /\ Leftmost(all, old)
  <2> HIDE DEF rest, done
  <2> QED
    BY <1>3, <1>8, SplitLast
<1>11. Glued(all, new) = Cat(now, new)
  <2>1. Cat(Part(now, 0, from), Part(now, from, Len(now))) = now
    <3>1. Len(now) \in from..Len(now)
      BY <1>1, <1>5
    <3> QED
      BY <1>1, <3>1, PartsJoin, PartAll
  <2> HIDE DEF rest
  <2>2. Glued(all, new) = Cat(Cat(Glued(parts, new), rest), new)
    BY <1>7, <1>9, GluedAppend
  <2> QED
    BY <1>4, <1>7, <2>1, <2>2
<1>12. Remainder(all, old) = NPOS
  BY <1>7, <1>10 DEF Remainder
<1> QED
  BY <1>10, <1>11, <1>12

LEMMA TextsAre ==
    ASSUME NEW alphabet, NEW n \in Nat, NEW str \in Texts(alphabet, n)
    PROVE  str \in Seq(alphabet) /\ Len(str) \in 0..n
<1>1. PICK k \in 0..n : str \in [1..k -> alphabet]
  BY DEF Texts
<1>2. k \in Nat /\ str \in Seq(alphabet)
  BY <1>1, SeqDef
<1>3. Len(str) = k
  BY <1>1, <1>2, LenProperties
<1> QED
  BY <1>2, <1>3, <1>1

\* Of m characters at most k may be replaced, each by at most n: that no text gets
\* as long as NPOS is what the assumption says.
LEMMA ShorterThanNPOS ==
    ASSUME NEW m \in Nat, NEW k \in Nat, NEW n \in Nat, NEW p \in Nat,
           m <= MaxText, k <= m, n <= MaxPattern, p <= m + k * n
    PROVE  p < NPOS
<1>0. MaxText \in Nat /\ MaxPattern \in Nat /\ NPOS \in Nat /\ MaxText * (MaxPattern + 1) < NPOS
  BY StringUtilsAssumption DEF StringUtilsAssumption
<1>1. k * n <= MaxText * n
  BY <1>0
<1>2. MaxText * n <= MaxText * MaxPattern
  BY <1>0
<1>3. MaxText * (MaxPattern + 1) = MaxText * MaxPattern + MaxText
  BY <1>0
<1>4. k * n \in Nat /\ MaxText * n \in Nat /\ MaxText * MaxPattern \in Nat
  BY <1>0
<1> QED
  BY <1>0, <1>1, <1>2, <1>3, <1>4

-----------------------------------------------------------------------------
(***************************************************************************)
(* Replace, of a text and of a character, turn by turn.                    *)
(***************************************************************************)

LEMMA SubStrIsPart ==
    ASSUME NEW A, NEW str \in Seq(A), NEW first \in 0..Len(str), NEW n \in Nat
    PROVE  /\ first + n <= Len(str) => SubStr(str, first, n) = Part(str, first, first + n)
           /\ first + n >= Len(str) => SubStr(str, first, n) = Part(str, first, Len(str))
<1>1. Len(str) \in Nat
  BY LenProperties
<1>2. /\ first + n <= Len(str) => first + Least(n, Len(str) - first) = first + n
      /\ first + n >= Len(str) => first + Least(n, Len(str) - first) = Len(str)
  BY <1>1 DEF Least
<1> QED
  BY <1>2 DEF SubStr, Part

LEMMA MoreChars ==
    ASSUME NEW A, NEW B, A \subseteq B, NEW str \in Seq(A) PROVE str \in Seq(B)
<1>1. Len(str) \in Nat /\ str \in [1..Len(str) -> B]
  BY LenProperties
<1> QED
  BY <1>1, SeqDef

\* Of a Replace.
ReplaceInv ==
    LET str == call.str  old == call.old  new == call.new
    IN  /\ {str, old, new} \subseteq Seq(Chars) /\ old # <<>>
        /\ Len(str) <= MaxText /\ Len(new) <= MaxPattern
        /\ ReplacedTo(str, old, new, text, pieces, start)
        /\ count = Len(pieces)
        /\ pos \in start..Len(text)
        /\ \A i \in start..(pos - 1) : ~Occurs(text, old, i)
        /\ call.f = "Replace" => pos = start
        /\ call.f = "ReplaceChar" => Len(old) = 1 /\ Len(new) = 1

LEMMA ReplaceInvFacts ==
    ASSUME ReplaceInv
    PROVE  /\ call.str \in Seq(Chars) /\ call.old \in Seq(Chars) /\ call.new \in Seq(Chars)
           /\ call.old # <<>> /\ Len(call.str) < NPOS
           /\ text \in Seq(Chars) /\ Len(text) \in Nat /\ Len(text) < NPOS
           /\ pieces \in Seq(Seq(Chars)) /\ Len(pieces) \in Nat
           /\ start \in 0..Len(text) /\ pos \in start..Len(text)
           /\ NPOS \in Nat
<1>1. /\ call.str \in Seq(Chars) /\ call.old \in Seq(Chars) /\ call.new \in Seq(Chars)
      /\ call.old # <<>> /\ Len(call.str) <= MaxText /\ Len(call.new) <= MaxPattern
      /\ pos \in start..Len(text)
  BY DEF ReplaceInv
<1>2. ReplacedTo(call.str, call.old, call.new, text, pieces, start)
  BY DEF ReplaceInv
<1>3. /\ text \in Seq(Chars) /\ start \in 0..Len(text)
      /\ Len(text) <= Len(call.str) + Len(pieces) * Len(call.new)
  BY <1>2 DEF ReplacedTo
<1>4. /\ pieces \in Seq(Seq(Chars)) /\ Len(pieces) <= Place(call.str, text, start)
      /\ Place(call.str, text, start) \in 0..Len(call.str)
  BY <1>2 DEF ReplacedTo, SplitTo
<1>5. /\ Len(text) \in Nat /\ Len(pieces) \in Nat /\ Len(call.str) \in Nat /\ Len(call.new) \in Nat
  BY <1>1, <1>3, <1>4, LenProperties
<1>6. Len(pieces) <= Len(call.str)
  BY <1>4, <1>5
<1>7. Len(text) < NPOS
  BY <1>1, <1>3, <1>5, <1>6, ShorterThanNPOS
<1>8. Len(call.str) < NPOS
  <2>1. /\ Len(call.str) <= Len(call.str) + 0 * 0 /\ 0 <= Len(call.str)
        /\ 0 \in Nat /\ 0 <= MaxPattern
    BY <1>5, StringUtilsAssumption DEF StringUtilsAssumption
  <2> QED
    BY <1>1, <1>5, <2>1, ShorterThanNPOS
<1> QED
  BY <1>1, <1>3, <1>4, <1>5, <1>7, <1>8, StringUtilsAssumption DEF StringUtilsAssumption

LEMMA ReplaceBegins ==
    ASSUME StringsInit, NEW f \in {"Replace", "ReplaceChar"},
           NEW str \in Texts(Letters, MaxText),
           NEW old \in Texts(Letters, MaxPattern), NEW new \in Texts(Letters, MaxPattern),
           AskReplace(f, str, old, new)
    PROVE  /\ call'.f = f
           /\ pc' = "loop" => ReplaceInv'
           /\ pc' = "done" => ReplaceExact'
           /\ pc' \in {"loop", "done"}
<1> DEFINE question == [f |-> f, str |-> str, old |-> old, new |-> new]
<1>1. /\ call' = question /\ text' = str
      /\ pieces' = <<>> /\ pos' = 0 /\ start' = 0 /\ count' = 0
      /\ pc' = IF old # <<>> THEN "loop" ELSE "done"
  BY DEF StringsInit, AskReplace, Begin
<1>2. /\ call'.f = f /\ call'.str = str /\ call'.old = old /\ call'.new = new
  BY <1>1
<1>3. /\ f = "ReplaceChar" => Len(old) = 1 /\ Len(new) = 1
  BY DEF AskReplace
<1>4. /\ str \in Seq(Letters) /\ old \in Seq(Letters) /\ new \in Seq(Letters)
      /\ Len(str) \in 0..MaxText /\ Len(new) \in 0..MaxPattern
  BY TextsAre, StringUtilsAssumption DEF StringUtilsAssumption
<1>5. str \in Seq(Chars) /\ old \in Seq(Chars) /\ new \in Seq(Chars)
  <2>1. Letters \subseteq Chars
    BY DEF Chars
  <2> QED
    BY <1>4, <2>1, MoreChars
<1>6. ASSUME old # <<>> PROVE ReplacedTo(str, old, new, str, <<>>, 0)
  <2>1. 0 \in 0..Len(str) /\ Place(str, str, 0) = 0 /\ Len(str) \in Nat
    BY <1>4 DEF Place
  <2>2. Follows(str, 0, str, 0)
    BY DEF Follows
  <2>3. <<>> \in Seq(Seq(Chars)) /\ Len(<<>>) = 0 /\ 1..0 = {}
    BY EmptySeq
  <2>4. Part(str, 0, 0) = <<>>
    <3>1. /\ Part(str, 0, 0) \in Seq(Chars) /\ Len(Part(str, 0, 0)) = 0
      BY <1>5, <2>1, PartHead
    <3> QED
      BY <3>1, EmptySeq
  <2>5. Glued(<<>>, old) = <<>> /\ Glued(<<>>, new) = <<>>
    BY <1>5, GluedNone
  <2>6. SplitTo(str, old, <<>>, 0)
    BY <2>1, <2>3, <2>4, <2>5 DEF SplitTo
  <2>7. Len(str) <= Len(str) + Len(<<>>) * Len(new)
    <3>1. Len(new) \in Nat
      BY <1>4
    <3> QED
      BY <2>1, <2>3, <3>1
  <2> QED
    BY <1>5, <2>1, <2>2, <2>4, <2>5, <2>6, <2>7 DEF ReplacedTo
<1>7. CASE old # <<>>
  <2>1. Len(<<>>) = 0 /\ 0 \in 0..Len(str) /\ 0..(0 - 1) = {} /\ Len(str) <= MaxText /\ Len(new) <= MaxPattern
    BY <1>4, StringUtilsAssumption DEF StringUtilsAssumption
  <2>2. ReplaceInv'
    BY <1>1, <1>2, <1>3, <1>5, <1>6, <1>7, <2>1 DEF ReplaceInv
  <2> QED
    BY <1>1, <1>2, <1>7, <2>2
<1>8. CASE old = <<>>
  BY <1>1, <1>2, <1>8 DEF ReplaceExact
<1> QED
  BY <1>7, <1>8

LEMMA ReplaceGoesOn ==
    ASSUME ReplaceInv, call.f = "Replace", ReplaceTurn PROVE ReplaceInv'
<1> DEFINE str == call.str  old == call.old  new == call.new
           index == Find(text, old, pos)
           next  == Spliced(text, index, Len(old), new)
           more  == Add(pieces, SubStr(text, pos, index - pos))
<1>1. /\ str \in Seq(Chars) /\ old \in Seq(Chars) /\ new \in Seq(Chars)
      /\ old # <<>> /\ Len(str) < NPOS
      /\ text \in Seq(Chars) /\ Len(text) \in Nat /\ Len(text) < NPOS
      /\ pieces \in Seq(Seq(Chars)) /\ Len(pieces) \in Nat
      /\ pos \in 0..Len(text) /\ NPOS \in Nat
  BY ReplaceInvFacts
<1>2. Len(old) \in Nat /\ Len(new) \in Nat
  BY <1>1, LenProperties
<1>3. pos = start
  BY DEF ReplaceInv
<1>4. /\ index # NPOS
      /\ pieces' = more
      /\ text' = Cat(Cat(SubStr(text, 0, index), new), SubStr(text, index + Len(old), NPOS))
      /\ pos' = index + Len(new) /\ start' = pos' /\ count' = count + 1 /\ call' = call
  BY DEF ReplaceTurn, Cat, Add
<1>5. /\ index \in pos..(Len(text) - Len(old)) /\ Occurs(text, old, index)
      /\ \A i \in pos..(index - 1) : ~Occurs(text, old, i)
  <2>1. pos \in Nat
    BY <1>1
  <2> QED
    BY <1>1, <1>4, <2>1, FindIn
<1> HIDE DEF index
<1>6. text' = next
  <2>1. /\ index \in Nat /\ index + Len(old) \in 0..Len(text) /\ 0 \in 0..Len(text)
        /\ 0 + index <= Len(text) /\ 0 + index = index
        /\ index + Len(old) + NPOS >= Len(text)
    <3>1. /\ pos \in 0..Len(text) /\ index \in pos..(Len(text) - Len(old))
          /\ Len(text) \in Nat /\ Len(text) < NPOS /\ NPOS \in Nat /\ Len(old) \in Nat
      BY <1>1, <1>2, <1>5
    <3> QED
      BY <3>1
  <2>2. SubStr(text, 0, index) = Part(text, 0, index)
    BY <1>1, <2>1, SubStrIsPart
  <2>3. SubStr(text, index + Len(old), NPOS) = Part(text, index + Len(old), Len(text))
    BY <1>1, <2>1, SubStrIsPart
  <2> QED
    BY <1>4, <2>2, <2>3 DEF Spliced
<1>7. ReplacedTo(str, old, new, text, pieces, pos)
  BY <1>3 DEF ReplaceInv
<1> HIDE DEF str, old, new, next, more
<1>8. ReplacedTo(str, old, new, next, more, index + Len(new))
  BY <1>1, <1>5, <1>7, ReplacedMore DEF more, next
<1>9. Len(more) = Len(pieces) + 1
  <2>1. SubStr(text, pos, index - pos) \in Seq(Chars)
    <3>1. index - pos \in Nat
      BY <1>1, <1>2, <1>5
    <3> QED
      BY <1>1, <3>1, SubStrOf
  <2> QED
    BY <1>1, <2>1, AddOf DEF more
<1>10. pos' \in start'..Len(text') /\ start'..(pos' - 1) = {}
  <2>1. index + Len(new) \in 0..Len(next)
    BY <1>8 DEF ReplacedTo
  <2> QED
    BY <1>2, <1>4, <1>6, <2>1 DEF new
<1>11. count' = Len(pieces')
  BY <1>4, <1>9 DEF ReplaceInv, more
<1>12. /\ call' = call /\ text' = next /\ pieces' = more /\ start' = index + Len(new)
       /\ pos' = start'
  BY <1>4, <1>6 DEF more, new
<1>13. ReplacedTo(call.str, call.old, call.new, text', pieces', start')
  BY <1>8, <1>12 DEF str, old, new
<1>14. /\ {call.str, call.old, call.new} \subseteq Seq(Chars) /\ call.old # <<>>
       /\ Len(call.str) <= MaxText /\ Len(call.new) <= MaxPattern
  BY DEF ReplaceInv
<1> QED
  BY <1>10, <1>11, <1>12, <1>13, <1>14 DEF ReplaceInv

LEMMA ReplaceIsDone ==
    ASSUME ReplaceInv, ReplaceEnds, call.f \in {"Replace", "ReplaceChar"} PROVE ReplaceExact'
<1> DEFINE str == call.str  old == call.old  new == call.new
           all == Add(pieces, SubStr(text, start, NPOS))
<1>1. /\ str \in Seq(Chars) /\ old \in Seq(Chars) /\ new \in Seq(Chars)
      /\ old # <<>> /\ Len(str) < NPOS
      /\ text \in Seq(Chars) /\ Len(text) \in Nat /\ Len(text) < NPOS
      /\ start \in 0..Len(text) /\ pos \in start..Len(text) /\ NPOS \in Nat
  BY ReplaceInvFacts
<1>2. Len(old) \in Nat /\ Len(old) > 0
  BY <1>1, LenProperties, EmptySeq
<1>3. /\ pieces' = all
      /\ call' = call /\ text' = text /\ count' = count
      /\ \/ call.f = "Replace" /\ (pos >= Len(text) \/ Find(text, old, pos) = NPOS)
         \/ call.f = "ReplaceChar" /\ pos = Len(text)
  BY DEF ReplaceEnds, Turn, Add
<1>4. ASSUME NEW i \in start..(Len(text) - Len(old)) PROVE ~Occurs(text, old, i)
  <2>1. CASE i \in start..(pos - 1)
    BY <2>1 DEF ReplaceInv
  <2>2. CASE i \notin start..(pos - 1)
    <3>1. i \in pos..(Len(text) - Len(old)) /\ pos # Len(text) /\ ~(pos >= Len(text))
      BY <1>1, <1>2, <2>2
    <3>2. Find(text, old, pos) = NPOS /\ pos \in Nat
      BY <1>1, <1>3, <3>1
    <3> QED
      BY <1>1, <3>1, <3>2, FindIn
  <2> QED
    BY <2>1, <2>2
<1>5. ReplacedTo(str, old, new, text, pieces, start) /\ count = Len(pieces)
  BY DEF ReplaceInv
<1> HIDE DEF str, old, new, all
<1>6. /\ Glued(all, old) = Cat(str, old) /\ Glued(all, new) = Cat(text, new)
      /\ Len(all) = Len(pieces) + 1
      /\ Leftmost(all, old) /\ Remainder(all, old) = NPOS
  BY <1>1, <1>4, <1>5, ReplacedAll DEF all
<1>7. Len(pieces) \in Nat
  BY ReplaceInvFacts
<1>8. count = Len(all) - 1
  BY <1>5, <1>6, <1>7
<1>9. /\ call'.str = str /\ call'.old = old /\ call'.new = new
      /\ text' = text /\ pieces' = all /\ count' = count
  BY <1>3 DEF str, old, new
<1>10. /\ call'.old # <<>>
       /\ Glued(pieces', call'.old) = Cat(call'.str, call'.old)
       /\ Glued(pieces', call'.new) = Cat(text', call'.new)
       /\ count' = Len(pieces') - 1
       /\ Leftmost(pieces', call'.old) /\ Remainder(pieces', call'.old) = NPOS
  BY <1>1, <1>6, <1>8, <1>9
<1> QED
  BY <1>10, Zenon DEF ReplaceExact, Cat

LEMMA ReplaceCharGoesOn ==
    ASSUME ReplaceInv, call.f = "ReplaceChar", ReplaceCharTurn PROVE ReplaceInv'
<1> DEFINE str == call.str  old == call.old  new == call.new
           next  == Spliced(text, pos, 1, new)
           more  == Add(pieces, SubStr(text, start, pos - start))
<1>1. /\ str \in Seq(Chars) /\ old \in Seq(Chars) /\ new \in Seq(Chars)
      /\ old # <<>> /\ Len(str) < NPOS
      /\ text \in Seq(Chars) /\ Len(text) \in Nat /\ Len(text) < NPOS
      /\ pieces \in Seq(Seq(Chars)) /\ Len(pieces) \in Nat
      /\ start \in 0..Len(text) /\ pos \in start..Len(text) /\ NPOS \in Nat
  BY ReplaceInvFacts
<1>2. Len(old) = 1 /\ Len(new) = 1 /\ old[1] \in Chars /\ new[1] \in Chars
  <2>1. Len(old) = 1 /\ Len(new) = 1 /\ 1 \in 1..1
    BY DEF ReplaceInv
  <2> HIDE DEF old, new
  <2> QED
    BY <1>1, <2>1, ElementOfSeq
<1>3. /\ pos < Len(text) /\ pos' = pos + 1 /\ call' = call
      /\ IF text[pos + 1] = old[1]
         THEN /\ text' = [text EXCEPT ![pos + 1] = new[1]]
              /\ count' = count + 1 /\ pieces' = more /\ start' = pos'
         ELSE UNCHANGED <<text, count, pieces, start>>
  BY DEF ReplaceCharTurn, Add
<1>4. Occurs(text, old, pos) <=> text[pos + 1] = old[1]
  BY <1>2 DEF Occurs
<1>5. \A i \in start..(pos - 1) : ~Occurs(text, old, i)
  BY DEF ReplaceInv
<1>6. ReplacedTo(str, old, new, text, pieces, start) /\ count = Len(pieces)
  BY DEF ReplaceInv
<1>7. /\ {call.str, call.old, call.new} \subseteq Seq(Chars) /\ call.old # <<>>
      /\ Len(call.str) <= MaxText /\ Len(call.new) <= MaxPattern
  BY DEF ReplaceInv
<1>8. call'.f = "ReplaceChar" /\ call'.str = str /\ call'.old = old /\ call'.new = new
  BY <1>3
<1>9. CASE text[pos + 1] # old[1]
  <2>1. ASSUME NEW i \in start..((pos + 1) - 1) PROVE ~Occurs(text, old, i)
    <3>1. i \in start..(pos - 1) \/ i = pos
      BY <1>1
    <3> QED
      BY <1>4, <1>5, <1>9, <3>1
  <2>2. pos + 1 \in start..Len(text)
    BY <1>1, <1>3
  <2> QED
    BY <1>2, <1>3, <1>6, <1>7, <1>8, <1>9, <2>1, <2>2 DEF ReplaceInv
<1>10. CASE text[pos + 1] = old[1]
  <2>1. /\ text' = [text EXCEPT ![pos + 1] = new[1]]
        /\ count' = count + 1 /\ pieces' = more /\ start' = pos + 1 /\ pos' = pos + 1
    BY <1>3, <1>10
  <2> HIDE DEF str, old, new
  <2>2. text' = next
    <3> DEFINE t == [text EXCEPT ![pos + 1] = new[1]]
               head == Part(text, 0, pos)
               tail == Part(text, pos + 1, Len(text))
    <3>1. /\ pos \in 0..Len(text) /\ pos + 1 \in 1..Len(text) /\ pos + 1 \in Nat /\ pos \in Nat
          /\ Len(text) \in (pos + 1)..Len(text)
      BY <1>1, <1>3
    <3>2. t \in Seq(Chars) /\ Len(t) = Len(text)
          /\ \A i \in 1..Len(text) : t[i] = IF i = pos + 1 THEN new[1] ELSE text[i]
      BY <1>1, <1>2, <3>1, ExceptSeq
    <3>3. head \in Seq(Chars) /\ Len(head) = pos /\ \A i \in 1..pos : head[i] = text[i]
      BY <1>1, <3>1, PartHead
    <3>4. /\ tail \in Seq(Chars) /\ Len(tail) = Len(text) - (pos + 1)
          /\ \A i \in 1..(Len(text) - (pos + 1)) : tail[i] = text[(pos + 1) + i]
      BY <1>1, <3>1, PartOf, ZenonT(30)
    <3> HIDE DEF t, head, tail
    <3>5. /\ Cat(head, new) \in Seq(Chars) /\ Len(Cat(head, new)) = pos + 1
          /\ \A i \in 1..(pos + 1) :
                Cat(head, new)[i] = IF i <= pos THEN head[i] ELSE new[i - pos]
      <4>1. /\ Cat(head, new) \in Seq(Chars) /\ Len(Cat(head, new)) = Len(head) + Len(new)
            /\ \A i \in 1..(Len(head) + Len(new)) :
                  Cat(head, new)[i] = IF i <= Len(head) THEN head[i] ELSE new[i - Len(head)]
        BY <1>1, <3>3, CatOf
      <4>2. Len(head) = pos /\ Len(new) = 1
        BY <1>2, <3>3
      <4> QED
        BY <4>1, <4>2
    <3> DEFINE front == Cat(head, new)
    <3> HIDE DEF front
    <3>6. /\ Cat(front, tail) \in Seq(Chars)
          /\ Len(Cat(front, tail)) = pos + 1 + (Len(text) - (pos + 1))
          /\ \A i \in 1..(pos + 1 + (Len(text) - (pos + 1))) :
                Cat(front, tail)[i] = IF i <= pos + 1 THEN front[i] ELSE tail[i - (pos + 1)]
      <4>1. /\ Cat(front, tail) \in Seq(Chars) /\ Len(Cat(front, tail)) = Len(front) + Len(tail)
            /\ \A i \in 1..(Len(front) + Len(tail)) :
                  Cat(front, tail)[i] = IF i <= Len(front) THEN front[i] ELSE tail[i - Len(front)]
        <5>1. front \in Seq(Chars) /\ tail \in Seq(Chars)
          BY <3>4, <3>5 DEF front
        <5> QED
          BY <5>1, CatOf
      <4>2. Len(front) = pos + 1 /\ Len(tail) = Len(text) - (pos + 1)
        BY <3>4, <3>5 DEF front
      <4> QED
        BY <4>1, <4>2
    <3>7. pos + 1 + (Len(text) - (pos + 1)) = Len(text)
      BY <1>1, <3>1
    <3>8. ASSUME NEW i \in 1..Len(text) PROVE t[i] = Cat(front, tail)[i]
      <4>1. CASE i \in 1..pos
        <5>1. i <= pos + 1 /\ i <= pos /\ i \in 1..(pos + 1) /\ i # pos + 1
          BY <3>1, <4>1
        <5> QED
          BY <3>2, <3>3, <3>5, <3>6, <3>7, <4>1, <5>1 DEF front
      <4>2. CASE i = pos + 1
        <5>1. i <= pos + 1 /\ ~(i <= pos) /\ i - pos = 1 /\ i \in 1..(pos + 1)
          BY <3>1, <4>2
        <5> QED
          BY <3>2, <3>5, <3>6, <3>7, <4>2, <5>1 DEF front
      <4>3. CASE i > pos + 1
        <5>1. ~(i <= pos + 1) /\ i # pos + 1 /\ i - (pos + 1) \in 1..(Len(text) - (pos + 1))
              /\ (pos + 1) + (i - (pos + 1)) = i
          BY <3>1, <4>3
        <5>2. Cat(front, tail)[i] = tail[i - (pos + 1)]
          BY <3>6, <3>7, <5>1
        <5>3. tail[i - (pos + 1)] = text[i]
          BY <3>4, <5>1
        <5> QED
          BY <3>2, <5>1, <5>2, <5>3
      <4> QED
        BY <3>1, <4>1, <4>2, <4>3
    <3>9. t = Cat(front, tail)
      <4>1. Len(t) = Len(Cat(front, tail))
        BY <3>2, <3>6, <3>7
      <4> QED
        BY <3>2, <3>6, <3>8, <4>1, SeqEqual
    <3> QED
      BY <2>1, <3>9 DEF t, front, head, tail, Spliced
  <2>3. ReplacedTo(str, old, new, next, more, pos + 1)
    <3>1. pos \in start..(Len(text) - Len(old)) /\ Len(old) = 1 /\ Len(new) = 1
      BY <1>1, <1>2, <1>3
    <3>2. Occurs(text, old, pos)
      BY <1>4, <1>10 DEF old
    <3>3. \A i \in start..(pos - 1) : ~Occurs(text, old, i)
      BY <1>5 DEF old
    <3>4. ReplacedTo(str, old, new, Spliced(text, pos, Len(old), new),
                     Add(pieces, SubStr(text, start, pos - start)), pos + Len(new))
      BY <1>1, <1>6, <3>1, <3>2, <3>3, ReplacedMore
    <3> QED
      BY <3>1, <3>4
  <2>4. Len(more) = Len(pieces) + 1
    <3>1. SubStr(text, start, pos - start) \in Seq(Chars)
      <4>1. pos - start \in Nat
        BY <1>1
      <4> QED
        BY <1>1, <4>1, SubStrOf
    <3> QED
      BY <1>1, <3>1, AddOf
  <2>5. pos + 1 \in (pos + 1)..Len(next) /\ (pos + 1)..((pos + 1) - 1) = {}
    <3>1. pos + 1 \in 0..Len(next)
      BY <2>3 DEF ReplacedTo
    <3> QED
      BY <1>1, <3>1
  <2>6. count' = Len(pieces')
    BY <1>6, <2>1, <2>4
  <2> HIDE DEF next, more
  <2>7. ReplacedTo(call.str, call.old, call.new, text', pieces', start')
    BY <2>1, <2>2, <2>3 DEF str, old, new, more
  <2>8. call' = call /\ Len(call.old) = 1 /\ Len(call.new) = 1
    BY <1>2, <1>3 DEF old, new
  <2>9. pos' \in start'..Len(text') /\ start'..(pos' - 1) = {} /\ pos' = start'
    BY <2>1, <2>2, <2>5
  <2> QED
    BY <1>7, <2>6, <2>7, <2>8, <2>9 DEF ReplaceInv
<1> QED
  BY <1>9, <1>10

-----------------------------------------------------------------------------
(***************************************************************************)
(* Split, turn by turn.                                                    *)
(***************************************************************************)

\* What a size_t holds.
LEMMA WrapOf ==
    /\ \A n \in 0..NPOS : Wrap(n) = n
    /\ \A n \in Int : 0 - (NPOS + 1) <= n /\ n < 0 => Wrap(n) = n + NPOS + 1
    /\ \A n \in Int : NPOS < n /\ n <= NPOS + NPOS + 1 => Wrap(n) = n - NPOS - 1
<1>1. NPOS \in Nat
  BY StringUtilsAssumption DEF StringUtilsAssumption
<1>2. ASSUME NEW n \in Int, NEW m \in Nat, NEW q \in {-1, 0, 1},
             n - q * (m + 1) \in 0..m
      PROVE  n % (m + 1) = n - q * (m + 1)
  <2>1. CASE q = 0
    BY <1>2, <2>1
  <2>2. CASE q = -1
    BY <1>2, <2>2
  <2>3. CASE q = 1
    BY <1>2, <2>3
  <2> QED
    BY <1>2, <2>1, <2>2, <2>3
<1> QED
  BY <1>1, <1>2 DEF Wrap

\* Of a Split: the limit is left, or what 0 counts down to.
SplitInv ==
    LET str == call.str  pat == call.pat  n == Len(pieces)
    IN  /\ {str, pat} \subseteq Seq(Chars) /\ str # <<>> /\ pat # <<>> /\ Len(str) < NPOS
        /\ call.max \in 0..NPOS
        /\ SplitTo(str, pat, pieces, pos)
        /\ IF call.max = 0 THEN left = Wrap(0 - n) ELSE left = call.max - n /\ n < call.max

LEMMA SplitBegins ==
    ASSUME StringsInit, NEW str \in Texts(Letters, MaxText),
           NEW pat \in Texts(Letters, MaxPattern), NEW max \in 0..NPOS,
           AskSplit(str, pat, max)
    PROVE  /\ call'.f = "Split"
           /\ pc' = "loop" => SplitInv'
           /\ pc' = "done" => SplitExact'
           /\ pc' \in {"loop", "done"}
<1>1. /\ call' = [f |-> "Split", str |-> str, pat |-> pat, max |-> max]
      /\ pieces' = IF str # <<>> /\ pat = <<>> THEN <<str>> ELSE <<>>
      /\ left' = max /\ pos' = 0
      /\ pc' = IF str # <<>> /\ pat # <<>> THEN "loop" ELSE "done"
  BY DEF StringsInit, AskSplit, Begin
<1>2. /\ call'.f = "Split" /\ call'.str = str /\ call'.pat = pat /\ call'.max = max
  BY <1>1
<1>3. str \in Seq(Letters) /\ pat \in Seq(Letters) /\ Len(str) \in 0..MaxText
  BY TextsAre, StringUtilsAssumption DEF StringUtilsAssumption
<1>4. str \in Seq(Chars) /\ pat \in Seq(Chars)
  <2>1. Letters \subseteq Chars
    BY DEF Chars
  <2> QED
    BY <1>3, <2>1, MoreChars
<1>5. Len(str) < NPOS
  <2>1. /\ Len(str) <= Len(str) + 0 * 0 /\ 0 <= Len(str) /\ Len(str) \in Nat /\ Len(str) <= MaxText
        /\ 0 \in Nat /\ 0 <= MaxPattern
    BY <1>3, StringUtilsAssumption DEF StringUtilsAssumption
  <2> QED
    BY <2>1, ShorterThanNPOS
<1>6. SplitTo(str, pat, <<>>, 0)
  <2>1. 0 \in 0..Len(str)
    BY <1>3
  <2>2. <<>> \in Seq(Seq(Chars)) /\ Len(<<>>) = 0 /\ 1..0 = {}
    BY EmptySeq
  <2>3. Part(str, 0, 0) = <<>>
    <3>1. Part(str, 0, 0) \in Seq(Chars) /\ Len(Part(str, 0, 0)) = 0
      BY <1>4, <2>1, PartHead
    <3> QED
      BY <3>1, EmptySeq
  <2>4. Glued(<<>>, pat) = <<>>
    BY <1>4, GluedNone
  <2> QED
    BY <2>1, <2>2, <2>3, <2>4 DEF SplitTo
<1>7. CASE str # <<>> /\ pat # <<>>
  <2>1. Len(<<>>) = 0 /\ max - 0 = max /\ (max # 0 => 0 < max) /\ Wrap(0 - 0) = 0
    <3>1. 0 \in 0..NPOS /\ 0 - 0 = 0
      BY StringUtilsAssumption DEF StringUtilsAssumption
    <3>2. Wrap(0) = 0
      BY <3>1, WrapOf
    <3> QED
      BY <3>1, <3>2
  <2>2. SplitInv'
    BY <1>1, <1>2, <1>4, <1>5, <1>6, <1>7, <2>1 DEF SplitInv
  <2> QED
    BY <1>1, <1>2, <1>7, <2>2
<1>8. CASE str = <<>> \/ pat = <<>>
  BY <1>1, <1>2, <1>8 DEF SplitExact
<1> QED
  BY <1>7, <1>8

LEMMA SplitGoesOn ==
    ASSUME SplitInv, SplitTurn
    PROVE  /\ pc' = "loop" => SplitInv'
           /\ pc' = "done" => SplitExact'
           /\ call' = call /\ pc' \in {"loop", "done"}
<1> DEFINE str == call.str  pat == call.pat  max == call.max  n == Len(pieces)
           nextDelim == IF left' = 0 THEN NPOS ELSE Find(str, pat, pos)
           piece == SubStr(str, pos, nextDelim - pos)
           more  == Add(pieces, piece)
<1>1. /\ str \in Seq(Chars) /\ pat \in Seq(Chars) /\ str # <<>> /\ pat # <<>> /\ Len(str) < NPOS
      /\ max \in 0..NPOS
      /\ IF max = 0 THEN left = Wrap(0 - n) ELSE left = max - n /\ n < max
  BY DEF SplitInv
<1>2. SplitTo(str, pat, pieces, pos)
  BY DEF SplitInv
<1>3. pieces \in Seq(Seq(Chars)) /\ pos \in 0..Len(str) /\ n <= pos
  BY <1>2 DEF SplitTo
<1>4. /\ Len(str) \in Nat /\ Len(pat) \in Nat /\ n \in Nat /\ n < NPOS /\ NPOS \in Nat
      /\ pos \in Nat
  BY <1>1, <1>3, LenProperties, StringUtilsAssumption DEF StringUtilsAssumption
<1>5. /\ left' = Wrap(left - 1)
      /\ pieces' = more
      /\ pos' = IF left' = 0 THEN pos ELSE Wrap(nextDelim + Len(pat))
      /\ pc' = IF nextDelim = NPOS THEN "done" ELSE "loop"
      /\ call' = call
  BY DEF SplitTurn, Add
<1> HIDE DEF n, max
<1>6. IF max = 0 THEN left' = Wrap(0 - (n + 1)) /\ left' # 0
      ELSE left' = max - (n + 1)
  <2>1. CASE max = 0
    <3>1. left = IF n = 0 THEN 0 ELSE 0 - n + NPOS + 1
      BY <1>1, <1>4, <2>1, WrapOf
    <3>2. left - 1 = IF n = 0 THEN 0 - 1 ELSE 0 - n + NPOS
      BY <1>4, <3>1
    <3>3. left' = 0 - n + NPOS
      <4>1. /\ n = 0 => Wrap(0 - 1) = 0 - 1 + NPOS + 1
            /\ n # 0 => Wrap(0 - n + NPOS) = 0 - n + NPOS
        BY <1>4, WrapOf
      <4> QED
        BY <1>4, <1>5, <3>2, <4>1
    <3>4. Wrap(0 - (n + 1)) = 0 - (n + 1) + NPOS + 1
      BY <1>4, WrapOf
    <3> QED
      BY <1>4, <2>1, <3>3, <3>4
  <2>2. CASE max # 0
    <3>1. left - 1 \in 0..NPOS /\ left - 1 = max - (n + 1)
      BY <1>1, <1>4, <2>2
    <3> QED
      BY <1>5, <2>2, <3>1, WrapOf
  <2> QED
    BY <2>1, <2>2
<1>7. /\ Find(str, pat, pos) = NPOS =>
            \A i \in pos..(Len(str) - Len(pat)) : ~Occurs(str, pat, i)
      /\ Find(str, pat, pos) # NPOS =>
            /\ Find(str, pat, pos) \in pos..(Len(str) - Len(pat))
            /\ Occurs(str, pat, Find(str, pat, pos))
            /\ \A i \in pos..(Find(str, pat, pos) - 1) : ~Occurs(str, pat, i)
  BY <1>1, <1>4, FindIn
<1>8. CASE nextDelim = NPOS
  <2>1. piece = Part(str, pos, Len(str))
    <3>1. NPOS - pos \in Nat /\ pos + (NPOS - pos) >= Len(str)
      BY <1>1, <1>3, <1>4
    <3>2. SubStr(str, pos, NPOS - pos) = Part(str, pos, Len(str))
      <4> HIDE DEF str
      <4> QED
        BY <1>1, <1>3, <3>1, SubStrIsPart
    <3> QED
      BY <1>8, <3>2
  <2> HIDE DEF str, pat, piece
  <2>2. /\ Len(more) = Len(pieces) + 1 /\ more[Len(more)] = piece
        /\ Glued(more, pat) = Cat(str, pat)
        /\ Leftmost(more, pat)
    BY <1>1, <1>2, <2>1, SplitLast
  <2>3. left' # 0 => Find(piece, pat, 0) = NPOS
    <3> SUFFICES ASSUME left' # 0 PROVE Find(piece, pat, 0) = NPOS
      OBVIOUS
    <3>1. \A i \in pos..(Len(str) - Len(pat)) : ~Occurs(str, pat, i)
      BY <1>7, <1>8 DEF str, pat
    <3>2. SubStr(str, pos, NPOS) = Part(str, pos, Len(str))
      <4>1. pos + NPOS >= Len(str)
        BY <1>1, <1>3, <1>4
      <4> QED
        BY <1>1, <1>3, <1>4, <4>1, SubStrIsPart
    <3> QED
      BY <1>1, <1>3, <2>1, <3>1, <3>2, RestHasNone
  <2>4. Len(more) = n + 1
    BY <2>2 DEF n
  <2>5. max > 0 => Len(more) <= max
    BY <1>1, <1>4, <2>4 DEF n
  <2>6. Len(more) = max \/ Remainder(more, pat) = NPOS
    <3>1. left' = 0 => max = n + 1
      BY <1>1, <1>4, <1>6
    <3> QED
      BY <2>2, <2>3, <2>4, <3>1 DEF Remainder
  <2> HIDE DEF more
  <2>7. /\ call'.str = str /\ call'.pat = pat /\ call'.max = max /\ pieces' = more
    BY <1>5 DEF str, pat, max, more
  <2>8. /\ call'.str # <<>> /\ call'.pat # <<>>
        /\ Glued(pieces', call'.pat) = Cat(call'.str, call'.pat)
        /\ Leftmost(pieces', call'.pat)
        /\ call'.max > 0 => Len(pieces') <= call'.max
        /\ Len(pieces') = call'.max \/ Remainder(pieces', call'.pat) = NPOS
    BY <1>1, <2>2, <2>5, <2>6, <2>7
  <2>9. SplitExact'
    BY <2>8, Zenon DEF SplitExact, Cat
  <2> QED
    BY <1>5, <1>8, <2>9
<1>9. CASE nextDelim # NPOS
  <2>1. /\ left' # 0 /\ nextDelim = Find(str, pat, pos)
        /\ nextDelim \in pos..(Len(str) - Len(pat)) /\ Occurs(str, pat, nextDelim)
        /\ \A i \in pos..(nextDelim - 1) : ~Occurs(str, pat, i)
    BY <1>7, <1>9
  <2> HIDE DEF str, pat, nextDelim
  <2>2. SplitTo(str, pat, more, nextDelim + Len(pat))
    BY <1>1, <1>2, <2>1, SplitMore
  <2>3. pos' = nextDelim + Len(pat)
    <3>1. nextDelim + Len(pat) \in 0..NPOS
      BY <1>1, <1>4, <2>1
    <3>2. Wrap(nextDelim + Len(pat)) = nextDelim + Len(pat)
      BY <3>1, WrapOf
    <3> QED
      BY <1>5, <2>1, <3>2 DEF pat, nextDelim
  <2>4. Len(more) = n + 1
    <3>1. piece \in Seq(Chars)
      <4>1. nextDelim - pos \in Nat
        BY <1>4, <2>1
      <4> QED
        BY <1>1, <1>3, <4>1, SubStrOf
    <3> QED
      BY <1>3, <3>1, AddOf DEF n
  <2> HIDE DEF piece, more
  <2>5. IF max = 0 THEN left' = Wrap(0 - Len(more)) ELSE left' = max - Len(more) /\ Len(more) < max
    BY <1>1, <1>4, <1>6, <2>1, <2>4 DEF n
  <2>6. SplitTo(call.str, call.pat, pieces', pos') /\ pieces' = more
    BY <1>5, <2>2, <2>3 DEF more, piece, str, pat, nextDelim
  <2>7. SplitInv'
    BY <1>1, <1>5, <2>5, <2>6 DEF SplitInv, str, pat, max
  <2> QED
    BY <1>5, <1>9, <2>7 DEF nextDelim, str, pat
<1> QED
  BY <1>8, <1>9

-----------------------------------------------------------------------------
(***************************************************************************)
(* FindNumber, turn by turn.                                               *)
(***************************************************************************)

Occurrences(str, pat) == {i \in 0..(Len(str) - Len(pat)) : Occurs(str, pat, i)}

Before(places, n) == {i \in places : i < n}

\* Of a FindNumber: the occurrences before pos have been counted.
FindNumberInv ==
    LET all == Occurrences(call.str, call.pat)
    IN  /\ {call.str, call.pat} \subseteq Seq(Chars) /\ Len(call.str) < NPOS
        /\ \/ pos = NPOS /\ count = Cardinality(all)
           \/ pos \in all /\ count = Cardinality(Before(all, pos))

\* To find the next is to count one more.
LEMMA FoundNext ==
    ASSUME NEW str \in Seq(Chars), NEW pat \in Seq(Chars), Len(str) < NPOS, NEW from \in Nat
    PROVE  LET all  == Occurrences(str, pat)
               next == Find(str, pat, from)
           IN  /\ Before(all, from) \in SUBSET Nat /\ IsFiniteSet(Before(all, from))
               /\ next = NPOS => all = Before(all, from)
               /\ next # NPOS => next \in all /\ Before(all, next) = Before(all, from)
<1> DEFINE all  == Occurrences(str, pat)
           next == Find(str, pat, from)
<1>1. Len(str) \in Nat /\ Len(pat) \in Nat /\ NPOS \in Nat
  BY LenProperties, StringUtilsAssumption DEF StringUtilsAssumption
<1>2. /\ next = NPOS => \A i \in from..(Len(str) - Len(pat)) : ~Occurs(str, pat, i)
      /\ next # NPOS =>
            /\ next \in from..(Len(str) - Len(pat))
            /\ Occurs(str, pat, next)
            /\ \A i \in from..(next - 1) : ~Occurs(str, pat, i)
  BY FindIn
<1> HIDE DEF next
<1>3. /\ all \in SUBSET (0..Len(str))
      /\ \A i \in all : i \in 0..(Len(str) - Len(pat)) /\ Occurs(str, pat, i)
  BY <1>1 DEF Occurrences
<1>4. \A i \in 0..(Len(str) - Len(pat)) : Occurs(str, pat, i) => i \in all
  BY DEF Occurrences
<1> HIDE DEF all
<1>5. IsFiniteSet(Before(all, from)) /\ Before(all, from) \in SUBSET Nat
  <2>1. IsFiniteSet(0..Len(str))
    BY <1>1, FS_Interval
  <2>2. Before(all, from) \subseteq 0..Len(str)
    BY <1>3 DEF Before
  <2> QED
    BY <1>1, <2>1, <2>2, FS_Subset
<1>6. ASSUME next = NPOS PROVE all = Before(all, from)
  <2>1. ASSUME NEW i \in all PROVE i < from
    BY <1>1, <1>2, <1>3, <1>6
  <2> QED
    BY <2>1 DEF Before
<1>7. ASSUME next # NPOS PROVE next \in all /\ Before(all, next) = Before(all, from)
  <2>1. next \in from..(Len(str) - Len(pat)) /\ next \in all /\ next \in Nat
    <3>1. next \in from..(Len(str) - Len(pat)) /\ Occurs(str, pat, next)
      BY <1>2, <1>7
    <3>2. next \in 0..(Len(str) - Len(pat)) /\ next \in Nat
      BY <1>1, <3>1
    <3> QED
      BY <1>4, <3>1, <3>2
  <2>2. ASSUME NEW i \in all PROVE i < next <=> i < from
    <3>1. i \in 0..(Len(str) - Len(pat)) /\ Occurs(str, pat, i)
      BY <1>3
    <3>2. i \notin from..(next - 1)
      BY <1>2, <1>7, <3>1
    <3> QED
      BY <1>1, <2>1, <3>1, <3>2
  <2>3. Before(all, next) = Before(all, from)
    BY <2>2 DEF Before
  <2> QED
    BY <2>1, <2>3
<1> QED
  BY <1>3, <1>5, <1>6, <1>7 DEF all, next

LEMMA FindNumberBegins ==
    ASSUME StringsInit, NEW str \in Texts(Letters, MaxText),
           NEW pat \in Texts(Letters, MaxPattern), AskFindNumber(str, pat)
    PROVE  call'.f = "FindNumber" /\ pc' = "loop" /\ FindNumberInv'
<1>1. /\ call' = [f |-> "FindNumber", str |-> str, pat |-> pat]
      /\ pos' = Find(str, pat, 0) /\ count' = 0 /\ pc' = "loop"
  BY DEF StringsInit, AskFindNumber, Begin
<1>2. call'.f = "FindNumber" /\ call'.str = str /\ call'.pat = pat
  BY <1>1
<1>3. str \in Seq(Letters) /\ pat \in Seq(Letters) /\ Len(str) \in 0..MaxText
  BY TextsAre, StringUtilsAssumption DEF StringUtilsAssumption
<1>4. str \in Seq(Chars) /\ pat \in Seq(Chars)
  <2>1. Letters \subseteq Chars
    BY DEF Chars
  <2> QED
    BY <1>3, <2>1, MoreChars
<1>5. Len(str) < NPOS
  <2>1. /\ Len(str) <= Len(str) + 0 * 0 /\ 0 <= Len(str) /\ Len(str) \in Nat /\ Len(str) <= MaxText
        /\ 0 \in Nat /\ 0 <= MaxPattern
    BY <1>3, StringUtilsAssumption DEF StringUtilsAssumption
  <2> QED
    BY <2>1, ShorterThanNPOS
<1> DEFINE all  == Occurrences(str, pat)
           next == Find(str, pat, 0)
<1>6. /\ Before(all, 0) \in SUBSET Nat
      /\ next = NPOS => all = Before(all, 0)
      /\ next # NPOS => next \in all /\ Before(all, next) = Before(all, 0)
  BY <1>4, <1>5, FoundNext
<1> HIDE DEF all, next
<1>7. Cardinality(Before(all, 0)) = 0
  <2>1. \A i \in all : ~(i < 0)
    BY DEF all, Occurrences
  <2>2. Before(all, 0) = {}
    BY <2>1 DEF Before
  <2> QED
    BY <2>2, FS_EmptySet
<1>8. \/ pos' = NPOS /\ count' = Cardinality(all)
      \/ pos' \in all /\ count' = Cardinality(Before(all, pos'))
  BY <1>1, <1>6, <1>7 DEF next
<1> QED
  BY <1>1, <1>2, <1>4, <1>5, <1>8 DEF FindNumberInv, all

LEMMA FindNumberGoesOn ==
    ASSUME FindNumberInv, FindNumberTurn
    PROVE  /\ pc' = "loop" => FindNumberInv'
           /\ pc' = "done" => count' = Cardinality(Occurrences(call'.str, call'.pat))
           /\ call' = call /\ pc' \in {"loop", "done"}
<1> DEFINE str == call.str  pat == call.pat  all == Occurrences(str, pat)
           next == Find(str, pat, pos + 1)
<1>1. /\ str \in Seq(Chars) /\ pat \in Seq(Chars) /\ Len(str) < NPOS
      /\ \/ pos = NPOS /\ count = Cardinality(all)
         \/ pos \in all /\ count = Cardinality(Before(all, pos))
  BY DEF FindNumberInv
<1>2. /\ call' = call
      /\ IF pos = NPOS THEN pc' = "done" /\ count' = count
         ELSE count' = count + 1 /\ pos' = next /\ pc' = pc
      /\ pc = "loop"
  BY DEF FindNumberTurn, Turn
<1>3. CASE pos = NPOS
  <2>1. Len(str) \in Nat /\ Len(pat) \in Nat /\ NPOS \in Nat
    BY <1>1, LenProperties, StringUtilsAssumption DEF StringUtilsAssumption
  <2>2. pos \notin all
    BY <1>1, <1>3, <2>1 DEF Occurrences
  <2> QED
    BY <1>1, <1>2, <1>3, <2>2
<1>4. CASE pos # NPOS
  <2>1. pos \in all /\ count = Cardinality(Before(all, pos)) /\ pos \in Nat
    <3>1. \A i \in all : i \in Nat
      BY DEF Occurrences
    <3> HIDE DEF all
    <3> QED
      BY <1>1, <1>4, <3>1
  <2> HIDE DEF str, pat
  <2>2. /\ Before(all, pos) \in SUBSET Nat /\ IsFiniteSet(Before(all, pos))
    BY <1>1, <2>1, FoundNext
  <2>3. /\ next = NPOS => all = Before(all, pos + 1)
        /\ next # NPOS => next \in all /\ Before(all, next) = Before(all, pos + 1)
        /\ Before(all, pos + 1) \in SUBSET Nat
    <3>1. pos + 1 \in Nat
      BY <2>1
    <3> QED
      BY <1>1, <3>1, FoundNext
  <2>4. \A i \in all : i \in Int
    BY DEF Occurrences
  <2> HIDE DEF all, next
  <2>5. Before(all, pos + 1) = Before(all, pos) \cup {pos} /\ pos \notin Before(all, pos)
    <3>1. pos + 1 \in Int /\ pos < pos + 1 /\ ~(pos < pos)
          /\ \A i \in all : i < pos + 1 <=> i < pos \/ i = pos
      BY <2>1, <2>4
    <3>2. pos \notin Before(all, pos)
      BY <3>1 DEF Before
    <3>3. \A i : i \in Before(all, pos + 1) <=> i \in Before(all, pos) \/ i = pos
      BY <2>1, <3>1, Zenon DEF Before
    <3> QED
      BY <3>2, <3>3
  <2>6. Cardinality(Before(all, pos + 1)) = Cardinality(Before(all, pos)) + 1
    BY <2>2, <2>5, FS_AddElement
  <2>7. \/ pos' = NPOS /\ count' = Cardinality(all)
        \/ pos' \in all /\ count' = Cardinality(Before(all, pos'))
    BY <1>2, <1>4, <2>1, <2>3, <2>6
  <2> QED
    BY <1>1, <1>2, <1>4, <2>7 DEF FindNumberInv, all, str, pat
<1> QED
  BY <1>3, <1>4

-----------------------------------------------------------------------------
(***************************************************************************)
(* RemoveDuplicatedSpacesAndTabs, turn by turn.                            *)
(***************************************************************************)

\* Of a RemoveDuplicatedSpacesAndTabs: in text it is at pos, which is place in the
\* string, from where on nothing has changed.
CleanTo(str, now, from, place, origins) ==
    /\ str \in Seq(Chars) /\ now \in Seq(Chars) /\ from \in 0..Len(now) /\ place \in 0..Len(str)
    /\ origins \in Seq(Nat) /\ Len(origins) = from
    /\ \A i \in 1..from :
          /\ origins[i] \in 1..place
          /\ now[i] = IF str[origins[i]] \in Blanks THEN "space" ELSE str[origins[i]]
    /\ \A i \in 1..(from - 1) :
          origins[i] < origins[i + 1] /\ (now[i] # "space" \/ now[i + 1] # "space")
    /\ \A k \in 1..place :
          \/ \E i \in 1..from : origins[i] = k
          \/ k > 1 /\ str[k - 1] \in Blanks /\ str[k] \in Blanks

CleanInv ==
    LET place == Place(call.str, text, pos)
    IN  /\ CleanTo(call.str, text, pos, place, origin)
        /\ Follows(text, pos, call.str, place)
        /\ Len(text) < NPOS
        /\ onSpace => place > 0 /\ call.str[place] \in Blanks
        /\ pos > 0 /\ text[pos] = "space" => onSpace

LEMMA CleanBegins ==
    ASSUME StringsInit, NEW str \in Texts(Letters \cup Spaces, MaxText), AskClean(str)
    PROVE  call'.f = "Clean" /\ pc' = "loop" /\ CleanInv'
<1>1. /\ call' = [f |-> "Clean", str |-> str] /\ text' = str /\ pos' = 0
      /\ pc' = "loop" /\ onSpace' = FALSE /\ origin' = <<>>
  BY DEF StringsInit, AskClean, Begin
<1>2. call'.f = "Clean" /\ call'.str = str
  BY <1>1
<1>3. str \in Seq(Letters \cup Spaces) /\ Len(str) \in 0..MaxText
  BY TextsAre, StringUtilsAssumption DEF StringUtilsAssumption
<1>4. str \in Seq(Chars)
  <2>1. Letters \cup Spaces \subseteq Chars
    BY DEF Chars
  <2> QED
    BY <1>3, <2>1, MoreChars
<1>5. Len(str) < NPOS
  <2>1. /\ Len(str) <= Len(str) + 0 * 0 /\ 0 <= Len(str) /\ Len(str) \in Nat /\ Len(str) <= MaxText
        /\ 0 \in Nat /\ 0 <= MaxPattern
    BY <1>3, StringUtilsAssumption DEF StringUtilsAssumption
  <2> QED
    BY <2>1, ShorterThanNPOS
<1>6. 0 \in 0..Len(str) /\ Place(str, str, 0) = 0 /\ 1..0 = {} /\ 1..(0 - 1) = {}
  BY <1>3 DEF Place
<1>7. CleanTo(str, str, 0, 0, <<>>)
  <2>1. <<>> \in Seq(Nat) /\ Len(<<>>) = 0
    BY EmptySeq
  <2> QED
    BY <1>4, <1>6, <2>1 DEF CleanTo
<1>8. Follows(str, 0, str, 0)
  BY DEF Follows
<1> QED
  BY <1>1, <1>2, <1>5, <1>6, <1>7, <1>8 DEF CleanInv

LEMMA AddNumber ==
    ASSUME NEW s \in Seq(Nat), NEW x \in Nat
    PROVE  /\ Add(s, x) \in Seq(Nat) /\ Len(Add(s, x)) = Len(s) + 1
           /\ \A i \in 1..Len(s) : Add(s, x)[i] = s[i]
           /\ Add(s, x)[Len(s) + 1] = x
BY AppendProperties DEF Add

\* The next character is one of a string in which it comes at place + 1.
LEMMA CleanKeeps ==
    ASSUME NEW str, NEW now, NEW from \in Nat, NEW place \in Nat, NEW origins,
           CleanTo(str, now, from, place, origins), from < Len(now), place < Len(str),
           NEW c, c = IF str[place + 1] \in Blanks THEN "space" ELSE str[place + 1],
           from > 0 /\ now[from] = "space" => c # "space"
    PROVE  CleanTo(str, [now EXCEPT ![from + 1] = c], from + 1, place + 1,
                   Add(origins, place + 1))
<1> DEFINE t == [now EXCEPT ![from + 1] = c]
           o == Add(origins, place + 1)
<1>1. /\ str \in Seq(Chars) /\ now \in Seq(Chars) /\ from \in 0..Len(now) /\ place \in 0..Len(str)
      /\ origins \in Seq(Nat) /\ Len(origins) = from
  BY DEF CleanTo
<1>2. /\ \A i \in 1..from :
            /\ origins[i] \in 1..place
            /\ now[i] = IF str[origins[i]] \in Blanks THEN "space" ELSE str[origins[i]]
      /\ \A i \in 1..(from - 1) :
            origins[i] < origins[i + 1] /\ (now[i] # "space" \/ now[i + 1] # "space")
  BY DEF CleanTo
<1>3. \A k \in 1..place :
         \/ \E i \in 1..from : origins[i] = k
         \/ k > 1 /\ str[k - 1] \in Blanks /\ str[k] \in Blanks
  BY DEF CleanTo
<1>4. from > 0 /\ now[from] = "space" => c # "space"
  OBVIOUS
<1>5. /\ Len(now) \in Nat /\ Len(str) \in Nat /\ from \in Nat /\ place \in Nat
      /\ from + 1 \in 1..Len(now) /\ place + 1 \in 1..Len(str) /\ place + 1 \in Nat
  BY <1>1, LenProperties
<1>6. c \in Chars
  <2>1. str[place + 1] \in Chars
    BY <1>1, <1>5, ElementOfSeq
  <2>2. "space" \in Chars
    BY DEF Chars, Spaces
  <2> QED
    BY <2>1, <2>2
<1>7. /\ t \in Seq(Chars) /\ Len(t) = Len(now) /\ t[from + 1] = c
      /\ \A i \in 1..from : t[i] = now[i]
  <2>1. /\ t \in Seq(Chars) /\ Len(t) = Len(now)
        /\ \A i \in 1..Len(now) : t[i] = IF i = from + 1 THEN c ELSE now[i]
    BY <1>1, <1>5, <1>6, ExceptSeq
  <2>2. \A i \in 1..from : i \in 1..Len(now) /\ i # from + 1
    BY <1>5
  <2> HIDE DEF t
  <2> QED
    BY <1>5, <2>1, <2>2
<1>8. /\ o \in Seq(Nat) /\ Len(o) = from + 1 /\ o[from + 1] = place + 1
      /\ \A i \in 1..from : o[i] = origins[i]
  <2>1. /\ o \in Seq(Nat) /\ Len(o) = Len(origins) + 1 /\ o[Len(origins) + 1] = place + 1
        /\ \A i \in 1..Len(origins) : o[i] = origins[i]
    BY <1>1, <1>5, AddNumber
  <2> HIDE DEF o
  <2> QED
    BY <1>1, <2>1
<1> HIDE DEF t, o
<1>9. ASSUME NEW i \in 1..(from + 1)
      PROVE  /\ o[i] \in 1..(place + 1)
             /\ t[i] = IF str[o[i]] \in Blanks THEN "space" ELSE str[o[i]]
  <2>1. CASE i \in 1..from
    <3>1. o[i] = origins[i] /\ t[i] = now[i]
      BY <1>7, <1>8, <2>1
    <3>2. origins[i] \in 1..place
      BY <1>2, <2>1
    <3>3. origins[i] \in 1..(place + 1)
      BY <1>5, <3>2
    <3> QED
      BY <1>2, <2>1, <3>1, <3>3
  <2>2. CASE i = from + 1
    BY <1>5, <1>7, <1>8, <2>2
  <2> QED
    BY <1>5, <2>1, <2>2
<1>10. ASSUME NEW i \in 1..((from + 1) - 1)
       PROVE  o[i] < o[i + 1] /\ (t[i] # "space" \/ t[i + 1] # "space")
  <2>1. i \in 1..from
    BY <1>5
  <2>2. CASE i \in 1..(from - 1)
    <3>1. i + 1 \in 1..from
      BY <1>5, <2>2
    <3> QED
      BY <1>2, <1>7, <1>8, <2>1, <2>2, <3>1
  <2>3. CASE i = from
    <3>1. /\ o[i] = origins[i] /\ origins[i] \in 1..place
          /\ o[i + 1] = place + 1 /\ t[i] = now[from] /\ t[i + 1] = c
      BY <1>2, <1>7, <1>8, <2>1, <2>3
    <3>2. o[i] < o[i + 1]
      BY <1>5, <3>1
    <3>3. now[from] # "space" \/ c # "space"
      BY <1>4, <2>1, <2>3
    <3> QED
      BY <3>1, <3>2, <3>3
  <2> QED
    BY <1>5, <2>1, <2>2, <2>3
<1>11. ASSUME NEW k \in 1..(place + 1)
       PROVE  \/ \E i \in 1..(from + 1) : o[i] = k
              \/ k > 1 /\ str[k - 1] \in Blanks /\ str[k] \in Blanks
  <2>1. CASE k \in 1..place
    <3>1. CASE \E i \in 1..from : origins[i] = k
      <4>1. PICK i \in 1..from : origins[i] = k
        BY <3>1
      <4>2. i \in 1..(from + 1) /\ o[i] = k
        BY <1>5, <1>8, <4>1
      <4> QED
        BY <4>2
    <3> QED
      BY <1>3, <2>1, <3>1
  <2>2. CASE k = place + 1
    <3>1. from + 1 \in 1..(from + 1) /\ o[from + 1] = k
      BY <1>5, <1>8, <2>2
    <3> QED
      BY <3>1
  <2> QED
    BY <1>5, <2>1, <2>2
<1>12. from + 1 \in 0..Len(t) /\ place + 1 \in 0..Len(str) /\ place + 1 > 0
  BY <1>5, <1>7
<1>13. CleanTo(str, t, from + 1, place + 1, o)
  BY <1>1, <1>7, <1>8, <1>9, <1>10, <1>11, <1>12 DEF CleanTo
<1> QED
  BY <1>13 DEF t, o

LEMMA CleanDrops ==
    ASSUME NEW str, NEW now, NEW from \in Nat, NEW place \in Nat, NEW origins,
           CleanTo(str, now, from, place, origins), place < Len(str),
           place > 0, str[place] \in Blanks, str[place + 1] \in Blanks,
           NEW next \in Seq(Chars), from <= Len(next), \A i \in 1..from : next[i] = now[i]
    PROVE  CleanTo(str, next, from, place + 1, origins)
<1>1. /\ str \in Seq(Chars) /\ now \in Seq(Chars) /\ from \in 0..Len(now) /\ place \in 0..Len(str)
      /\ origins \in Seq(Nat) /\ Len(origins) = from
  BY DEF CleanTo
<1>2. /\ Len(str) \in Nat /\ Len(next) \in Nat /\ from \in 0..Len(next) /\ place \in Nat
      /\ place + 1 \in 0..Len(str) /\ place + 1 > 1 /\ (place + 1) - 1 = place /\ place + 1 > 0
  BY <1>1, LenProperties
<1>3. ASSUME NEW i \in 1..from
      PROVE  /\ origins[i] \in 1..(place + 1)
             /\ next[i] = IF str[origins[i]] \in Blanks THEN "space" ELSE str[origins[i]]
  <2>1. origins[i] \in 1..place /\ now[i] = IF str[origins[i]] \in Blanks THEN "space" ELSE str[origins[i]]
    BY DEF CleanTo
  <2>2. origins[i] \in 1..(place + 1)
    BY <1>2, <2>1
  <2> QED
    BY <2>1, <2>2
<1>4. ASSUME NEW i \in 1..(from - 1)
      PROVE  origins[i] < origins[i + 1] /\ (next[i] # "space" \/ next[i + 1] # "space")
  <2>1. i \in 1..from /\ i + 1 \in 1..from
    BY <1>1
  <2>2. origins[i] < origins[i + 1] /\ (now[i] # "space" \/ now[i + 1] # "space")
    BY DEF CleanTo
  <2> QED
    BY <2>1, <2>2
<1>5. ASSUME NEW k \in 1..(place + 1)
      PROVE  \/ \E i \in 1..from : origins[i] = k
             \/ k > 1 /\ str[k - 1] \in Blanks /\ str[k] \in Blanks
  <2>1. k \in 1..place \/ k = place + 1
    BY <1>2
  <2> QED
    BY <1>1, <1>2, <2>1 DEF CleanTo
<1> QED
  BY <1>1, <1>2, <1>3, <1>4, <1>5 DEF CleanTo

LEMMA CleanGoesOn ==
    ASSUME CleanInv, CleanTurn PROVE CleanInv' /\ call' = call /\ pc' = pc
<1> DEFINE str == call.str
           place == Place(str, text, pos)
           c == IF text[pos + 1] \in Blanks THEN "space" ELSE text[pos + 1]
<1>1. CleanTo(str, text, pos, place, origin) /\ Follows(text, pos, str, place) /\ Len(text) < NPOS
  BY DEF CleanInv
<1>2. /\ onSpace => place > 0 /\ str[place] \in Blanks
      /\ pos > 0 /\ text[pos] = "space" => onSpace
  BY Zenon DEF CleanInv
<1>3. /\ str \in Seq(Chars) /\ text \in Seq(Chars) /\ pos \in 0..Len(text) /\ place \in 0..Len(str)
      /\ origin \in Seq(Nat)
  BY <1>1 DEF CleanTo
<1>4. /\ Len(str) \in Nat /\ Len(text) \in Nat /\ pos \in Nat /\ place \in Nat /\ NPOS \in Nat
      /\ place = Len(str) - (Len(text) - pos)
  BY <1>3, LenProperties, StringUtilsAssumption DEF StringUtilsAssumption, Place
<1>5. pos < Len(text) /\ place < Len(str) /\ call' = call /\ pc' = pc
  BY <1>4 DEF CleanTurn, Turn
<1>6. text[pos + 1] = str[place + 1]
  <2>1. 1 \in 1..(Len(text) - pos)
    BY <1>4, <1>5
  <2> HIDE DEF place, str
  <2> QED
    BY <1>1, <2>1 DEF Follows
<1>7. Follows(text, pos + 1, str, place + 1)
  <2> HIDE DEF place, str
  <2> QED
    BY <1>1, <1>3, <1>4, FollowsOn
<1>8. CASE text[pos + 1] \in Blanks /\ onSpace
  <2> DEFINE next == Spliced(text, pos, 1, <<>>)
  <2>1. /\ text' = Cat(SubStr(text, 0, pos), SubStr(text, pos + 1, NPOS))
        /\ UNCHANGED <<pos, onSpace, origin>>
    BY <1>8 DEF CleanTurn, Cat
  <2>2. SubStr(text, 0, pos) = Part(text, 0, pos) /\ Part(text, 0, pos) \in Seq(Chars)
    <3>1. 0 \in 0..Len(text) /\ 0 + pos <= Len(text) /\ 0 + pos = pos
      BY <1>3, <1>4
    <3> QED
      BY <1>3, <1>4, <3>1, SubStrIsPart, PartHead
  <2>3. SubStr(text, pos + 1, NPOS) = Part(text, pos + 1, Len(text))
    <3>1. pos + 1 \in 0..Len(text) /\ pos + 1 + NPOS >= Len(text)
      BY <1>1, <1>4, <1>5
    <3> QED
      BY <1>3, <1>4, <3>1, SubStrIsPart
  <2>4. Cat(Part(text, 0, pos), <<>>) = Part(text, 0, pos)
    BY <2>2, ConcatEmptySeq DEF Cat
  <2>5. text' = next
    BY <2>1, <2>2, <2>3, <2>4 DEF Spliced
  <2>6. /\ next \in Seq(Chars) /\ Len(next) = Len(text) - 1
        /\ Part(next, 0, pos) = Part(text, 0, pos)
        /\ Follows(next, pos, text, pos + 1)
    <3>1. /\ <<>> \in Seq(Chars) /\ Len(<<>>) = 0 /\ pos + 0 = pos /\ 1 \in Nat
          /\ pos + 1 <= Len(text) /\ Len(text) - 1 + 0 = Len(text) - 1
      BY <1>4, <1>5, EmptySeq
    <3>2. /\ next \in Seq(Chars)
          /\ Len(next) = Len(text) - 1 + Len(<<>>)
          /\ Part(next, 0, pos + Len(<<>>)) = Cat(Part(text, 0, pos), <<>>)
          /\ Follows(next, pos + Len(<<>>), text, pos + 1)
      BY <1>3, <1>4, <3>1, SplicedOf
    <3> HIDE DEF next
    <3> QED
      BY <2>4, <3>1, <3>2
  <2> HIDE DEF next
  <2>7. pos <= Len(next) /\ \A i \in 1..pos : next[i] = text[i]
    <3>1. pos \in 0..Len(next)
      BY <1>4, <1>5, <2>6
    <3> QED
      BY <1>3, <2>6, <3>1, PartHead
  <2>8. place > 0 /\ str[place] \in Blanks /\ str[place + 1] \in Blanks
    BY <1>2, <1>6, <1>8
  <2> HIDE DEF place, str
  <2>9. CleanTo(str, next, pos, place + 1, origin)
    BY <1>1, <1>4, <1>5, <2>6, <2>7, <2>8, CleanDrops
  <2>10. Follows(next, pos, str, place + 1)
    BY <1>7, <2>6, FollowsTwo
  <2>11. Place(str, next, pos) = place + 1 /\ Len(next) < NPOS /\ place + 1 > 0
    BY <1>1, <1>4, <2>6 DEF Place
  <2>12. pos > 0 /\ next[pos] = "space" => onSpace
    <3>1. pos > 0 => next[pos] = text[pos]
      BY <1>4, <2>7
    <3> QED
      BY <1>2, <3>1, Zenon
  <2>13. call'.str = str
    BY <1>5 DEF str
  <2>14. /\ CleanTo(call'.str, text', pos', Place(call'.str, text', pos'), origin')
         /\ Follows(text', pos', call'.str, Place(call'.str, text', pos'))
         /\ Len(text') < NPOS
         /\ Place(call'.str, text', pos') > 0 /\ call'.str[Place(call'.str, text', pos')] \in Blanks
    BY <2>1, <2>5, <2>8, <2>9, <2>10, <2>11, <2>13
  <2>15. pos' > 0 /\ text'[pos'] = "space" => onSpace'
    BY <2>1, <2>5, <2>12, Zenon
  <2> QED
    BY <1>5, <2>14, <2>15, Zenon DEF CleanInv
<1>9. CASE ~(text[pos + 1] \in Blanks /\ onSpace)
  <2> DEFINE next == [text EXCEPT ![pos + 1] = c]
  <2>1. /\ text' = next /\ pos' = pos + 1 /\ onSpace' = (text[pos + 1] \in Blanks)
        /\ origin' = Add(origin, pos + 1 + Len(str) - Len(text))
    BY <1>9, Zenon DEF CleanTurn, Add
  <2>2. pos + 1 + Len(str) - Len(text) = place + 1
    <3> HIDE DEF str, place, next
    <3> QED
      BY <1>4
  <2>3. Len(next) = Len(text) /\ \A i \in 1..Len(text) : next[i] = IF i = pos + 1 THEN c ELSE text[i]
    <3>1. c \in Chars /\ pos + 1 \in 1..Len(text)
      <4>1. "space" \in Chars /\ pos + 1 \in 1..Len(text)
        BY <1>4, <1>5 DEF Chars, Spaces
      <4>2. text[pos + 1] \in Chars
        BY <1>3, <4>1, ElementOfSeq
      <4> QED
        BY <4>1, <4>2
    <3> HIDE DEF c
    <3> QED
      BY <1>3, <3>1, ExceptSeq
  <2>4. c = (IF str[place + 1] \in Blanks THEN "space" ELSE str[place + 1])
    BY <1>6
  <2>5. pos > 0 /\ text[pos] = "space" => c # "space"
    <3> SUFFICES ASSUME pos > 0, text[pos] = "space" PROVE c # "space"
      OBVIOUS
    <3>1. onSpace
      BY <1>2, Zenon
    <3>2. text[pos + 1] \notin Blanks
      BY <1>9, <3>1, Zenon
    <3>3. "space" \in Blanks
      BY DEF Blanks
    <3> QED
      BY <3>2, <3>3
  <2> HIDE DEF str, place, c
  <2>6. CleanTo(str, next, pos + 1, place + 1, Add(origin, place + 1))
    BY <1>1, <1>4, <1>5, <2>4, <2>5, CleanKeeps
  <2> HIDE DEF next
  <2>7. Follows(next, pos + 1, str, place + 1)
    <3>1. Follows(next, pos + 1, text, pos + 1)
      <4>1. ASSUME NEW i \in 1..(Len(text) - (pos + 1)) PROVE next[(pos + 1) + i] = text[(pos + 1) + i]
        <5>1. (pos + 1) + i \in 1..Len(text) /\ (pos + 1) + i # pos + 1
          BY <1>4
        <5> QED
          BY <2>3, <5>1
      <4> QED
        BY <2>3, <4>1 DEF Follows
    <3> QED
      BY <1>7, <3>1, FollowsTwo
  <2>8. Place(str, next, pos + 1) = place + 1 /\ Len(next) < NPOS /\ place + 1 > 0
    BY <1>1, <1>4, <2>3 DEF Place
  <2>9. (text[pos + 1] \in Blanks => str[place + 1] \in Blanks)
        /\ (next[pos + 1] = "space" => text[pos + 1] \in Blanks)
    <3>1. next[pos + 1] = c
      BY <1>4, <1>5, <2>3
    <3>2. "space" \in Blanks
      BY DEF Blanks
    <3> QED
      BY <1>6, <3>1, <3>2 DEF c
  <2>10. call'.str = str
    BY <1>5 DEF str
  <2>11. /\ CleanTo(call'.str, text', pos', Place(call'.str, text', pos'), origin')
         /\ Follows(text', pos', call'.str, Place(call'.str, text', pos'))
         /\ Len(text') < NPOS
         /\ Place(call'.str, text', pos') = place + 1 /\ place + 1 > 0
    <3>1. text' = next /\ pos' = pos + 1 /\ origin' = Add(origin, place + 1)
      BY <2>1, <2>2 DEF next, str
    <3> QED
      BY <2>6, <2>7, <2>8, <2>10, <3>1
  <2>12. /\ onSpace' => Place(call'.str, text', pos') > 0 /\ call'.str[Place(call'.str, text', pos')] \in Blanks
         /\ pos' > 0 /\ text'[pos'] = "space" => onSpace'
    BY <2>1, <2>9, <2>10, <2>11, Zenon DEF next
  <2> QED
    BY <1>5, <2>11, <2>12, Zenon DEF CleanInv
<1> QED
  BY <1>5, <1>8, <1>9, Zenon

LEMMA CleanIsDone ==
    ASSUME CleanInv, CleanEnds PROVE CleanExact' /\ call' = call /\ pc' = "done"
<1> DEFINE str == call.str
<1>1. CleanTo(str, text, pos, Place(str, text, pos), origin)
  BY DEF CleanInv
<1>2. pos = Len(text) /\ call' = call /\ text' = text /\ origin' = origin /\ pc' = "done"
  BY DEF CleanEnds, loop
<1>3. str \in Seq(Chars) /\ text \in Seq(Chars)
  BY <1>1 DEF CleanTo
<1>4. Place(str, text, Len(text)) = Len(str)
  <2>1. Len(str) \in Nat /\ Len(text) \in Nat
    BY <1>3, LenProperties
  <2> QED
    BY <2>1 DEF Place
<1> HIDE DEF str
<1>5. CleanTo(str, text, Len(text), Len(str), origin)
  BY <1>1, <1>2, <1>4
<1>6. call'.str = str
  BY <1>2 DEF str
<1>7. /\ \A i \in 1..Len(text) :
            text[i] = IF str[origin[i]] \in Blanks THEN "space" ELSE str[origin[i]]
      /\ \A i \in 1..(Len(text) - 1) :
            origin[i] < origin[i + 1] /\ (text[i] # "space" \/ text[i + 1] # "space")
      /\ \A k \in 1..Len(str) :
            \/ \E i \in 1..Len(text) : origin[i] = k
            \/ k > 1 /\ str[k - 1] \in Blanks /\ str[k] \in Blanks
  BY <1>5, Zenon DEF CleanTo
<1> QED
  BY <1>2, <1>6, <1>7 DEF CleanExact

-----------------------------------------------------------------------------
(***************************************************************************)
(* The functions that take one step: numbers, letters, slices, trims.      *)
(***************************************************************************)

LEMMA SkipIs ==
    ASSUME NEW A, NEW str \in Seq(A), NEW i \in 0..Len(str), NEW chars, NEW j \in i..Len(str),
           \A k \in (i + 1)..j : str[k] \in chars,
           j < Len(str) => str[j + 1] \notin chars
    PROVE  Skip(str, i, chars) = j
<1> DEFINE Ends(n) == /\ \A k \in (i + 1)..n : str[k] \in chars
                      /\ n < Len(str) => str[n + 1] \notin chars
<1>0. Len(str) \in Nat
  BY LenProperties
<1>1. ASSUME NEW n \in i..Len(str), Ends(n) PROVE n = j
  <2>1. CASE n < j
    <3>1. n + 1 \in (i + 1)..j /\ n < Len(str)
      BY <1>0, <2>1
    <3> QED
      BY <1>1, <3>1
  <2>2. CASE j < n
    <3>1. j + 1 \in (i + 1)..n /\ j < Len(str)
      BY <1>0, <2>2
    <3> QED
      BY <1>1, <3>1
  <2> QED
    BY <1>0, <2>1, <2>2
<1>2. Ends(j)
  OBVIOUS
<1>3. Skip(str, i, chars) = CHOOSE n \in i..Len(str) : Ends(n)
  BY DEF Skip
<1> HIDE DEF Ends
<1> QED
  BY <1>1, <1>2, <1>3

LEMMA SkipOf ==
    ASSUME NEW A, NEW str \in Seq(A), NEW i \in 0..Len(str), NEW chars
    PROVE  /\ Skip(str, i, chars) \in i..Len(str)
           /\ \A k \in (i + 1)..Skip(str, i, chars) : str[k] \in chars
           /\ Skip(str, i, chars) < Len(str) => str[Skip(str, i, chars) + 1] \notin chars
<1> DEFINE ends == {j \in i..Len(str) : j = Len(str) \/ str[j + 1] \notin chars}
<1>0. Len(str) \in Nat
  BY LenProperties
<1>1. ends \in SUBSET Nat /\ Len(str) \in ends
  BY <1>0
<1>2. PICK j \in ends : \A m \in ends : j <= m
  BY <1>1, LeastNumber
<1>3. j \in i..Len(str) /\ (j < Len(str) => str[j + 1] \notin chars)
  BY <1>0
<1>4. ASSUME NEW k \in (i + 1)..j PROVE str[k] \in chars
  <2>1. k - 1 \in i..Len(str) /\ k - 1 < j /\ (k - 1) + 1 = k /\ k - 1 # Len(str)
    BY <1>0, <1>3
  <2>2. k - 1 \notin ends
    <3> HIDE DEF ends
    <3> QED
      BY <1>0, <1>2, <1>3, <2>1
  <2> QED
    BY <2>1, <2>2
<1>5. Skip(str, i, chars) = j
  BY <1>3, <1>4, SkipIs
<1> QED
  BY <1>3, <1>4, <1>5

LEMMA SkipBackIs ==
    ASSUME NEW A, NEW str \in Seq(A), NEW chars, NEW j \in 0..Len(str),
           \A k \in (j + 1)..Len(str) : str[k] \in chars,
           j > 0 => str[j] \notin chars
    PROVE  SkipBack(str, chars) = j
<1> DEFINE Ends(n) == /\ \A k \in (n + 1)..Len(str) : str[k] \in chars
                      /\ n > 0 => str[n] \notin chars
<1>0. Len(str) \in Nat
  BY LenProperties
<1>1. ASSUME NEW n \in 0..Len(str), Ends(n) PROVE n = j
  <2>1. CASE n < j
    <3>1. j \in (n + 1)..Len(str) /\ j > 0
      BY <1>0, <2>1
    <3> QED
      BY <1>1, <3>1
  <2>2. CASE j < n
    <3>1. n \in (j + 1)..Len(str) /\ n > 0
      BY <1>0, <2>2
    <3> QED
      BY <1>1, <3>1
  <2> QED
    BY <1>0, <2>1, <2>2
<1>2. Ends(j)
  OBVIOUS
<1>3. SkipBack(str, chars) = CHOOSE n \in 0..Len(str) : Ends(n)
  BY DEF SkipBack
<1> HIDE DEF Ends
<1> QED
  BY <1>1, <1>2, <1>3

LEMMA SkipBackOf ==
    ASSUME NEW A, NEW str \in Seq(A), NEW chars
    PROVE  /\ SkipBack(str, chars) \in 0..Len(str)
           /\ \A k \in (SkipBack(str, chars) + 1)..Len(str) : str[k] \in chars
           /\ SkipBack(str, chars) > 0 => str[SkipBack(str, chars)] \notin chars
<1> DEFINE ends == {j \in 0..Len(str) : \A k \in (j + 1)..Len(str) : str[k] \in chars}
<1>0. Len(str) \in Nat /\ (Len(str) + 1)..Len(str) = {}
  BY LenProperties
<1>1. ends \in SUBSET Nat /\ Len(str) \in ends
  BY <1>0
<1>2. PICK j \in ends : \A m \in ends : j <= m
  BY <1>1, LeastNumber
<1>3. j \in 0..Len(str) /\ \A k \in (j + 1)..Len(str) : str[k] \in chars
  OBVIOUS
<1>4. ASSUME j > 0 PROVE str[j] \notin chars
  <2> SUFFICES ASSUME str[j] \in chars PROVE FALSE
    OBVIOUS
  <2>1. j - 1 \in 0..Len(str) /\ j - 1 < j /\ (j - 1) + 1 = j
    BY <1>0, <1>3, <1>4
  <2>2. ASSUME NEW k \in j..Len(str) PROVE str[k] \in chars
    <3>1. k = j \/ k \in (j + 1)..Len(str)
      BY <1>0, <1>3
    <3> QED
      BY <1>3, <3>1
  <2>3. j - 1 \in ends
    BY <2>1, <2>2
  <2> HIDE DEF ends
  <2> QED
    BY <1>0, <1>2, <1>3, <2>1, <2>3
<1>5. SkipBack(str, chars) = j
  BY <1>3, <1>4, SkipBackIs
<1> QED
  BY <1>3, <1>4, <1>5

LEMMA NumberIs ==
    ASSUME NEW A, NEW str \in Seq(A), NEW signs \in {{}, {"minus"}}
    PROVE  IsNumber(str, signs) <=>
              \E i, j \in 0..Len(str) :
                 /\ \A k \in 1..i : str[k] \in Spaces
                 /\ \/ i < j /\ \A k \in (i + 1)..j : str[k] \in Digits
                    \/ /\ i < Len(str) /\ str[i + 1] \in signs
                       /\ i + 1 < j /\ \A k \in (i + 2)..j : str[k] \in Digits
                 /\ \A k \in (j + 1)..Len(str) : str[k] \in Spaces
<1> DEFINE n      == Len(str)
           begin  == Skip(str, 0, Spaces)
           signed == begin < n /\ str[begin + 1] \in signs
           first  == IF signed THEN begin + 1 ELSE begin
           digits == Skip(str, first, Digits)
<1>0. n \in Nat /\ 0 \in 0..n
  BY LenProperties
<1>1. IsNumber(str, signs) <=> digits > first /\ Skip(str, digits, Spaces) = n
  BY DEF IsNumber
<1>2. begin \in 0..n /\ \A k \in 1..begin : str[k] \in Spaces
  <2>1. 0 + 1 = 1
    OBVIOUS
  <2> QED
    BY <1>0, <2>1, SkipOf
<1> HIDE DEF begin
<1>3. first \in 0..n
  BY <1>0, <1>2
<1>4. digits \in first..n /\ \A k \in (first + 1)..digits : str[k] \in Digits
  <2> HIDE DEF first
  <2> QED
    BY <1>3, SkipOf
<1>5. digits \in 0..n
  BY <1>0, <1>3, <1>4
<1>6. ASSUME IsNumber(str, signs)
      PROVE  /\ \A k \in 1..begin : str[k] \in Spaces
             /\ \/ begin < digits /\ \A k \in (begin + 1)..digits : str[k] \in Digits
                \/ /\ begin < n /\ str[begin + 1] \in signs
                   /\ begin + 1 < digits /\ \A k \in (begin + 2)..digits : str[k] \in Digits
             /\ \A k \in (digits + 1)..n : str[k] \in Spaces
  <2>1. digits > first /\ Skip(str, digits, Spaces) = n
    BY <1>1, <1>6
  <2> HIDE DEF digits
  <2>2. \A k \in (digits + 1)..n : str[k] \in Spaces
    BY <1>5, <2>1, SkipOf
  <2>3. CASE signed
    <3>1. first = begin + 1 /\ first + 1 = begin + 2
      BY <1>2, <2>3
    <3> QED
      BY <1>2, <1>4, <2>1, <2>2, <2>3, <3>1
  <2>4. CASE ~signed
    BY <1>2, <1>4, <2>1, <2>2, <2>4
  <2> QED
    BY <2>3, <2>4
<1> HIDE DEF digits
<1>7. ASSUME NEW i \in 0..n, NEW j \in 0..n, NEW p \in {i, i + 1},
             \A k \in 1..i : str[k] \in Spaces,
             i < n, p = i => str[i + 1] \in Digits,
             p = i + 1 => str[i + 1] \in signs,
             p < j, \A k \in (p + 1)..j : str[k] \in Digits,
             \A k \in (j + 1)..n : str[k] \in Spaces
      PROVE  IsNumber(str, signs)
  <2>0. /\ \A c \in Digits : c \notin Spaces /\ c \notin signs
        /\ \A c \in signs : c \notin Spaces
        /\ \A c \in Spaces : c \notin Digits
    BY DEF Digits, Spaces
  <2>1. begin = i
    <3>1. str[i + 1] \notin Spaces
      BY <1>7, <2>0
    <3>2. i \in 0..n /\ 0 + 1 = 1
      OBVIOUS
    <3> QED
      BY <1>0, <1>7, <3>1, <3>2, SkipIs DEF begin
  <2>2. first = p
    BY <1>7, <2>0, <2>1
  <2>3. digits = j
    <3>1. p \in 0..n /\ j \in p..n
      BY <1>0, <1>7
    <3>2. j < n => str[j + 1] \notin Digits
      <4>1. j < n => j + 1 \in (j + 1)..n
        BY <1>0
      <4> QED
        BY <1>7, <2>0, <4>1
    <3> HIDE DEF first
    <3> QED
      BY <1>7, <2>2, <3>1, <3>2, SkipIs DEF digits
  <2>4. Skip(str, j, Spaces) = n
    <3>1. n \in j..n /\ ~(n < n)
      BY <1>0
    <3> QED
      BY <1>7, <3>1, SkipIs
  <2> HIDE DEF first
  <2> QED
    BY <1>1, <1>7, <2>2, <2>3, <2>4
<1>8. ASSUME NEW i \in 0..n, NEW j \in 0..n,
             \A k \in 1..i : str[k] \in Spaces,
             \/ i < j /\ \A k \in (i + 1)..j : str[k] \in Digits
             \/ /\ i < n /\ str[i + 1] \in signs
                /\ i + 1 < j /\ \A k \in (i + 2)..j : str[k] \in Digits,
             \A k \in (j + 1)..n : str[k] \in Spaces
      PROVE  IsNumber(str, signs)
  <2>1. CASE i < j /\ \A k \in (i + 1)..j : str[k] \in Digits
    <3>1. i < n /\ i + 1 \in (i + 1)..j /\ i # i + 1
      BY <1>0, <2>1
    <3> QED
      BY <1>7, <1>8, <2>1, <3>1
  <2>2. CASE /\ i < n /\ str[i + 1] \in signs
             /\ i + 1 < j /\ \A k \in (i + 2)..j : str[k] \in Digits
    <3>1. (i + 1) + 1 = i + 2 /\ i # i + 1
      BY <1>0
    <3> QED
      BY <1>7, <1>8, <2>2, <3>1
  <2> QED
    BY <1>8, <2>1, <2>2
<1> QED
  BY <1>2, <1>5, <1>6, <1>8

LEMMA NumberAnswers ==
    ASSUME NEW str \in Texts(Spaces \cup Digits \cup {"minus"}, MaxText), AskNumber(str)
    PROVE  call'.f = "Number" /\ pc' = "done" /\ NumbersExact'
<1>1. /\ call' = [f |-> "Number", str |-> str]
      /\ answer' = [natural |-> IsNaturalNumber(str), integer |-> IsInteger(str)]
      /\ pc' = "done"
  BY DEF AskNumber, Answer, Begin
<1>2. call'.f = "Number" /\ call'.str = str
      /\ answer'.natural = IsNaturalNumber(str) /\ answer'.integer = IsInteger(str)
  BY <1>1
<1>3. str \in Seq(Spaces \cup Digits \cup {"minus"})
  BY TextsAre, StringUtilsAssumption DEF StringUtilsAssumption
<1> DEFINE n == Len(str)
           Are(chars, from, to) == \A k \in (from + 1)..to : str[k] \in chars
           Matches(signs) ==
              \E i, m, j \in 0..n :
                 /\ i <= m /\ m <= i + signs /\ m < j
                 /\ Are(Spaces, 0, i) /\ Are({"minus"}, i, m)
                 /\ Are(Digits, m, j) /\ Are(Spaces, j, n)
<1>0. n \in Nat /\ 0 + 1 = 1 /\ \A i \in 0..n : (i + 1) + 1 = i + 2
  BY <1>3, LenProperties
<1>4. IsNaturalNumber(str) <=> Matches(0)
  <2>1. IsNaturalNumber(str) <=>
           \E i, j \in 0..n :
              /\ \A k \in 1..i : str[k] \in Spaces
              /\ i < j /\ \A k \in (i + 1)..j : str[k] \in Digits
              /\ \A k \in (j + 1)..n : str[k] \in Spaces
    BY <1>3, NumberIs DEF IsNaturalNumber
  <2>2. ASSUME IsNaturalNumber(str) PROVE Matches(0)
    <3>1. PICK i \in 0..n, j \in 0..n :
             /\ \A k \in 1..i : str[k] \in Spaces
             /\ i < j /\ \A k \in (i + 1)..j : str[k] \in Digits
             /\ \A k \in (j + 1)..n : str[k] \in Spaces
      BY <2>1, <2>2
    <3>2. i <= i /\ i <= i + 0 /\ Are({"minus"}, i, i)
      BY <1>0
    <3> QED
      BY <1>0, <3>1, <3>2
  <2>3. ASSUME Matches(0) PROVE IsNaturalNumber(str)
    <3>1. PICK i \in 0..n, m \in 0..n, j \in 0..n :
             /\ i <= m /\ m <= i + 0 /\ m < j /\ Are(Spaces, 0, i)
             /\ Are(Digits, m, j) /\ Are(Spaces, j, n)
      BY <2>3
    <3>2. i = m
      BY <1>0, <3>1
    <3> QED
      BY <1>0, <2>1, <3>1, <3>2
  <2> QED
    BY <2>2, <2>3
<1>5. IsInteger(str) <=>
         \E i, j \in 0..n :
            /\ \A k \in 1..i : str[k] \in Spaces
            /\ \/ i < j /\ \A k \in (i + 1)..j : str[k] \in Digits
               \/ /\ i < n /\ str[i + 1] \in {"minus"}
                  /\ i + 1 < j /\ \A k \in (i + 2)..j : str[k] \in Digits
            /\ \A k \in (j + 1)..n : str[k] \in Spaces
  BY <1>3, NumberIs DEF IsInteger
<1>6. ASSUME Matches(1) PROVE IsInteger(str)
  <2>1. PICK i \in 0..n, m \in 0..n, j \in 0..n :
           /\ i <= m /\ m <= i + 1 /\ m < j
           /\ Are(Spaces, 0, i) /\ Are({"minus"}, i, m)
           /\ Are(Digits, m, j) /\ Are(Spaces, j, n)
    BY <1>6
  <2>2. CASE m = i
    BY <1>0, <1>5, <2>1, <2>2
  <2>3. CASE m = i + 1
    <3>1. i < n /\ str[i + 1] \in {"minus"} /\ i + 1 < j
      BY <1>0, <2>1, <2>3
    <3> QED
      BY <1>0, <1>5, <2>1, <2>3, <3>1
  <2> QED
    BY <1>0, <2>1, <2>2, <2>3
<1>7. ASSUME IsInteger(str) PROVE Matches(n)
  <2>1. PICK i \in 0..n, j \in 0..n :
           /\ \A k \in 1..i : str[k] \in Spaces
           /\ \/ i < j /\ \A k \in (i + 1)..j : str[k] \in Digits
              \/ /\ i < n /\ str[i + 1] \in {"minus"}
                 /\ i + 1 < j /\ \A k \in (i + 2)..j : str[k] \in Digits
           /\ \A k \in (j + 1)..n : str[k] \in Spaces
    BY <1>5, <1>7
  <2>2. CASE i < j /\ \A k \in (i + 1)..j : str[k] \in Digits
    <3>1. i <= i /\ i <= i + n /\ Are({"minus"}, i, i)
      BY <1>0
    <3> QED
      BY <1>0, <2>1, <2>2, <3>1
  <2>3. CASE /\ i < n /\ str[i + 1] \in {"minus"}
             /\ i + 1 < j /\ \A k \in (i + 2)..j : str[k] \in Digits
    <3>1. i + 1 \in 0..n /\ i <= i + 1 /\ i + 1 <= i + n /\ Are({"minus"}, i, i + 1)
      BY <1>0, <2>3
    <3> QED
      BY <1>0, <2>1, <2>3, <3>1
  <2> QED
    BY <2>1, <2>2, <2>3
<1> QED
  BY <1>1, <1>2, <1>4, <1>6, <1>7 DEF NumbersExact

LEMMA CaseAnswers ==
    ASSUME NEW c, AskCase(c)
    PROVE  call'.f = "Case" /\ pc' = "done" /\ CaseTablesAgree'
<1> DEFINE Places(from) == {i \in 1..Len(from) : from[i] = c}
           Pairs(from, to) == {to[i] : i \in Places(from)}
           lowers == unicode_lowers
           uppers == unicode_uppers
<1>1. PICK upper \in toupperUnicode(c), lower \in tolowerUnicode(c) :
         /\ call' = [f |-> "Case", c |-> c]
         /\ answer' = [upper |-> upper, lower |-> lower]
         /\ pc' = "done"
  BY DEF AskCase, Answer, Begin
<1>2. /\ upper \in Mapped(c, lowers, uppers) /\ lower \in Mapped(c, uppers, lowers)
      /\ Len(lowers) \in Nat /\ Len(uppers) \in Nat /\ Increasing(lowers)
  BY <1>1, StringUtilsAssumption, LenProperties
     DEF StringUtilsAssumption, toupperUnicode, tolowerUnicode
<1>3. ASSUME NEW from, NEW to, NEW d \in Mapped(c, from, to)
      PROVE  /\ d \in Pairs(from, to) \cup {c}
             /\ Places(from) = {} => d = c
             /\ \A i \in Places(from) :
                   Separated(from, Len(from), i) => d \in Pairs(from, to)
  <2>1. PICK p \in Found(from, c, Len(from)) : d = IF p = 0 THEN c ELSE to[p]
    BY DEF Mapped
  <2>2. /\ p \in Places(from) \cup {0}
        /\ \A i \in Places(from) : Separated(from, Len(from), i) => p \in Places(from)
    BY <2>1 DEF Found
  <2>3. 0 \notin Places(from)
    OBVIOUS
  <2>4. p \in Places(from) => d \in Pairs(from, to)
    BY <2>1, <2>3
  <2>5. p \notin Places(from) => d = c
    BY <2>1, <2>2
  <2> HIDE DEF Places, Pairs
  <2> QED
    BY <2>2, <2>4, <2>5
<1>4. ASSUME NEW i \in Places(lowers) PROVE upper \in Pairs(lowers, uppers)
  <2>1. Separated(lowers, Len(lowers), i)
    BY <1>2 DEF Separated, Increasing
  <2> HIDE DEF Places, Pairs
  <2> QED
    BY <1>2, <1>3, <2>1
\* No other place has a letter that is greater than all before and smaller than all after.
<1>5. ASSUME NEW i \in Places(uppers), Separated(uppers, Len(uppers), i) PROVE lower = lowers[i]
  <2>1. lower \in Pairs(uppers, lowers)
    <3> HIDE DEF Places, Pairs
    <3> QED
      BY <1>2, <1>3, <1>5
  <2>2. ASSUME NEW k \in Places(uppers) PROVE k = i
    <3>1. /\ i \in 1..Len(uppers) /\ k \in 1..Len(uppers) /\ uppers[k] = uppers[i]
          /\ uppers[k] \in Nat
      BY <2>2, StringUtilsAssumption, ElementOfSeq DEF StringUtilsAssumption
    <3>2. /\ k < i => uppers[k] < uppers[i]
          /\ k > i => uppers[i] < uppers[k]
      BY <1>5, <3>1 DEF Separated
    <3> QED
      BY <1>2, <3>1, <3>2
  <2> QED
    BY <2>1, <2>2
<1>6. lower \in Pairs(uppers, lowers) \cup {c}
  <2> HIDE DEF Places, Pairs
  <2> QED
    BY <1>2, <1>3
<1>7. upper \in (IF Places(lowers) # {} THEN Pairs(lowers, uppers) ELSE {c})
  <2> HIDE DEF Places, Pairs
  <2> QED
    BY <1>2, <1>3, <1>4
<1>8. call'.f = "Case" /\ call'.c = c /\ answer'.upper = upper /\ answer'.lower = lower
  BY <1>1
<1> QED
  BY <1>1, <1>5, <1>6, <1>7, <1>8 DEF CaseTablesAgree

LEMMA SliceIs ==
    ASSUME NEW A, NEW str \in Seq(A), NEW from \in Nat, NEW to \in from..Len(str),
           NEW n \in Nat, Least(n, Len(str) - from) = to - from
    PROVE  SubStr(str, from, n) = [i \in 1..(to - from) |-> str[from + i]]
<1> DEFINE u == SubStr(str, from, n)
<1>1. Len(str) \in Nat /\ from \in 0..Len(str)
  BY LenProperties
<1>2. /\ u \in Seq(A) /\ Len(u) = to - from
      /\ \A i \in 1..Len(u) : u[i] = str[from + i]
  BY <1>1, SubStrOf
<1> HIDE DEF u
<1>3. u \in [1..(to - from) -> A]
  BY <1>2, LenProperties
<1>4. u = [i \in 1..(to - from) |-> u[i]]
  BY <1>3
<1>5. u = [i \in 1..(to - from) |-> str[from + i]]
  BY <1>2, <1>4
<1> QED
  BY <1>5 DEF u

\* The end of a string that is shorter than NPOS.
LEMMA EndIs ==
    ASSUME NEW A, NEW str \in Seq(A), NEW from \in Nat, from <= Len(str), Len(str) < NPOS
    PROVE  SubStr(str, from, NPOS) = [i \in 1..(Len(str) - from) |-> str[from + i]]
<1>1. NPOS \in Nat /\ Len(str) \in Nat
  BY LenProperties, StringUtilsAssumption DEF StringUtilsAssumption
<1>2. Len(str) \in from..Len(str) /\ Least(NPOS, Len(str) - from) = Len(str) - from
  BY <1>1 DEF Least
<1> DEFINE to == Len(str)
<1>3. to \in from..Len(str) /\ Least(NPOS, Len(str) - from) = to - from
  BY <1>2
<1> HIDE DEF to
<1>4. SubStr(str, from, NPOS) = [i \in 1..(to - from) |-> str[from + i]]
  BY <1>1, <1>3, SliceIs
<1> QED
  BY <1>4 DEF to

LEMMA SliceAnswers ==
    ASSUME NEW str \in Texts(Letters, MaxText), NEW first \in 0..NPOS, NEW number \in 0..NPOS,
           AskSlice(str, first, number)
    PROVE  call'.f = "Slice" /\ pc' = "done" /\ SlicesExact'
<1> DEFINE n == Len(str)
           Cut(from, to) == [i \in 1..(to - from) |-> str[from + i]]
<1>1. /\ call' = [f |-> "Slice", str |-> str, first |-> first, count |-> number]
      /\ answer' = [left |-> Left(str, number), mid |-> Mid(str, first, number),
                    right |-> Right(str, number)]
      /\ pc' = "done"
  BY DEF AskSlice, Answer, Begin
<1>2. /\ call'.f = "Slice" /\ call'.str = str /\ call'.first = first /\ call'.count = number
      /\ answer'.left = Left(str, number) /\ answer'.mid = Mid(str, first, number)
      /\ answer'.right = Right(str, number)
  BY <1>1
<1>3. str \in Seq(Letters) /\ n \in 0..MaxText /\ NPOS \in Nat /\ n \in Nat
  BY TextsAre, StringUtilsAssumption DEF StringUtilsAssumption
<1>4. n < NPOS
  <2>1. /\ n <= n + 0 * 0 /\ 0 <= n /\ n <= MaxText /\ 0 \in Nat /\ 0 <= MaxPattern
    BY <1>3, StringUtilsAssumption DEF StringUtilsAssumption
  <2> QED
    BY <1>3, <2>1, ShorterThanNPOS
<1> DEFINE some == Least(number, n)
           cut  == MidCount(str, first, number)
<1>5. some \in 0..n
  BY <1>3 DEF Least
<1>6. Left(str, number) = Cut(0, some)
  <2>1. Least(some, n - 0) = some - 0 /\ some \in 0..n /\ 0 \in Nat /\ some \in Nat
    BY <1>3, <1>5 DEF Least
  <2> HIDE DEF some
  <2>2. SubStr(str, 0, some) = [i \in 1..(some - 0) |-> str[0 + i]]
    BY <1>3, <2>1, SliceIs
  <2> QED
    BY <2>2 DEF Left, some
<1>7. Right(str, number) = Cut(n - some, n)
  <2>1. /\ n - some \in Nat /\ n \in (n - some)..n
        /\ Least(NPOS, n - (n - some)) = n - (n - some)
    BY <1>3, <1>4, <1>5 DEF Least
  <2> HIDE DEF some
  <2>2. SubStr(str, n - some, NPOS) = [i \in 1..(n - (n - some)) |-> str[(n - some) + i]]
    <3> DEFINE at == n - some
    <3> HIDE DEF at
    <3>1. at \in Nat /\ at <= n
      BY <1>3, <2>1 DEF at
    <3>2. SubStr(str, at, NPOS) = [i \in 1..(n - at) |-> str[at + i]]
      BY <1>3, <1>4, <3>1, EndIs
    <3> QED
      BY <3>2 DEF at
  <2> QED
    BY <2>2 DEF Right, some
<1>8. CASE first > n
  <2>1. Mid(str, first, number) = <<>>
    BY <1>8 DEF Mid
  <2> QED
    BY <1>1, <1>2, <1>6, <1>7, <1>8, <2>1 DEF SlicesExact
<1>9. CASE ~(first > n)
  <2>1. /\ Wrap(first + number) = IF first + number > NPOS THEN first + number - NPOS - 1 ELSE first + number
        /\ Wrap(n - first) = n - first
    BY <1>3, <1>4, <1>9, WrapOf
  <2>2. /\ cut \in 0..NPOS
        /\ first + number <= n => cut = number
        /\ first + number > n => cut = n - first \/ (cut = number /\ first + number > NPOS)
    BY <1>3, <1>4, <1>9, <2>1 DEF MidCount
  <2> HIDE DEF cut
  <2>3. Wrap(first + cut) <= n
    <3>1. Wrap(first + cut) = IF first + cut > NPOS THEN first + cut - NPOS - 1 ELSE first + cut
      BY <1>3, <1>4, <1>9, <2>2, WrapOf
    <3> QED
      BY <1>3, <1>4, <1>9, <2>2, <3>1
  <2> DEFINE end == Least(n, first + number)
  <2>4. /\ end \in first..n /\ first \in Nat /\ cut \in Nat
        /\ Least(cut, n - first) = end - first
    BY <1>3, <1>4, <1>9, <2>2 DEF Least
  <2> HIDE DEF end
  <2>5. SubStr(str, first, cut) = [i \in 1..(end - first) |-> str[first + i]]
    BY <1>3, <2>4, SliceIs
  <2>6. Mid(str, first, number) = Cut(first, end)
    BY <1>9, <2>5 DEF Mid, cut
  <2> QED
    BY <1>1, <1>2, <1>6, <1>7, <1>9, <2>3, <2>6 DEF SlicesExact, cut, end
<1> QED
  BY <1>8, <1>9

\* A part of a part.
LEMMA PartOfPart ==
    ASSUME NEW A, NEW s \in Seq(A), NEW m \in Nat, NEW n \in m..Len(s),
           NEW j \in 0..(n - m), NEW k \in j..(n - m)
    PROVE  Part(Part(s, m, n), j, k) = Part(s, m + j, m + k)
<1> DEFINE t == Part(s, m, n)  u == Part(t, j, k)  v == Part(s, m + j, m + k)
<1>0. Len(s) \in Nat /\ n \in Nat /\ j \in Nat /\ k \in Nat
  BY LenProperties
<1>1. t \in Seq(A) /\ Len(t) = n - m /\ \A i \in 1..(n - m) : t[i] = s[m + i]
  BY PartOf
<1> HIDE DEF t
<1>2. u \in Seq(A) /\ Len(u) = k - j /\ \A i \in 1..(k - j) : u[i] = t[j + i]
  <2>1. j \in Nat /\ k \in j..Len(t)
    BY <1>0, <1>1
  <2> QED
    BY <1>1, <2>1, PartOf, ZenonT(30)
<1> HIDE DEF u
<1>3. /\ v \in Seq(A) /\ Len(v) = k - j
      /\ \A i \in 1..(k - j) : v[i] = s[m + j + i]
  <2> DEFINE a == m + j  b == m + k
  <2>1. a \in Nat /\ b \in a..Len(s) /\ b - a = k - j
    BY <1>0
  <2> HIDE DEF a, b
  <2>2. /\ Part(s, a, b) \in Seq(A) /\ Len(Part(s, a, b)) = b - a
        /\ \A i \in 1..(b - a) : Part(s, a, b)[i] = s[a + i]
    BY <2>1, PartOf
  <2> QED
    BY <2>1, <2>2 DEF a, b
<1> HIDE DEF v
<1>4. ASSUME NEW i \in 1..(k - j) PROVE u[i] = v[i]
  <2>1. j + i \in 1..(n - m) /\ m + (j + i) = m + j + i
    BY <1>0
  <2>2. u[i] = s[m + (j + i)]
    BY <1>1, <1>2, <2>1
  <2> QED
    BY <1>3, <2>1, <2>2
<1>5. u = v
  <2>1. Len(u) = Len(v) /\ \A i \in 1..Len(u) : u[i] = v[i]
    BY <1>2, <1>3, <1>4
  <2> QED
    BY <1>2, <1>3, <2>1, SeqEqual
<1> QED
  BY <1>5 DEF t, u, v

\* What is left of a string that is trimmed.
LEMMA TrimsAre ==
    ASSUME NEW A, NEW str \in Seq(A), NEW chars, Len(str) < NPOS
    PROVE  /\ TrimLeft(str, chars) = Part(str, Skip(str, 0, chars), Len(str))
           /\ TrimRight(str, chars) = Part(str, 0, SkipBack(str, chars))
<1> DEFINE a == Skip(str, 0, chars)  b == SkipBack(str, chars)
<1>0. Len(str) \in Nat /\ NPOS \in Nat /\ 0 \in 0..Len(str)
  BY LenProperties, StringUtilsAssumption DEF StringUtilsAssumption
<1>1. a \in 0..Len(str)
  BY <1>0, SkipOf
<1>2. b \in 0..Len(str)
  BY SkipBackOf
<1> HIDE DEF a, b
<1>3. SubStr(str, a, NPOS) = Part(str, a, Len(str))
  <2>1. a + NPOS >= Len(str)
    BY <1>0, <1>1
  <2> QED
    BY <1>0, <1>1, <2>1, SubStrIsPart
<1>4. SubStr(str, 0, b) = Part(str, 0, b)
  <2>1. 0 + b <= Len(str) /\ 0 + b = b /\ b \in Nat
    BY <1>0, <1>2
  <2> QED
    BY <1>0, <2>1, SubStrIsPart
<1> QED
  BY <1>3, <1>4 DEF TrimLeft, TrimRight, a, b

\* It does not matter from which end a string is trimmed first.
LEMMA TrimsCommute ==
    ASSUME NEW A, NEW str \in Seq(A), NEW chars, Len(str) < NPOS
    PROVE  Trim(str, chars) = TrimLeft(TrimRight(str, chars), chars)
<1> DEFINE n == Len(str)
           a == Skip(str, 0, chars)  b == SkipBack(str, chars)
           left1  == TrimLeft(str, chars)
           right1 == TrimRight(str, chars)
<1>0. n \in Nat /\ 0 \in 0..n /\ 0 + 1 = 1
  BY LenProperties
<1>1. /\ a \in 0..n
      /\ \A k \in 1..a : str[k] \in chars
      /\ a < n => str[a + 1] \notin chars
  BY <1>0, SkipOf
<1>2. /\ b \in 0..n
      /\ \A k \in (b + 1)..n : str[k] \in chars
      /\ b > 0 => str[b] \notin chars
  BY SkipBackOf
<1>3. left1 = Part(str, a, n) /\ right1 = Part(str, 0, b)
  BY TrimsAre
<1> HIDE DEF a, b, left1, right1
<1>4. left1 \in Seq(A) /\ Len(left1) = n - a /\ \A i \in 1..(n - a) : left1[i] = str[a + i]
  <2>1. a \in Nat /\ n \in a..n
    BY <1>0, <1>1
  <2> QED
    BY <1>3, <2>1, PartOf
<1>5. right1 \in Seq(A) /\ Len(right1) = b /\ \A i \in 1..b : right1[i] = str[i]
  BY <1>2, <1>3, PartHead
<1>6. /\ TrimRight(left1, chars) = Part(left1, 0, SkipBack(left1, chars))
      /\ TrimLeft(right1, chars) = Part(right1, Skip(right1, 0, chars), b)
  <2>1. Len(left1) < NPOS /\ Len(right1) < NPOS
    <3>1. NPOS \in Nat
      BY StringUtilsAssumption DEF StringUtilsAssumption
    <3> QED
      BY <1>0, <1>1, <1>2, <1>4, <1>5, <3>1
  <2> QED
    BY <1>4, <1>5, <2>1, TrimsAre
<1>7. Trim(str, chars) = TrimRight(left1, chars)
  BY DEF Trim, left1
<1>8. CASE a = n
  <2>1. b = 0
    <3> SUFFICES ASSUME b # 0 PROVE FALSE
      OBVIOUS
    <3>1. b \in 1..a /\ b > 0
      BY <1>0, <1>2, <1>8
    <3> QED
      BY <1>1, <1>2, <3>1
  <2>2. left1 = <<>> /\ right1 = <<>>
    <3>1. Len(left1) = 0 /\ Len(right1) = 0
      BY <1>0, <1>1, <1>4, <1>5, <1>8, <2>1
    <3> QED
      BY <1>4, <1>5, <3>1, EmptySeq
  <2>3. SkipBack(left1, chars) = 0 /\ Skip(right1, 0, chars) = 0
    <3>1. Len(left1) = 0 /\ Len(right1) = 0 /\ 0 \in 0..Len(right1)
      BY <2>2, EmptySeq
    <3>2. SkipBack(left1, chars) \in 0..Len(left1)
      BY <1>4, SkipBackOf
    <3>3. Skip(right1, 0, chars) \in 0..Len(right1)
      BY <1>5, <3>1, SkipOf
    <3> QED
      BY <3>1, <3>2, <3>3
  <2> QED
    BY <1>6, <1>7, <2>1, <2>2, <2>3 DEF right1
<1>9. CASE a # n
  <2>1. a < n /\ str[a + 1] \notin chars /\ a + 1 \in 1..n
    BY <1>0, <1>1, <1>9
  <2>2. a < b
    <3> SUFFICES ASSUME ~(a < b) PROVE FALSE
      OBVIOUS
    <3>1. a + 1 \in (b + 1)..n
      BY <1>0, <1>1, <1>2, <2>1
    <3> QED
      BY <1>2, <2>1, <3>1
  <2>3. SkipBack(left1, chars) = b - a
    <3>1. b - a \in 0..Len(left1) /\ b - a \in 1..(n - a) /\ a + (b - a) = b /\ b > 0
      BY <1>0, <1>1, <1>2, <1>4, <2>2
    <3>2. left1[b - a] \notin chars
      BY <1>2, <1>4, <3>1
    <3>3. ASSUME NEW k \in ((b - a) + 1)..Len(left1) PROVE left1[k] \in chars
      <4>1. k \in 1..(n - a) /\ a + k \in (b + 1)..n
        BY <1>0, <1>1, <1>2, <1>4, <2>2
      <4> QED
        BY <1>2, <1>4, <4>1
    <3> DEFINE j == b - a
    <3>4. /\ j \in 0..Len(left1) /\ left1[j] \notin chars
          /\ \A k \in (j + 1)..Len(left1) : left1[k] \in chars
      BY <3>1, <3>2, <3>3
    <3> HIDE DEF j
    <3>5. SkipBack(left1, chars) = j
      BY <1>4, <3>4, SkipBackIs
    <3> QED
      BY <3>5 DEF j
  <2>4. Skip(right1, 0, chars) = a
    <3>1. a \in 0..Len(right1) /\ 0 \in 0..Len(right1) /\ a + 1 \in 1..b /\ a < Len(right1)
      BY <1>0, <1>1, <1>2, <1>5, <2>2
    <3>2. right1[a + 1] \notin chars
      BY <1>5, <2>1, <3>1
    <3>3. ASSUME NEW k \in (0 + 1)..a PROVE right1[k] \in chars
      <4>1. k \in 1..a /\ k \in 1..b
        BY <1>0, <1>1, <1>2, <2>2
      <4> QED
        BY <1>1, <1>5, <4>1
    <3> QED
      BY <1>5, <3>1, <3>2, <3>3, SkipIs
  <2>5. Part(left1, 0, b - a) = Part(str, a, b)
    <3> DEFINE j == b - a
    <3>1. a \in Nat /\ n \in a..n /\ 0 \in 0..(n - a) /\ j \in 0..(n - a) /\ a + 0 = a /\ a + j = b
      BY <1>0, <1>1, <1>2, <2>2
    <3> HIDE DEF j
    <3>2. Part(Part(str, a, n), 0, j) = Part(str, a + 0, a + j)
      BY <3>1, PartOfPart
    <3> QED
      BY <1>3, <3>1, <3>2 DEF j
  <2>6. Part(right1, a, b) = Part(str, a, b)
    <3>1. /\ 0 \in Nat /\ b \in 0..n /\ a \in 0..(b - 0) /\ b \in a..(b - 0)
          /\ 0 + a = a /\ 0 + b = b
      BY <1>0, <1>1, <1>2, <2>2
    <3>2. Part(Part(str, 0, b), a, b) = Part(str, 0 + a, 0 + b)
      BY <3>1, PartOfPart
    <3> QED
      BY <1>3, <3>1, <3>2
  <2> QED
    BY <1>6, <1>7, <2>3, <2>4, <2>5, <2>6 DEF right1
<1> QED
  BY <1>8, <1>9 DEF right1

LEMMA TrimAnswers ==
    ASSUME NEW str \in Texts(Letters \cup Spaces, MaxText), NEW chars, AskTrim(str, chars)
    PROVE  call'.f = "Trim" /\ pc' = "done" /\ TrimsExact'
<1> DEFINE n == Len(str)
           a == Skip(str, 0, chars)  b == SkipBack(str, chars)
           left1  == TrimLeft(str, chars)
           right1 == TrimRight(str, chars)
<1>1. /\ call' = [f |-> "Trim", str |-> str, chars |-> chars]
      /\ answer' = [left |-> left1, right |-> right1, both |-> Trim(str, chars)]
      /\ pc' = "done"
  BY DEF AskTrim, Answer, Begin
<1>2. /\ call'.f = "Trim" /\ call'.str = str /\ call'.chars = chars
      /\ answer'.left = left1 /\ answer'.right = right1 /\ answer'.both = Trim(str, chars)
  BY <1>1
<1>3. str \in Seq(Letters \cup Spaces) /\ n \in 0..MaxText /\ NPOS \in Nat /\ n \in Nat
  BY TextsAre, StringUtilsAssumption DEF StringUtilsAssumption
<1>4. n < NPOS
  <2>1. /\ n <= n + 0 * 0 /\ 0 <= n /\ n <= MaxText /\ 0 \in Nat /\ 0 <= MaxPattern
    BY <1>3, StringUtilsAssumption DEF StringUtilsAssumption
  <2> QED
    BY <1>3, <2>1, ShorterThanNPOS
<1>5. /\ a \in 0..n
      /\ \A k \in 1..a : str[k] \in chars
      /\ a < n => str[a + 1] \notin chars
  <2>1. 0 \in 0..n /\ 0 + 1 = 1
    BY <1>3
  <2> QED
    BY <1>3, <2>1, SkipOf
<1>6. /\ b \in 0..n
      /\ \A k \in (b + 1)..n : str[k] \in chars
      /\ b > 0 => str[b] \notin chars
  BY <1>3, SkipBackOf
<1>7. left1 = Part(str, a, n) /\ right1 = Part(str, 0, b)
  BY <1>3, <1>4, TrimsAre
<1>8. left1 = SubStr(str, a, NPOS) /\ right1 = SubStr(str, 0, b)
  BY DEF TrimLeft, TrimRight
<1>9. Trim(str, chars) = TrimLeft(right1, chars)
  BY <1>3, <1>4, TrimsCommute
<1> HIDE DEF a, b, left1, right1
<1>10. left1 # <<>> => left1[1] \notin chars
  <2> SUFFICES ASSUME left1 # <<>> PROVE left1[1] \notin chars
    OBVIOUS
  <2>1. /\ left1 \in Seq(Letters \cup Spaces) /\ Len(left1) = n - a
        /\ \A i \in 1..(n - a) : left1[i] = str[a + i]
    <3>1. a \in Nat /\ n \in a..n
      BY <1>3, <1>5
    <3> QED
      BY <1>3, <1>7, <3>1, PartOf
  <2>2. Len(left1) # 0
    BY <2>1, EmptySeq
  <2>3. a < n /\ 1 \in 1..(n - a)
    BY <1>3, <1>5, <2>1, <2>2
  <2> QED
    BY <1>5, <2>1, <2>3
<1>11. right1 # <<>> => right1[Len(right1)] \notin chars
  <2> SUFFICES ASSUME right1 # <<>> PROVE right1[Len(right1)] \notin chars
    OBVIOUS
  <2>1. /\ right1 \in Seq(Letters \cup Spaces) /\ Len(right1) = b
        /\ \A i \in 1..b : right1[i] = str[i]
    BY <1>3, <1>6, <1>7, PartHead
  <2>2. Len(right1) # 0
    BY <2>1, EmptySeq
  <2>3. b > 0 /\ b \in 1..b
    BY <1>3, <1>6, <2>1, <2>2
  <2> QED
    BY <1>6, <2>1, <2>3
<1>12. \E i \in 0..n : SubStr(str, i, NPOS) = left1 /\ \A k \in 1..i : str[k] \in chars
  BY <1>5, <1>8
<1>13. \E i \in 0..n : SubStr(str, 0, i) = right1 /\ \A k \in (i + 1)..n : str[k] \in chars
  BY <1>6, <1>8
<1> QED
  BY <1>1, <1>2, <1>9, <1>10, <1>11, <1>12, <1>13 DEF TrimsExact

-----------------------------------------------------------------------------
(***************************************************************************)
(* What the loops keep, and what all answers are.                          *)
(***************************************************************************)

\* What each loop keeps, and what every answer given so far is.
StringsInv ==
    /\ pc \in {"idle", "loop", "done"}
    /\ pc = "idle" => StringsInit
    /\ pc = "loop" =>
          \/ call.f \in {"Replace", "ReplaceChar"} /\ ReplaceInv
          \/ call.f = "Split" /\ SplitInv
          \/ call.f = "FindNumber" /\ FindNumberInv
          \/ call.f = "Clean" /\ CleanInv
    /\ SplitReplaceJoin /\ TextKept

LEMMA StringsBegin == StringsInit => StringsInv
BY DEF StringsInit, StringsInv, SplitReplaceJoin, TextKept

\* What is left to show of a step that goes on.
LEMMA StillLooping ==
    ASSUME pc' = "loop",
           \/ call'.f \in {"Replace", "ReplaceChar"} /\ ReplaceInv'
           \/ call'.f = "Split" /\ SplitInv'
           \/ call'.f = "FindNumber" /\ FindNumberInv'
           \/ call'.f = "Clean" /\ CleanInv'
    PROVE  StringsInv'
BY DEF StringsInv, SplitReplaceJoin, TextKept

LEMMA StringsAsked == StringsInv /\ Ask => StringsInv'
<1> SUFFICES ASSUME StringsInv, Ask PROVE StringsInv'
  OBVIOUS
<1>1. StringsInit
  BY DEF Ask, StringsInv
<1>2. ASSUME NEW f \in {"Replace", "ReplaceChar"}, NEW str \in Texts(Letters, MaxText),
             NEW old \in Texts(Letters, MaxPattern), NEW new \in Texts(Letters, MaxPattern),
             AskReplace(f, str, old, new)
      PROVE  StringsInv'
  <2>1. /\ call'.f = f /\ pc' \in {"loop", "done"}
        /\ pc' = "loop" => ReplaceInv'
        /\ pc' = "done" => ReplaceExact'
    BY <1>1, <1>2, ReplaceBegins
  <2>2. CASE pc' = "loop"
    BY <2>1, <2>2, StillLooping
  <2>3. CASE pc' = "done"
    BY <2>1, <2>3 DEF StringsInv, SplitReplaceJoin, TextKept
  <2> QED
    BY <2>1, <2>2, <2>3
<1>3. ASSUME NEW str \in Texts(Letters, MaxText), NEW pat \in Texts(Letters, MaxPattern),
             NEW max \in 0..NPOS, AskSplit(str, pat, max)
      PROVE  StringsInv'
  <2>1. /\ call'.f = "Split" /\ pc' \in {"loop", "done"}
        /\ pc' = "loop" => SplitInv'
        /\ pc' = "done" => SplitExact'
    BY <1>1, <1>3, SplitBegins
  <2>2. CASE pc' = "loop"
    BY <2>1, <2>2, StillLooping
  <2>3. CASE pc' = "done"
    BY <2>1, <2>3 DEF StringsInv, SplitReplaceJoin, TextKept
  <2> QED
    BY <2>1, <2>2, <2>3
<1>4. ASSUME NEW str \in Texts(Letters, MaxText), NEW pat \in Texts(Letters, MaxPattern),
             AskFindNumber(str, pat)
      PROVE  StringsInv'
  BY <1>1, <1>4, FindNumberBegins, StillLooping
<1>5. ASSUME NEW str \in Texts(Letters, MaxText), NEW first \in 0..NPOS, NEW number \in 0..NPOS,
             AskSlice(str, first, number)
      PROVE  StringsInv'
  <2>1. call'.f = "Slice" /\ pc' = "done" /\ SlicesExact'
    BY <1>5, SliceAnswers
  <2> QED
    BY <2>1 DEF StringsInv, SplitReplaceJoin, TextKept
<1>6. ASSUME NEW str \in Texts(Letters \cup Spaces, MaxText), NEW chars, AskTrim(str, chars)
      PROVE  StringsInv'
  <2>1. call'.f = "Trim" /\ pc' = "done" /\ TrimsExact'
    BY <1>6, TrimAnswers
  <2> QED
    BY <2>1 DEF StringsInv, SplitReplaceJoin, TextKept
<1>7. ASSUME NEW str \in Texts(Letters \cup Spaces, MaxText), AskClean(str)
      PROVE  StringsInv'
  BY <1>1, <1>7, CleanBegins, StillLooping
<1>8. ASSUME NEW str \in Texts(Spaces \cup Digits \cup {"minus"}, MaxText), AskNumber(str)
      PROVE  StringsInv'
  <2>1. call'.f = "Number" /\ pc' = "done" /\ NumbersExact'
    BY <1>8, NumberAnswers
  <2> QED
    BY <2>1 DEF StringsInv, SplitReplaceJoin, TextKept
<1>9. ASSUME NEW c, AskCase(c)
      PROVE  StringsInv'
  <2>1. call'.f = "Case" /\ pc' = "done" /\ CaseTablesAgree'
    BY <1>9, CaseAnswers
  <2> QED
    BY <2>1 DEF StringsInv, SplitReplaceJoin, TextKept
<1> QED
  BY <1>2, <1>3, <1>4, <1>5, <1>6, <1>7, <1>8, <1>9 DEF Ask

LEMMA StringsTurn == StringsInv /\ Turns => StringsInv'
<1> SUFFICES ASSUME StringsInv, Turns PROVE StringsInv'
  OBVIOUS
<1>1. CASE ReplaceTurn
  <2>1. pc = "loop" /\ call.f = "Replace" /\ ReplaceInv
    BY <1>1 DEF ReplaceTurn, Turn, StringsInv
  <2>2. ReplaceInv' /\ call' = call /\ pc' = pc
    BY <1>1, <2>1, ReplaceGoesOn DEF ReplaceTurn
  <2> QED
    BY <2>1, <2>2, StillLooping
<1>2. CASE ReplaceCharTurn
  <2>1. pc = "loop" /\ call.f = "ReplaceChar" /\ ReplaceInv
    BY <1>2 DEF ReplaceCharTurn, Turn, StringsInv
  <2>2. ReplaceInv' /\ call' = call /\ pc' = pc
    BY <1>2, <2>1, ReplaceCharGoesOn DEF ReplaceCharTurn
  <2> QED
    BY <2>1, <2>2, StillLooping
<1>3. CASE ReplaceEnds
  <2>1. pc = "loop" /\ call.f \in {"Replace", "ReplaceChar"} /\ ReplaceInv
    BY <1>3 DEF ReplaceEnds, Turn, StringsInv
  <2>2. ReplaceExact' /\ call' = call /\ pc' = "done"
    BY <1>3, <2>1, ReplaceIsDone DEF ReplaceEnds
  <2> QED
    BY <2>1, <2>2 DEF StringsInv, SplitReplaceJoin, TextKept
<1>4. CASE SplitTurn
  <2>1. pc = "loop" /\ call.f = "Split" /\ SplitInv
    BY <1>4 DEF SplitTurn, Turn, StringsInv
  <2>2. /\ call' = call /\ pc' \in {"loop", "done"}
        /\ pc' = "loop" => SplitInv'
        /\ pc' = "done" => SplitExact'
    BY <1>4, <2>1, SplitGoesOn
  <2>3. CASE pc' = "loop"
    BY <2>1, <2>2, <2>3, StillLooping
  <2>4. CASE pc' = "done"
    BY <2>1, <2>2, <2>4 DEF StringsInv, SplitReplaceJoin, TextKept
  <2> QED
    BY <2>2, <2>3, <2>4
<1>5. CASE FindNumberTurn
  <2>1. pc = "loop" /\ call.f = "FindNumber" /\ FindNumberInv
    BY <1>5 DEF FindNumberTurn, Turn, StringsInv
  <2>2. /\ call' = call /\ pc' \in {"loop", "done"}
        /\ pc' = "loop" => FindNumberInv'
        /\ pc' = "done" => count' = Cardinality(Occurrences(call'.str, call'.pat))
    BY <1>5, <2>1, FindNumberGoesOn
  <2>3. CASE pc' = "loop"
    BY <2>1, <2>2, <2>3, StillLooping
  <2>4. CASE pc' = "done"
    BY <2>1, <2>2, <2>4 DEF StringsInv, SplitReplaceJoin, TextKept, Occurrences
  <2> QED
    BY <2>2, <2>3, <2>4
<1>6. CASE CleanTurn
  <2>1. pc = "loop" /\ call.f = "Clean" /\ CleanInv
    BY <1>6 DEF CleanTurn, Turn, StringsInv
  <2>2. CleanInv' /\ call' = call /\ pc' = pc
    BY <1>6, <2>1, CleanGoesOn
  <2> QED
    BY <2>1, <2>2, StillLooping
<1>7. CASE CleanEnds
  <2>1. pc = "loop" /\ call.f = "Clean" /\ CleanInv
    BY <1>7 DEF CleanEnds, Turn, StringsInv
  <2>2. CleanExact' /\ call' = call /\ pc' = "done"
    BY <1>7, <2>1, CleanIsDone
  <2> QED
    BY <2>1, <2>2 DEF StringsInv, SplitReplaceJoin, TextKept
<1> QED
  BY <1>1, <1>2, <1>3, <1>4, <1>5, <1>6, <1>7 DEF Turns

LEMMA StringsStep == StringsInv /\ [StringsNext]_strings => StringsInv'
<1> SUFFICES ASSUME StringsInv, [StringsNext]_strings PROVE StringsInv'
  OBVIOUS
<1>1. CASE Ask
  BY <1>1, StringsAsked
<1>2. CASE Turns
  BY <1>2, StringsTurn
<1>3. CASE Forget
  <2>1. StringsInit' /\ pc' = "idle"
    BY <1>3 DEF Forget, StringsInit
  <2> QED
    BY <2>1 DEF StringsInv, SplitReplaceJoin, TextKept
<1>4. CASE UNCHANGED strings
  <2>1. UNCHANGED <<call, pc, text, pos, pieces, start, count, left, onSpace, origin, answer>>
    BY <1>4 DEF strings, loop
  <2>2. StringsInit' = StringsInit /\ ReplaceInv' = ReplaceInv
    BY <2>1 DEF StringsInit, ReplaceInv
  <2>3. SplitInv' = SplitInv
    BY <2>1 DEF SplitInv
  <2>4. FindNumberInv' = FindNumberInv
    BY <2>1 DEF FindNumberInv
  <2>5. CleanInv' = CleanInv
    BY <2>1 DEF CleanInv
  <2>6. ReplaceExact' = ReplaceExact /\ SplitExact' = SplitExact
    BY <2>1 DEF ReplaceExact, SplitExact
  <2>7. SplitReplaceJoin' = SplitReplaceJoin
    BY <2>1, <2>6 DEF SplitReplaceJoin
  <2>8. CaseTablesAgree' = CaseTablesAgree /\ SlicesExact' = SlicesExact
    BY <2>1 DEF CaseTablesAgree, SlicesExact
  <2>9. TrimsExact' = TrimsExact /\ CleanExact' = CleanExact /\ NumbersExact' = NumbersExact
    BY <2>1 DEF TrimsExact, CleanExact, NumbersExact
  <2>10. TextKept' = TextKept
    BY <2>1, <2>8, <2>9 DEF TextKept
  <2> QED
    BY <2>1, <2>2, <2>3, <2>4, <2>5, <2>7, <2>10 DEF StringsInv
<1> QED
  BY <1>1, <1>2, <1>3, <1>4 DEF StringsNext

-----------------------------------------------------------------------------
(***************************************************************************)
(* The calls together.                                                     *)
(***************************************************************************)

CallsInv == StringsInv /\ TransferInv /\ SetupInv /\ TreeInv /\ TimesExact

\* Of a transfer what is moved is the head of the buffer; a call that makes a
\* descriptor has open what its variable names; of a directory that is gone
\* all it led to is gone; a loop of StringUtils has dealt with what it has passed.
THEOREM Invariant == CallsSpec => []CallsInv
<1>1. CallsInit => CallsInv
  BY StringsBegin, TransferInit, SetupInit, TreeInit, TimesInit DEF CallsInit, CallsInv
<1>2. CallsInv /\ [CallsNext]_calls => CallsInv'
  <2> SUFFICES ASSUME CallsInv, [CallsNext]_calls PROVE CallsInv'
    OBVIOUS
  <2>1. /\ [StringsNext]_strings /\ [T!Next]_transfers /\ [S!Next]_sockets
        /\ [F!Next]_files /\ [M!Next]_times
    BY DEF CallsNext, calls
  <2> QED
    BY <2>1, StringsStep, TransferNext, SetupNext, TreeNext, TimesNext DEF CallsInv
<1> QED
  BY <1>1, <1>2, PTL DEF CallsSpec

\* What Read, Write, Readn, Writen, ReadToBuffer and WriteToFile say they have
\* moved they have, each byte once and in order, however the system cuts it.
THEOREM TransfersAreExact == CallsSpec => []TransferExact
<1>1. TransferInv => TransferExact
  BY DEF TransferInv, TransferExact, T!TransferExact, T!RUNNING
<1> QED
  BY <1>1, Invariant, PTL DEF CallsInv

\* Whichever system call of Socket, NewUnixSocket, NewSocket or Accept fails, and
\* however many addresses NewSocket tries, no descriptor stays open that was not set
\* up, and the umask is as it was.  The one that stays open is the one returned, but
\* for a NewSocket of several addresses or of one of IPv6.
THEOREM SetupIsClean == CallsSpec => []SetupLeavesNothing
<1>1. CallsInv => SetupLeavesNothing
  BY DEF CallsInv, SetupInv
<1> QED
  BY <1>1, Invariant, PTL

\* In every file system, with links that lead anywhere in it, in circles too,
\* DeleteDir takes what its directory leads to, all of it if it says OK; MakeDir
\* makes directories of its path only, each in one that is there, and none if it
\* fails.
THEOREM TreeIsExact == CallsSpec => []TreeExact
<1>1. CallsInv => TreeExact
  BY DEF CallsInv, TreeInv
<1> QED
  BY <1>1, Invariant, PTL

\* Every delay asked for is the least that lasts if that is less than INT_MAX
\* milliseconds, and -1 if it is more, and every date is numbered as the calendar
\* numbers it, for all times and all years from 1970 on.
THEOREM TimesAreExact == CallsSpec => []TimesExact
<1>1. CallsInv => TimesExact
  BY DEF CallsInv
<1> QED
  BY <1>1, Invariant, PTL

\* For all strings, patterns and limits of Split: Split and Replace find the
\* leftmost occurrences that do not overlap, all of them but for the limit, and
\* lose no character between them; FindNumber counts every occurrence.
THEOREM SplitReplaceAgree == CallsSpec => []SplitReplaceJoin
<1>1. CallsInv => SplitReplaceJoin
  BY DEF CallsInv, StringsInv
<1> QED
  BY <1>1, Invariant, PTL

\* For all strings, and sizes that wrap among the arguments of Mid: Left, Mid, Right
\* and the trims return the characters they name, RemoveDuplicatedSpacesAndTabs one
\* space for every run, and IsNaturalNumber and IsInteger accept numbers, of at most
\* one sign, and reject all that no number can be.  For all tables of letters of which
\* the first is sorted: ToUpper finds every letter, ToLower every one that stands
\* between smaller and greater ones, and neither gives a letter another's.
THEOREM TextsAreKept == CallsSpec => []TextKept
<1>1. CallsInv => TextKept
  BY DEF CallsInv, StringsInv
<1> QED
  BY <1>1, Invariant, PTL
=============================================================================
