----------------------------- MODULE FileUtils ------------------------------
(***************************************************************************)
(* The calls of CFileUtils that change directories (sutils/FileUtils.cpp): *)
(* MakeDir and DeleteDir, and DirExist, which opens one.  A directory is a *)
(* node of the tree, a link a node with a target elsewhere in it.          *)
(***************************************************************************)
EXTENDS Integers, SequencesExt

CONSTANTS Nodes,        \* what may be in the file system
          Parent,       \* [node -> the directory it is in, or NULL]
          Target,       \* [link -> the directory it leads to]
          Plain,        \* the nodes that are files of any other kind
          Special,      \* those of them that are sockets and block devices
          Path,         \* [node -> its path: the nodes from the root down to it]
          NULL

FileUtilsAssumption ==
    /\ NULL \notin Nodes /\ Plain \subseteq Nodes \ DOMAIN Target
    /\ Special \subseteq Plain
    /\ Parent \in [Nodes -> (Nodes \cup {NULL}) \ DOMAIN Target]
    /\ DOMAIN Target \subseteq Nodes
    /\ \A l \in DOMAIN Target :
          Target[l] \in Nodes \ (Plain \cup DOMAIN Target)
    /\ Path \in [Nodes -> Seq(Nodes) \ {<<>>}]
    /\ \A n \in Nodes :
          /\ Parent[Path[n][1]] = NULL /\ Path[n][Len(Path[n])] = n
          /\ \A k \in 2..Len(Path[n]) : Parent[Path[n][k]] = Path[n][k - 1]

VARIABLES
    op,         \* "MakeDir", "DeleteDir", "DirExist" or "none"
    arg,        \* the directory it is about
    tree,       \* the nodes there are
    before,     \* the nodes there were
    next,       \* the component of the path MakeDir is at
    stack,      \* the calls of DeleteDir, outermost first, by their directory
    dirs,       \* the directories open
    result      \* what the call returned, or "running"

vars == <<op, arg, tree, before, next, stack, dirs, result>>

Directories == Nodes \ (Plain \cup DOMAIN Target)

\* Where opendir and stat arrive.
Resolve(n) == IF n \in DOMAIN Target THEN Target[n] ELSE n

\* The bit S_IFDIR of st_mode is also set in sockets and block devices.
IsDir(n) == Resolve(n) \in tree \cap (Directories \cup Special)

Contents(d) == {n \in tree : Parent[n] = Resolve(d)}

\* What is below a file is a name that no tree has.
Trees == {t \in SUBSET Nodes : \A n \in t : Parent[n] \in (t \cap Directories) \cup {NULL}}

Init ==
    /\ op = "none" /\ arg = NULL /\ tree = {} /\ before = {}
    /\ next = 1 /\ stack = <<>> /\ dirs = {} /\ result = "running"

Running == op # "none" /\ result = "running"

Return(r) == result' = r

\* A call meets any tree.  opendir may fail.
Begin(c, n, t) ==
    /\ op = "none" /\ op' = c /\ arg' = n
    /\ tree' = t /\ before' = t
    /\ \/ /\ c = "MakeDir" /\ \A k \in DOMAIN Path[n] : Path[n][k] \in t \cup Directories
          /\ UNCHANGED <<stack, dirs, result>>
       \/ /\ c \in {"DeleteDir", "DirExist"} /\ n \in t
          /\ \/ Return("failed") /\ UNCHANGED <<stack, dirs>>
             \/ /\ Resolve(n) \in t \cap Directories
                /\ dirs' = {n}
                /\ IF c = "DeleteDir" THEN stack' = <<n>> /\ UNCHANGED result
                                      ELSE UNCHANGED stack /\ Return("OK")
    /\ UNCHANGED next

Finish ==
    /\ result # "running"
    /\ op' = "none" /\ arg' = NULL /\ tree' = {} /\ before' = {}
    /\ next' = 1 /\ stack' = <<>> /\ dirs' = {} /\ result' = "running"

-----------------------------------------------------------------------------
\* One DoMakeDir of MakeDir's loop that succeeds, because stat finds a directory,
\* mkdir makes one, or mkdir finds what stat did not, a link to nothing.  Its OK is
\* 0, which ret, a bool, takes for the end of the loop and of the call.
DoMakeDir ==
    LET d == Path[arg][next]
    IN  /\ Running /\ op = "MakeDir" /\ d \notin tree \cap Plain
        /\ d \in tree \/ Parent[d] \in (tree \cap Directories) \cup {NULL}
        /\ tree' = tree \cup {d}
        /\ Return("OK")
        /\ UNCHANGED <<op, arg, before, next, stack, dirs>>

\* One that fails, at mkdir or because there is a file: the loop goes on, and what
\* the last one says is returned.
MakeDirFails ==
    /\ Running /\ op = "MakeDir" /\ Path[arg][next] \notin tree \ Plain
    /\ IF next = Len(Path[arg]) THEN Return("failed") /\ UNCHANGED next
       ELSE next' = next + 1 /\ UNCHANGED result
    /\ UNCHANGED <<op, arg, tree, before, stack, dirs>>

-----------------------------------------------------------------------------
Deleting == Running /\ op = "DeleteDir"

EnterDir(e) ==
    /\ Deleting /\ e \in Contents(Last(stack)) /\ IsDir(e) /\ Resolve(e) \in Directories
    /\ stack' = Append(stack, e) /\ dirs' = dirs \cup {e}
    /\ UNCHANGED <<op, arg, tree, before, next, result>>

RemoveEntry(e) ==
    /\ Deleting /\ e \in Contents(Last(stack)) /\ ~IsDir(e)
    /\ tree' = tree \ {e}
    /\ UNCHANGED <<op, arg, before, next, stack, dirs, result>>

\* (Mutant of RemoveDir: the directory is closed by the outermost call only.)
RemoveDirOpen ==
    /\ Deleting /\ Contents(Last(stack)) = {}
    /\ tree' = tree \ {Last(stack)}
    /\ dirs' = dirs \ {arg} /\ stack' = Front(stack)
    /\ IF Len(stack) = 1 THEN Return("OK") ELSE UNCHANGED result
    /\ UNCHANGED <<op, arg, before, next>>

\* At the end of a directory it is closed and removed; of a link, the link is.
RemoveDir ==
    /\ Deleting /\ Contents(Last(stack)) = {}
    /\ tree' = tree \ {Last(stack)}
    /\ dirs' = dirs \ {Last(stack)} /\ stack' = Front(stack)
    /\ IF Len(stack) = 1 THEN Return("OK") ELSE UNCHANGED result
    /\ UNCHANGED <<op, arg, before, next>>

\* Whatever fails makes every call on the stack return at once: a removal or an
\* opendir in the midst of a directory, as that of a socket does, or the removal
\* of one already closed.
DeleteFails ==
    /\ Deleting
    /\ IF Contents(Last(stack)) = {} THEN dirs' = dirs \ {Last(stack)} ELSE UNCHANGED dirs
    /\ stack' = <<>> /\ Return("failed")
    /\ UNCHANGED <<op, arg, tree, before, next>>

Next ==
    \/ \E n \in Nodes, t \in Trees : \E c \in {"MakeDir", "DeleteDir", "DirExist"} : Begin(c, n, t)
    \/ DoMakeDir \/ MakeDirFails \/ RemoveDir \/ DeleteFails \/ Finish
    \/ \E e \in Nodes : EnterDir(e) \/ RemoveEntry(e)

-----------------------------------------------------------------------------
\* What DeleteDir of n takes with it: what n leads to, through links too.
Closed(S) == \A d \in S, m \in before : Parent[m] = Resolve(d) => m \in S
Below(n)  == {m \in before : \A S \in SUBSET before : n \in S /\ Closed(S) => m \in S}

\* DeleteDir says OK exactly when the directory is gone; then all it led to is
\* gone, nothing else is, and no directory is left open.  A DeleteDir that fails
\* removed nothing else either.  MakeDir removes nothing and makes nothing but
\* directories of its path, each in a directory, and a MakeDir that fails has made
\* none.  (That an OK means the directory is there is not true of it.)
TreeExact ==
    result # "running" =>
       /\ op = "DeleteDir" /\ result = "OK" => before \ tree = Below(arg) /\ dirs = {}
       /\ op = "DeleteDir" /\ result # "OK" => before \ tree \subseteq Below(arg) \ {arg}
       /\ op = "MakeDir" =>
             /\ before \subseteq tree /\ tree \in Trees
             /\ tree \ before \subseteq ToSet(Path[arg]) \cap Directories
             /\ result # "OK" => tree = before
       /\ op = "DirExist" => tree = before
=============================================================================
