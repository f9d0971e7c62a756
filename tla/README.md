# A verification of vmodule

vmodule is a small C++ runtime in the manner of Android's libutils: reference
counting, threads, condition variables, queues, a logger with a thread of its
own, and on top of them a serial port and sockets.  There is no test with an
assertion in the repository; `src/tests` are demonstration programs.  What can
go wrong in code of this kind goes wrong between two threads, and that is what
the modules here are about.

Contents: [1 inventory](#1-inventory), [2 modules](#2-the-modules-and-the-code),
[3 runs](#3-what-the-runs-check), [4 fairness](#4-fairness),
[5 proofs](#5-what-is-proved), [6 disagreements](#6-where-code-and-comments-disagree),
[7 left out](#7-what-is-not-modelled), [8 plan](#8-plan).

## 1 Inventory

| Component | State | Operations | Used by |
|---|---|---|---|
| Atomic (`Atomic.h`) | - | inc, dec, add, or, compare-and-swap | RefBase |
| RefBase, `sp`, `wp` | two counters and a lifetime flag per object | incStrong, decStrong, incWeak, decWeak, attemptIncStrong, attemptIncWeak | CThread, serial port |
| Mutex, Condition | a pthread mutex and condition; on Windows two counters, a flag, a semaphore, an event and an internal mutex | lock, unlock; wait, waitRelative, signal, broadcast | every component with threads |
| CThread, `createRawThread` | `mLock`, `m_ThreadId`, `mStatus`, `mExitPending`, `mRunning`, `mHoldSelf` | run, requestExit, requestExitAndWait, join, Sleep, Wakeup, the thread's own loop | serial port, logger (raw thread) |
| MQUEUE (`VmQueue.cpp`) | a circular doubly linked list with a head node and a length | init, clear, free, push, pop | VmBlockingQueue |
| CQueue, CQueueItem, CQueueIterator (`Queue.hpp`) | the same, with a mark in the item of the queue it is in; an iterator's position | EnQueue, DeQueue, RemoveFrom, Remove; Reset, Next | CBlockingQueue |
| VmBlockingQueue, CBlockingQueue | a list, a mutex, a condition | EnQueue, DeQueue (for ever, or for a time), ExitQueue | logger, serial write task |
| Logger, LoggerThread | level, `critSec`, a blocking queue, `mRunning`, the log file | Log, SetLogLevel, Init, start, stop, the printing loop | everything |
| GlobalsSingleton | `quick`, `instance` | getQuick, getInstance | logger globals, vmodule |
| CSerialPort and its tasks | a descriptor, a lock, two threads with weak pointers back | InitPort, ClosePort, ReadByte, WriteData, the read loop | - |
| CSocket and its kin | none of their own | Readn, Writen, NewSocket, NewUnixSocket, wrappers of system calls | - |
| CFileUtils, Timers, StringUtils, AutoBuffer | a buffer and its sizes (AutoBuffer) | pure functions and short sequences of system calls | everything |
| vmodule, main | libevent's base and a clock event | Initialize, clock_handler | - |

How they interact: threads share objects by `sp`/`wp`, which are RefBase's
counters.  A CThread is itself a RefBase: while it runs it holds a strong
pointer to itself, in its loop it drops it and promotes a weak one in every
turn.  Threads pass items through a blocking queue, which is a list under a
Mutex and a Condition.  A thread that logs formats its line under `critSec` and
enqueues it; the logger's thread dequeues and prints.  On Windows, Condition is
an algorithm of its own; elsewhere it is pthread's.

What is hard in it, and what makes each part correct:

* **Blocking queue.** EnQueue signals after it has released the mutex; DeQueue
  tests the length once; ExitQueue leaves no mark.  Correct: no wakeup is lost,
  an item has one owner, what is enqueued is dequeued.
* **Lists.** Six links and two marks change in one operation, items move between
  lists, and an iterator looks on.  Correct: both chains spell the same items,
  length and marks agree with them, and the whole is a FIFO queue.
* **Reference counting.** The first strong reference, promotion and the last
  references of both kinds are sequences of atomic operations, and any two
  threads may be inside them.  Correct: counters exact at every moment, nothing
  used after it was freed, everything freed once, a promotion through which
  somebody has a strong pointer all along not refused.
* **CThread.** The child may run before its creator has stored its id; run may
  be called again as the last thread leaves; ids are reused; exit requests,
  waits for the exit and the exit cross each other.  Correct: one thread at a
  time, its id exact, requests not lost, waiters let go when it has stopped.
* **Condition, Windows.** broadcast waits for the last waiter, which is found by
  counting, with timed waiters leaving on their own.  Correct: broadcast goes
  on when all have left, and it returns.  (The last is true only where its
  callers hold the external mutex, which the comments do not ask of them.)
* **Serial port.** The port and its read task hold pointers to each other; the
  descriptor is tested and closed outside the lock; a Windows build waits for a
  byte with the lock held; opening takes several calls that fail on their own.
  Correct: a call works on the port's own descriptor, none is lost, the
  destructor ends also in the task it joins, bytes wake the task.
* **Transfers, sockets, files.** Loops over system calls that do part of what was
  asked, are interrupted, or fail after others have succeeded.  Correct: bytes
  move once and in order, nothing is left open, only what was to be removed is.
* **Strings and times.** Counters that wrap, empty texts and patterns, tables that
  must be sorted, rounding.  Correct: the plain meaning of each function.
* **Logger.** Order and completeness of the lines rest on a lock held from the
  time stamp to the queue, and on the queue; stop and a second use of the lock
  in SetLogLevel are delicate.  Correct: each line once and in order.

`PROJECT.json` lists every hazard of this kind at its line, with the properties
that would notice, or the reason why none does.

## 2 The modules and the code

| Module | Models | Instance for TLC | Proofs |
|---|---|---|---|
| `VmBlockingQueue` | `VmBlockingQueue.cpp`, `CBlockingQueue`, pthread conditions | itself | `VmBlockingQueue_proofs` |
| `RefBase` | `RefBase.cpp`, `RefBase.h`, `StrongPointer.h`, `Atomic.h` | `MCRefBase` | `RefBase_proofs` |
| `SharedObject` | the abstract specification of `RefBase`: an object with owners and holders | - | - |
| `CThread` | `Thread.cpp`, `ThreadImpl.cpp` | `MCCThread` | `CThread_proofs` |
| `Worker` | the abstract specification of `CThread`: an object with one worker | - | - |
| `Fifo` | the abstract specification of a set of queues: sequences | - | - |
| `LinkedList` | the link surgery shared by the two lists, and their refinement mapping | in both | `Lists_proofs` |
| `CQueue` | `Queue.hpp`: queue, item, iterator | `MCLists` | `Lists_proofs` |
| `VmQueue` | `VmQueue.cpp` | `MCLists` | `Lists_proofs` |
| `WinCondition` | the Windows half of `Condition.cpp` and `Mutex.cpp` | itself | `WinCondition_proofs` |
| `Condition` | the abstract specification of `WinCondition`: a mutex and who sleeps | - | - |
| `Logger` | `Logger.cpp`, `LoggerThread.cpp`; an instance of `VmBlockingQueue` inside | `MCLogger` | `Logger_proofs` |
| `SerialPort` | `SerialPort.cpp`, both builds | itself | `SerialPort_proofs` |
| `Transfer` | Read, Write, Readn, Writen of `Socket.cpp`; ReadToBuffer, WriteToFile of `FileUtils.cpp` | in `Calls` | `Calls_proofs` |
| `Sockets` | Socket, NewUnixSocket, NewSocket, Accept of `Socket.cpp` | in `Calls` | `Calls_proofs` |
| `FileUtils` | MakeDir, DeleteDir, DirExist of `FileUtils.cpp` | in `Calls` | `Calls_proofs` |
| `Timers` | toMillisecondTimeoutDelay, systemMaketime of `Timers.cpp` | in `Calls` | `Calls_proofs` |
| `StringUtils` | the functions of `StringUtils.cpp`, the loops turn by turn | in `Calls` | `Calls_proofs` |
| `LetterTables` | the two tables of letters of `StringUtils.cpp` | in `MCCalls` | - |
| `Calls` | one caller of the five modules `Transfer` to `StringUtils` | `MCCalls` | `Calls_proofs` |

Abstraction and composition form a chain: `VmQueue` and `CQueue` implement
`Fifo` (property `RefinesFifo`), which is what entitles `VmBlockingQueue` to
model its list as a sequence; `RefBase` implements `SharedObject` (property
`RefinesSharedObject`); `CThread` implements `Worker` (property `RefinesWorker`);
`WinCondition` implements `Condition` (property `RefinesCondition`), which is what
`VmBlockingQueue` and `CThread` take a condition variable to be; `Logger` takes only steps of `VmBlockingQueue` on
its queue (property `UsesQueue`), which is what entitles it to that queue's
properties.  `SerialPort` takes the count of its port to be the set of those who
hold it, which is `RefBase`'s `CountsExact`, and the loop of its task to be
`CThread`'s.  `Calls` extends `StringUtils` and puts it together with the other
four modules as one thread meets them, one call at a time, each of the four an
instance with variables of its own.

**Steps.** A step is what other threads cannot see divided: everything between
the acquisition of a mutex and its release or its wait; in `RefBase` and in the
internals of `WinCondition`, one atomic access or one critical section.  What
the code does outside its mutex is a step of its own (`SignalEnQueued`,
`ExitQueue`, `StopWakesQueue`, `UnlockAfterFailure`).

* `VmBlockingQueue`: `DeQueue` goes to its return or into the wait,
  `ResumeDeQueue` is what follows a wait that returned 0, `ReturnTimedOut` one
  that timed out; `SpuriousWakeup` is pthread's right.  A signal with nobody
  waiting is lost.
* `RefBase`: an actor is a pointer variable, `pc[p]` the place its thread is at.
  `IncWeak`, `IncStrongCount`, `FirstRef` are the accesses of incStrong;
  `ReadCount` to `CasFixUp` those of attemptIncStrong, with `curCount[p]` its
  local, `ReadWeak` and `CasWeak` those of attemptIncWeak.  `heldThroughout` is
  auxiliary: the promotions since whose beginning somebody has had a strong
  pointer all along.  A pointer is made from another that stays (`source[p]`), as a copy
  constructor's argument does.  `CmpxchgStored` is what the platform's
  compare-and-swap returns when it stored: 0 in every build the CMake files
  make, 1 in the fallback at the end of `Atomic.h`.  `RawOverWeak` tells whether
  the first `sp` may be made from a raw pointer while others hold weak ones.
* `CThread`: `Tids` are thread ids; an id is free, a client's, or the object's
  own thread, and it is reused.  `code[t]` is where a thread stands in its own
  life, `call[t]` where in a function of the object.  A subclass's `readyToRun`
  and `threadLoop` may call the object and return what they like.
  `CreateRawThread`/`AssignThreadId` let the child run before `m_ThreadId` is
  written.
* `LinkedList`: `next`, `prev`, `mQueue`, `fLength` are the code's; `order` is an
  auxiliary variable that says which sequence the links are meant to spell, and
  it is the refinement mapping to `Fifo` (`RefinesFifo`, stated once for both lists,
  of which each has a specification, `CSpec` and `VSpec`).  `CQueue` adds the marks and the
  iterator, whose `fCurrentItem` may start uninitialised (any value).
  `VmQueue` adds clear, free and init; items cut off by them keep stale links.
* `WinCondition`: `sema` counts tokens, `waitersDone` is an auto-reset event,
  `SignalObjectAndWait` is atomic as Win32 promises.  `awaited` is auxiliary: the
  waiters a broadcast has counted.  `ReleaseSemaphore` is external.
* `Logger`: a line is the number of its time stamp.  `LogReturns` is the signal
  of EnQueue together with the release of `critSec`.  `SetLogLevel` logs with
  `critSec` held and so waits for itself: that is in the model.

* `SerialPort`: `settings` is what the Windows device took of InitPort's settings,
  which may be nothing while InitPort says OK; `rxchar` an event not yet waited for.
  `strong` is who holds the port, and whoever leaves it empty goes
  through the destructor, the read task included.  What is done under
  `m_critical` is one step, but for ReadFile in the Windows build, which waits with
  the lock held (`pc` is "readFile").  Tests of `m_file` outside the lock are steps of
  their own (`InitPort`, `StartIo`, `Turn`).  `fdTable` is the process's table of
  descriptors, in which other code opens and closes files, so that a number may
  come back as another file.  `build` chooses between the two halves of the
  source: select on POSIX (`Ready` looks at the descriptors below the first
  argument, as select does), WaitCommEvent and the count of bytes on Windows.
* `Transfer`: the buffer and the stream are positions; `copied` says which went
  where.  Every answer of read and write is a step: `Moves`, `MovesNothing`,
  `Interrupted`, `Fails`.
* `Sockets`: every system call that may fail is a step: socket, fcntl, the option
  IPV6_V6ONLY, bind; `at` is the one the call is at.  `opened` is what is open since
  the call began, `usable` (auxiliary) what of it was set up to the end, `sfd` the
  call's variable, which may name something else.  NewSocket goes through
  `addresses`, of either family.
* `FileUtils`: a tree of nodes with links, files, and special files, of which
  `IsDir` believes that they are directories, as the code's test of a bit does; `Path` is a node's path from the root,
  which MakeDir walks; `Below` is what a directory leads to, the least set closed
  under what is in it and what its links lead to; the recursion of DeleteDir is the stack of
  its calls, `dirs` the directories it has open.
* `StringUtils`: a string is a sequence of characters.  The functions that loop over
  a string they change, or look for a pattern again and again, take a step a turn
  (`ReplaceTurn`, `ReplaceCharTurn`, `SplitTurn`, `FindNumberTurn`, `CleanTurn`); the
  others answer when they are asked.  `pieces`, `start` and `origin` are auxiliary
  where the function has no such variable: what lay between the places that were
  replaced, and which character of the string each one came from.  `NPOS` is the
  largest size_t, and sums that wrap in the code wrap; the limit of Split is counted
  in the width of its overload with a character.  bsearch is any search that is
  right on a sorted table (`Found`): in one that is not it finds the entries that
  are greater than all before them and smaller than all after, and may miss others.  The tables are constants of the module;
  `LetterTables` has the code's, letter by letter, written as stretches.
* `Timers`: a millisecond and INT_MAX are constants, so that the limits are reached
  by small numbers.  A question is asked and answered in a step.
* `Worker`, `Condition`: no lock, thread id or counter of the code is in them.  The
  worker of a CThread is the thread that runs its loop, its round where the loop is
  (`Live`, `Round`).  A thread sleeps in the abstract condition while it waits for
  the semaphore; a signal has its effect when the semaphore is released, or when
  the counter shows nobody to wake.

## 3 What the runs check

| Run | Instance | Shows |
|---|---|---|
| `queue` | 2 producers, 3 consumers, 3 items | `NoLostWakeup`, `OwnedOnce`, `EventuallyDeQueued` |
| `refbase` | 5 pointers, both lifetimes | `CountsExact`, `NoUseAfterFree`, `FreedExactlyOnce`, `PromoteAcquires`, `RefinesSharedObject` |
| `thread` | 3 ids, 3 calls of run | `ObjectHeldWhileUsed`, `OneIncarnation`, `ThreadIdExact`, `RefinesWorker`, `WaitersSeeItStopped`, `ExitRequestStops`, `ExitWaitEnds` |
| `lists` | either class; 2 queues, 3 items, 1 iterator | `CQueueIsSound`, `IteratorStaysInQueue`, `LengthIsExact`, `NextIsSuccessor`, `RefinesFifo` |
| `wincond` | 3 waiters (2 timed), 2 callers with the mutex | `BroadcastHandshake`, `RefinesCondition`, `WokenReturns` |
| `logger` | 3 callers, 4 lines | `EveryLineOnceInOrder`, `UsesQueue`, `EveryLineIsPrinted` |
| `serial` | 2 users (1 of them initialises), the read task, 2 descriptors, 2 bytes, both builds | `IoOnOwnPort`, `NoDescriptorLost`, `DestructionEnds`, `WindowsCharacterIsEvent`, `PosixCallsReturn` |
| `calls` | one caller; 3 bytes, texts of 4 and patterns of 2, 2 addresses, 3 descriptors, a tree of 8 | `SplitReplaceJoin`, `TextKept`, `TimesExact`, `TransferExact`, `SetupLeavesNothing`, `TreeExact`, `CallsReturn` |
| `refbase_race`, `wincond_unheld`, `logger_stop`, `serial_select` | smallest that do | a disagreement each, section 6 |

Every property is stated in a comment above it, with the code it is about.  The
distinct states of the larger runs: `refbase` 239 970, `serial` 11 540, `lists`
9 253, `wincond` 5 263, `calls` 31 059.

**Bounds, and why they suffice.**

* `queue`: a wakeup is lost, if at all, between one producer's push and its
  signal while a second one pushes and a consumer that did not wait takes the
  item: two producers, a consumer asleep, one woken, one passing by.  Items are
  recycled, so the run is not bounded in length.  For other numbers
  `NoLostWakeup` and `OwnedOnce` are proved.
* `refbase`: one pointer as a source, and four inside operations at once; the
  longest loop (`attemptIncStrong`) meets every change of the counter under it.
  Pointers are interchangeable, so they are a symmetry set.
  `INITIAL_STRONG_VALUE` is 100 instead of 1 << 28: only that it exceeds the
  number of references matters (`RefBaseAssumption`).
* `thread`: `MaxRuns` bounds the calls of run.  Three let an id be used by a
  first thread, a second and a third incarnation, and three ids let one wait,
  one run and one restart.
* `lists`: three items are one at each end and one in the middle, two
  queues are what it takes to move an item.
* `wincond`: two timed waiters and an untimed one can leave in every order while
  two callers alternate signal and broadcast.  `MaxTokens` bounds the tokens a
  signal may leave in the semaphore when its waiter times out; two are more than
  one broadcast can confuse with its own.
* `logger`: four lines by three threads fill the queue past one item while one
  thread waits for `critSec`.  The levels are those `IsLogLevelLogged` and
  `SetLogLevel` tell apart, one out of range included.

* `serial`: two users, so that one can let go while the other is inside a call and
  the task holds the port for a moment; one initialiser (two at once lose a
  descriptor, section 6); two descriptors, so that a closed number can come back
  as another file while the port gets the other; two bytes, so that one can come
  while the other is read.
* `calls`: `MaxBytes` 3 is a transfer in three parts with a signal, an error or
  the end between them; texts of four letters over two hold every overlap of
  patterns of two letters, an empty piece at either end and between; `NPOS` 13 is
  the least that the assumption on it allows, and lets sums of two sizes wrap; `MILLI` 3 and `INT_MAX` 5 reach every rounding
  and both sides of the limit; `Years` are around a leap year, a century that is
  one, two that are not, and the ends of 32 bits; two addresses are one that is
  tried after another, and three descriptors one more than they can take; the tree has a directory in a directory, a socket in that, a file, a name below
  a file, and a link to a directory elsewhere that is not empty.

Deadlock is checked except where the system may stop: every reference dropped
(`refbase`), every thread ended and no run left (`thread`), the loop ended or
`SetLogLevel` waiting for itself (`logger`).

## 4 Fairness

A thread that can run is eventually scheduled: weak fairness of each thread's
next step inside a call.  Nobody is obliged to call anything, and no timeout,
signal or spurious wakeup is counted on.  Beyond that:

* `VmBlockingQueue`: consumers call DeQueue again and again, as the logger's and
  the serial port's loops do.
* `CThread`: strong fairness for the return of `readyToRun` and `threadLoop`, which
  may call the object any number of times before they return.  The loops of the
  repository return as long as what they wait for comes: the serial read task's
  does not on POSIX, where it waits in a select without a limit that never reports
  the port (`serial_select`), nor on Windows while no event comes.  What `thread`
  says of requests to exit and of who waits for the end is said of threads whose
  `threadLoop` returns.
* `WinCondition`: strong fairness for getting the internal and the external mutex:
  Windows queues for a mutex in order ("everybody is in the mutex FIFO",
  Condition.cpp:187), and nobody keeps the external one, which an Autolock
  releases.
* `SerialPort`: weak fairness of the steps of a thread that works, strong fairness
  of getting `m_critical` (`ReadByte`, `WriteData`), and of a select or a WaitCommEvent that
  has something to report again and again, though it may fail in between.  No byte
  and no signal need come, and a ReadFile that waits returns when a byte is there.
* `Calls`: a loop over a string takes its next turn (weak fairness of `Turns`, counted
  only where it changes something); the system moves bytes or tells the end of the stream in the end; it
  may say "again" any number of times before, and it need not fail.
* `Logger`: weak fairness of the loop, of a thread that has begun to send, and of
  the second half of stop.

## 5 What is proved

All for every value of the constants that meets the named assumptions, which say
that sets of actors are finite, special values are no members of them, and
numbers are numbers.

* `VmBlockingQueue_proofs`: `NoWakeupIsLost` and `EveryItemIsOwnedOnce`.
  `NoLostWakeup` is inductive with `TypeOK`: a pop uses up a wakeup or happens
  when nobody needs it, a push brings a signal.
* `RefBase_proofs`: `CountsAreExact`, `NothingIsUsedAfterFree`,
  `EverythingIsFreedOnce`, `PromotionIsNotRefused`, for any number of pointers,
  where compare-and-swap returns 0 when it stored and the first `sp` is not made
  over weak pointers (`CmpxchgStored = 0`, `RawOverWeak = FALSE`).
  Exact counters are not inductive by themselves: a pointer in the middle of an
  operation acts on what it has read.  `IInv` adds what each place in the code
  knows (`LocalsOK`), that a source stays what it is (`SourceOK`), that the first
  and the last reference are alone (`AloneOK`), and what was freed when
  (`FreesOK`), and which promotions somebody's strong pointer has accompanied
  (`HeldOK`).  Counting is by the cardinality of the set of pointers at a place;
  each step moves one pointer between two of these sets.
  `CountsImplementSharing` is the refinement: in `SharedObject` who owns and who
  holds are sets, and an owner comes or goes in one step.  The owners are the
  pointers the strong count counts (`StrongRefs`), the holders those of the weak
  count (`WeakRefs`, a set of the proofs, not of the code), and the object has ended when the strong count is 0.  So the
  swap that stored is where attemptIncStrong takes effect, and an old owner has
  gone at its atomic decrement, though it still has the object to delete: until
  it does, nobody can become an owner, however stale the count they have read.
  `PromotionIsNotRefused` says two things: a promotion through which somebody or
  other has a strong pointer from its beginning to its end is not refused, and where
  attemptIncStrong gives up by a count, or turns to asking the object whether it may
  be revived, nobody has one at that moment.  It does not say that a promotion
  succeeds whenever somebody has one when it ends: of two that ask an object of the
  extended lifetime, one may revive it and the other be refused afterwards.
* `Lists_proofs`: the links spell `order`
  after each of the three link operations (a predecessor's next is its
  successor and conversely, at both ends and in the middle); hence
  `LinksAreSound` (`ListsAreSound`, which the run checks as `CQueueIsSound`),
  `IteratorIsSound`, `IterationInOrder`, `LengthStaysExact`, and
  the refinements `QueuesAreFifo` and `ListIsFifo`, in which `order` is the
  witness.  In `VmQueue` nothing is assumed about the links of items that are in
  no list, because clear leaves them dangling.
* `Logger_proofs`: `LoggerUsesQueue`, that every step of the logger is a step of
  `VmBlockingQueue` or leaves the queue alone, and `LinesComeInOrder`.  The one
  step that is not a queue step by its text is `SendDebugMessage`, which must
  enqueue an item nobody owns; that the line it sends is new follows from the
  order of the lines, so both theorems come from one invariant: who sends holds
  `critSec`, and the lines printed, in hand, queued and being sent are
  consecutive numbers.

* `CThread_proofs`: `ObjectIsHeld`, `OneThreadRuns`, `IdIsExact`, `WaitersSeeTheEnd`,
  `ExitRequestsStick`, for any finite set of ids and any number of runs.  That one
  thread runs at a time says nothing of run, which lets go of `mLock` nowhere but
  stores the id after the child may have begun.  `IInv` adds who holds the lock
  (`LockOK`), the reference each caller has (`CallsOK`), that the object's hold on
  itself lasts from run's decision to the thread's start (`HoldSelfOK`), and what
  run knows at each of its places (`RunOK`): a thread whose id is not stored yet
  gets no further than its first use of `mLock`.  `ThreadIsWorker` is the refinement:
  run's first step is where the object starts, the creation of the thread where the
  worker begins, the loop's decision to end, under `mLock`, where it stops, and the
  promotion of its weak pointer where it enters a round or ends with the object
  gone.  That no step takes back a request to exit (`ExitRequestsStick`) is a
  part of it.
* `WinCondition_proofs`: `TypeCorrect`, without hypothesis: `waitersCount` is the number
  of threads inside wait.  `BroadcastsAreAnswered`, where the
  callers hold the external mutex (`CallersHoldMutex`).  Without that hypothesis both
  invariants behind them fail: a thread that begins to wait during a broadcast is
  counted and not woken (section 6).  While a broadcast waits for its event, of
  the counted waiters, the last one on its way to set it, and the event itself,
  exactly one kind is there (`AwaitOK`); the flag and the event belong to one
  broadcast under way and to no earlier one (`FlagsOK`), which is what a waiter
  that times out at the wrong moment could upset.
  `ConditionIsImplemented` needs no hypothesis: a signal is one token, given while
  its caller has shut out who would begin or end a wait, and a broadcast as many as
  there are sleepers.  It rests on who has the external mutex (`HolderOK`) and on the
  semaphore keeping no token while a thread sleeps on it (`TokensOK`).
* `SerialPort_proofs`: `IoIsOnOwnPort` and `DescriptorsAreNamed`, for both builds and any
  users and descriptors, where one thread at most initialises (`OneInitialiser`; two
  at once lose a descriptor).  The calls test `m_file` without the lock, so the
  invariant says why the answer keeps: whoever is inside a call holds the port
  (`HoldersOK`), who destroys it has nobody beside it (`DestructorOK`), and so what
  was tested is still true (`TestedOK`).
* `Calls_proofs`: `TransfersAreExact`, `SetupIsClean`, `TreeIsExact`, for every length,
  every set of descriptors and every file system, links in circles included.  For
  a transfer, what was copied and what is left are the two sides of one position.
  For DeleteDir, the calls on the stack are a path of directories that are
  there (`StackOK`), so that the one removed is no other's; of a directory that has
  gone everything has gone (`GoneWithContents`), so that at the end the rest
  is closed, and `Below` is the least set that is.  MakeDir, until it returns, has
  made nothing (`PathOK`).  Of the calls that make descriptors the invariant tells
  the descriptor under way from those that were set up (`OpenedOK`), at each
  system call (`PlaceOK`), so that the close that belongs to a failure is seen to be
  of the right one.
  `DelayIsLeast`, `DaysAreTheCalendars` and `TimesAreExact`: for every two times the
  delay is the least number of milliseconds that lasts (or -1 beyond INT_MAX; of
  INT_MAX itself nothing is said, section 6), and for every date from
  1970 on systemMaketime counts the days before it, leap days among them.
  `SplitReplaceAgree` and `TextsAreKept`: the functions of `StringUtils` for strings
  of every length over every set of letters.  Each loop has an invariant that says
  what it has made of what it has passed: the pieces, glued with the pattern, are
  the string so far, and glued with the new text what Replace has made of it
  (`ReplaceInv`, `SplitInv`); as many occurrences lie before the current one as were
  counted (`FindNumberInv`); every character passed was kept, or is a space after a
  space (`CleanInv`).  Of the tables, ToUpper maps every letter to its pair and no
  other; ToLower those of unicode_uppers that bsearch cannot miss, and none to
  another's.  Of the tests of numbers, where header and code disagree nothing is
  said.  Induction over numbers (`NumbersFrom`), which the days and the
  glued pieces need, is not taken from the library, whose theorem no prover here can
  instantiate, but proved of sets: a set of numbers has a least one, because finite
  sets are well-founded by inclusion.  The invariants of the five modules do not
  touch each other, and one theorem (`Invariant`) has them all.

What is assumed besides the named assumptions on the constants is in the
theorems: `CmpxchgStored = 0` and `RawOverWeak = FALSE` (every build the CMake files
make; no `sp` is made from a raw pointer that others hold only weakly),
`CallersHoldMutex` for `BroadcastsAreAnswered` (CThread's broadcasts; the broadcast of
ExitQueue, VmBlockingQueue.cpp:48, is made without the mutex, and `wincond_unheld`
shows what may become of it), `OneInitialiser` (a port is set up by the thread that
made it).  Each holds in the run that checks the same property.  Of strings it is
assumed that what Replace makes of the longest one is shorter than npos, which any
string in memory is, and that `unicode_lowers` is sorted, which TLC checks of the
code's table; nothing is assumed of the order of `unicode_uppers`.

Every safety property and every refinement a passing run checks is a theorem.
Model-checked only: the liveness properties (the prover has no rules for fairness
and ENABLED), and the four disagreements.

## 6 Where code and comments disagree

Each is a run that TLC refutes with a counterexample, and a finding in
`PROJECT.json`.

* `refbase_race`: `incStrong` subtracts `INITIAL_STRONG_VALUE` unconditionally; if a
  promote in another thread has already done so, the count is far too low from
  then on.  It takes a first `sp` made from a raw pointer while another thread
  promotes a weak one.  Without it (`RawOverWeak = FALSE`) counts are proved exact.
* `wincond_unheld`: on Windows broadcast hangs if a thread enters wait between the
  count of the waiters and the departure of the last one, which can only be when
  the caller does not hold the external mutex.  The comments say that it need not
  (Condition.cpp:113-117, 135-137, 219), and ExitQueue does not (VmBlockingQueue.cpp:48).
* `logger_stop`: stop's wakeup is lost on a loop that has tested `mRunning` and not
  begun to wait; the loop then waits for ever, on a queue about to be destroyed.

* `serial_select`: the read task calls select with `m_file` as its first argument,
  where one more is needed; select then never looks at the port, and waits
  without a limit while bytes come.

Seen in the code, and in the models where they cover it, and kept by no run of
their own:

* Threads: an observer in requestExitAndWait, woken by the exit, waits on when
  run() gets the lock first and starts the thread again (Thread.cpp:127).  Sleep
  reads `m_ThreadId` without `mLock`; in readyToRun it may take its own thread for a
  foreign one, and Wakeup does not reach it (216).  Its multiplication wraps at
  4295 ms (220).
* Conditions on Windows: a timed wait may return -1 where its callers test for
  TIMED_OUT (Condition.cpp:201).
* Logger: `SetLogLevel` locks `critSec` twice (Logger.cpp:130-139; Mutex.h:44 says
  mutexes are not recursive) and indexes `logLevelNames` one too far (135).
* Lists and counters: `mqueue_init` allocates the size of a pointer for the head
  node (VmQueue.cpp:19); the fallback compare-and-swap returns the opposite of
  what `RefBase.cpp` expects (Atomic.h:256).
* Serial port: an InitPort that fails in the settings leaves the port open, and
  the next one is refused because it is; two InitPorts at once lose a
  descriptor.  ReadFile waits with `m_critical` locked.  `max_fd` and `time_out` are
  never read.  select without a limit keeps the port alive by the task's pointer
  for as long as nothing comes.  On Windows, where SetCommTimeouts, SetCommMask or
  SetCommState fails, InitPort says OK with the task started (77-95, 219-223): without
  the mask no event ever comes, and without the timeouts ReadByte may say OK and
  have read nothing.
* Sockets: NewSocket keeps the descriptor of its last address only, leaks those of
  the others, returns -1 if the last fails though its comment says that one
  needs to work (Socket.cpp:219-221), and can return a descriptor it has closed after
  IPV6_V6ONLY could not be set.  `SetupLeavesNothing` says what of it is right: what could not
  be set up is closed.  NewUnixSocket returns 1 where it fails, which is a descriptor.
* Files: MakeDir says OK and stops after the first component it finds or makes,
  because the OK of DoMakeDir is 0 and `ret`, a bool, ends the loop (FileUtils.cpp:47-50);
  the callers expect the whole path (199-200).  When a component fails it goes on to
  the next, and returns 1, not the error.  Its mode is cut to a uint8_t.  `TreeExact`
  says no more of it than that it makes nothing else and does not fail half-way.
  DeleteDir leaves directories open where it fails, follows links, and fails at a
  socket or a block device, which `IsDir` takes for a directory (100).  DirExist
  leaves the directory open.  ReadToBuffer never returns when asked for more than
  the file has, which the size of a file that lseek cannot tell always is (177).
* Strings: `tolowerUnicode` misses 55 letters, I among them, because its table is
  not sorted where bsearch needs it to be (StringUtils.cpp:217 is one such place).
  IsInteger takes at most one sign where StringUtils.h:60 says `[\-]*`, so that '--0'
  is none; it and IsNaturalNumber take white space of every kind, where the header
  (53, 60) says `[ \t]*`.  FindNumber counts overlapping matches.
* Time: toMillisecondTimeoutDelay answers -1 for a delay of INT_MAX milliseconds,
  which an int can tell; Timers.h:113 says -1 only for more (Timers.cpp:84).  `TimesExact`
  leaves that one delay open.

## 7 What is not modelled

* In the modelled parts: the log file and the destruction of the logger's queue,
  a second start of the logger; `mqueue_remove`, which no header declares;
  scheduling parameters and names of threads; the conversion of relative to
  absolute times; memory orders weaker than sequential consistency (the model
  of an atomic access is one indivisible step); the parameters of the serial
  line one by one, and its write task, which no code creates; paths cut off at
  256 bytes; two threads at once in `Calls`, which share nothing but
  what the system keeps.
* The singletons: a test and an assignment without a lock, reached before any
  thread is made in the programs of the repository.  AutoBuffer: one call of one
  thread uses it.  Formatting of strings, the digits of times, code pages.
* For good: wrappers of single system calls, `libevent`'s loop in `vmodule.cpp`,
  macros and types, IDE and build files, the demonstration programs.

## 8 Plan

Order: what other parts rest on first.  Done: the blocking queue, reference
counting, threads, both lists, the Windows condition variable, the logger, the
serial port, the calls and functions of the library, four abstract specifications
with the proofs that they are implemented, and a theorem for every safety property
of a run.  Left: `Logger` with its file (OpenLogFile, CloseLogFile and the loop's
writes), start after stop, and the destruction of the globals.

Out of reach of the prover: liveness and ENABLED.
