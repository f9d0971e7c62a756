------------------------------ MODULE RefBase ------------------------------
(***************************************************************************)
(* One reference-counted object of sutils/RefBase.cpp and the sp<> and     *)
(* wp<> pointers to it (StrongPointer.h, RefBase.h).                       *)
(*                                                                         *)
(* An actor is a pointer variable: p is null, or refers to the object as a *)
(* strong or a weak pointer, or stands inside the one operation the thread *)
(* that owns it is performing on it.  Every atomic access to a counter is  *)
(* a step of its own.  An operator= that replaces a reference takes the    *)
(* new one before it drops the old one: here, two pointers.                *)
(*                                                                         *)
(* The virtual callbacks do nothing by default (RefBase.cpp:369-385) and   *)
(* are no steps here, that of onLastStrongRef in a promote that found the  *)
(* object owned again (RefBase.cpp:267) included; onIncStrongAttempted may *)
(* refuse.                                                                 *)
(***************************************************************************)
EXTENDS Integers, FiniteSets

CONSTANTS Pointers,             \* the sp<> and wp<> variables of all threads
          NULL,                 \* no pointer
          INITIAL_STRONG_VALUE, \* 1 << 28: no strong reference was ever taken
          Lifetimes,            \* the values extendObjectLifetime may have left
          CmpxchgStored,        \* what cmpxchg returns when it has stored
          RawOverWeak           \* may the first sp<> be made from a raw pointer
                                \* while other threads hold weak ones?

ASSUME RefBaseAssumption ==
    /\ IsFiniteSet(Pointers) /\ NULL \notin Pointers
    /\ INITIAL_STRONG_VALUE \in Nat
    /\ Cardinality(Pointers) < INITIAL_STRONG_VALUE
    /\ Lifetimes \subseteq {"STRONG", "WEAK"}
    /\ CmpxchgStored \in {0, 1}
    /\ RawOverWeak \in BOOLEAN

VARIABLES
    mStrong, mWeak, \* the counters of weakref_impl
    mFlags,         \* its lifetime, fixed by the constructor of the object
    objectFrees,    \* how often the object was deleted
    implFrees,      \* how often its weakref_impl was deleted
    pc,             \* pc[p]: "null", "strong", "weak", or a place in the code
    curCount,       \* curCount[p]: the local of attemptIncStrong and attemptIncWeak
    source,         \* source[p]: the pointer p is being made from, or NULL
    heldThroughout  \* auxiliary, no guard reads it: the promotions under way during
                    \* which somebody has had a strong pointer at every moment

vars == <<mStrong, mWeak, mFlags, objectFrees, implFrees, pc, curCount, source,
          heldThroughout>>

\* The places of the code between two accesses to shared memory.
Acquired   == {"firstRef", "fixUp", "casFixUp"} \* mStrong counts it already
Attempting == {"attempt", "casShared", "casFirst", "rereadFirst", "revive"}
Releasing  == {"lastStrong", "decWeak"}
Uncounted  == {"null", "lastWeak", "readWeak", "casWeak"} \* not in mWeak
Places     == {"strong", "weak", "incStrong"}
                 \cup Uncounted \cup Acquired \cup Attempting \cup Releasing

At(S) == {p \in Pointers : pc[p] \in S}

TypeOK ==
    /\ mStrong \in Nat /\ mWeak \in Nat
    /\ mFlags \in Lifetimes
    /\ objectFrees \in Nat /\ implFrees \in Nat
    /\ pc \in [Pointers -> Places]
    /\ curCount \in [Pointers -> Nat]
    /\ source \in [Pointers -> Pointers \cup {NULL}]
    /\ heldThroughout \subseteq Pointers

Init ==
    /\ mStrong = INITIAL_STRONG_VALUE
    /\ mWeak = 0
    /\ mFlags \in Lifetimes
    /\ objectFrees = 0 /\ implFrees = 0
    /\ pc = [p \in Pointers |-> "null"]
    /\ curCount = [p \in Pointers |-> 0]
    /\ source = [p \in Pointers |-> NULL]
    /\ heldThroughout = {}

-----------------------------------------------------------------------------
(***************************************************************************)
(* The frame of a step, and what the callers guarantee.                    *)
(***************************************************************************)
Goto(p, place) == pc' = [pc EXCEPT ![p] = place]

\* p has reached the end of its operation: its source may go, and curCount is
\* out of scope.
Done(p, place) ==
    /\ Goto(p, place)
    /\ source' = [source EXCEPT ![p] = NULL]
    /\ curCount' = [curCount EXCEPT ![p] = 0]

\* Nobody referred to the object yet: its creator holds the raw pointer.
Fresh == At({"null"}) = Pointers /\ mStrong = INITIAL_STRONG_VALUE
            /\ objectFrees = 0

\* A pointer in use as the source of another is neither released nor changed.
IsSource(q) == \E p \in Pointers : source[p] = q

\* incStrong needs an object that outlives the call: the caller copies a
\* strong pointer, or has created the object, or relies on the extended
\* lifetime while it holds a weak one; its first strong reference is then
\* taken before the weak ones are shared, unless RawOverWeak.
StrongSource(q) ==
    \/ q = NULL /\ Fresh
    \/ q \in At({"strong"})
    \/ /\ q \in At({"weak"}) /\ mFlags = "WEAK"
       /\ RawOverWeak \/ mStrong < INITIAL_STRONG_VALUE

WeakSource(q) == (q = NULL /\ Fresh) \/ q \in At({"strong", "weak"})

-----------------------------------------------------------------------------
(***************************************************************************)
(* Taking references.                                                      *)
(***************************************************************************)

\* incStrong and forceIncStrong, up to their increment of the weak count.
\* (They differ only in when they call onFirstRef.)
IncStrong(p) ==
    /\ pc[p] = "null"
    /\ \E q \in Pointers \cup {NULL} :
          StrongSource(q) /\ source' = [source EXCEPT ![p] = q]
    /\ mWeak' = mWeak + 1
    /\ Goto(p, "incStrong")
    /\ UNCHANGED <<mStrong, mFlags, objectFrees, implFrees, curCount>>

IncStrongCount(p) ==
    /\ pc[p] = "incStrong"
    /\ mStrong' = mStrong + 1
    /\ IF mStrong = INITIAL_STRONG_VALUE
       THEN Goto(p, "firstRef") /\ UNCHANGED <<source, curCount>>
       ELSE Done(p, "strong")
    /\ UNCHANGED <<mWeak, mFlags, objectFrees, implFrees>>

FirstRef(p) ==
    /\ pc[p] = "firstRef"
    /\ mStrong' = mStrong - INITIAL_STRONG_VALUE
    /\ Done(p, "strong")
    /\ UNCHANGED <<mWeak, mFlags, objectFrees, implFrees>>

\* createWeak and incWeak.
IncWeak(p) ==
    /\ pc[p] = "null"
    /\ \E q \in Pointers \cup {NULL} : WeakSource(q)
    /\ mWeak' = mWeak + 1
    /\ Goto(p, "weak")
    /\ UNCHANGED <<mStrong, mFlags, objectFrees, implFrees, curCount, source>>

\* vmodule_atomic_cmpxchg leaves this in the counter.  The loops break on a
\* result of 0.
Cmpxchg(count, old, new) == IF count = old THEN new ELSE count

CmpxchgBreaks(count, old) ==
    (IF count = old THEN CmpxchgStored ELSE 1 - CmpxchgStored) = 0

\* attemptIncWeak, whose caller reaches the counters through a pointer q: it
\* takes a weak reference unless the weak count it reads is 0.
AttemptIncWeak(p) ==
    /\ pc[p] = "null"
    /\ \E q \in At({"strong", "weak"}) : source' = [source EXCEPT ![p] = q]
    /\ Goto(p, "readWeak")
    /\ UNCHANGED <<mStrong, mWeak, mFlags, objectFrees, implFrees, curCount>>

ReadWeak(p) ==
    /\ pc[p] = "readWeak"
    /\ IF mWeak > 0
       THEN /\ Goto(p, "casWeak")
            /\ curCount' = [curCount EXCEPT ![p] = mWeak]
            /\ UNCHANGED source
       ELSE Done(p, "null")
    /\ UNCHANGED <<mStrong, mWeak, mFlags, objectFrees, implFrees>>

CasWeak(p) ==
    /\ pc[p] = "casWeak"
    /\ mWeak' = Cmpxchg(mWeak, curCount[p], curCount[p] + 1)
    /\ IF CmpxchgBreaks(mWeak, curCount[p]) THEN Done(p, "weak")
       ELSE Goto(p, "readWeak") /\ UNCHANGED <<source, curCount>>
    /\ UNCHANGED <<mStrong, mFlags, objectFrees, implFrees>>

-----------------------------------------------------------------------------
(***************************************************************************)
(* wp<>::promote, that is attemptIncStrong.                                *)
(***************************************************************************)

AttemptIncStrong(p) ==
    /\ pc[p] = "null"
    /\ \E q \in At({"weak"}) : source' = [source EXCEPT ![p] = q]
    /\ mWeak' = mWeak + 1
    /\ Goto(p, "attempt")
    /\ UNCHANGED <<mStrong, mFlags, objectFrees, implFrees, curCount>>

\* (Mutant of ReadCount: a count of 0 is taken for a live object.)
ReadCountReviving(p) ==
    /\ pc[p] = "attempt"
    /\ curCount' = [curCount EXCEPT ![p] = mStrong]
    /\ Goto(p, IF mStrong # INITIAL_STRONG_VALUE THEN "casShared"
               ELSE IF mFlags = "WEAK" THEN "revive" ELSE "casFirst")
    /\ UNCHANGED <<mStrong, mWeak, mFlags, objectFrees, implFrees, source>>

\* The count is read, and decides: an object that is in use is shared; one
\* that never was is taken for the first time; one whose last strong reference
\* is gone is given up, or revived if its lifetime is extended.
ReadCount(p) ==
    /\ pc[p] = "attempt"
    /\ curCount' = [curCount EXCEPT ![p] = mStrong]
    /\ Goto(p, IF mStrong > 0 /\ mStrong # INITIAL_STRONG_VALUE THEN "casShared"
               ELSE IF mFlags = "WEAK" THEN "revive"
               ELSE IF mStrong <= 0 THEN "decWeak" ELSE "casFirst")
    /\ UNCHANGED <<mStrong, mWeak, mFlags, objectFrees, implFrees, source>>

CasShared(p) ==
    /\ pc[p] = "casShared"
    /\ mStrong' = Cmpxchg(mStrong, curCount[p], curCount[p] + 1)
    /\ Goto(p, IF CmpxchgBreaks(mStrong, curCount[p]) THEN "fixUp" ELSE "attempt")
    /\ UNCHANGED <<mWeak, mFlags, objectFrees, implFrees, curCount, source>>

CasFirst(p) ==
    /\ pc[p] = "casFirst"
    /\ mStrong' = Cmpxchg(mStrong, curCount[p], curCount[p] + 1)
    /\ Goto(p, IF CmpxchgBreaks(mStrong, curCount[p]) THEN "fixUp" ELSE "rereadFirst")
    /\ UNCHANGED <<mWeak, mFlags, objectFrees, implFrees, curCount, source>>

\* (Mutant of RereadFirst: it only tries again while nobody was first.)
RereadFirstOnly(p) ==
    /\ pc[p] = "rereadFirst"
    /\ curCount' = [curCount EXCEPT ![p] = mStrong]
    /\ Goto(p, IF mStrong = INITIAL_STRONG_VALUE THEN "casFirst" ELSE "decWeak")
    /\ UNCHANGED <<mStrong, mWeak, mFlags, objectFrees, implFrees, source>>

RereadFirst(p) ==
    /\ pc[p] = "rereadFirst"
    /\ curCount' = [curCount EXCEPT ![p] = mStrong]
    /\ Goto(p, IF mStrong > 0 THEN "casFirst" ELSE "decWeak")
    /\ UNCHANGED <<mStrong, mWeak, mFlags, objectFrees, implFrees, source>>

\* onIncStrongAttempted agrees, and the count is incremented, or it refuses.
Revive(p) ==
    /\ pc[p] = "revive"
    /\ \/ mStrong' = mStrong + 1 /\ Goto(p, "fixUp")
       \/ mStrong' = mStrong /\ Goto(p, "decWeak")
    /\ UNCHANGED <<mWeak, mFlags, objectFrees, implFrees, curCount, source>>

\* The loop that takes INITIAL_STRONG_VALUE off the count, if nobody has yet.
FixUp(p) ==
    /\ pc[p] = "fixUp"
    /\ IF mStrong >= INITIAL_STRONG_VALUE
       THEN /\ Goto(p, "casFixUp")
            /\ curCount' = [curCount EXCEPT ![p] = mStrong]
            /\ UNCHANGED source
       ELSE Done(p, "strong")
    /\ UNCHANGED <<mStrong, mWeak, mFlags, objectFrees, implFrees>>

\* (Mutant of CasFixUp: the result of cmpxchg is ignored.)
CasFixUpOnce(p) ==
    /\ pc[p] = "casFixUp"
    /\ mStrong' = Cmpxchg(mStrong, curCount[p], curCount[p] - INITIAL_STRONG_VALUE)
    /\ Done(p, "strong")
    /\ UNCHANGED <<mWeak, mFlags, objectFrees, implFrees>>

CasFixUp(p) ==
    /\ pc[p] = "casFixUp"
    /\ mStrong' = Cmpxchg(mStrong, curCount[p], curCount[p] - INITIAL_STRONG_VALUE)
    /\ IF CmpxchgBreaks(mStrong, curCount[p]) THEN Done(p, "strong")
       ELSE Goto(p, "fixUp") /\ UNCHANGED <<source, curCount>>
    /\ UNCHANGED <<mWeak, mFlags, objectFrees, implFrees>>

-----------------------------------------------------------------------------
(***************************************************************************)
(* Dropping references.                                                    *)
(***************************************************************************)

\* ~RefBase, which may free the weakref_impl along with the object.
DestructorFreesImpl ==
    mStrong = INITIAL_STRONG_VALUE \/ (mFlags # "STRONG" /\ mWeak = 0)

Delete ==
    /\ objectFrees' = objectFrees + 1
    /\ implFrees' = implFrees + (IF DestructorFreesImpl THEN 1 ELSE 0)

DecStrong(p) ==
    /\ pc[p] = "strong" /\ ~IsSource(p)
    /\ mStrong' = mStrong - 1
    /\ Goto(p, IF mStrong = 1 THEN "lastStrong" ELSE "decWeak")
    /\ UNCHANGED <<mWeak, mFlags, objectFrees, implFrees, curCount, source>>

LastStrong(p) ==
    /\ pc[p] = "lastStrong"
    /\ IF mFlags = "STRONG" THEN Delete ELSE UNCHANGED <<objectFrees, implFrees>>
    /\ Goto(p, "decWeak")
    /\ UNCHANGED <<mStrong, mWeak, mFlags, curCount, source>>

\* The destructor of a wp<> enters decWeak at once.
ReleaseWeak(p) ==
    /\ pc[p] = "weak" /\ ~IsSource(p)
    /\ Goto(p, "decWeak")
    /\ UNCHANGED <<mStrong, mWeak, mFlags, objectFrees, implFrees, curCount, source>>

DecWeak(p) ==
    /\ pc[p] = "decWeak"
    /\ mWeak' = mWeak - 1
    /\ Done(p, IF mWeak = 1 THEN "lastWeak" ELSE "null")
    /\ UNCHANGED <<mStrong, mFlags, objectFrees, implFrees>>

\* (Mutant of LastWeak: an object that never had a strong reference is lost.)
LastWeakImplOnly(p) ==
    /\ pc[p] = "lastWeak"
    /\ IF mFlags = "WEAK" THEN Delete
       ELSE implFrees' = implFrees + 1 /\ UNCHANGED objectFrees
    /\ Goto(p, "null")
    /\ UNCHANGED <<mStrong, mWeak, mFlags, curCount, source>>

\* The last reference of any kind is gone: the object goes if it was never
\* strongly referenced or lives until now, else the weakref_impl goes.
LastWeak(p) ==
    /\ pc[p] = "lastWeak"
    /\ IF mFlags = "WEAK" \/ mStrong = INITIAL_STRONG_VALUE
       THEN Delete
       ELSE implFrees' = implFrees + 1 /\ UNCHANGED objectFrees
    /\ Goto(p, "null")
    /\ UNCHANGED <<mStrong, mWeak, mFlags, curCount, source>>

-----------------------------------------------------------------------------
Acquire(p) ==
    \/ IncStrong(p) \/ IncStrongCount(p) \/ FirstRef(p)
    \/ IncWeak(p) \/ AttemptIncWeak(p) \/ ReadWeak(p) \/ CasWeak(p)

Promote(p) ==
    \/ AttemptIncStrong(p) \/ ReadCount(p) \/ CasShared(p) \/ CasFirst(p)
    \/ RereadFirst(p) \/ Revive(p) \/ FixUp(p) \/ CasFixUp(p)

Release(p) ==
    DecStrong(p) \/ LastStrong(p) \/ ReleaseWeak(p) \/ DecWeak(p) \/ LastWeak(p)

\* The auxiliary variable: a promotion joins at its first step, and all leave
\* when nobody has a strong pointer any more.
Observe ==
    heldThroughout' =
        {p \in Pointers : /\ pc'[p] \in Attempting
                          /\ pc[p] \in Attempting => p \in heldThroughout
                          /\ \E q \in Pointers : pc'[q] = "strong"}

Next == (\E p \in Pointers : Acquire(p) \/ Promote(p) \/ Release(p)) /\ Observe

Spec == Init /\ [][Next]_vars

-----------------------------------------------------------------------------
(***************************************************************************)
(* Properties.                                                             *)
(***************************************************************************)

\* The references the two counters stand for.
StrongRefs == At({"strong"} \cup Acquired)
WeakRefs   == At(Places \ Uncounted)

\* The counters are exact at every instant, whatever operations are under way:
\* the strong count may still carry its initial value, but not once somebody
\* has a strong pointer to use.
CountsExact ==
    /\ mWeak = Cardinality(WeakRefs)
    /\ \/ mStrong = Cardinality(StrongRefs)
       \/ /\ mStrong = INITIAL_STRONG_VALUE + Cardinality(StrongRefs)
          /\ At({"strong"}) = {}

\* Nothing that is reached through a pointer was freed: the counters by any
\* reference and any operation, the object by a strong pointer and, if its
\* lifetime is extended, by a weak one.
NoUseAfterFree ==
    /\ At(Places \ {"null"}) # {} => implFrees = 0
    /\ At({"strong", "incStrong", "lastStrong"} \cup Acquired) # {} => objectFrees = 0
    /\ mFlags = "WEAK" /\ At(Places \ {"null"}) # {} => objectFrees = 0

\* Once every pointer is null again the object and its counters were freed,
\* each exactly once; nothing is ever freed twice.
FreedExactlyOnce ==
    /\ objectFrees <= 1 /\ implFrees <= 1
    /\ At({"null"}) = Pointers => Fresh \/ (objectFrees = 1 /\ implFrees = 1)

(***************************************************************************)
(* The inductive invariant behind these: what a pointer inside an          *)
(* operation knows, and what was freed when.                               *)
(***************************************************************************)
LocalsOK ==
    \A p \in Pointers :
       /\ pc[p] = "casShared" => curCount[p] \notin {0, INITIAL_STRONG_VALUE}
       /\ pc[p] \in {"casFirst", "rereadFirst"} => mFlags = "STRONG"
       /\ pc[p] = "casFirst" => curCount[p] > 0
       /\ pc[p] = "revive" => mFlags = "WEAK"
       /\ pc[p] = "casFixUp" => curCount[p] >= INITIAL_STRONG_VALUE
       /\ pc[p] = "firstRef" => mStrong > INITIAL_STRONG_VALUE

\* A source stays what it was.  incStrong has none and takes the first
\* reference, or it has one that keeps the object alive and past its first.
SourceOK ==
    \A p \in Pointers :
       /\ source[p] # NULL => pc[source[p]] \in {"strong", "weak"}
       /\ pc[p] \in {"readWeak", "casWeak"} => source[p] # NULL
       /\ pc[p] = "incStrong" /\ source[p] = NULL => mStrong = INITIAL_STRONG_VALUE
       /\ pc[p] = "incStrong" /\ source[p] # NULL =>
             /\ mStrong < INITIAL_STRONG_VALUE
             /\ pc[source[p]] = "strong" \/ mFlags = "WEAK"

\* The creator takes the first reference, and the last one is dropped, alone.
Alone(p) == \A q \in Pointers \ {p} : pc[q] = "null"

AloneOK ==
    \A p \in Pointers :
       \/ pc[p] \in {"firstRef", "lastWeak"}
       \/ pc[p] = "incStrong" /\ source[p] = NULL
       => Alone(p)

\* With a strong lifetime the object goes when the strong count has reached 0
\* and the pointer that took it there has deleted it.
FreesOK ==
    /\ implFrees = 0 \/ (implFrees = 1 /\ objectFrees = 1 /\ At({"null"}) = Pointers)
    /\ mFlags = "WEAK" => objectFrees = implFrees
    /\ mFlags = "STRONG" =>
          /\ \A p, q \in At({"lastStrong"}) : p = q
          /\ At({"lastStrong"}) # {} => mStrong = 0
          /\ mStrong = 0 => objectFrees = IF At({"lastStrong"}) = {} THEN 1 ELSE 0
          /\ mStrong > 0 => objectFrees = implFrees
    /\ At({"null"}) = Pointers => Fresh \/ implFrees = 1

\* A promotion during which the object was held all along has not turned to the
\* paths for an object without a strong pointer that end in a refusal.
HeldOK ==
    \A p \in heldThroughout :
       pc[p] \in Attempting \ {"revive"} /\ At({"strong"}) # {}

IInv == TypeOK /\ CountsExact /\ LocalsOK /\ SourceOK /\ AloneOK /\ FreesOK /\ HeldOK

\* Whenever nothing is under way and somebody holds a strong pointer, the strong
\* count is the number of them.  attemptIncStrong promises it for any number of
\* first references taken at once ("this must be done safely").
ExactAtRest ==
    /\ Pointers = At({"null", "strong", "weak"})
    /\ At({"strong"}) # {}
    => mStrong = Cardinality(At({"strong"}))

\* "acquires a strong reference if there is already one" (RefBase.h:81): a
\* promotion through which somebody has a strong pointer all along is not refused.
\* It gives up, or turns to asking the object whether it may be revived, only at a
\* moment at which nobody has one.  (Whoever has asked an object of extended lifetime
\* may be refused when another promotion has revived it meanwhile.)
PromoteAcquires ==
    [][\A p \in Pointers : pc[p] \in Attempting =>
          /\ pc'[p] = "decWeak" => p \notin heldThroughout
          /\ pc[p] # "revive" /\ pc'[p] \in {"decWeak", "revive"} => At({"strong"}) = {}]_vars

\* A pointer owns the object once the strong count counts it, and holds it as
\* long as the weak count does.
Shared == INSTANCE SharedObject WITH
    extended <- mFlags = "WEAK",
    holders  <- WeakRefs,
    owners   <- StrongRefs,
    ended    <- mStrong = 0,
    alive    <- objectFrees = 0,
    counts   <- IF implFrees > 0 THEN "freed" ELSE IF Fresh THEN "new" ELSE "used"

\* These counters keep the object as sp<> and wp<> promise it: nobody becomes an
\* owner of what has ended, promote of an extended object revives it, and object
\* and counters go after the last that keeps them, whatever the order in which the
\* steps of incStrong, attemptIncStrong, decStrong and decWeak are taken.
RefinesSharedObject == Shared!Spec
=============================================================================
