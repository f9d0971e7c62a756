--------------------------- MODULE RefBase_proofs ---------------------------
(***************************************************************************)
(* Theorems about RefBase, for any finite set of pointers, any lifetime    *)
(* and any initial value larger than the number of pointers.  They assume  *)
(* a cmpxchg that returns 0 when it has stored, and callers that take the  *)
(* first strong reference before they share weak ones.                     *)
(***************************************************************************)
EXTENDS RefBase, FiniteSetTheorems, TLAPS

\* How a step of one pointer changes the number of pointers at some places.
LEMMA AtStep ==
    ASSUME TypeOK, NEW p \in Pointers, NEW place \in Places, Goto(p, place), NEW S
    PROVE  /\ Cardinality(At(S)) \in Nat
           /\ Cardinality(At(S)) = 0 <=> At(S) = {}
           /\ Cardinality(At(S)) <= Cardinality(Pointers)
           /\ Cardinality(Pointers) \in Nat
           /\ Cardinality(At(S)') = Cardinality(At(S))
                 + (IF place \in S THEN 1 ELSE 0) - (IF pc[p] \in S THEN 1 ELSE 0)
<1>1. At(S) \in SUBSET Pointers /\ pc \in [Pointers -> Places]
  BY DEF At, TypeOK
<1>2. /\ IsFiniteSet(At(S)) /\ Cardinality(At(S)) \in Nat
      /\ Cardinality(At(S)) <= Cardinality(Pointers)
      /\ Cardinality(Pointers) \in Nat
      /\ Cardinality(At(S)) = 0 <=> At(S) = {}
  BY <1>1, RefBaseAssumption, FS_Subset, FS_CardinalityType, FS_EmptySet
<1>3. CASE place \in S /\ pc[p] \notin S
  <2>1. At(S)' = At(S) \cup {p} /\ p \notin At(S)
    BY <1>1, <1>3 DEF At, Goto
  <2>2. Cardinality(At(S)') = Cardinality(At(S)) + 1
    BY <1>2, <2>1, FS_AddElement
  <2>3. QED
    BY <1>2, <1>3, <2>2
<1>4. CASE place \notin S /\ pc[p] \in S
  <2>1. At(S)' = At(S) \ {p} /\ p \in At(S)
    BY <1>1, <1>4 DEF At, Goto
  <2>2. Cardinality(At(S)') = Cardinality(At(S)) - 1
    BY <1>2, <2>1, FS_RemoveElement
  <2>3. QED
    BY <1>2, <1>4, <2>2
<1>5. CASE place \in S <=> pc[p] \in S
  <2>1. At(S)' = At(S)
    BY <1>1, <1>5 DEF At, Goto
  <2>2. QED
    BY <1>2, <1>5, <2>1
<1>6. QED
  BY <1>3, <1>4, <1>5

\* The same, for the references the two counters stand for.
LEMMA RefsStep ==
    ASSUME TypeOK, NEW p \in Pointers, NEW place \in Places, Goto(p, place)
    PROVE  /\ Cardinality(StrongRefs) \in Nat /\ Cardinality(WeakRefs) \in Nat
           /\ Cardinality(StrongRefs) < INITIAL_STRONG_VALUE
           /\ Cardinality(StrongRefs) = 0 <=> StrongRefs = {}
           /\ Cardinality(WeakRefs) = 0 <=> WeakRefs = {}
           /\ INITIAL_STRONG_VALUE \in Nat
           /\ Cardinality(StrongRefs') = Cardinality(StrongRefs)
                 + (IF place \in {"strong"} \cup Acquired THEN 1 ELSE 0)
                 - (IF pc[p] \in {"strong"} \cup Acquired THEN 1 ELSE 0)
           /\ Cardinality(WeakRefs') = Cardinality(WeakRefs)
                 + (IF place \notin Uncounted THEN 1 ELSE 0)
                 - (IF pc[p] \notin Uncounted THEN 1 ELSE 0)
<1> DEFINE S == {"strong"} \cup Acquired
           W == Places \ Uncounted
<1>1. /\ Cardinality(At(S)) \in Nat
      /\ Cardinality(At(S)) = 0 <=> At(S) = {}
      /\ Cardinality(At(S)) <= Cardinality(Pointers)
      /\ Cardinality(Pointers) \in Nat
      /\ Cardinality(At(S)') = Cardinality(At(S))
                 + (IF place \in S THEN 1 ELSE 0) - (IF pc[p] \in S THEN 1 ELSE 0)
  <2> HIDE DEF S
  <2>1. QED
    BY AtStep
<1>2. /\ Cardinality(At(W)) \in Nat
      /\ Cardinality(At(W)) = 0 <=> At(W) = {}
      /\ Cardinality(At(W)') = Cardinality(At(W))
                 + (IF place \in W THEN 1 ELSE 0) - (IF pc[p] \in W THEN 1 ELSE 0)
  <2> HIDE DEF W
  <2>1. QED
    BY AtStep
<1>3. /\ StrongRefs = At(S) /\ StrongRefs' = At(S)'
      /\ WeakRefs = At(W) /\ WeakRefs' = At(W)'
  BY DEF StrongRefs, WeakRefs
<1>4. /\ place \in W <=> place \notin Uncounted
      /\ pc[p] \in W <=> pc[p] \notin Uncounted
  BY DEF TypeOK
<1>5. INITIAL_STRONG_VALUE \in Nat /\ Cardinality(Pointers) < INITIAL_STRONG_VALUE
  BY RefBaseAssumption
<1> HIDE DEF S, W
<1>6. Cardinality(StrongRefs) < INITIAL_STRONG_VALUE
  BY <1>1, <1>3, <1>5
<1>7. Cardinality(WeakRefs') = Cardinality(WeakRefs)
         + (IF place \notin Uncounted THEN 1 ELSE 0)
         - (IF pc[p] \notin Uncounted THEN 1 ELSE 0)
  BY <1>2, <1>3, <1>4
<1>8. Cardinality(StrongRefs') = Cardinality(StrongRefs)
         + (IF place \in S THEN 1 ELSE 0) - (IF pc[p] \in S THEN 1 ELSE 0)
  BY <1>1, <1>3
<1>9. QED
  BY <1>1, <1>2, <1>3, <1>5, <1>6, <1>7, <1>8 DEF S

-----------------------------------------------------------------------------
(***************************************************************************)
(* The counters stay exact.  Each step is a Goto of one pointer, so the    *)
(* two cardinalities are known from RefsStep.                              *)
(***************************************************************************)
LEMMA CountsStep ==
    ASSUME CmpxchgStored = 0, RawOverWeak = FALSE, IInv, NEW p \in Pointers,
           Acquire(p) \/ Promote(p) \/ Release(p)
    PROVE  CountsExact' /\ mStrong' \in Nat /\ mWeak' \in Nat
<1> USE DEF Acquired, Attempting, Releasing, Places, Uncounted
<1> DEFINE N == Cardinality(StrongRefs)
           M == Cardinality(WeakRefs)
           S == At({"strong"})
           I == INITIAL_STRONG_VALUE
<1>1. /\ TypeOK /\ CountsExact /\ mStrong \in Nat /\ mWeak \in Nat
      /\ curCount[p] \in Nat /\ I \in Nat
  BY RefBaseAssumption DEF IInv, TypeOK
<1>2. N \in Nat /\ M \in Nat /\ N < I
  <2>1. StrongRefs \in SUBSET Pointers /\ WeakRefs \in SUBSET Pointers
    BY DEF StrongRefs, WeakRefs, At
  <2>2. QED
    BY <2>1, RefBaseAssumption, FS_Subset, FS_CardinalityType
\* What a step from one place to another does to the two cardinalities.
<1>3. ASSUME NEW place \in Places, Goto(p, place)
      PROVE  /\ N' = N + (IF place \in {"strong"} \cup Acquired THEN 1 ELSE 0)
                       - (IF pc[p] \in {"strong"} \cup Acquired THEN 1 ELSE 0)
             /\ M' = M + (IF place \notin Uncounted THEN 1 ELSE 0)
                       - (IF pc[p] \notin Uncounted THEN 1 ELSE 0)
             /\ pc[p] \in {"strong"} \cup Acquired => N > 0
             /\ pc[p] \notin Uncounted => M > 0
             /\ pc[p] # "strong" /\ place # "strong" => S' = S
             /\ pc[p] = "strong" => S # {}
  <2>1. pc[p] \in {"strong"} \cup Acquired => StrongRefs # {}
    BY DEF StrongRefs, At
  <2>2. pc[p] \notin Uncounted => WeakRefs # {}
    BY <1>1 DEF WeakRefs, At, TypeOK
  <2>3. pc[p] # "strong" /\ place # "strong" => S' = S
    BY <1>1, <1>3 DEF At, Goto, TypeOK
  <2>4. pc[p] = "strong" => S # {}
    BY DEF At
  <2>5. QED
    BY <1>1, <1>3, <2>1, <2>2, <2>3, <2>4, RefsStep
<1> HIDE DEF N, M, S
<1>0. mWeak = M /\ (mStrong = N \/ (mStrong = I + N /\ S = {}))
  BY <1>1 DEF CountsExact, N, M, S
<1>4. SUFFICES /\ mWeak' = M' /\ mWeak' \in Nat /\ mStrong' \in Nat
               /\ mStrong' = N' \/ (mStrong' = I + N' /\ S' = {})
  BY DEF CountsExact, N, M, S
<1>5. CASE IncStrong(p) \/ IncWeak(p) \/ AttemptIncStrong(p)
  <2>1. PICK place \in {"incStrong", "weak", "attempt"} :
             Goto(p, place) /\ mWeak' = mWeak + 1
    BY <1>5 DEF IncStrong, IncWeak, AttemptIncStrong
  <2>2. pc[p] = "null" /\ mStrong' = mStrong
    BY <1>5 DEF IncStrong, IncWeak, AttemptIncStrong
  <2>3. N' = N /\ M' = M + 1 /\ S' = S
    BY <1>2, <1>3, <2>1, <2>2
  <2>4. QED
    BY <1>0, <1>1, <1>2, <2>1, <2>2, <2>3
<1>6. CASE IncStrongCount(p)
  <2>1. pc[p] = "incStrong" /\ mStrong' = mStrong + 1 /\ mWeak' = mWeak
    BY <1>6 DEF IncStrongCount
  <2>2. CASE mStrong = I
    <3>1. Goto(p, "firstRef")
      BY <1>6, <2>2 DEF IncStrongCount
    <3>2. N' = N + 1 /\ M' = M /\ S' = S
      BY <1>2, <1>3, <2>1, <3>1
    <3>3. QED
      BY <1>0, <1>1, <1>2, <2>1, <2>2, <3>2
  <2>3. CASE mStrong # I
    <3>1. Goto(p, "strong")
      BY <1>6, <2>3 DEF IncStrongCount, Done
    <3>2. N' = N + 1 /\ M' = M
      BY <1>2, <1>3, <2>1, <3>1
    <3>3. mStrong < I
      <4>1. CASE source[p] = NULL
        <5>1. StrongRefs = {}
          BY <1>1, <2>1, <4>1 DEF IInv, AloneOK, Alone, StrongRefs, At
        <5>2. N = 0
          BY <5>1, FS_EmptySet DEF N
        <5>3. QED
          BY <1>0, <1>1, <1>2, <2>3, <5>2
      <4>2. CASE source[p] # NULL
        BY <2>1, <4>2 DEF IInv, SourceOK
      <4>3. QED
        BY <4>1, <4>2
    <3>4. QED
      BY <1>0, <1>1, <1>2, <2>1, <3>2, <3>3
  <2>4. QED
    BY <2>2, <2>3
<1>7. CASE FirstRef(p)
  <2>1. /\ Goto(p, "strong") /\ pc[p] = "firstRef"
        /\ mStrong' = mStrong - I /\ mWeak' = mWeak
    BY <1>7 DEF FirstRef, Done
  <2>2. N' = N /\ M' = M
    BY <1>2, <1>3, <2>1
  <2>3. mStrong > I
    BY <2>1 DEF IInv, LocalsOK
  <2>4. QED
    BY <1>0, <1>1, <1>2, <2>1, <2>2, <2>3
<1>8. CASE ReadCount(p) \/ RereadFirst(p)
  <2>1. PICK place \in Attempting \cup {"decWeak"} : Goto(p, place)
    BY <1>8 DEF ReadCount, RereadFirst
  <2>2. pc[p] \in Attempting /\ mStrong' = mStrong /\ mWeak' = mWeak
    BY <1>8 DEF ReadCount, RereadFirst
  <2>3. N' = N /\ M' = M /\ S' = S
    BY <1>2, <1>3, <2>1, <2>2
  <2>4. QED
    BY <1>0, <1>1, <1>2, <2>2, <2>3
<1>9. CASE CasShared(p) \/ CasFirst(p)
  <2>1. pc[p] \in Attempting /\ mWeak' = mWeak
    BY <1>9 DEF CasShared, CasFirst
  <2>2. CASE mStrong = curCount[p]
    <3>1. Goto(p, "fixUp") /\ mStrong' = mStrong + 1
      BY <1>9, <2>2 DEF CasShared, CasFirst, Cmpxchg, CmpxchgBreaks
    <3>2. N' = N + 1 /\ M' = M /\ S' = S
      BY <1>2, <1>3, <2>1, <3>1
    <3>3. QED
      BY <1>0, <1>1, <1>2, <2>1, <3>1, <3>2
  <2>3. CASE mStrong # curCount[p]
    <3>1. PICK place \in {"attempt", "rereadFirst"} : Goto(p, place)
      BY <1>9, <2>3 DEF CasShared, CasFirst, Cmpxchg, CmpxchgBreaks
    <3>2. mStrong' = mStrong
      BY <1>9, <2>3 DEF CasShared, CasFirst, Cmpxchg
    <3>3. N' = N /\ M' = M /\ S' = S
      BY <1>2, <1>3, <2>1, <3>1
    <3>4. QED
      BY <1>0, <1>1, <1>2, <2>1, <3>2, <3>3
  <2>4. QED
    BY <2>2, <2>3
<1>10. CASE Revive(p)
  <2>1. pc[p] = "revive" /\ mWeak' = mWeak
    BY <1>10 DEF Revive
  <2>2. CASE mStrong' = mStrong + 1 /\ Goto(p, "fixUp")
    <3>1. N' = N + 1 /\ M' = M /\ S' = S
      BY <1>2, <1>3, <2>1, <2>2
    <3>2. QED
      BY <1>0, <1>1, <1>2, <2>1, <2>2, <3>1
  <2>3. CASE mStrong' = mStrong /\ Goto(p, "decWeak")
    <3>1. N' = N /\ M' = M /\ S' = S
      BY <1>2, <1>3, <2>1, <2>3
    <3>2. QED
      BY <1>0, <1>1, <1>2, <2>1, <2>3, <3>1
  <2>4. QED
    BY <1>10, <2>2, <2>3 DEF Revive
<1>11. CASE FixUp(p)
  <2>1. pc[p] = "fixUp" /\ mStrong' = mStrong /\ mWeak' = mWeak
    BY <1>11 DEF FixUp
  <2>2. CASE mStrong >= I
    <3>1. Goto(p, "casFixUp")
      BY <1>11, <2>2 DEF FixUp
    <3>2. N' = N /\ M' = M /\ S' = S
      BY <1>2, <1>3, <2>1, <3>1
    <3>3. QED
      BY <1>0, <1>1, <1>2, <2>1, <3>2
  <2>3. CASE ~(mStrong >= I)
    <3>1. Goto(p, "strong")
      BY <1>11, <2>3 DEF FixUp, Done
    <3>2. N' = N /\ M' = M
      BY <1>2, <1>3, <2>1, <3>1
    <3>3. QED
      BY <1>0, <1>1, <1>2, <2>1, <2>3, <3>2
  <2>4. QED
    BY <2>2, <2>3
<1>12. CASE CasFixUp(p)
  <2>1. pc[p] = "casFixUp" /\ mWeak' = mWeak /\ curCount[p] >= I
    BY <1>12 DEF CasFixUp, IInv, LocalsOK
  <2>2. CASE mStrong = curCount[p]
    <3>1. Goto(p, "strong") /\ mStrong' = mStrong - I
      BY <1>12, <2>2 DEF CasFixUp, Done, Cmpxchg, CmpxchgBreaks
    <3>2. N' = N /\ M' = M
      BY <1>2, <1>3, <2>1, <3>1
    <3>3. QED
      BY <1>0, <1>1, <1>2, <2>1, <2>2, <3>1, <3>2
  <2>3. CASE mStrong # curCount[p]
    <3>1. Goto(p, "fixUp") /\ mStrong' = mStrong
      BY <1>12, <2>3 DEF CasFixUp, Cmpxchg, CmpxchgBreaks
    <3>2. N' = N /\ M' = M /\ S' = S
      BY <1>2, <1>3, <2>1, <3>1
    <3>3. QED
      BY <1>0, <1>1, <1>2, <2>1, <3>1, <3>2
  <2>4. QED
    BY <2>2, <2>3
<1>13. CASE DecStrong(p)
  <2>1. PICK place \in {"lastStrong", "decWeak"} : Goto(p, place)
    BY <1>13 DEF DecStrong
  <2>2. pc[p] = "strong" /\ mStrong' = mStrong - 1 /\ mWeak' = mWeak
    BY <1>13 DEF DecStrong
  <2>3. N' = N - 1 /\ M' = M /\ S # {} /\ N > 0
    BY <1>2, <1>3, <2>1, <2>2
  <2>4. QED
    BY <1>0, <1>1, <1>2, <2>2, <2>3
<1>14. CASE LastStrong(p) \/ ReleaseWeak(p)
  <2>1. /\ Goto(p, "decWeak") /\ pc[p] \in {"lastStrong", "weak"}
        /\ mStrong' = mStrong /\ mWeak' = mWeak
    BY <1>14 DEF LastStrong, ReleaseWeak
  <2>2. N' = N /\ M' = M /\ S' = S
    BY <1>2, <1>3, <2>1
  <2>3. QED
    BY <1>0, <1>1, <1>2, <2>1, <2>2
<1>15. CASE DecWeak(p)
  <2>1. PICK place \in Uncounted : Goto(p, place)
    BY <1>15 DEF DecWeak, Done
  <2>2. pc[p] = "decWeak" /\ mStrong' = mStrong /\ mWeak' = mWeak - 1
    BY <1>15 DEF DecWeak
  <2>3. N' = N /\ M' = M - 1 /\ S' = S /\ M > 0
    BY <1>2, <1>3, <2>1, <2>2
  <2>4. QED
    BY <1>0, <1>1, <1>2, <2>2, <2>3
<1>16. CASE LastWeak(p)
  <2>1. /\ Goto(p, "null") /\ pc[p] = "lastWeak"
        /\ mStrong' = mStrong /\ mWeak' = mWeak
    BY <1>16 DEF LastWeak
  <2>2. N' = N /\ M' = M /\ S' = S
    BY <1>2, <1>3, <2>1
  <2>3. QED
    BY <1>0, <1>1, <1>2, <2>1, <2>2
<1>17. CASE AttemptIncWeak(p) \/ ReadWeak(p)
  <2>1. /\ \E place \in Uncounted : Goto(p, place)
        /\ pc[p] \in Uncounted /\ mStrong' = mStrong /\ mWeak' = mWeak
    BY <1>17 DEF AttemptIncWeak, ReadWeak, Done
  <2>2. N' = N /\ M' = M /\ S' = S
    BY <1>2, <1>3, <2>1
  <2>3. QED
    BY <1>0, <1>1, <1>2, <2>1, <2>2
<1>18. CASE CasWeak(p)
  <2>1. pc[p] = "casWeak" /\ mStrong' = mStrong
    BY <1>18 DEF CasWeak
  <2>2. CASE mWeak = curCount[p]
    <3>1. Goto(p, "weak") /\ mWeak' = mWeak + 1
      BY <1>18, <2>2 DEF CasWeak, Cmpxchg, CmpxchgBreaks, Done
    <3>2. N' = N /\ M' = M + 1 /\ S' = S
      BY <1>2, <1>3, <2>1, <3>1
    <3>3. QED
      BY <1>0, <1>1, <1>2, <2>1, <3>1, <3>2
  <2>3. CASE mWeak # curCount[p]
    <3>1. Goto(p, "readWeak") /\ mWeak' = mWeak
      BY <1>18, <2>3 DEF CasWeak, Cmpxchg, CmpxchgBreaks
    <3>2. N' = N /\ M' = M /\ S' = S
      BY <1>2, <1>3, <2>1, <3>1
    <3>3. QED
      BY <1>0, <1>1, <1>2, <2>1, <3>1, <3>2
  <2>4. QED
    BY <2>2, <2>3
<1>19. QED
  BY <1>5, <1>6, <1>7, <1>8, <1>9, <1>10, <1>11, <1>12, <1>13, <1>14, <1>15, <1>16,
     <1>17, <1>18
  DEF Acquire, Promote, Release

-----------------------------------------------------------------------------
(***************************************************************************)
(* The other parts of the invariant.                                       *)
(***************************************************************************)
Step(p) == (Acquire(p) \/ Promote(p) \/ Release(p)) /\ Observe

\* The steps that take or refuse a weak reference without a pointer of one's own.
WeakAttempt(p) == AttemptIncWeak(p) \/ ReadWeak(p) \/ CasWeak(p)

\* A step moves one pointer, and touches the locals of no other.
LEMMA Locality ==
    ASSUME TypeOK, NEW p \in Pointers, Step(p)
    PROVE  /\ \E place \in Places : Goto(p, place)
           /\ mFlags' = mFlags
           /\ source' \in [Pointers -> Pointers \cup {NULL}]
           /\ \A q \in Pointers \ {p} :
                 pc'[q] = pc[q] /\ source'[q] = source[q] /\ curCount'[q] = curCount[q]
<1> USE DEF Acquired, Attempting, Releasing, Places, Uncounted, TypeOK
<1>1. CASE Acquire(p)
  <2>1. CASE IncStrong(p)
    BY <2>1 DEF IncStrong, Goto
  <2>2. CASE IncStrongCount(p)
    BY <2>2 DEF IncStrongCount, Goto, Done
  <2>3. CASE FirstRef(p)
    BY <2>3 DEF FirstRef, Goto, Done
  <2>4. CASE IncWeak(p)
    BY <2>4 DEF IncWeak, Goto
  <2>5. CASE AttemptIncWeak(p)
    BY <2>5 DEF AttemptIncWeak, Goto, At
  <2>6. CASE ReadWeak(p) \/ CasWeak(p)
    BY <2>6 DEF ReadWeak, CasWeak, Goto, Done
  <2>7. QED
    BY <1>1, <2>1, <2>2, <2>3, <2>4, <2>5, <2>6 DEF Acquire
<1>2. CASE Promote(p)
  <2>1. CASE AttemptIncStrong(p)
    BY <2>1 DEF AttemptIncStrong, Goto, At
  <2>2. CASE ReadCount(p)
    BY <2>2 DEF ReadCount, Goto
  <2>3. CASE CasShared(p) \/ CasFirst(p)
    BY <2>3 DEF CasShared, CasFirst, Goto
  <2>4. CASE RereadFirst(p)
    BY <2>4 DEF RereadFirst, Goto
  <2>5. CASE Revive(p)
    BY <2>5 DEF Revive, Goto
  <2>6. CASE FixUp(p)
    BY <2>6 DEF FixUp, Goto, Done
  <2>7. CASE CasFixUp(p)
    BY <2>7 DEF CasFixUp, Goto, Done
  <2>8. QED
    BY <1>2, <2>1, <2>2, <2>3, <2>4, <2>5, <2>6, <2>7 DEF Promote
<1>3. CASE Release(p)
  <2>1. CASE DecStrong(p) \/ LastStrong(p) \/ ReleaseWeak(p) \/ LastWeak(p)
    BY <2>1 DEF DecStrong, LastStrong, ReleaseWeak, LastWeak, Goto
  <2>2. CASE DecWeak(p)
    BY <2>2 DEF DecWeak, Goto, Done
  <2>3. QED
    BY <1>3, <2>1, <2>2 DEF Release
<1>4. QED
  BY <1>1, <1>2, <1>3 DEF Step

LEMMA TypeStep ==
    ASSUME CmpxchgStored = 0, RawOverWeak = FALSE, IInv, NEW p \in Pointers, Step(p)
    PROVE  TypeOK'
<1>1. TypeOK /\ mStrong' \in Nat /\ mWeak' \in Nat
  BY CountsStep DEF IInv, Step
<1>2. PICK place \in Places : Goto(p, place)
  BY <1>1, Locality
<1>3. pc' \in [Pointers -> Places]
  BY <1>1, <1>2 DEF Goto, TypeOK
<1>4. mFlags' \in Lifetimes /\ source' \in [Pointers -> Pointers \cup {NULL}]
  BY <1>1, Locality DEF TypeOK
<1>5. objectFrees' \in Nat /\ implFrees' \in Nat
  <2>1. CASE LastStrong(p) \/ LastWeak(p)
    BY <1>1, <2>1 DEF LastStrong, LastWeak, Delete, TypeOK
  <2>2. CASE ~(LastStrong(p) \/ LastWeak(p))
    BY <1>1, <2>2 DEF Step, Acquire, Promote, Release, TypeOK, IncStrong, IncStrongCount,
       FirstRef, IncWeak, AttemptIncWeak, ReadWeak, CasWeak, AttemptIncStrong,
       ReadCount, CasShared, CasFirst, RereadFirst, Revive, FixUp, CasFixUp, DecStrong,
       ReleaseWeak, DecWeak
  <2>3. QED
    BY <2>1, <2>2
<1>6. curCount' \in [Pointers -> Nat]
  <2>1. CASE Acquire(p)
    BY <1>1, <2>1 DEF Acquire, TypeOK, IncStrong, IncStrongCount, FirstRef, IncWeak,
       AttemptIncWeak, ReadWeak, CasWeak, Done
  <2>2. CASE Promote(p)
    BY <1>1, <2>2 DEF Promote, TypeOK, AttemptIncStrong, ReadCount, CasShared, CasFirst,
       RereadFirst, Revive, FixUp, CasFixUp, Done
  <2>3. CASE Release(p)
    BY <1>1, <2>3 DEF Release, TypeOK, DecStrong, LastStrong, ReleaseWeak, DecWeak,
       LastWeak, Done
  <2>4. QED
    BY <2>1, <2>2, <2>3 DEF Step
<1>7. (heldThroughout \subseteq Pointers)'
  BY DEF Step, Observe
<1>8. QED
  BY <1>1, <1>3, <1>4, <1>5, <1>6, <1>7 DEF TypeOK

\* A step moves the strong count by at most one upwards, and only to take a
\* reference; below the initial value it stays below it.
LEMMA StrongStep ==
    ASSUME CmpxchgStored = 0, RawOverWeak = FALSE, IInv, NEW p \in Pointers, Step(p)
    PROVE  /\ \/ mStrong' <= mStrong
              \/ mStrong' = mStrong + 1 /\ pc'[p] \in {"strong"} \cup Acquired
           /\ mStrong < INITIAL_STRONG_VALUE => mStrong' < INITIAL_STRONG_VALUE
<1> USE DEF Acquired
<1>1. /\ TypeOK /\ mStrong \in Nat /\ curCount[p] \in Nat
      /\ INITIAL_STRONG_VALUE \in Nat /\ pc \in [Pointers -> Places]
  BY RefBaseAssumption DEF IInv, TypeOK
<1>2. /\ CountsExact' /\ TypeOK' /\ mStrong' \in Nat
  BY CountsStep, TypeStep DEF Step
<1>3. \/ mStrong' <= mStrong
      \/ mStrong' = mStrong + 1 /\ pc'[p] \in {"strong"} \cup Acquired
  <2>1. CASE IncStrongCount(p) \/ FirstRef(p)
    BY <1>1, <2>1 DEF IncStrongCount, FirstRef, Goto, Done
  <2>2. CASE CasShared(p) \/ CasFirst(p)
    BY <1>1, <2>2 DEF CasShared, CasFirst, Cmpxchg, CmpxchgBreaks, Goto
  <2>3. CASE Revive(p)
    BY <1>1, <2>3 DEF Revive, Goto
  <2>4. CASE CasFixUp(p)
    <3>1. curCount[p] - INITIAL_STRONG_VALUE <= curCount[p]
      BY <1>1
    <3>2. QED
      BY <1>1, <2>4, <3>1 DEF CasFixUp, Cmpxchg
  <2>5. CASE DecStrong(p)
    BY <1>1, <2>5 DEF DecStrong
  <2>6. CASE mStrong' = mStrong
    BY <1>1, <2>6
  <2>7. QED
    BY <2>1, <2>2, <2>3, <2>4, <2>5, <2>6
    DEF Step, Acquire, Promote, Release, IncStrong, IncWeak, AttemptIncWeak, ReadWeak,
        CasWeak, AttemptIncStrong, ReadCount, RereadFirst, FixUp, LastStrong,
        ReleaseWeak, DecWeak, LastWeak
<1>4. ASSUME mStrong < INITIAL_STRONG_VALUE PROVE mStrong' < INITIAL_STRONG_VALUE
  <2>1. PICK place \in Places : Goto(p, place)
    BY <1>1, Locality
  <2>2. StrongRefs' \in SUBSET Pointers
    BY DEF StrongRefs, At
  <2>3. /\ Cardinality(StrongRefs') \in Nat
        /\ Cardinality(StrongRefs') < INITIAL_STRONG_VALUE
        /\ Cardinality(StrongRefs') = 0 => StrongRefs' = {}
    BY <2>2, RefBaseAssumption, FS_Subset, FS_CardinalityType, FS_EmptySet
  <2>4. pc'[p] \in {"strong"} \cup Acquired => StrongRefs' # {}
    BY DEF StrongRefs, At
  <2>5. \/ mStrong' = Cardinality(StrongRefs')
        \/ mStrong' = INITIAL_STRONG_VALUE + Cardinality(StrongRefs')
    BY <1>2 DEF CountsExact
  <2> DEFINE n == Cardinality(StrongRefs')
  <2>6. /\ n \in Nat /\ n < INITIAL_STRONG_VALUE
        /\ pc'[p] \in {"strong"} \cup Acquired => n > 0
        /\ mStrong' = n \/ mStrong' = INITIAL_STRONG_VALUE + n
    BY <2>3, <2>4, <2>5
  <2> HIDE DEF n
  <2>7. QED
    BY <1>1, <1>2, <1>3, <1>4, <2>6
<1>5. QED
  BY <1>3, <1>4

LEMMA LocalsStep ==
    ASSUME CmpxchgStored = 0, RawOverWeak = FALSE, IInv, NEW p \in Pointers, Step(p)
    PROVE  LocalsOK'
<1>1. /\ TypeOK /\ mStrong \in Nat /\ INITIAL_STRONG_VALUE \in Nat
      /\ INITIAL_STRONG_VALUE > 0 /\ mFlags \in {"STRONG", "WEAK"} /\ mFlags' = mFlags
  <2>1. Cardinality(Pointers) \in Nat
    BY RefBaseAssumption, FS_CardinalityType
  <2>2. QED
    BY <2>1, RefBaseAssumption, Locality DEF IInv, TypeOK
<1> DEFINE Local(q) ==
       /\ pc[q] = "casShared" => curCount[q] \notin {0, INITIAL_STRONG_VALUE}
       /\ pc[q] \in {"casFirst", "rereadFirst"} => mFlags = "STRONG"
       /\ pc[q] = "casFirst" => curCount[q] > 0
       /\ pc[q] = "revive" => mFlags = "WEAK"
       /\ pc[q] = "casFixUp" => curCount[q] >= INITIAL_STRONG_VALUE
       /\ pc[q] = "firstRef" => mStrong > INITIAL_STRONG_VALUE
<1>2. \A q \in Pointers : Local(q)
  BY DEF IInv, LocalsOK
<1>3. ASSUME NEW q \in Pointers \ {p} PROVE Local(q)'
  <2>1. pc'[q] = pc[q] /\ curCount'[q] = curCount[q]
    BY <1>1, <1>3, Locality
  \* Nobody else is at work while q calls onFirstRef.
  <2>2. ASSUME pc[q] = "firstRef" PROVE mStrong' = mStrong
    <3>1. pc[p] = "null"
      BY <1>3, <2>2 DEF IInv, AloneOK, Alone
    <3>2. QED
      BY <3>1 DEF Step, Acquire, Promote, Release, IncStrong, IncStrongCount, FirstRef,
         IncWeak, AttemptIncWeak, ReadWeak, CasWeak, AttemptIncStrong, ReadCount,
         CasShared, CasFirst, RereadFirst, Revive, FixUp, CasFixUp, DecStrong,
         LastStrong, ReleaseWeak, DecWeak, LastWeak
  <2>3. QED
    BY <1>1, <1>2, <2>1, <2>2
<1>4. Local(p)'
  <2> USE DEF Goto, TypeOK
  <2>1. CASE Acquire(p)
    BY <1>1, <1>2, <2>1 DEF Acquire, IncStrong, IncStrongCount, FirstRef, IncWeak,
       AttemptIncWeak, ReadWeak, CasWeak, Done
  <2>2. CASE AttemptIncStrong(p) \/ Revive(p) \/ FixUp(p)
    BY <1>1, <1>2, <2>2 DEF AttemptIncStrong, Revive, FixUp, Done
  <2>3. CASE ReadCount(p)
    BY <1>1, <1>2, <2>3 DEF ReadCount
  <2>4. CASE RereadFirst(p)
    BY <1>1, <1>2, <2>4 DEF RereadFirst
  <2>5. CASE CasShared(p) \/ CasFirst(p)
    BY <1>1, <1>2, <2>5 DEF CasShared, CasFirst
  <2>6. CASE CasFixUp(p)
    BY <1>1, <1>2, <2>6 DEF CasFixUp, Done
  <2>7. CASE Release(p)
    BY <1>1, <1>2, <2>7 DEF Release, DecStrong, LastStrong, ReleaseWeak, DecWeak,
       LastWeak, Done
  <2>8. QED
    BY <2>1, <2>2, <2>3, <2>4, <2>5, <2>6, <2>7 DEF Step, Promote
<1>5. QED
  BY <1>3, <1>4 DEF LocalsOK

\* What the sources of a step may be.
LEMMA Sources ==
    ASSUME RawOverWeak = FALSE, IInv, NEW p \in Pointers
    PROVE  /\ \A q : StrongSource(q) /\ q # NULL =>
                 /\ q \in Pointers /\ pc[q] \in {"strong", "weak"}
                 /\ mStrong < INITIAL_STRONG_VALUE
                 /\ pc[q] = "strong" \/ mFlags = "WEAK"
           /\ NULL \notin Pointers
<1>1. NULL \notin Pointers /\ INITIAL_STRONG_VALUE \in Nat
  BY RefBaseAssumption
<1>2. ASSUME NEW q \in At({"strong"}) PROVE mStrong < INITIAL_STRONG_VALUE
  <2>1. StrongRefs \in SUBSET Pointers
    BY DEF StrongRefs, At
  <2>2. Cardinality(StrongRefs) \in Nat /\ Cardinality(StrongRefs) < INITIAL_STRONG_VALUE
    BY <2>1, RefBaseAssumption, FS_Subset, FS_CardinalityType
  <2>3. mStrong = Cardinality(StrongRefs)
    BY <1>2 DEF IInv, CountsExact
  <2>4. QED
    BY <2>2, <2>3
<1>3. QED
  BY <1>1, <1>2 DEF StrongSource, At

\* A pointer that starts an operation does not find another one alone.
LEMMA NoStartBesides ==
    ASSUME RawOverWeak = FALSE, IInv, NEW p \in Pointers, Step(p),
           NEW r \in Pointers \ {p}, Alone(r), pc[r] \notin {"null", "strong", "weak"}
    PROVE  FALSE
<1>1. pc[p] = "null" /\ \A q \in Pointers \ {r} : pc[q] = "null"
  BY DEF Alone
<1>2. \A q \in Pointers : pc[q] \notin {"strong", "weak"}
  BY <1>1
<1>3. ~Fresh
  BY DEF Fresh, At
<1>4. \A q : ~StrongSource(q) /\ ~WeakSource(q)
  BY <1>2, <1>3 DEF StrongSource, WeakSource, At
<1>5. IncStrong(p) \/ IncWeak(p) \/ AttemptIncWeak(p) \/ AttemptIncStrong(p)
  BY <1>1 DEF Step, Acquire, Promote, Release, IncStrongCount, FirstRef, ReadWeak, CasWeak,
     ReadCount,
     CasShared, CasFirst, RereadFirst, Revive, FixUp, CasFixUp, DecStrong, LastStrong,
     ReleaseWeak, DecWeak, LastWeak
<1>6. QED
  BY <1>2, <1>4, <1>5 DEF IncStrong, IncWeak, AttemptIncWeak, AttemptIncStrong, At

LEMMA SourceStep ==
    ASSUME CmpxchgStored = 0, RawOverWeak = FALSE, IInv, NEW p \in Pointers, Step(p)
    PROVE  SourceOK'
<1>1. /\ TypeOK /\ pc \in [Pointers -> Places] /\ mFlags' = mFlags
      /\ source \in [Pointers -> Pointers \cup {NULL}]
      /\ source' \in [Pointers -> Pointers \cup {NULL}]
      /\ \A q \in Pointers \ {p} : pc'[q] = pc[q] /\ source'[q] = source[q]
      /\ mStrong < INITIAL_STRONG_VALUE => mStrong' < INITIAL_STRONG_VALUE
      /\ NULL \notin Pointers
  BY Locality, StrongStep, RefBaseAssumption DEF IInv, TypeOK
\* A pointer in use as a source stays what it is.
<1>2. ASSUME NEW q \in Pointers, pc[q] \in {"strong", "weak"}, IsSource(q) \/ pc[p] = "null"
      PROVE  q # p /\ pc'[q] = pc[q]
  <2>1. ASSUME q = p PROVE FALSE
    <3>1. pc[p] \in {"strong", "weak"} /\ IsSource(p)
      BY <1>2, <2>1
    <3>2. QED
      BY <3>1 DEF Step, Acquire, Promote, Release, IncStrong, IncStrongCount, FirstRef,
         IncWeak, AttemptIncWeak, ReadWeak, CasWeak, AttemptIncStrong, ReadCount,
         CasShared, CasFirst, RereadFirst, Revive, FixUp, CasFixUp, DecStrong,
         LastStrong, ReleaseWeak, DecWeak, LastWeak
  <2>2. QED
    BY <1>1, <1>2, <2>1
<1>3. ASSUME NEW r \in Pointers, source'[r] # NULL, source'[r] = source[r]
      PROVE  /\ source[r] \in Pointers /\ pc[source[r]] \in {"strong", "weak"}
             /\ pc'[source[r]] = pc[source[r]]
  <2>1. source[r] \in Pointers /\ pc[source[r]] \in {"strong", "weak"}
    BY <1>1, <1>3 DEF IInv, SourceOK
  <2>2. IsSource(source[r])
    BY <1>3 DEF IsSource
  <2>3. QED
    BY <1>2, <2>1, <2>2
<1> DEFINE Sourced(r) ==
       /\ source[r] # NULL => pc[source[r]] \in {"strong", "weak"}
       /\ pc[r] \in {"readWeak", "casWeak"} => source[r] # NULL
       /\ pc[r] = "incStrong" /\ source[r] = NULL => mStrong = INITIAL_STRONG_VALUE
       /\ pc[r] = "incStrong" /\ source[r] # NULL =>
             /\ mStrong < INITIAL_STRONG_VALUE
             /\ pc[source[r]] = "strong" \/ mFlags = "WEAK"
<1>4. \A r \in Pointers : Sourced(r)
  BY DEF IInv, SourceOK
<1>5. ASSUME NEW r \in Pointers \ {p} PROVE Sourced(r)'
  <2>1. ASSUME pc[r] = "incStrong", source[r] = NULL PROVE FALSE
    <3>1. Alone(r)
      BY <2>1 DEF IInv, AloneOK
    <3>2. QED
      BY <2>1, <3>1, NoStartBesides
  <2>2. QED
    BY <1>1, <1>3, <1>4, <2>1
<1>6. Sourced(p)'
  <2>1. CASE IncStrong(p)
    <3>1. PICK q \in Pointers \cup {NULL} :
               StrongSource(q) /\ source' = [source EXCEPT ![p] = q]
      BY <2>1 DEF IncStrong
    <3>2. /\ source'[p] = q /\ pc[p] = "null" /\ mStrong' = mStrong
          /\ pc'[p] = "incStrong"
      BY <1>1, <2>1, <3>1 DEF IncStrong, Goto
    <3>3. CASE q = NULL
      <4>1. Fresh
        BY <3>1, <3>3, RefBaseAssumption DEF StrongSource, At
      <4>2. QED
        BY <3>2, <3>3, <4>1 DEF Fresh
    <3>4. CASE q # NULL
      <4>1. /\ q \in Pointers /\ pc[q] \in {"strong", "weak"}
            /\ mStrong < INITIAL_STRONG_VALUE
            /\ pc[q] = "strong" \/ mFlags = "WEAK"
        BY <3>1, <3>4, Sources
      <4>2. pc'[q] = pc[q]
        BY <1>2, <3>2, <4>1
      <4>3. QED
        BY <1>1, <3>2, <4>1, <4>2
    <3>5. QED
      BY <3>3, <3>4
  <2>2. CASE AttemptIncStrong(p)
    <3>1. PICK q \in At({"weak"}) : source' = [source EXCEPT ![p] = q]
      BY <2>2 DEF AttemptIncStrong
    <3>2. q \in Pointers /\ pc[q] = "weak" /\ source'[p] = q /\ pc[p] = "null"
      BY <1>1, <2>2, <3>1 DEF AttemptIncStrong, At
    <3>3. pc'[q] = pc[q] /\ pc'[p] = "attempt"
      BY <1>1, <1>2, <2>2, <3>2 DEF AttemptIncStrong, Goto
    <3>4. QED
      BY <3>2, <3>3
  <2>3. CASE AttemptIncWeak(p)
    <3>1. PICK q \in At({"strong", "weak"}) : source' = [source EXCEPT ![p] = q]
      BY <2>3 DEF AttemptIncWeak
    <3>2. /\ q \in Pointers /\ pc[q] \in {"strong", "weak"} /\ source'[p] = q
          /\ pc[p] = "null"
      BY <1>1, <2>3, <3>1 DEF AttemptIncWeak, At
    <3>3. pc'[q] = pc[q] /\ pc'[p] = "readWeak"
      BY <1>1, <1>2, <2>3, <3>2 DEF AttemptIncWeak, Goto
    <3>4. QED
      BY <1>1, <3>2, <3>3
  <2>4. CASE ReadWeak(p) \/ CasWeak(p)
    <3>1. \/ source'[p] = source[p] /\ pc'[p] \in {"readWeak", "casWeak"}
          \/ source'[p] = NULL /\ pc'[p] \in {"weak", "null"}
      BY <1>1, <2>4 DEF ReadWeak, CasWeak, Done, Goto
    <3>2. source[p] # NULL
      BY <1>4, <2>4 DEF ReadWeak, CasWeak
    <3>3. QED
      BY <1>3, <3>1, <3>2
  <2>5. CASE ~IncStrong(p) /\ ~AttemptIncStrong(p) /\ ~WeakAttempt(p)
    <3>1. source'[p] \in {source[p], NULL}
      BY <1>1, <2>5 DEF WeakAttempt, Step, Acquire, Promote, Release, IncStrongCount, FirstRef,
         IncWeak, ReadCount, CasShared, CasFirst, RereadFirst, Revive,
         FixUp, CasFixUp, DecStrong, LastStrong, ReleaseWeak, DecWeak, LastWeak, Done
    <3>2. pc'[p] \notin {"incStrong", "readWeak", "casWeak"}
      BY <1>1, <2>5 DEF WeakAttempt, Step, Acquire, Promote, Release, IncStrongCount, FirstRef,
         IncWeak, ReadCount, CasShared, CasFirst, RereadFirst, Revive, FixUp, CasFixUp,
         DecStrong, LastStrong, ReleaseWeak, DecWeak, LastWeak, Done, Goto
    <3>3. QED
      BY <1>3, <3>1, <3>2
  <2>6. QED
    BY <2>1, <2>2, <2>3, <2>4, <2>5 DEF WeakAttempt
<1>7. QED
  BY <1>5, <1>6 DEF SourceOK

LEMMA AloneStep ==
    ASSUME CmpxchgStored = 0, RawOverWeak = FALSE, IInv, NEW p \in Pointers, Step(p)
    PROVE  AloneOK'
<1> DEFINE Lonely(r) == \/ pc[r] \in {"firstRef", "lastWeak"}
                        \/ pc[r] = "incStrong" /\ source[r] = NULL
<1>1. /\ TypeOK /\ pc \in [Pointers -> Places] /\ mStrong \in Nat
      /\ \A q \in Pointers \ {p} : pc'[q] = pc[q] /\ source'[q] = source[q]
      /\ INITIAL_STRONG_VALUE \in Nat
      /\ source \in [Pointers -> Pointers \cup {NULL}]
  BY Locality, RefBaseAssumption DEF IInv, TypeOK
<1>2. \A r \in Pointers : Lonely(r) => Alone(r)
  BY DEF IInv, AloneOK
<1>3. ASSUME NEW r \in Pointers \ {p} PROVE ~Lonely(r)'
  <2>1. SUFFICES ASSUME Lonely(r) PROVE FALSE
    BY <1>1
  <2>2. Alone(r) /\ pc[r] \notin {"null", "strong", "weak"}
    BY <1>2, <2>1
  <2>3. QED
    BY <2>2, NoStartBesides
<1>4. ASSUME Lonely(p)' PROVE Alone(p)
  <2>1. CASE IncStrong(p)
    <3>1. PICK q \in Pointers \cup {NULL} :
               StrongSource(q) /\ source' = [source EXCEPT ![p] = q]
      BY <2>1 DEF IncStrong
    <3>2. source'[p] = q /\ pc'[p] = "incStrong"
      BY <1>1, <2>1, <3>1 DEF IncStrong, Goto
    <3>3. Fresh
      BY <1>4, <3>1, <3>2, Sources DEF StrongSource, At
    <3>4. QED
      BY <3>3 DEF Fresh, At, Alone
  <2>2. CASE IncStrongCount(p)
    <3>1. pc[p] = "incStrong" /\ pc'[p] \in {"firstRef", "strong"}
      BY <1>1, <2>2 DEF IncStrongCount, Goto, Done
    <3>2. pc'[p] = "firstRef"
      BY <1>4, <3>1
    <3>3. mStrong = INITIAL_STRONG_VALUE
      BY <1>1, <2>2, <3>2 DEF IncStrongCount, Goto, Done
    <3>4. source[p] = NULL
      BY <1>1, <3>1, <3>3 DEF IInv, SourceOK
    <3>5. QED
      BY <1>2, <3>1, <3>4
  <2>3. CASE DecWeak(p)
    <3>1. PICK place \in {"null", "lastWeak"} :
               Goto(p, place) /\ (place = "lastWeak" => mWeak = 1)
      BY <2>3 DEF DecWeak, Done
    <3>2. pc[p] = "decWeak" /\ pc'[p] = place
      BY <1>1, <2>3, <3>1 DEF DecWeak, Goto
    <3>3. mWeak = 1
      BY <1>4, <3>1, <3>2
    <3>4. place \in Places /\ place \in Uncounted
      BY DEF Places, Uncounted
    <3>5. Cardinality(WeakRefs') = Cardinality(WeakRefs) - 1
      <4>1. pc[p] \notin Uncounted
        BY <3>2 DEF Uncounted
      <4> QED
        BY <1>1, <3>1, <3>2, <3>4, <4>1, RefsStep
    <3>6. Cardinality(WeakRefs') = 0
      <4>1. mWeak = Cardinality(WeakRefs)
        BY DEF IInv, CountsExact
      <4>2. QED
        BY <3>3, <3>5, <4>1
    <3>7. IsFiniteSet(WeakRefs')
      <4>1. WeakRefs' \in SUBSET Pointers
        BY DEF WeakRefs, At
      <4>2. QED
        BY <4>1, RefBaseAssumption, FS_Subset
    <3>8. WeakRefs' = {}
      BY <3>6, <3>7, FS_EmptySet
    <3> USE DEF Uncounted
    <3>9. ASSUME NEW q \in Pointers \ {p} PROVE pc[q] = "null"
      <4>1. pc[q] \in {"null", "lastWeak"}
        <5>1. pc[q] \in Uncounted
          BY <1>1, <3>8 DEF WeakRefs, At
        <5>2. ASSUME pc[q] \in {"readWeak", "casWeak"} PROVE FALSE
          <6>1. source[q] \in Pointers /\ pc[source[q]] \in {"strong", "weak"}
            BY <1>1, <5>2 DEF IInv, SourceOK
          <6>2. pc'[source[q]] \in {"strong", "weak"}
            BY <1>1, <3>2, <6>1
          <6> QED
            BY <3>8, <6>1, <6>2 DEF WeakRefs, At, Places
        <5> QED
          BY <5>1, <5>2
      <4>2. CASE pc[q] = "lastWeak"
        <5>1. Alone(q)
          BY <1>2, <4>2
        <5>2. QED
          BY <3>2, <5>1 DEF Alone
      <4>3. QED
        BY <4>1, <4>2
    <3>10. QED
      BY <3>9 DEF Alone
  <2>4. CASE ~IncStrong(p) /\ ~IncStrongCount(p) /\ ~DecWeak(p)
    <3>1. pc'[p] \notin {"firstRef", "lastWeak", "incStrong"}
      BY <1>1, <2>4 DEF Step, Acquire, Promote, Release, FirstRef,
         IncWeak, AttemptIncWeak, ReadWeak, CasWeak, AttemptIncStrong, ReadCount,
         CasShared, CasFirst, RereadFirst, Revive, FixUp, CasFixUp, DecStrong,
         LastStrong, ReleaseWeak, LastWeak, Done, Goto
    <3>2. QED
      BY <1>4, <3>1
  <2>5. QED
    BY <2>1, <2>2, <2>3, <2>4
<1>5. Alone(p) => Alone(p)'
  BY <1>1 DEF Alone
<1>6. QED
  BY <1>3, <1>4, <1>5 DEF AloneOK

\* An object of strong lifetime that has lost its last strong reference never
\* gets another one.
LEMMA DeadStaysDead ==
    ASSUME CmpxchgStored = 0, RawOverWeak = FALSE, IInv, NEW p \in Pointers, Step(p),
           mFlags = "STRONG", mStrong = 0
    PROVE  mStrong' = 0 /\ ~DecStrong(p)
<1>1. /\ TypeOK /\ curCount[p] \in Nat /\ INITIAL_STRONG_VALUE \in Nat
      /\ INITIAL_STRONG_VALUE > 0
  <2>1. Cardinality(Pointers) \in Nat
    BY RefBaseAssumption, FS_CardinalityType
  <2>2. QED
    BY <2>1, RefBaseAssumption DEF IInv, TypeOK
<1>2. StrongRefs = {}
  <2>1. StrongRefs \in SUBSET Pointers
    BY DEF StrongRefs, At
  <2>2. IsFiniteSet(StrongRefs) /\ Cardinality(StrongRefs) \in Nat
    BY <2>1, RefBaseAssumption, FS_Subset, FS_CardinalityType
  <2>3. Cardinality(StrongRefs) = 0
    BY <1>1, <2>2 DEF IInv, CountsExact
  <2>4. QED
    BY <2>2, <2>3, FS_EmptySet
<1>3. At({"strong"}) = {}
  BY <1>2 DEF StrongRefs, At
<1>4. pc[p] \notin {"strong", "firstRef", "casFixUp", "revive", "incStrong"}
  <2>1. pc[p] \notin {"strong", "firstRef", "casFixUp"}
    BY <1>2 DEF StrongRefs, At, Acquired
  <2>2. pc[p] # "revive"
    BY DEF IInv, LocalsOK
  <2>3. ASSUME pc[p] = "incStrong" PROVE FALSE
    <3>1. source[p] # NULL /\ pc[source[p]] = "strong"
      BY <1>1, <2>3 DEF IInv, SourceOK
    <3>2. source[p] \in Pointers
      BY <3>1 DEF IInv, TypeOK
    <3>3. QED
      BY <1>3, <3>1, <3>2 DEF At
  <2>4. QED
    BY <2>1, <2>2, <2>3
<1>5. pc[p] \in {"casShared", "casFirst"} => curCount[p] # 0
  BY <1>1 DEF IInv, LocalsOK
<1>6. QED
  BY <1>4, <1>5 DEF Step, Acquire, Promote, Release, IncStrong, IncStrongCount, FirstRef,
     IncWeak, AttemptIncWeak, ReadWeak, CasWeak, AttemptIncStrong, ReadCount, CasShared,
     CasFirst, RereadFirst, Revive, FixUp, CasFixUp, DecStrong, LastStrong, ReleaseWeak,
     DecWeak, LastWeak, Cmpxchg

LEMMA FreesStep ==
    ASSUME CmpxchgStored = 0, RawOverWeak = FALSE, IInv, NEW p \in Pointers, Step(p)
    PROVE  FreesOK'
<1> DEFINE I == INITIAL_STRONG_VALUE
<1>1. /\ TypeOK /\ TypeOK' /\ pc \in [Pointers -> Places] /\ mStrong \in Nat /\ mStrong' \in Nat
      /\ objectFrees \in Nat /\ implFrees \in Nat /\ I \in Nat /\ I > 0
      /\ mFlags \in {"STRONG", "WEAK"} /\ mFlags' = mFlags
      /\ \A q \in Pointers \ {p} : pc'[q] = pc[q]
  <2>1. Cardinality(Pointers) \in Nat
    BY RefBaseAssumption, FS_CardinalityType
  <2>2. TypeOK /\ TypeOK' /\ mFlags' = mFlags
    BY TypeStep, Locality DEF IInv
  <2>3. \A q \in Pointers \ {p} : pc'[q] = pc[q]
    BY <2>2, Locality
  <2>4. QED
    BY <2>1, <2>2, <2>3, RefBaseAssumption DEF TypeOK
\* No step is taken once the weakref_impl is gone.
<1>2. implFrees = 0
  <2>1. CASE pc[p] # "null"
    BY <2>1 DEF IInv, FreesOK, At
  <2>2. CASE Fresh
    BY <2>2 DEF IInv, FreesOK, Fresh
  <2>3. CASE pc[p] = "null" /\ ~Fresh
    <3>1. IncStrong(p) \/ IncWeak(p) \/ AttemptIncWeak(p) \/ AttemptIncStrong(p)
      BY <2>3 DEF Step, Acquire, Promote, Release, IncStrongCount, FirstRef, ReadWeak,
         CasWeak, ReadCount,
         CasShared, CasFirst, RereadFirst, Revive, FixUp, CasFixUp, DecStrong, LastStrong,
         ReleaseWeak, DecWeak, LastWeak
    <3>2. \E q \in Pointers : pc[q] \in {"strong", "weak"}
      BY <2>3, <3>1 DEF IncStrong, IncWeak, AttemptIncWeak, AttemptIncStrong, StrongSource,
         WeakSource, At
    <3>3. QED
      BY <3>2 DEF IInv, FreesOK, At
  <2>4. QED
    BY <2>1, <2>2, <2>3
<1>3. CASE LastWeak(p)
  <2>1. pc[p] = "lastWeak" /\ pc'[p] = "null" /\ mStrong' = mStrong /\ Alone(p)
    BY <1>1, <1>3 DEF LastWeak, Goto, IInv, AloneOK
  <2>2. \A q \in Pointers : pc'[q] = "null"
    BY <1>1, <2>1 DEF Alone
  <2>3. At({"null"})' = Pointers /\ At({"lastStrong"}) = {} /\ At({"lastStrong"})' = {}
    BY <2>1, <2>2 DEF At, Alone
  <2>4. mWeak = 0 /\ (mStrong = 0 \/ mStrong = I)
    <3>1. StrongRefs = {} /\ WeakRefs = {}
      BY <2>1 DEF StrongRefs, WeakRefs, At, Alone, Acquired, Uncounted
    <3>2. Cardinality(StrongRefs) = 0 /\ Cardinality(WeakRefs) = 0
      BY <3>1, FS_EmptySet
    <3>3. QED
      BY <1>1, <3>2 DEF IInv, CountsExact
  <2>5. implFrees' = 1 /\ objectFrees' = 1
    <3>1. CASE mFlags = "WEAK"
      BY <1>1, <1>2, <1>3, <2>4, <3>1 DEF LastWeak, Delete, DestructorFreesImpl, IInv, FreesOK
    <3>2. CASE mFlags = "STRONG" /\ mStrong = I
      <4>1. objectFrees = 0
        BY <1>1, <1>2, <3>2 DEF IInv, FreesOK
      <4>2. QED
        BY <1>1, <1>2, <1>3, <3>2, <4>1 DEF LastWeak, Delete, DestructorFreesImpl
    <3>3. CASE mFlags = "STRONG" /\ mStrong = 0
      <4>1. objectFrees = 1
        BY <2>3, <3>3 DEF IInv, FreesOK
      <4>2. QED
        BY <1>1, <1>2, <1>3, <3>3, <4>1 DEF LastWeak
    <3>4. QED
      BY <1>1, <2>4, <3>1, <3>2, <3>3
  <2>6. QED
    BY <1>1, <2>3, <2>5 DEF FreesOK
<1>4. CASE ~LastWeak(p)
  \* Some pointer is not null after the step.
  <2>1. At({"null"})' # Pointers
    <3>1. CASE DecWeak(p)
      <4>1. CASE mWeak = 1
        BY <1>1, <3>1, <4>1 DEF DecWeak, Done, Goto, At
      <4>2. CASE mWeak # 1
        <5>1. /\ Goto(p, "null") /\ pc[p] = "decWeak" /\ "null" \in Places
              /\ "null" \in Uncounted /\ pc[p] \notin Uncounted
          BY <3>1, <4>2 DEF DecWeak, Done, Places, Uncounted
        <5>2. Cardinality(WeakRefs') = Cardinality(WeakRefs) - 1
          BY <1>1, <5>1, RefsStep
        <5>3. Cardinality(WeakRefs) # 1
          BY <4>2 DEF IInv, CountsExact
        <5>4. Cardinality(WeakRefs) \in Nat
          <6>1. WeakRefs \in SUBSET Pointers
            BY DEF WeakRefs, At
          <6>2. QED
            BY <6>1, RefBaseAssumption, FS_Subset, FS_CardinalityType
        <5>5. Cardinality(WeakRefs') # 0
          BY <5>2, <5>3, <5>4
        <5>6. WeakRefs' # {}
          BY <5>5, FS_EmptySet
        <5>7. QED
          BY <5>6 DEF WeakRefs, At, Uncounted
      <4>3. QED
        BY <4>1, <4>2
    <3>2. CASE ReadWeak(p)
      <4>1. source[p] \in Pointers /\ pc[source[p]] \in {"strong", "weak"} /\ source[p] # p
        BY <1>1, <3>2 DEF ReadWeak, IInv, SourceOK, TypeOK
      <4> QED
        BY <1>1, <4>1 DEF At
    <3>3. CASE ~DecWeak(p) /\ ~ReadWeak(p)
      <4>1. pc'[p] # "null"
        BY <1>1, <1>4, <3>3 DEF Step, Acquire, Promote, Release, IncStrong, IncStrongCount,
           FirstRef, IncWeak, AttemptIncWeak, CasWeak, AttemptIncStrong, ReadCount,
           CasShared, CasFirst, RereadFirst, Revive, FixUp, CasFixUp, DecStrong,
           LastStrong, ReleaseWeak, Goto, Done
      <4>2. QED
        BY <4>1 DEF At
    <3>4. QED
      BY <3>1, <3>2, <3>3
  <2>2. CASE LastStrong(p)
    <3>1. /\ pc[p] = "lastStrong" /\ pc'[p] = "decWeak" /\ mStrong' = mStrong
          /\ p \in At({"lastStrong"})
      BY <1>1, <2>2 DEF LastStrong, Goto, At
    <3>2. CASE mFlags = "WEAK"
      BY <1>1, <1>2, <2>1, <2>2, <3>2 DEF LastStrong, IInv, FreesOK
    <3>3. CASE mFlags = "STRONG"
      <4>1. mStrong = 0 /\ objectFrees = 0 /\ \A q \in At({"lastStrong"}) : q = p
        BY <3>1, <3>3 DEF IInv, FreesOK
      <4>2. objectFrees' = 1 /\ implFrees' = 0
        BY <1>1, <1>2, <2>2, <3>3, <4>1 DEF LastStrong, Delete, DestructorFreesImpl
      <4>3. At({"lastStrong"})' = {}
        BY <1>1, <3>1, <4>1 DEF At
      <4>4. QED
        BY <1>1, <2>1, <3>1, <3>3, <4>1, <4>2, <4>3 DEF FreesOK
    <3>4. QED
      BY <1>1, <3>2, <3>3
  <2>3. CASE DecStrong(p)
    <3>1. /\ pc[p] = "strong" /\ mStrong' = mStrong - 1 /\ UNCHANGED <<objectFrees, implFrees>>
          /\ pc'[p] = (IF mStrong = 1 THEN "lastStrong" ELSE "decWeak")
      BY <1>1, <2>3 DEF DecStrong, Goto
    <3>2. CASE mFlags = "WEAK"
      BY <1>1, <1>2, <2>1, <3>1, <3>2 DEF IInv, FreesOK
    <3>3. CASE mFlags = "STRONG"
      <4>1. mStrong # 0
        BY <2>3, <3>3, DeadStaysDead
      <4>2. At({"lastStrong"}) = {} /\ objectFrees = 0
        BY <1>1, <1>2, <3>3, <4>1 DEF IInv, FreesOK
      <4>3. At({"lastStrong"})' = IF mStrong' = 0 THEN {p} ELSE {}
        <5>1. mStrong' = 0 <=> mStrong = 1
          BY <1>1, <3>1
        <5>2. QED
          BY <1>1, <3>1, <4>2, <5>1 DEF At
      <4>4. QED
        BY <1>1, <1>2, <2>1, <3>1, <3>3, <4>2, <4>3 DEF FreesOK
    <3>4. QED
      BY <1>1, <3>2, <3>3
  <2>4. CASE ~LastStrong(p) /\ ~DecStrong(p)
    <3>1. UNCHANGED <<objectFrees, implFrees>>
      BY <1>4, <2>4 DEF Step, Acquire, Promote, Release, IncStrong, IncStrongCount,
         FirstRef, IncWeak, AttemptIncWeak, ReadWeak, CasWeak, AttemptIncStrong,
         ReadCount, CasShared, CasFirst, RereadFirst, Revive, FixUp, CasFixUp,
         ReleaseWeak, DecWeak
    <3>2. pc[p] # "lastStrong" /\ pc'[p] # "lastStrong"
      BY <1>1, <1>4, <2>4 DEF Step, Acquire, Promote, Release, IncStrong, IncStrongCount,
         FirstRef, IncWeak, AttemptIncWeak, ReadWeak, CasWeak, AttemptIncStrong,
         ReadCount, CasShared, CasFirst, RereadFirst, Revive, FixUp, CasFixUp,
         ReleaseWeak, DecWeak, Goto, Done
    <3>3. At({"lastStrong"})' = At({"lastStrong"})
      BY <1>1, <3>2 DEF At
    <3>4. CASE mFlags = "WEAK"
      BY <1>1, <1>2, <2>1, <3>1, <3>4 DEF IInv, FreesOK
    <3>5. CASE mFlags = "STRONG" /\ mStrong = 0
      <4>1. mStrong' = 0
        BY <3>5, DeadStaysDead
      <4>2. QED
        BY <1>1, <1>2, <2>1, <3>1, <3>3, <3>5, <4>1 DEF IInv, FreesOK
    <3>6. CASE mFlags = "STRONG" /\ mStrong # 0
      <4>1. mStrong' # 0
        <5>1. SUFFICES ASSUME mStrong' = 0 PROVE FALSE
          OBVIOUS
        <5>2. StrongRefs' = {}
          <6>1. StrongRefs' \in SUBSET Pointers
            BY DEF StrongRefs, At
          <6>2. IsFiniteSet(StrongRefs') /\ Cardinality(StrongRefs') \in Nat
            BY <6>1, RefBaseAssumption, FS_Subset, FS_CardinalityType
          <6>3. \/ mStrong' = Cardinality(StrongRefs')
                \/ mStrong' = I + Cardinality(StrongRefs')
            BY CountsStep DEF Step, CountsExact
          <6>4. Cardinality(StrongRefs') = 0
            BY <1>1, <5>1, <6>2, <6>3
          <6>5. QED
            BY <6>2, <6>4, FS_EmptySet
        <5>3. pc'[p] \notin {"strong", "firstRef", "fixUp", "casFixUp"}
          BY <5>2 DEF StrongRefs, At, Acquired
        <5>4. mStrong' = mStrong
          BY <1>1, <1>4, <2>4, <5>3 DEF Step, Acquire, Promote, Release, IncStrong,
             IncStrongCount, FirstRef, IncWeak, AttemptIncWeak, ReadWeak, CasWeak,
             AttemptIncStrong, ReadCount, CasShared, CasFirst, RereadFirst, Revive,
             FixUp, CasFixUp, ReleaseWeak, DecWeak, Cmpxchg, CmpxchgBreaks, Goto, Done
        <5>5. QED
          BY <3>6, <5>1, <5>4
      <4>2. objectFrees = 0 /\ At({"lastStrong"}) = {}
        BY <1>1, <1>2, <3>6 DEF IInv, FreesOK
      <4>3. QED
        BY <1>1, <1>2, <2>1, <3>1, <3>3, <3>6, <4>1, <4>2 DEF FreesOK
    <3>7. QED
      BY <1>1, <3>4, <3>5, <3>6
  <2>5. QED
    BY <2>2, <2>3, <2>4
<1>5. QED
  BY <1>3, <1>4

\* While a strong pointer holds the object the count a promotion reads is neither 0
\* nor the initial value.
LEMMA HeldIsCounted ==
    ASSUME IInv, At({"strong"}) # {}
    PROVE  mStrong > 0 /\ mStrong < INITIAL_STRONG_VALUE
<1>1. StrongRefs \in SUBSET Pointers /\ StrongRefs # {}
  BY DEF StrongRefs, At
<1>2. /\ Cardinality(StrongRefs) \in Nat /\ Cardinality(StrongRefs) # 0
      /\ Cardinality(StrongRefs) <= Cardinality(Pointers)
      /\ Cardinality(Pointers) \in Nat /\ Cardinality(Pointers) < INITIAL_STRONG_VALUE
  BY <1>1, RefBaseAssumption, FS_Subset, FS_CardinalityType, FS_EmptySet
<1>3. mStrong = Cardinality(StrongRefs)
  BY DEF IInv, CountsExact
<1> QED
  BY <1>2, <1>3, RefBaseAssumption

\* A promotion that finds the object held goes on trying.
LEMMA HeldGoesOn ==
    ASSUME IInv, NEW p \in Pointers, Step(p), pc[p] \in Attempting \ {"revive"},
           At({"strong"}) # {}
    PROVE  pc'[p] # "decWeak" /\ pc'[p] # "revive"
<1>1. /\ pc \in [Pointers -> Places] /\ mStrong > 0 /\ mStrong < INITIAL_STRONG_VALUE
      /\ pc[p] \in {"attempt", "casShared", "casFirst", "rereadFirst"}
      /\ mStrong \in Nat
  BY HeldIsCounted DEF IInv, TypeOK, Attempting
<1>2. ReadCount(p) \/ CasShared(p) \/ CasFirst(p) \/ RereadFirst(p)
  BY <1>1 DEF Step, Acquire, Promote, Release, IncStrong, IncStrongCount, FirstRef,
     IncWeak, AttemptIncWeak, ReadWeak, CasWeak, AttemptIncStrong, Revive, FixUp,
     CasFixUp, DecStrong, LastStrong, ReleaseWeak, DecWeak, LastWeak
<1>3. CASE ReadCount(p)
  BY <1>1, <1>3, RefBaseAssumption DEF ReadCount, Goto
<1>4. CASE CasShared(p) \/ CasFirst(p) \/ RereadFirst(p)
  BY <1>1, <1>4 DEF CasShared, CasFirst, RereadFirst, Goto
<1> QED
  BY <1>2, <1>3, <1>4

LEMMA HeldStep ==
    ASSUME IInv, NEW p \in Pointers, Step(p)
    PROVE  HeldOK'
<1>1. /\ pc \in [Pointers -> Places]
      /\ \A q \in Pointers \ {p} : pc'[q] = pc[q]
      /\ \E place \in Places : Goto(p, place)
  BY Locality DEF IInv, TypeOK
<1>2. SUFFICES ASSUME NEW q \in heldThroughout'
               PROVE  pc'[q] \in Attempting \ {"revive"} /\ At({"strong"})' # {}
  BY DEF HeldOK
<1>3. /\ q \in Pointers /\ pc'[q] \in Attempting
      /\ pc[q] \in Attempting => q \in heldThroughout
      /\ At({"strong"})' # {}
  BY DEF Step, Observe, At
<1>4. CASE q \in heldThroughout /\ q # p
  BY <1>1, <1>3, <1>4 DEF IInv, HeldOK
<1>5. CASE q \in heldThroughout /\ q = p
  BY <1>3, <1>5, HeldGoesOn DEF IInv, HeldOK
<1>6. CASE q \notin heldThroughout
  <2>1. q = p /\ pc[p] \notin Attempting
    BY <1>1, <1>3, <1>6
  <2>2. pc'[p] # "revive"
    BY <1>1, <2>1 DEF Step, Acquire, Promote, Release, IncStrong, IncStrongCount, FirstRef,
       IncWeak, AttemptIncWeak, ReadWeak, CasWeak, AttemptIncStrong, ReadCount, CasShared,
       CasFirst, RereadFirst, Revive, FixUp, CasFixUp, DecStrong, LastStrong, ReleaseWeak,
       DecWeak, LastWeak, Goto, Done, Attempting
  <2> QED
    BY <1>3, <2>1, <2>2
<1> QED
  BY <1>4, <1>5, <1>6

-----------------------------------------------------------------------------
(***************************************************************************)
(* The theorems.                                                           *)
(***************************************************************************)
LEMMA InitInvariant == Init => IInv
<1> SUFFICES ASSUME Init PROVE IInv
  OBVIOUS
<1>1. \A p \in Pointers : pc[p] = "null" /\ source[p] = NULL /\ curCount[p] = 0
  BY DEF Init
<1>2. /\ StrongRefs = {} /\ WeakRefs = {} /\ At({"null"}) = Pointers
      /\ At({"lastStrong"}) = {} /\ Fresh
  BY <1>1 DEF Init, StrongRefs, WeakRefs, At, Acquired, Uncounted, Fresh
<1>3. Cardinality(StrongRefs) = 0 /\ Cardinality(WeakRefs) = 0
  BY <1>2, FS_EmptySet
<1>4. TypeOK
  BY RefBaseAssumption DEF Init, TypeOK, Places, Uncounted
<1>5. CountsExact
  <2>1. At({"strong"}) = {}
    BY <1>1 DEF At
  <2>2. mStrong = INITIAL_STRONG_VALUE + 0 /\ mWeak = 0
    BY RefBaseAssumption DEF Init
  <2>3. QED
    BY <1>3, <2>1, <2>2 DEF CountsExact
<1>6. LocalsOK /\ SourceOK /\ AloneOK /\ HeldOK
  BY <1>1 DEF Init, LocalsOK, SourceOK, AloneOK, HeldOK
<1>7. FreesOK
  <2>1. INITIAL_STRONG_VALUE # 0
    <3>1. Cardinality(Pointers) \in Nat
      BY RefBaseAssumption, FS_CardinalityType
    <3>2. QED
      BY <3>1, RefBaseAssumption
  <2>2. QED
    BY <1>2, <2>1 DEF Init, FreesOK
<1>8. QED
  BY <1>4, <1>5, <1>6, <1>7 DEF IInv

\* The references the counters stand for are counted exactly at every instant,
\* and what is freed, and when, follows from them: the inductive invariant of
\* incStrong, decStrong, attemptIncStrong and the destructor together.
THEOREM Invariant ==
    ASSUME CmpxchgStored = 0, RawOverWeak = FALSE
    PROVE  Spec => []IInv
<1>1. Init => IInv
  BY InitInvariant
<1>2. IInv /\ [Next]_vars => IInv'
  <2> SUFFICES ASSUME IInv, [Next]_vars PROVE IInv'
    OBVIOUS
  <2>1. CASE Next
    <3>1. PICK p \in Pointers : Step(p)
      BY <2>1 DEF Next, Step
    <3>2. CountsExact'
      BY <3>1, CountsStep DEF Step
    <3>3. QED
      BY <3>1, <3>2, TypeStep, LocalsStep, SourceStep, AloneStep, FreesStep,
         HeldStep DEF IInv
  <2>2. CASE UNCHANGED vars
    BY <2>2 DEF vars, IInv, TypeOK, CountsExact, LocalsOK, SourceOK, AloneOK, FreesOK,
       HeldOK, Alone, StrongRefs, WeakRefs, At, Fresh
  <2>3. QED
    BY <2>1, <2>2
<1>3. QED
  BY <1>1, <1>2, PTL DEF Spec

\* The two counters count the references exactly, at every instant.
THEOREM CountsAreExact ==
    ASSUME CmpxchgStored = 0, RawOverWeak = FALSE
    PROVE  Spec => []CountsExact
<1>1. IInv => CountsExact
  BY DEF IInv
<1>2. Spec => []IInv
  BY Invariant
<1>3. QED
  BY <1>1, <1>2, PTL

LEMMA NothingIsFreedInUse == IInv => NoUseAfterFree
<1> SUFFICES ASSUME IInv PROVE NoUseAfterFree
  OBVIOUS
<1>1. At(Places \ {"null"}) # {} => implFrees = 0
  BY DEF IInv, FreesOK, At
<1>2. mFlags = "WEAK" /\ At(Places \ {"null"}) # {} => objectFrees = 0
  BY <1>1 DEF IInv, FreesOK
<1>3. ASSUME NEW p \in At({"strong", "incStrong", "lastStrong"} \cup Acquired)
      PROVE  objectFrees = 0
  <2>1. /\ p \in Pointers /\ pc[p] # "null" /\ mStrong \in Nat
        /\ pc[p] \in {"strong", "incStrong", "lastStrong"} \cup Acquired
        /\ mFlags \in {"STRONG", "WEAK"} /\ pc[p] \in Places
    BY <1>3, RefBaseAssumption DEF At, IInv, TypeOK, Acquired
  <2>2. implFrees = 0
    BY <1>1, <2>1 DEF At
  <2>3. CASE mFlags = "WEAK"
    BY <2>2, <2>3 DEF IInv, FreesOK
  <2>4. CASE mFlags = "STRONG" /\ pc[p] = "lastStrong"
    BY <1>3, <2>4 DEF IInv, FreesOK, At
  <2>5. CASE mFlags = "STRONG" /\ pc[p] # "lastStrong"
    <3>1. mStrong > 0
      <4>1. CASE StrongRefs # {}
        <5>1. StrongRefs \in SUBSET Pointers
          BY DEF StrongRefs, At
        <5>2. Cardinality(StrongRefs) \in Nat /\ Cardinality(StrongRefs) # 0
          BY <4>1, <5>1, RefBaseAssumption, FS_Subset, FS_CardinalityType, FS_EmptySet
        <5>3. \/ mStrong = Cardinality(StrongRefs)
              \/ mStrong = INITIAL_STRONG_VALUE + Cardinality(StrongRefs)
          BY DEF IInv, CountsExact
        <5>4. QED
          BY <5>2, <5>3, RefBaseAssumption
      <4>2. CASE StrongRefs = {}
        <5>1. pc[p] = "incStrong"
          BY <2>1, <2>5, <4>2 DEF StrongRefs, At
        <5>2. source[p] = NULL
          <6>1. source[p] # NULL => source[p] \in Pointers /\ pc[source[p]] = "strong"
            BY <2>1, <2>5, <5>1 DEF IInv, TypeOK, SourceOK
          <6>2. QED
            BY <4>2, <6>1 DEF StrongRefs, At
        <5>3. mStrong = INITIAL_STRONG_VALUE
          BY <2>1, <5>1, <5>2 DEF IInv, SourceOK
        <5>4. Cardinality(Pointers) \in Nat
          BY RefBaseAssumption, FS_CardinalityType
        <5>5. QED
          BY <5>3, <5>4, RefBaseAssumption
      <4>3. QED
        BY <4>1, <4>2
    <3>2. QED
      BY <2>2, <2>5, <3>1 DEF IInv, FreesOK
  <2>6. QED
    BY <2>1, <2>3, <2>4, <2>5
<1>4. QED
  BY <1>1, <1>2, <1>3 DEF NoUseAfterFree

\* No pointer, and no operation under way on one, reaches a freed object or a
\* freed weakref_impl.
THEOREM NothingIsUsedAfterFree ==
    ASSUME CmpxchgStored = 0, RawOverWeak = FALSE
    PROVE  Spec => []NoUseAfterFree
<1>1. IInv => NoUseAfterFree
  BY NothingIsFreedInUse
<1>2. Spec => []IInv
  BY Invariant
<1>3. QED
  BY <1>1, <1>2, PTL

\* The object and its weakref_impl are freed exactly once: never twice, and
\* not zero times once every pointer is null again.
THEOREM EverythingIsFreedOnce ==
    ASSUME CmpxchgStored = 0, RawOverWeak = FALSE
    PROVE  Spec => []FreedExactlyOnce
<1>1. IInv => FreedExactlyOnce
  <2> SUFFICES ASSUME IInv PROVE FreedExactlyOnce
    OBVIOUS
  <2>1. /\ mStrong \in Nat /\ mFlags \in {"STRONG", "WEAK"}
        /\ objectFrees \in Nat /\ implFrees \in Nat
    BY RefBaseAssumption DEF IInv, TypeOK
  <2>2. objectFrees <= 1 /\ implFrees <= 1
    BY <2>1 DEF IInv, FreesOK
  <2>3. At({"null"}) = Pointers => Fresh \/ (objectFrees = 1 /\ implFrees = 1)
    BY DEF IInv, FreesOK
  <2>4. QED
    BY <2>2, <2>3 DEF FreedExactlyOnce
<1>2. Spec => []IInv
  BY Invariant
<1>3. QED
  BY <1>1, <1>2, PTL

\* A promotion through which somebody has a strong pointer all along is not refused,
\* and it gives up or turns to reviving the object only while nobody has one.
THEOREM PromotionIsNotRefused ==
    ASSUME CmpxchgStored = 0, RawOverWeak = FALSE
    PROVE  Spec => PromoteAcquires
<1> DEFINE Acquires(p) == pc[p] \in Attempting =>
          /\ pc'[p] = "decWeak" => p \notin heldThroughout
          /\ pc[p] # "revive" /\ pc'[p] \in {"decWeak", "revive"} => At({"strong"}) = {}
<1>1. IInv /\ [Next]_vars => \A p \in Pointers : Acquires(p)
  <2> SUFFICES ASSUME IInv, [Next]_vars, NEW p \in Pointers, pc[p] \in Attempting,
                      pc'[p] = "decWeak" \/ (pc[p] # "revive" /\ pc'[p] = "revive")
               PROVE  /\ p \notin heldThroughout \/ pc'[p] # "decWeak"
                      /\ pc[p] = "revive" \/ At({"strong"}) = {}
    OBVIOUS
  <2>1. pc'[p] # pc[p]
    BY DEF Attempting
  <2>2. PICK q \in Pointers : Step(q)
    BY <2>1 DEF Next, Step, vars
  <2>3. q = p
    BY <2>1, <2>2, Locality DEF IInv
  <2>4. pc[p] = "revive" \/ At({"strong"}) = {}
    BY <2>2, <2>3, HeldGoesOn
  <2>5. p \notin heldThroughout
    BY <2>4 DEF IInv, HeldOK
  <2> QED
    BY <2>4, <2>5
<1>2. Spec => []IInv
  BY Invariant
<1>3. QED
  BY <1>1, <1>2, PTL DEF Spec, PromoteAcquires

-----------------------------------------------------------------------------
(***************************************************************************)
(* The counters implement the shared object.                               *)
(***************************************************************************)

\* A pointer that goes from place to place enters and leaves the two sets.
LEMMA SetsStep ==
    ASSUME TypeOK, NEW p \in Pointers, NEW place \in Places, Goto(p, place)
    PROVE  /\ StrongRefs' = IF place \in {"strong"} \cup Acquired THEN StrongRefs \cup {p}
                            ELSE StrongRefs \ {p}
           /\ WeakRefs' = IF place \in Uncounted THEN WeakRefs \ {p}
                          ELSE WeakRefs \cup {p}
           /\ p \in StrongRefs <=> pc[p] \in {"strong"} \cup Acquired
           /\ p \in WeakRefs <=> pc[p] \notin Uncounted
           /\ pc'[p] = place
BY DEF TypeOK, Goto, StrongRefs, WeakRefs, At

\* What is known of an object while a pointer to it is not null.
LEMMA InUse ==
    ASSUME IInv, NEW p \in Pointers, pc[p] # "null"
    PROVE  /\ implFrees = 0 /\ ~Fresh /\ mStrong \in Nat /\ mWeak \in Nat
           /\ mFlags \in {"STRONG", "WEAK"} /\ pc[p] \in Places /\ TypeOK
           /\ INITIAL_STRONG_VALUE \in Nat \ {0}
           /\ mStrong > 0 \/ mFlags = "WEAK" => objectFrees = 0
           /\ pc[p] \in {"strong", "incStrong", "lastStrong"} \cup Acquired => objectFrees = 0
<1>1. /\ mStrong \in Nat /\ mWeak \in Nat /\ mFlags \in {"STRONG", "WEAK"}
      /\ pc[p] \in Places /\ TypeOK
  BY RefBaseAssumption DEF IInv, TypeOK
<1>2. INITIAL_STRONG_VALUE \in Nat \ {0}
  <2>1. Cardinality(Pointers) \in Nat
    BY RefBaseAssumption, FS_CardinalityType
  <2> QED
    BY <2>1, RefBaseAssumption
<1>3. p \notin At({"null"})
  BY DEF At
<1>4. implFrees = 0 /\ ~Fresh
  BY <1>3 DEF IInv, FreesOK, Fresh
<1>5. mStrong > 0 \/ mFlags = "WEAK" => objectFrees = 0
  BY <1>1, <1>4 DEF IInv, FreesOK
<1>6. pc[p] \in {"strong", "incStrong", "lastStrong"} \cup Acquired => objectFrees = 0
  BY NothingIsFreedInUse DEF NoUseAfterFree, At
<1> QED
  BY <1>1, <1>2, <1>4, <1>5, <1>6

\* Of whom the counters count as the last.
LEMMA LastOne ==
    ASSUME IInv, NEW p \in Pointers
    PROVE  /\ pc[p] = "strong" => (mStrong = 1 <=> StrongRefs = {p}) /\ mStrong > 0
           /\ mStrong = 0 => StrongRefs = {}
           /\ WeakRefs = {} => mWeak = 0
           /\ mWeak # 1 => WeakRefs # {p}
<1>1. /\ StrongRefs \in SUBSET Pointers /\ WeakRefs \in SUBSET Pointers
      /\ mStrong \in Nat /\ mWeak \in Nat /\ INITIAL_STRONG_VALUE \in Nat
      /\ mWeak = Cardinality(WeakRefs)
  BY RefBaseAssumption DEF IInv, TypeOK, CountsExact, StrongRefs, WeakRefs, At
<1>2. /\ IsFiniteSet(StrongRefs) /\ Cardinality(StrongRefs) \in Nat
      /\ Cardinality(StrongRefs) = 0 <=> StrongRefs = {}
  BY <1>1, RefBaseAssumption, FS_Subset, FS_CardinalityType, FS_EmptySet
<1>3. pc[p] = "strong" => mStrong = Cardinality(StrongRefs) /\ p \in StrongRefs
  BY DEF IInv, CountsExact, StrongRefs, At
<1>4. Cardinality(StrongRefs) = 1 <=> \E q : StrongRefs = {q}
  BY <1>2, FS_Singleton
<1>5. pc[p] = "strong" => (mStrong = 1 <=> StrongRefs = {p}) /\ mStrong > 0
  <2> SUFFICES ASSUME pc[p] = "strong"
               PROVE  (mStrong = 1 <=> StrongRefs = {p}) /\ mStrong > 0
    OBVIOUS
  <2>1. mStrong = 1 <=> StrongRefs = {p}
    BY <1>3, <1>4
  <2>2. mStrong # 0
    BY <1>2, <1>3
  <2> QED
    BY <1>1, <2>1, <2>2
<1>6. mStrong = 0 => StrongRefs = {}
  <2> SUFFICES ASSUME mStrong = 0 PROVE Cardinality(StrongRefs) = 0
    BY <1>2
  <2>1. \/ mStrong = Cardinality(StrongRefs)
        \/ mStrong = INITIAL_STRONG_VALUE + Cardinality(StrongRefs)
    BY DEF IInv, CountsExact
  <2> QED
    BY <1>1, <1>2, <2>1
<1>7. /\ WeakRefs = {} => mWeak = 0
      /\ mWeak # 1 => WeakRefs # {p}
  BY <1>1, FS_EmptySet, FS_Singleton
<1> QED
  BY <1>5, <1>6, <1>7

\* attemptIncWeak reaches the counters through a pointer that stays.
LEMMA AttemptHasSource ==
    ASSUME IInv, NEW p \in Pointers, pc[p] \in {"readWeak", "casWeak"}
    PROVE  \E q \in Pointers \ {p} : pc[q] \in {"strong", "weak"}
<1>1. source[p] \in Pointers /\ pc[source[p]] \in {"strong", "weak"}
  BY DEF IInv, SourceOK, TypeOK
<1> QED
  BY <1>1

\* createWeak, an attemptIncWeak that stores, and the first halves of incStrong and
\* attemptIncStrong: a holder more.
LEMMA HoldStep ==
    ASSUME RawOverWeak = FALSE, IInv, NEW p \in Pointers,
           \/ IncStrong(p) \/ IncWeak(p) \/ AttemptIncStrong(p)
           \/ CasWeak(p) /\ Goto(p, "weak")
    PROVE  Shared!Hold(p)
<1> USE DEF Uncounted
<1>1. /\ pc[p] \in {"null", "casWeak"} /\ TypeOK
      /\ \E place \in {"incStrong", "weak", "attempt"} : Goto(p, place)
      /\ UNCHANGED <<mStrong, mFlags, objectFrees, implFrees>>
  BY DEF IncStrong, IncWeak, CasWeak, AttemptIncStrong, IInv
<1>2. /\ StrongRefs' = StrongRefs /\ WeakRefs' = WeakRefs \cup {p} /\ p \notin WeakRefs
      /\ pc'[p] # "null"
  BY <1>1, SetsStep DEF Places, Acquired, Attempting, Releasing
<1>3. Fresh \/ (\E q \in Pointers : pc[q] \in {"strong", "weak"})
  <2>1. CASE CasWeak(p)
    BY <2>1, AttemptHasSource DEF CasWeak
  <2>2. CASE ~CasWeak(p)
    BY <2>2 DEF IncStrong, IncWeak, AttemptIncStrong, StrongSource, WeakSource, At
  <2> QED
    BY <2>1, <2>2
<1>4. ~Fresh'
  BY <1>1, <1>2 DEF Fresh, At, TypeOK
<1>5. implFrees = 0 /\ (Fresh \/ WeakRefs # {})
  <2>1. CASE Fresh
    BY <2>1 DEF Fresh, IInv, FreesOK
  <2>2. ASSUME NEW q \in Pointers, pc[q] \in {"strong", "weak"}
        PROVE  implFrees = 0 /\ WeakRefs # {}
    BY <2>2, InUse DEF WeakRefs, At
  <2> QED
    BY <1>3, <2>1, <2>2
<1> QED
  BY <1>1, <1>2, <1>4, <1>5 DEF Shared!Hold

\* The increment of incStrong, a compare-and-swap of attemptIncStrong that stores
\* and an onIncStrongAttempted that agrees: an owner more, of an object that is
\* there, and that had lost its last owner only if its lifetime is extended.
LEMMA OwnStep ==
    ASSUME IInv, NEW p \in Pointers, NEW place \in {"strong"} \cup Acquired,
           Goto(p, place), pc[p] \in {"incStrong", "casShared", "casFirst", "revive"},
           mStrong' = mStrong + 1, UNCHANGED <<mWeak, mFlags, objectFrees, implFrees>>,
           mStrong > 0 \/ mFlags = "WEAK"
    PROVE  Shared!Own(p)
<1> USE DEF Uncounted
<1>1. /\ implFrees = 0 /\ ~Fresh /\ mStrong \in Nat /\ TypeOK /\ objectFrees = 0
  BY InUse
<1>2. place \in Places /\ place \notin Uncounted
  BY DEF Places, Acquired
<1>3. /\ StrongRefs' = StrongRefs \cup {p} /\ WeakRefs' = WeakRefs \cup {p}
      /\ p \in WeakRefs /\ p \notin StrongRefs /\ pc'[p] # "null"
  BY <1>1, <1>2, SetsStep DEF Acquired
<1>4. ~Fresh'
  BY <1>3 DEF Fresh, At
<1>5. mStrong' # 0
  BY <1>1
<1>6. mStrong = 0 => mFlags = "WEAK"
  BY <1>1
<1> QED
  BY <1>1, <1>3, <1>4, <1>5, <1>6 DEF Shared!Own

LEMMA DisownStep == ASSUME IInv, NEW p \in Pointers, DecStrong(p) PROVE Shared!Disown(p)
<1> USE DEF Uncounted
<1>1. /\ implFrees = 0 /\ ~Fresh /\ mStrong \in Nat /\ TypeOK /\ pc[p] = "strong"
      /\ mStrong' = mStrong - 1 /\ UNCHANGED <<mWeak, mFlags, objectFrees, implFrees>>
      /\ \E place \in {"lastStrong", "decWeak"} : Goto(p, place)
  BY InUse DEF DecStrong
<1>2. /\ StrongRefs' = StrongRefs \ {p} /\ WeakRefs' = WeakRefs
      /\ p \in StrongRefs /\ pc'[p] # "null"
  BY <1>1, SetsStep DEF Places, Acquired, Releasing
<1>3. ~Fresh'
  BY <1>2 DEF Fresh, At
<1>4. StrongRefs' = {} <=> StrongRefs = {p}
  BY <1>2
<1>5. mStrong' = 0 <=> mStrong = 1
  BY <1>1
<1>6. mStrong = 1 <=> StrongRefs = {p}
  BY <1>1, LastOne
<1>7. mStrong' = 0 <=> StrongRefs' = {}
  BY <1>4, <1>5, <1>6
<1> QED
  BY <1>1, <1>2, <1>3, <1>7 DEF Shared!Disown

LEMMA LetGoStep == ASSUME IInv, NEW p \in Pointers, DecWeak(p) PROVE Shared!LetGo(p)
<1> USE DEF Uncounted
<1>1. /\ implFrees = 0 /\ ~Fresh /\ TypeOK /\ pc[p] = "decWeak"
      /\ UNCHANGED <<mStrong, mFlags, objectFrees, implFrees>>
      /\ Goto(p, IF mWeak = 1 THEN "lastWeak" ELSE "null")
  BY InUse DEF DecWeak, Done
<1>2. /\ StrongRefs' = StrongRefs /\ WeakRefs' = WeakRefs \ {p}
      /\ p \in WeakRefs /\ p \notin StrongRefs
      /\ pc'[p] = IF mWeak = 1 THEN "lastWeak" ELSE "null"
  BY <1>1, SetsStep DEF Places, Acquired
<1>3. ~Fresh'
  <2>1. CASE mWeak = 1
    BY <1>2, <2>1 DEF Fresh, At
  <2>2. CASE mWeak # 1
    <3>1. PICK q \in Pointers \ {p} : q \in WeakRefs
      BY <1>2, <2>2, LastOne DEF WeakRefs, At
    <3>2. pc'[q] # "null"
      BY <1>1, <3>1 DEF TypeOK, Goto, WeakRefs, At
    <3> QED
      BY <3>2 DEF Fresh, At
  <2> QED
    BY <2>1, <2>2
<1> QED
  BY <1>1, <1>2, <1>3 DEF Shared!LetGo

\* The thread that took the strong count to 0 deletes an object whose lifetime is
\* not extended.
LEMMA DeleteStep ==
    ASSUME IInv, NEW p \in Pointers, LastStrong(p)
    PROVE  IF mFlags = "STRONG" THEN Shared!Delete ELSE UNCHANGED Shared!vars
<1> USE DEF Uncounted
<1>1. /\ implFrees = 0 /\ ~Fresh /\ TypeOK /\ pc[p] = "lastStrong" /\ objectFrees = 0
      /\ mFlags \in {"STRONG", "WEAK"} /\ INITIAL_STRONG_VALUE \in Nat \ {0}
      /\ UNCHANGED <<mStrong, mFlags>> /\ Goto(p, "decWeak")
  BY InUse DEF LastStrong
<1>2. StrongRefs' = StrongRefs /\ WeakRefs' = WeakRefs /\ pc'[p] # "null"
  BY <1>1, SetsStep DEF Places, Acquired, Releasing
<1>3. ~Fresh'
  BY <1>2 DEF Fresh, At
<1>4. CASE mFlags = "STRONG"
  <2>1. mStrong = 0
    BY <1>1, <1>4 DEF IInv, FreesOK, At
  <2>2. StrongRefs = {}
    BY <2>1, LastOne
  <2>3. objectFrees' = 1 /\ implFrees' = 0
    BY <1>1, <1>4, <2>1 DEF LastStrong, Delete, DestructorFreesImpl
  <2> QED
    BY <1>1, <1>2, <1>3, <1>4, <2>1, <2>2, <2>3 DEF Shared!Delete
<1>5. CASE mFlags # "STRONG"
  <2>1. UNCHANGED <<objectFrees, implFrees>>
    BY <1>5 DEF LastStrong
  <2> QED
    BY <1>1, <1>2, <1>3, <1>5, <2>1 DEF Shared!vars
<1> QED
  BY <1>4, <1>5

\* Whoever finds that nobody holds the object any more frees what is left.
LEMMA FreeStep == ASSUME IInv, IInv', NEW p \in Pointers, LastWeak(p) PROVE Shared!Free
<1> USE DEF Uncounted
<1>1. /\ implFrees = 0 /\ ~Fresh /\ TypeOK /\ pc[p] = "lastWeak" /\ mStrong \in Nat
      /\ mFlags \in {"STRONG", "WEAK"}
      /\ UNCHANGED <<mStrong, mWeak, mFlags>> /\ Goto(p, "null")
  BY InUse DEF LastWeak
<1>2. StrongRefs' = StrongRefs /\ WeakRefs' = WeakRefs
  BY <1>1, SetsStep DEF Places, Acquired
<1>3. \A q \in Pointers : pc[q] \in {"null", "lastWeak"}
  BY <1>1 DEF IInv, AloneOK, Alone
<1>4. WeakRefs = {} /\ At({"lastStrong"}) = {}
  BY <1>3 DEF WeakRefs, At
<1>5. mWeak = 0
  BY <1>4, LastOne
<1>6. implFrees' = 1
  <2>1. CASE mFlags = "WEAK" \/ mStrong = INITIAL_STRONG_VALUE
    BY <1>1, <1>5, <2>1 DEF LastWeak, Delete, DestructorFreesImpl
  <2>2. CASE ~(mFlags = "WEAK" \/ mStrong = INITIAL_STRONG_VALUE)
    BY <1>1, <2>2 DEF LastWeak
  <2> QED
    BY <2>1, <2>2
<1>7. objectFrees' = 1
  BY <1>6 DEF IInv, FreesOK
<1>8. mStrong = 0 /\ mFlags = "STRONG" => objectFrees = 1
  BY <1>4 DEF IInv, FreesOK
<1> QED
  BY <1>1, <1>2, <1>4, <1>6, <1>7, <1>8 DEF Shared!Free

\* All the rest is between two accesses: nobody holds or owns more or less.
LEMMA InnerStep ==
    ASSUME IInv, NEW p \in Pointers, NEW place \in Places, Goto(p, place),
           pc[p] \notin Uncounted, place \notin Uncounted,
           pc[p] \in {"strong"} \cup Acquired <=> place \in {"strong"} \cup Acquired,
           mStrong' = 0 <=> mStrong = 0, UNCHANGED <<mFlags, objectFrees, implFrees>>
    PROVE  UNCHANGED Shared!vars
<1> USE DEF Uncounted
<1>1. implFrees = 0 /\ ~Fresh /\ TypeOK
  BY InUse
<1>2. StrongRefs' = StrongRefs /\ WeakRefs' = WeakRefs /\ pc'[p] # "null"
  BY <1>1, SetsStep
<1>3. ~Fresh'
  BY <1>2 DEF Fresh, At
<1> QED
  BY <1>1, <1>2, <1>3 DEF Shared!vars

\* Reading the weak count, and a compare-and-swap of it that finds it changed.
LEMMA TryStep ==
    ASSUME IInv, NEW p \in Pointers,
           \/ AttemptIncWeak(p) \/ ReadWeak(p)
           \/ CasWeak(p) /\ Goto(p, "readWeak")
    PROVE  UNCHANGED Shared!vars
<1> USE DEF Uncounted
<1>1. /\ pc[p] \in {"null", "readWeak", "casWeak"} /\ TypeOK
      /\ UNCHANGED <<mStrong, mFlags, objectFrees, implFrees>>
      /\ \E place \in {"null", "readWeak", "casWeak"} : Goto(p, place)
  BY DEF AttemptIncWeak, ReadWeak, CasWeak, IInv, Done
<1>2. StrongRefs' = StrongRefs /\ WeakRefs' = WeakRefs
  BY <1>1, SetsStep DEF Places, Acquired
<1>3. PICK q \in Pointers \ {p} : pc[q] \in {"strong", "weak"}
  <2>1. CASE AttemptIncWeak(p)
    BY <2>1 DEF AttemptIncWeak, At
  <2>2. CASE ~AttemptIncWeak(p)
    BY <2>2, AttemptHasSource DEF ReadWeak, CasWeak
  <2> QED
    BY <2>1, <2>2
<1>4. pc'[q] = pc[q]
  BY <1>1, <1>3 DEF Goto, TypeOK
<1>5. ~Fresh /\ ~Fresh'
  BY <1>3, <1>4 DEF Fresh, At
<1> QED
  BY <1>1, <1>2, <1>5 DEF Shared!vars

\* Once a reference is counted the count is not the initial value alone.
LEMMA AcquiredIsCounted ==
    ASSUME IInv, NEW p \in Pointers, pc[p] \in Acquired
    PROVE  mStrong # INITIAL_STRONG_VALUE
<1>1. /\ StrongRefs \in SUBSET Pointers /\ p \in StrongRefs
      /\ INITIAL_STRONG_VALUE \in Nat /\ Cardinality(Pointers) < INITIAL_STRONG_VALUE
  BY RefBaseAssumption DEF StrongRefs, At
<1>2. /\ Cardinality(StrongRefs) \in Nat /\ Cardinality(Pointers) \in Nat
      /\ Cardinality(StrongRefs) # 0 /\ Cardinality(StrongRefs) <= Cardinality(Pointers)
  BY <1>1, RefBaseAssumption, FS_Subset, FS_CardinalityType, FS_EmptySet
<1>3. \/ mStrong = Cardinality(StrongRefs)
      \/ mStrong = INITIAL_STRONG_VALUE + Cardinality(StrongRefs)
  BY DEF IInv, CountsExact
<1> QED
  BY <1>1, <1>2, <1>3

\* Every atomic access is one step of the shared object, or none.
LEMMA SharedStep ==
    ASSUME CmpxchgStored = 0, RawOverWeak = FALSE, IInv, IInv', NEW p \in Pointers, Step(p)
    PROVE  [Shared!Next]_(Shared!vars)
<1> USE DEF Places, Acquired, Attempting, Releasing, Uncounted, Done
<1>0. /\ TypeOK /\ mStrong \in Nat /\ curCount[p] \in Nat
      /\ INITIAL_STRONG_VALUE \in Nat /\ INITIAL_STRONG_VALUE > 0
  <2>1. Cardinality(Pointers) \in Nat
    BY RefBaseAssumption, FS_CardinalityType
  <2> QED
    BY <2>1, RefBaseAssumption DEF IInv, TypeOK
<1>1. CASE IncStrong(p) \/ IncWeak(p) \/ AttemptIncStrong(p)
  BY <1>1, HoldStep DEF Shared!Next
<1>2. CASE IncStrongCount(p)
  <2>1. mStrong > 0 \/ mFlags = "WEAK"
    <3>1. CASE source[p] = NULL
      BY <1>0, <1>2, <3>1 DEF IncStrongCount, IInv, SourceOK
    <3>2. CASE source[p] # NULL
      <4>1. source[p] \in Pointers /\ (pc[source[p]] = "strong" \/ mFlags = "WEAK")
        BY <1>2, <3>2 DEF IncStrongCount, IInv, SourceOK, TypeOK
      <4> QED
        BY <4>1, LastOne
    <3> QED
      BY <3>1, <3>2
  <2>2. \E place \in {"strong", "firstRef"} : Goto(p, place)
    BY <1>2 DEF IncStrongCount
  <2>3. Shared!Own(p)
    BY <1>2, <2>1, <2>2, OwnStep DEF IncStrongCount
  <2> QED
    BY <2>3 DEF Shared!Next
<1>3. CASE FirstRef(p)
  <2>1. mStrong > INITIAL_STRONG_VALUE
    BY <1>3 DEF FirstRef, IInv, LocalsOK
  <2>2. mStrong' = 0 <=> mStrong = 0
    BY <1>0, <1>3, <2>1 DEF FirstRef
  <2> QED
    BY <1>3, <2>2, InnerStep DEF FirstRef
<1>4. CASE ReadCount(p) \/ RereadFirst(p) \/ FixUp(p) \/ ReleaseWeak(p)
  <2>1. /\ \E place \in {"casShared", "revive", "decWeak", "casFirst"} : Goto(p, place)
        /\ pc[p] \in {"attempt", "rereadFirst", "weak"}
        \/ /\ \E place \in {"casFixUp", "strong"} : Goto(p, place)
           /\ pc[p] = "fixUp"
    BY <1>4 DEF ReadCount, RereadFirst, FixUp, ReleaseWeak
  <2>2. UNCHANGED <<mStrong, mFlags, objectFrees, implFrees>>
    BY <1>4 DEF ReadCount, RereadFirst, FixUp, ReleaseWeak
  <2> QED
    BY <2>1, <2>2, InnerStep
<1>5. CASE CasShared(p)
  <2>1. curCount[p] # 0
    BY <1>5 DEF CasShared, IInv, LocalsOK
  <2>2. CASE mStrong = curCount[p]
    <3>1. Goto(p, "fixUp") /\ mStrong' = mStrong + 1
      BY <1>5, <2>2 DEF CasShared, Cmpxchg, CmpxchgBreaks
    <3>2. mStrong > 0
      BY <1>0, <2>1, <2>2
    <3>3. Shared!Own(p)
      BY <1>5, <3>1, <3>2, OwnStep DEF CasShared
    <3> QED
      BY <3>3 DEF Shared!Next
  <2>3. CASE mStrong # curCount[p]
    <3>1. Goto(p, "attempt") /\ mStrong' = mStrong
      BY <1>5, <2>3 DEF CasShared, Cmpxchg, CmpxchgBreaks
    <3> QED
      BY <1>5, <3>1, InnerStep DEF CasShared
  <2> QED
    BY <2>2, <2>3
<1>6. CASE CasFirst(p)
  <2>1. curCount[p] > 0
    BY <1>6 DEF CasFirst, IInv, LocalsOK
  <2>2. CASE mStrong = curCount[p]
    <3>1. Goto(p, "fixUp") /\ mStrong' = mStrong + 1
      BY <1>6, <2>2 DEF CasFirst, Cmpxchg, CmpxchgBreaks
    <3>2. Shared!Own(p)
      BY <1>6, <2>1, <2>2, <3>1, OwnStep DEF CasFirst
    <3> QED
      BY <3>2 DEF Shared!Next
  <2>3. CASE mStrong # curCount[p]
    <3>1. Goto(p, "rereadFirst") /\ mStrong' = mStrong
      BY <1>6, <2>3 DEF CasFirst, Cmpxchg, CmpxchgBreaks
    <3> QED
      BY <1>6, <3>1, InnerStep DEF CasFirst
  <2> QED
    BY <2>2, <2>3
<1>7. CASE Revive(p)
  <2>1. mFlags = "WEAK"
    BY <1>7 DEF Revive, IInv, LocalsOK
  <2>2. CASE mStrong' = mStrong + 1 /\ Goto(p, "fixUp")
    <3>1. Shared!Own(p)
      BY <1>7, <2>1, <2>2, OwnStep DEF Revive
    <3> QED
      BY <3>1 DEF Shared!Next
  <2>3. CASE mStrong' = mStrong /\ Goto(p, "decWeak")
    BY <1>7, <2>3, InnerStep DEF Revive
  <2> QED
    BY <1>7, <2>2, <2>3 DEF Revive
<1>8. CASE CasFixUp(p)
  <2>1. curCount[p] >= INITIAL_STRONG_VALUE /\ mStrong # INITIAL_STRONG_VALUE
    BY <1>8, AcquiredIsCounted DEF CasFixUp, IInv, LocalsOK
  <2>2. mStrong' = 0 <=> mStrong = 0
    BY <1>0, <1>8, <2>1 DEF CasFixUp, Cmpxchg
  <2>3. \E place \in {"strong", "fixUp"} : Goto(p, place)
    BY <1>8 DEF CasFixUp
  <2> QED
    BY <1>8, <2>2, <2>3, InnerStep DEF CasFixUp
<1>9. CASE DecStrong(p)
  BY <1>9, DisownStep DEF Shared!Next
<1>10. CASE LastStrong(p)
  BY <1>10, DeleteStep DEF Shared!Next
<1>11. CASE DecWeak(p)
  BY <1>11, LetGoStep DEF Shared!Next
<1>12. CASE LastWeak(p)
  BY <1>12, FreeStep DEF Shared!Next
<1>13. CASE AttemptIncWeak(p) \/ ReadWeak(p)
  BY <1>13, TryStep
<1>14. CASE CasWeak(p)
  <2>1. Goto(p, "weak") \/ Goto(p, "readWeak")
    BY <1>14 DEF CasWeak
  <2> QED
    BY <1>14, <2>1, HoldStep, TryStep DEF Shared!Next
<1> QED
  BY <1>1, <1>2, <1>3, <1>4, <1>5, <1>6, <1>7, <1>8, <1>9, <1>10, <1>11, <1>12,
     <1>13, <1>14
     DEF Step, Acquire, Promote, Release

LEMMA SharedInit == Init => Shared!Init
<1> SUFFICES ASSUME Init PROVE Shared!Init
  OBVIOUS
<1>1. /\ StrongRefs = {} /\ WeakRefs = {} /\ Fresh
      /\ mStrong # 0 /\ objectFrees = 0 /\ ~(implFrees > 0)
  <2>1. \A p \in Pointers : pc[p] = "null"
    BY DEF Init
  <2>2. Cardinality(Pointers) \in Nat
    BY RefBaseAssumption, FS_CardinalityType
  <2>3. mStrong # 0 /\ ~(implFrees > 0)
    BY <2>2, RefBaseAssumption DEF Init
  <2> QED
    BY <2>1, <2>3 DEF Init, StrongRefs, WeakRefs, At, Acquired, Uncounted, Fresh
<1> QED
  BY <1>1 DEF Shared!Init

\* RefBase with its counters, interleaved at every atomic access, implements the
\* object of SharedObject: it lives while it is owned, or held where its lifetime
\* is extended, is owned again after its last owner only then, and goes once.
THEOREM CountsImplementSharing ==
    ASSUME CmpxchgStored = 0, RawOverWeak = FALSE
    PROVE  Spec => RefinesSharedObject
<1>1. IInv /\ IInv' /\ [Next]_vars => [Shared!Next]_(Shared!vars)
  <2> SUFFICES ASSUME IInv, IInv', [Next]_vars PROVE [Shared!Next]_(Shared!vars)
    OBVIOUS
  <2>1. CASE Next
    BY <2>1, SharedStep DEF Next, Step
  <2>2. CASE UNCHANGED vars
    BY <2>2 DEF vars, Shared!vars, StrongRefs, WeakRefs, At, Fresh
  <2> QED
    BY <2>1, <2>2
<1>2. Spec => []IInv
  BY Invariant
<1> QED
  BY <1>1, <1>2, SharedInit, PTL DEF Spec, RefinesSharedObject, Shared!Spec
=============================================================================
