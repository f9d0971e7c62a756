---------------------------- MODULE Lists_proofs ----------------------------
(***************************************************************************)
(* The lists of Queue.hpp and of VmQueue.cpp are FIFO queues for every set *)
(* of queues and items, and an iterator of CQueue does not leave its queue.*)
(*                                                                         *)
(* First, each of the three surgeries of LinkedList keeps the links, the   *)
(* counter and the marks in agreement with the order of the items.  The    *)
(* calls of CQueue and of VmQueue, which are two specifications over the   *)
(* same lists, then have only to say which surgery they make.              *)
(***************************************************************************)
EXTENDS CQueue, VmQueue, TLAPS

\* Everything that holds of the lists between two calls.
ListInv == TypeOK /\ LinksSpellOrder /\ LengthIsExact /\ MembersKnowQueue

USE ListAssumption DEF ListAssumption

\* An item at a position of a queue is marked with that queue.
LEMMA ItemAt ==
    ASSUME ListInv, NEW q \in Queues, NEW k \in DOMAIN order[q]
    PROVE  /\ order[q][k] \in Items
           /\ mQueue[order[q][k]] = q
           /\ k \in 1..Len(order[q])
<1>1. order[q] \in Seq(Items)
  BY DEF ListInv, TypeOK
<1>2. k \in 1..Len(order[q]) /\ order[q][k] \in Items
  BY <1>1
<1>3. order[q][k] \in ToSet(order[q])
  BY <1>1, <1>2 DEF ToSet
<1> QED
  BY <1>2, <1>3 DEF ListInv, MembersKnowQueue

\* A position holds a node, and the marked items are the ones at the inner
\* positions.
LEMMA NodeAt ==
    ASSUME ListInv, NEW q \in Queues, NEW k \in Int
    PROVE  /\ At(q, k) \in Nodes
           /\ k \in 1..Len(order[q]) => At(q, k) \in Items /\ mQueue[At(q, k)] = q
           /\ k \notin 1..Len(order[q]) => At(q, k) = q
<1>1. order[q] \in Seq(Items)
  BY DEF ListInv, TypeOK
<1> QED
  BY <1>1, ItemAt DEF At, Nodes

\* A node is at one position of one queue.
LEMMA OnePosition ==
    ASSUME ListInv, NEW q \in Queues, NEW r \in Queues,
           NEW k \in 0..Len(order[q]), NEW l \in 0..Len(order[r]),
           At(q, k) = At(r, l)
    PROVE  q = r /\ k = l
<1>1. order[q] \in Seq(Items) /\ order[r] \in Seq(Items)
  BY DEF ListInv, TypeOK
<1>2. CASE k = 0
  BY <1>1, <1>2, NodeAt
<1>3. CASE k # 0
  <2>1. k \in DOMAIN order[q] /\ k \in 1..Len(order[q])
    BY <1>1, <1>3
  <2>2. l \in 1..Len(order[r]) /\ q = r
    BY <1>1, <2>1, NodeAt
  <2>3. order[q][k] = order[q][l]
    BY <1>1, <2>1, <2>2 DEF At
  <2> QED
    BY <1>1, <2>1, <2>2, <2>3 DEF ListInv, MembersKnowQueue, IsInjective
<1> QED
  BY <1>2, <1>3

\* The head points back to the last item, or to itself.
LEMMA LastAt ==
    ASSUME ListInv, NEW q \in Queues
    PROVE  /\ Len(order[q]) \in Nat
           /\ prev[q] = At(q, Len(order[q]))
           /\ next[q] = At(q, 1)
           /\ Len(order[q]) # 0 => next[next[q]] = At(q, 2)
<1>1. order[q] \in Seq(Items) /\ Len(order[q]) \in Nat
  BY DEF ListInv, TypeOK
<1>2. At(q, Len(order[q]) + 1) = q /\ At(q, 0) = q
  BY <1>1 DEF At
<1>3. \A k \in 0..Len(order[q]) :
         /\ next[At(q, k)] = At(q, k + 1)
         /\ prev[At(q, k + 1)] = At(q, k)
  BY DEF ListInv, LinksSpellOrder
<1> QED
  BY <1>1, <1>2, <1>3

\* Linking an unmarked item behind the last one.
LEMMA LinkLastKeepsInv ==
    ASSUME ListInv, NEW q \in Queues, NEW i \in Items,
           mQueue[i] = NULL, LinkLast(q, i)
    PROVE  ListInv'
<1> DEFINE s == order[q]
           n == Len(s)
<1>1. /\ \A r \in Queues : order[r] \in Seq(Items) /\ Len(order[r]) \in Nat
      /\ n \in Nat
  BY DEF ListInv, TypeOK
<1>2. prev[q] = At(q, n) /\ prev[q] \in Nodes
  BY <1>1, LastAt, NodeAt
<1>3. TypeOK'
  <2>1. q \in Nodes /\ i \in Nodes
    BY DEF Nodes
  <2>2. next' \in [Nodes -> Nodes \cup {NULL}] /\ prev' \in [Nodes -> Nodes \cup {NULL}]
    BY <1>2, <2>1 DEF ListInv, TypeOK, LinkLast
  <2>3. Append(s, i) \in Seq(Items)
    BY <1>1
  <2>4. order' \in [Queues -> Seq(Items)]
    BY <2>3 DEF ListInv, TypeOK, LinkLast
  <2>5. mQueue' \in [Items -> Queues \cup {NULL}] /\ fLength' \in [Queues -> Int]
    BY DEF ListInv, TypeOK, LinkLast
  <2> QED
    BY <2>2, <2>4, <2>5 DEF TypeOK
<1>4. /\ order'[q] = Append(s, i) /\ Len(order'[q]) = n + 1
      /\ \A r \in Queues \ {q} : order'[r] = order[r]
  BY <1>1 DEF ListInv, TypeOK, LinkLast
<1>5. \A r \in Queues : \A k \in Int : At(r, k) # i
  BY NodeAt, <1>1 DEF Nodes
<1>6. /\ \A k \in 0..n : At(q, k)' = At(q, k)
      /\ \A k \in Int : k = n + 1 => At(q, k)' = i
      /\ \A k \in Int : k = n + 2 => At(q, k)' = q
      /\ \A r \in Queues \ {q} : \A k \in Int : At(r, k)' = At(r, k)
  <2>1. /\ DOMAIN order[q] = 1..n /\ DOMAIN order'[q] = 1..(n + 1)
        /\ order'[q][n + 1] = i
        /\ \A k \in 1..n : order'[q][k] = order[q][k]
    BY <1>1, <1>4
  <2>2. \A k \in 0..n : At(q, k)' = At(q, k)
    BY <1>1, <2>1 DEF At
  <2>3. /\ \A k \in Int : k = n + 1 => At(q, k)' = i
        /\ \A k \in Int : k = n + 2 => At(q, k)' = q
    BY <1>1, <2>1 DEF At
  <2>4. \A r \in Queues \ {q} : \A k \in Int : At(r, k)' = At(r, k)
    BY <1>4 DEF At
  <2> QED
    BY <2>2, <2>3, <2>4
<1>7. /\ \A m \in Nodes : next'[m] = IF m = i THEN q
                                     ELSE IF m = At(q, n) THEN i ELSE next[m]
      /\ \A m \in Nodes : prev'[m] = IF m = q THEN i
                                     ELSE IF m = i THEN At(q, n) ELSE prev[m]
  BY <1>2 DEF ListInv, TypeOK, LinkLast, Nodes
<1>8. LinksSpellOrder'
  <2> SUFFICES ASSUME NEW r \in Queues, NEW k \in 0..Len(order'[r])
               PROVE  /\ next'[At(r, k)'] = At(r, k + 1)'
                      /\ prev'[At(r, k + 1)'] = At(r, k)'
    BY DEF LinksSpellOrder
  <2>1. CASE r # q
    <3>1. k \in 0..Len(order[r]) /\ At(r, k) \in Nodes /\ At(r, k + 1) \in Nodes
      BY <1>1, <1>4, <2>1, NodeAt
    <3>2. At(r, k) # At(q, n)
      BY <1>1, <2>1, <3>1, OnePosition
    <3>3. At(r, k + 1) # q
      BY <1>1, <2>1, <3>1, NodeAt
    <3>4. At(r, k)' = At(r, k) /\ At(r, k + 1)' = At(r, k + 1)
      BY <1>6, <2>1, <3>1, <1>1
    <3>5. next[At(r, k)] = At(r, k + 1) /\ prev[At(r, k + 1)] = At(r, k)
      BY <3>1 DEF ListInv, LinksSpellOrder
    <3>6. At(r, k) # i /\ At(r, k + 1) # i
      BY <1>1, <1>5, <3>1
    <3> QED
      BY <1>7, <3>1, <3>2, <3>3, <3>4, <3>5, <3>6
  <2>2. CASE r = q /\ k < n
    <3>1. k \in 0..n /\ k + 1 \in 0..n /\ k # n /\ k + 1 # 0
      BY <1>1, <1>4, <2>2
    <3>2. At(q, k) \in Nodes /\ At(q, k + 1) \in Nodes
      BY <3>1, NodeAt
    <3>3. At(q, k) # At(q, n)
      BY <1>1, <3>1, OnePosition
    <3>4. At(q, k + 1) # q
      BY <1>1, <3>1, NodeAt
    <3>5. next[At(q, k)] = At(q, k + 1) /\ prev[At(q, k + 1)] = At(q, k)
      BY <3>1 DEF ListInv, LinksSpellOrder
    <3>6. At(q, k) # i /\ At(q, k + 1) # i
      BY <1>1, <1>5, <3>1
    <3> QED
      BY <1>6, <1>7, <2>2, <3>1, <3>2, <3>3, <3>4, <3>5, <3>6
  <2>3. CASE r = q /\ k = n
    <3>1. At(q, k) \in Nodes /\ At(q, k) # i /\ i \in Nodes /\ i # q
      BY <1>1, <1>5, <2>3, NodeAt DEF Nodes
    <3>2. At(q, k)' = At(q, k) /\ At(q, k + 1)' = i
      BY <1>1, <1>6, <2>3
    <3> QED
      BY <1>7, <2>3, <3>1, <3>2
  <2>4. CASE r = q /\ k = n + 1
    <3>1. i \in Nodes /\ q \in Nodes /\ i # q
      BY DEF Nodes
    <3>2. At(q, k)' = i /\ At(q, k + 1)' = q
      <4>1. k \in Int /\ k + 1 \in Int /\ k + 1 = n + 2
        BY <1>1, <2>4
      <4> QED
        BY <1>6, <2>4, <4>1
    <3> QED
      BY <1>7, <2>4, <3>1, <3>2
  <2> QED
    BY <1>1, <1>4, <2>1, <2>2, <2>3, <2>4
<1>9. LengthIsExact'
  BY <1>1, <1>4 DEF ListInv, TypeOK, LengthIsExact, LinkLast
<1>10. MembersKnowQueue'
  <2> SUFFICES ASSUME NEW r \in Queues
               PROVE  /\ IsInjective(order'[r])
                      /\ \A j \in ToSet(order'[r]) : mQueue'[j] = r
    BY DEF MembersKnowQueue
  <2>1. IsInjective(order[r]) /\ \A j \in ToSet(order[r]) : mQueue[j] = r
    BY DEF ListInv, MembersKnowQueue
  <2>2. /\ i \notin ToSet(order[r])
        /\ \A j \in Items : mQueue'[j] = IF j = i THEN q ELSE mQueue[j]
    BY <2>1 DEF ListInv, TypeOK, LinkLast
  <2>3. CASE r # q
    BY <1>1, <1>4, <2>1, <2>2, <2>3 DEF ToSet
  <2>4. CASE r = q
    <3>1. \A k \in 1..n : Append(s, i)[k] = s[k] /\ s[k] \in ToSet(s) /\ s[k] # i
      BY <1>1, <2>2, <2>4 DEF ToSet
    <3>2. Append(s, i)[n + 1] = i /\ DOMAIN Append(s, i) = 1..(n + 1)
          /\ DOMAIN s = 1..n
      BY <1>1
    <3>3. IsInjective(Append(s, i))
      BY <1>1, <2>1, <2>4, <3>1, <3>2 DEF IsInjective
    <3>4. \A j \in ToSet(Append(s, i)) : j = i \/ j \in ToSet(s)
      BY <1>1, <3>1, <3>2 DEF ToSet
    <3> QED
      <4>1. \A j \in ToSet(s) : j \in Items
        BY <1>1, <3>2 DEF ToSet
      <4> QED
        BY <1>4, <2>1, <2>2, <2>4, <3>3, <3>4, <4>1
  <2> QED
    BY <2>3, <2>4
<1> QED
  BY <1>3, <1>8, <1>9, <1>10 DEF ListInv

\* The same for the positions that follow a node.
LEMMA OnePositionAfter ==
    ASSUME ListInv, NEW q \in Queues, NEW r \in Queues,
           NEW k \in 1..Len(order[q]) + 1, NEW l \in 1..Len(order[r]) + 1,
           At(q, k) = At(r, l)
    PROVE  q = r /\ k = l
<1>1. order[q] \in Seq(Items) /\ order[r] \in Seq(Items)
  BY DEF ListInv, TypeOK
<1>2. k \in Int /\ l \in Int /\ Len(order[q]) \in Nat /\ Len(order[r]) \in Nat
  BY <1>1
<1>3. CASE k \in 1..Len(order[q])
  <2>1. l \in 1..Len(order[r]) /\ q = r
    BY <1>2, <1>3, NodeAt
  <2>2. k \in 0..Len(order[q]) /\ l \in 0..Len(order[r])
    BY <1>2, <1>3, <2>1
  <2> QED
    BY <2>2, OnePosition
<1>4. CASE k = Len(order[q]) + 1
  <2>1. k \notin 1..Len(order[q])
    BY <1>2, <1>4
  <2>2. At(r, l) = q
    BY <1>2, <2>1, NodeAt
  <2>3. l \notin 1..Len(order[r])
    BY <1>2, <2>2, NodeAt
  <2>4. l = Len(order[r]) + 1 /\ At(r, l) = r
    BY <1>2, <2>3, NodeAt
  <2> QED
    BY <1>4, <2>2, <2>4
<1> QED
  BY <1>2, <1>3, <1>4

\* The concatenation of two sequences.
LEMMA ConcatIs ==
    ASSUME NEW S, NEW a \in Seq(S), NEW b \in Seq(S)
    PROVE  /\ a \o b \in Seq(S)
           /\ Len(a \o b) = Len(a) + Len(b)
           /\ \A k \in 1..Len(a) + Len(b) :
                 (a \o b)[k] = IF k <= Len(a) THEN a[k] ELSE b[k - Len(a)]
<1> QED
  OBVIOUS

\* What RemoveAt leaves of a sequence.
LEMMA RemoveAtIs ==
    ASSUME NEW S, NEW s \in Seq(S), NEW p \in 1..Len(s)
    PROVE  /\ RemoveAt(s, p) \in Seq(S)
           /\ Len(RemoveAt(s, p)) = Len(s) - 1
           /\ \A k \in 1..Len(s) - 1 :
                 RemoveAt(s, p)[k] = IF k < p THEN s[k] ELSE s[k + 1]
<1> DEFINE a == SubSeq(s, 1, p - 1)
           b == SubSeq(s, p + 1, Len(s))
<1>1. a \in Seq(S) /\ Len(a) = p - 1 /\ \A k \in 1..p - 1 : a[k] = s[k]
  OBVIOUS
<1>2. b \in Seq(S) /\ Len(b) = Len(s) - p
      /\ \A k \in 1..Len(s) - p : b[k] = s[p + k]
  OBVIOUS
<1>3. RemoveAt(s, p) = a \o b
  BY DEF RemoveAt
<1> HIDE DEF a, b
<1>4. \A k \in 1..Len(s) - 1 :
         (a \o b)[k] = IF k < p THEN a[k] ELSE b[k - (p - 1)]
  BY <1>1, <1>2, ConcatIs
<1>5. \A k \in 1..Len(s) - 1 :
         (a \o b)[k] = IF k < p THEN s[k] ELSE s[k + 1]
  <2> SUFFICES ASSUME NEW k \in 1..Len(s) - 1
               PROVE  (a \o b)[k] = IF k < p THEN s[k] ELSE s[k + 1]
    OBVIOUS
  <2>1. CASE k < p
    BY <1>1, <1>4, <2>1
  <2>2. CASE ~(k < p)
    <3>1. k - (p - 1) \in 1..Len(s) - p /\ p + (k - (p - 1)) = k + 1
      BY <2>2
    <3> QED
      BY <1>2, <1>4, <2>2, <3>1
  <2> QED
    BY <2>1, <2>2
<1>6. a \o b \in Seq(S) /\ Len(a \o b) = Len(s) - 1
  <2>1. a \o b \in Seq(S) /\ Len(a \o b) = Len(a) + Len(b)
    BY <1>1, <1>2, ConcatIs
  <2>2. (p - 1) + (Len(s) - p) = Len(s) - 1
    OBVIOUS
  <2> QED
    BY <1>1, <1>2, <2>1, <2>2
<1> QED
  BY <1>3, <1>5, <1>6

\* Unlinking the item at position p of its queue.
LEMMA UnlinkKeepsInv ==
    ASSUME ListInv, NEW q \in Queues, NEW p \in 1..Len(order[q]),
           NEW i \in Items, i = order[q][p], Unlink(q, i)
    PROVE  /\ ListInv'
           /\ order' = [order EXCEPT ![q] = RemoveAt(@, p)]
<1> DEFINE s == order[q]
           n == Len(s)
<1>1. /\ \A r \in Queues : order[r] \in Seq(Items) /\ Len(order[r]) \in Nat
      /\ n \in Nat /\ DOMAIN s = 1..n /\ IsInjective(s)
  BY DEF ListInv, TypeOK, MembersKnowQueue
<1>2. (CHOOSE k \in DOMAIN s : s[k] = i) = p
  BY <1>1 DEF IsInjective
<1>3. order' = [order EXCEPT ![q] = RemoveAt(@, p)]
  BY <1>2 DEF Unlink
<1>4. /\ RemoveAt(s, p) \in Seq(Items) /\ Len(RemoveAt(s, p)) = n - 1
      /\ \A k \in 1..n - 1 : RemoveAt(s, p)[k] = IF k < p THEN s[k] ELSE s[k + 1]
  BY <1>1, RemoveAtIs
<1>5. /\ order'[q] = RemoveAt(s, p)
      /\ \A r \in Queues \ {q} : order'[r] = order[r]
      /\ DOMAIN order'[q] = 1..n - 1 /\ Len(order'[q]) = n - 1
  <2>1. order'[q] = RemoveAt(s, p)
    BY <1>3 DEF ListInv, TypeOK
  <2>2. \A r \in Queues \ {q} : order'[r] = order[r]
    BY <1>3 DEF ListInv, TypeOK
  <2>3. DOMAIN RemoveAt(s, p) = 1..Len(RemoveAt(s, p))
    BY <1>4
  <2> QED
    BY <1>4, <2>1, <2>2, <2>3
<1>6. /\ At(q, p) = i
      /\ prev[i] = At(q, p - 1) /\ next[i] = At(q, p + 1)
      /\ At(q, p - 1) \in Nodes /\ At(q, p + 1) \in Nodes
  <2>1. /\ next[At(q, p)] = At(q, p + 1)
        /\ prev[At(q, (p - 1) + 1)] = At(q, p - 1)
    <3>1. p \in 0..n /\ p - 1 \in 0..n
      BY <1>1
    <3> QED
      BY <3>1 DEF ListInv, LinksSpellOrder
  <2>2. At(q, p) = i /\ (p - 1) + 1 = p
    BY <1>1 DEF At
  <2> QED
    BY <1>1, <2>1, <2>2, NodeAt
<1>7. /\ \A m \in Nodes : next'[m] = IF m = At(q, p - 1) THEN At(q, p + 1) ELSE next[m]
      /\ \A m \in Nodes : prev'[m] = IF m = At(q, p + 1) THEN At(q, p - 1) ELSE prev[m]
  BY <1>6 DEF ListInv, TypeOK, Unlink
<1>8. /\ \A k \in 0..n : At(q, k)' = IF k < p THEN At(q, k) ELSE At(q, k + 1)
      /\ \A r \in Queues \ {q} : \A k \in Int : At(r, k)' = At(r, k)
  <2>1. \A r \in Queues \ {q} : \A k \in Int : At(r, k)' = At(r, k)
    BY <1>5 DEF At
  <2>2. ASSUME NEW k \in 0..n
        PROVE  At(q, k)' = IF k < p THEN At(q, k) ELSE At(q, k + 1)
    <3>1. CASE k \in 1..n - 1
      <4>1. At(q, k)' = IF k < p THEN s[k] ELSE s[k + 1]
        BY <1>4, <1>5, <3>1 DEF At
      <4>2. At(q, k) = s[k] /\ At(q, k + 1) = s[k + 1]
        BY <1>1, <3>1 DEF At
      <4> QED
        BY <4>1, <4>2
    <3>2. CASE k \notin 1..n - 1
      <4>1. At(q, k)' = q
        BY <1>5, <3>2 DEF At
      <4>2. IF k < p THEN At(q, k) = q ELSE At(q, k + 1) = q
        BY <1>1, <3>2 DEF At
      <4> QED
        BY <4>1, <4>2
    <3> QED
      BY <3>1, <3>2
  <2> QED
    BY <2>1, <2>2
<1>9. TypeOK'
  <2>1. next' \in [Nodes -> Nodes \cup {NULL}] /\ prev' \in [Nodes -> Nodes \cup {NULL}]
    BY <1>6 DEF ListInv, TypeOK, Unlink
  <2>2. order' \in [Queues -> Seq(Items)]
    BY <1>3, <1>4 DEF ListInv, TypeOK
  <2>3. mQueue' \in [Items -> Queues \cup {NULL}] /\ fLength' \in [Queues -> Int]
    BY DEF ListInv, TypeOK, Unlink
  <2> QED
    BY <2>1, <2>2, <2>3 DEF TypeOK
<1>10. LinksSpellOrder'
  <2> SUFFICES ASSUME NEW r \in Queues, NEW k \in 0..Len(order'[r])
               PROVE  /\ next'[At(r, k)'] = At(r, k + 1)'
                      /\ prev'[At(r, k + 1)'] = At(r, k)'
    BY DEF LinksSpellOrder
  <2>0. \A j \in 0..Len(order[r]) :
           /\ At(r, j) \in Nodes /\ At(r, j + 1) \in Nodes
           /\ next[At(r, j)] = At(r, j + 1)
           /\ prev[At(r, j + 1)] = At(r, j)
    BY <1>1, NodeAt DEF ListInv, LinksSpellOrder
  <2>1. CASE r # q
    <3>1. k \in 0..Len(order[r]) /\ p - 1 \in 0..n /\ p + 1 \in 1..n + 1
          /\ k + 1 \in 1..Len(order[r]) + 1
      BY <1>1, <1>5, <2>1
    <3>2. At(r, k) # At(q, p - 1)
      BY <2>1, <3>1, OnePosition
    <3>3. At(r, k + 1) # At(q, p + 1)
      BY <2>1, <3>1, OnePositionAfter
    <3>4. At(r, k)' = At(r, k) /\ At(r, k + 1)' = At(r, k + 1)
      BY <1>1, <1>8, <2>1, <3>1
    <3> QED
      BY <1>7, <2>0, <3>1, <3>2, <3>3, <3>4
  <2>2. CASE r = q /\ k < p - 1
    <3>1. k \in 0..n /\ p - 1 \in 0..n /\ p + 1 \in 1..n + 1 /\ k + 1 \in 1..n + 1
          /\ k + 1 \in 0..n /\ k < p /\ k + 1 < p /\ k + 1 # p + 1 /\ k # p - 1
      BY <1>1, <1>5, <2>2
    <3>2. At(q, k) # At(q, p - 1)
      BY <3>1, OnePosition
    <3>3. At(q, k + 1) # At(q, p + 1)
      BY <3>1, OnePositionAfter
    <3>4. At(q, k)' = At(q, k) /\ At(q, k + 1)' = At(q, k + 1)
      BY <1>8, <3>1
    <3> QED
      BY <1>7, <2>0, <2>2, <3>1, <3>2, <3>3, <3>4
  <2>3. CASE r = q /\ k = p - 1
    <3>1. k \in 0..n /\ k + 1 \in 0..n /\ k < p /\ ~(k + 1 < p)
          /\ (k + 1) + 1 = p + 1
      BY <1>1, <1>5, <2>3
    <3>2. At(q, k)' = At(q, p - 1) /\ At(q, k + 1)' = At(q, p + 1)
      BY <1>8, <2>3, <3>1
    <3> QED
      BY <1>6, <1>7, <2>3, <3>2
  <2>4. CASE r = q /\ ~(k < p)
    <3>1. k \in 0..n /\ k + 1 \in 0..n /\ ~(k + 1 < p) /\ (k + 1) + 1 \in 1..n + 1
          /\ p - 1 \in 0..n /\ p + 1 \in 1..n + 1
          /\ k + 1 # p - 1 /\ (k + 1) + 1 # p + 1
      BY <1>1, <1>5, <2>4
    <3>2. At(q, k + 1) # At(q, p - 1)
      BY <3>1, OnePosition
    <3>3. At(q, (k + 1) + 1) # At(q, p + 1)
      BY <3>1, OnePositionAfter
    <3>4. At(q, k)' = At(q, k + 1) /\ At(q, k + 1)' = At(q, (k + 1) + 1)
      BY <1>8, <2>4, <3>1
    <3> QED
      BY <1>7, <2>0, <2>4, <3>1, <3>2, <3>3, <3>4
  <2>5. k < p - 1 \/ k = p - 1 \/ ~(k < p)
    BY <1>1, <1>5
  <2> QED
    BY <2>1, <2>2, <2>3, <2>4, <2>5
<1>11. LengthIsExact'
  BY <1>1, <1>5 DEF ListInv, TypeOK, LengthIsExact, Unlink
<1>12. MembersKnowQueue'
  <2> SUFFICES ASSUME NEW r \in Queues
               PROVE  /\ IsInjective(order'[r])
                      /\ \A j \in ToSet(order'[r]) : mQueue'[j] = r
    BY DEF MembersKnowQueue
  <2>1. IsInjective(order[r]) /\ \A j \in ToSet(order[r]) : j \in Items /\ mQueue[j] = r
    BY <1>1 DEF ListInv, MembersKnowQueue, ToSet
  <2>2. \A j \in Items : mQueue'[j] = IF j = i THEN NULL ELSE mQueue[j]
    BY DEF ListInv, TypeOK, Unlink
  <2>3. CASE r # q
    <3>1. mQueue[i] = q
      BY <1>1, ItemAt
    <3>2. order'[r] = order[r]
      BY <1>5, <2>3
    <3> QED
      BY <2>1, <2>2, <2>3, <3>1, <3>2
  <2>4. CASE r = q
    <3> DEFINE t == RemoveAt(s, p)
    <3>1. \A k \in 1..n - 1 : \E j \in 1..n :
             /\ t[k] = s[j] /\ j # p /\ j = IF k < p THEN k ELSE k + 1
      <4> SUFFICES ASSUME NEW k \in 1..n - 1
                   PROVE  LET j == IF k < p THEN k ELSE k + 1
                          IN  j \in 1..n /\ t[k] = s[j] /\ j # p
        OBVIOUS
      <4> QED
        BY <1>1, <1>4
    <3>2. IsInjective(t)
      <4> SUFFICES ASSUME NEW a \in 1..n - 1, NEW b \in 1..n - 1, t[a] = t[b]
                   PROVE  a = b
        BY <1>5 DEF IsInjective
      <4>1. PICK j \in 1..n : t[a] = s[j] /\ j = IF a < p THEN a ELSE a + 1
        BY <3>1
      <4>2. PICK l \in 1..n : t[b] = s[l] /\ l = IF b < p THEN b ELSE b + 1
        BY <3>1
      <4>3. j = l
        BY <1>1, <4>1, <4>2 DEF IsInjective
      <4> QED
        BY <1>1, <4>1, <4>2, <4>3
    <3>3. \A j \in ToSet(t) : j \in ToSet(s) /\ j # i
      <4> SUFFICES ASSUME NEW k \in 1..n - 1
                   PROVE  t[k] \in ToSet(s) /\ t[k] # i
        BY <1>5 DEF ToSet
      <4>1. PICK j \in 1..n : t[k] = s[j] /\ j # p
        BY <3>1
      <4> QED
        BY <1>1, <4>1 DEF IsInjective, ToSet
    <3> QED
      BY <1>5, <2>1, <2>2, <2>4, <3>2, <3>3
  <2> QED
    BY <2>3, <2>4
<1> QED
  BY <1>3, <1>9, <1>10, <1>11, <1>12 DEF ListInv

\* Unlinking the first item is unlinking the item at position 1.
LEMMA UnlinkFirstIsUnlink ==
    ASSUME ListInv, NEW q \in Queues, Len(order[q]) # 0, UnlinkFirst(q)
    PROVE  /\ 1 \in 1..Len(order[q])
           /\ next[q] = order[q][1] /\ next[q] \in Items
           /\ Unlink(q, next[q])
           /\ RemoveAt(order[q], 1) = SubSeq(order[q], 2, Len(order[q]))
<1> DEFINE s == order[q]
           n == Len(s)
<1>1. /\ s \in Seq(Items) /\ n \in Nat \ {0} /\ 1 \in 1..n /\ DOMAIN s = 1..n
      /\ IsInjective(s)
  BY DEF ListInv, TypeOK, MembersKnowQueue
<1>2. next[q] = s[1] /\ s[1] \in Items /\ At(q, 1) = s[1] /\ At(q, 0) = q
  BY <1>1, LastAt DEF At
<1>3. prev[s[1]] = q
  <2>1. prev[At(q, 0 + 1)] = At(q, 0)
    BY <1>1 DEF ListInv, LinksSpellOrder
  <2> QED
    BY <1>2, <2>1
<1>4. (CHOOSE k \in DOMAIN s : s[k] = s[1]) = 1
  BY <1>1 DEF IsInjective
<1>5. RemoveAt(s, 1) = SubSeq(s, 2, n)
  <2>1. SubSeq(s, 1, 0) = <<>>
    BY <1>1
  <2>2. RemoveAt(s, 1) = <<>> \o SubSeq(s, 2, n)
    BY <1>1, <2>1 DEF RemoveAt
  <2> QED
    BY <1>1, <2>2
<1>6. mQueue' = [mQueue EXCEPT ![s[1]] = NULL]
  BY <1>2 DEF UnlinkFirst, ListInv, TypeOK
<1>7. order' = [order EXCEPT ![q] =
                    RemoveAt(@, CHOOSE k \in DOMAIN @ : @[k] = s[1])]
  BY <1>4, <1>5 DEF UnlinkFirst
<1>8. Unlink(q, s[1])
  BY <1>2, <1>3, <1>6, <1>7 DEF UnlinkFirst, Unlink
<1> QED
  BY <1>1, <1>2, <1>5, <1>8

\* Who changes no list leaves them sound.
LEMMA UnchangedLists == ListInv /\ UNCHANGED links => ListInv'
  BY DEF links, ListInv, TypeOK, LinksSpellOrder, LengthIsExact, At,
         MembersKnowQueue

-----------------------------------------------------------------------------
(***************************************************************************)
(* CQueue.                                                                 *)
(***************************************************************************)

\* The inductive invariant: the lists are in order, marks and lists agree, and
\* the iterator stands on an item of its queue while it is followed.
CInv == CTypeOK /\ ListInv /\ QueueKnowsMembers /\ IteratorStaysInQueue

LEMMA CInitEstablishesInv == CInit => CInv
<1> SUFFICES ASSUME CInit PROVE CInv
  OBVIOUS
<1>1. CTypeOK
  BY DEF CInit, Init, CTypeOK, TypeOK, Nodes
<1>2. \A q \in Queues : order[q] = <<>> /\ next[q] = q /\ prev[q] = q
  BY DEF CInit, Init, Nodes
<1>3. LinksSpellOrder
  BY <1>2 DEF LinksSpellOrder, At
<1>4. LengthIsExact
  BY <1>2 DEF LengthIsExact, CInit, Init
<1>5. MembersKnowQueue
  BY <1>2 DEF MembersKnowQueue, IsInjective, ToSet
<1>6. QueueKnowsMembers /\ IteratorStaysInQueue
  BY DEF QueueKnowsMembers, IteratorStaysInQueue, CInit, Init
<1> QED
  BY <1>1, <1>3, <1>4, <1>5, <1>6 DEF CInv, ListInv, CTypeOK

\* What an item of a queue is.
LEMMA MemberPosition ==
    ASSUME CInv, NEW q \in Queues, NEW i \in ToSet(order[q])
    PROVE  /\ i \in Items /\ mQueue[i] = q
           /\ \E p \in 1..Len(order[q]) : order[q][p] = i
<1>1. ListInv /\ order[q] \in Seq(Items)
  BY DEF CInv, ListInv, TypeOK
<1>2. PICK p \in DOMAIN order[q] : order[q][p] = i
  BY DEF ToSet
<1> QED
  BY <1>1, <1>2, ItemAt

\* EnQueue of an item that is in no queue.
LEMMA LinkStep ==
    ASSUME CInv, NEW q \in Queues, NEW i \in Items,
           mQueue[i] = NULL, LinkLast(q, i), UNCHANGED <<result, iterator>>
    PROVE  CInv'
<1>1. ListInv'
  BY LinkLastKeepsInv DEF CInv
<1>2. CTypeOK'
  BY <1>1 DEF CInv, CTypeOK, ListInv, iterator
<1>3. /\ order[q] \in Seq(Items)
      /\ \A r \in Queues : ToSet(order[r]) \subseteq ToSet(order'[r])
      /\ i \in ToSet(order'[q])
  <2>1. /\ \A r \in Queues : order[r] \in Seq(Items)
        /\ order'[q] = Append(order[q], i)
        /\ \A r \in Queues \ {q} : order'[r] = order[r]
    BY DEF CInv, ListInv, TypeOK, LinkLast
  <2>2. ToSet(order[q]) \subseteq ToSet(Append(order[q], i))
        /\ i \in ToSet(Append(order[q], i))
    <3>1. /\ DOMAIN order[q] = 1..Len(order[q])
          /\ DOMAIN Append(order[q], i) = 1..Len(order[q]) + 1
          /\ Append(order[q], i)[Len(order[q]) + 1] = i
          /\ \A k \in 1..Len(order[q]) : Append(order[q], i)[k] = order[q][k]
          /\ Len(order[q]) \in Nat
      BY <2>1
    <3> HIDE DEF LinkLast
    <3> QED
      BY <3>1 DEF ToSet
  <2> QED
    BY <2>1, <2>2
<1>4. QueueKnowsMembers'
  <2>1. \A j \in Items : mQueue'[j] = IF j = i THEN q ELSE mQueue[j]
    BY DEF CInv, ListInv, TypeOK, LinkLast
  <2>2. \A j \in Items : mQueue[j] # NULL => mQueue[j] \in Queues
    BY DEF CInv, ListInv, TypeOK
  <2> QED
    BY <1>3, <2>1, <2>2 DEF CInv, QueueKnowsMembers
<1>5. IteratorStaysInQueue'
  BY <1>3 DEF CInv, CTypeOK, IteratorStaysInQueue, iterator
<1> QED
  BY <1>1, <1>2, <1>4, <1>5 DEF CInv

\* Taking an item out of the queue it is in.
LEMMA UnlinkStep ==
    ASSUME CInv, NEW q \in Queues, NEW i \in Items, mQueue[i] = q,
           Unlink(q, i), Untrack(i), result' \in Items \cup {NULL}
    PROVE  CInv' /\ order' = [order EXCEPT ![q] =
                                 RemoveAt(@, CHOOSE k \in DOMAIN @ : @[k] = i)]
<1>1. i \in ToSet(order[q]) /\ ListInv
  BY ListAssumption DEF CInv, QueueKnowsMembers
<1>2. PICK p \in 1..Len(order[q]) : order[q][p] = i
  BY <1>1, MemberPosition
<1>3. ListInv' /\ order' = [order EXCEPT ![q] = RemoveAt(@, p)]
  BY <1>1, <1>2, UnlinkKeepsInv
<1>4. CTypeOK'
  BY <1>3 DEF CInv, CTypeOK, ListInv, Untrack
<1>5. \A r \in Queues : \A j \in ToSet(order[r]) : j # i => j \in ToSet(order'[r])
  <2> DEFINE s == order[q]
  <2>1. /\ \A r \in Queues : order[r] \in Seq(Items)
        /\ order'[q] = RemoveAt(s, p)
        /\ \A r \in Queues \ {q} : order'[r] = order[r]
    BY <1>1, <1>3 DEF ListInv, TypeOK
  <2>2. /\ RemoveAt(s, p) \in Seq(Items) /\ Len(RemoveAt(s, p)) = Len(s) - 1
        /\ \A k \in 1..Len(s) - 1 :
              RemoveAt(s, p)[k] = IF k < p THEN s[k] ELSE s[k + 1]
    <3>1. s \in Seq(Items) /\ p \in 1..Len(s)
      BY <1>2, <2>1
    <3> HIDE DEF s
    <3> QED
      BY <3>1, RemoveAtIs
  <2>3. ASSUME NEW j \in ToSet(s), j # i PROVE j \in ToSet(RemoveAt(s, p))
    <3>1. PICK k \in DOMAIN s : s[k] = j
      BY DEF ToSet
    <3>2. k \in 1..Len(s) /\ Len(s) \in Nat /\ k # p
      BY <1>2, <2>1, <2>3, <3>1
    <3>3. \E l \in 1..Len(s) - 1 : RemoveAt(s, p)[l] = j
      <4>1. CASE k < p
        BY <2>2, <3>1, <3>2, <4>1
      <4>2. CASE p < k
        <5>1. k - 1 \in 1..Len(s) - 1 /\ ~(k - 1 < p) /\ (k - 1) + 1 = k
          BY <3>2, <4>2
        <5> QED
          BY <2>2, <3>1, <5>1
      <4> QED
        BY <3>2, <4>1, <4>2
    <3>4. DOMAIN RemoveAt(s, p) = 1..Len(s) - 1
      BY <2>2
    <3> QED
      BY <3>3, <3>4 DEF ToSet
  <2> QED
    BY <2>1, <2>3
<1>6. QueueKnowsMembers'
  <2>1. \A j \in Items : mQueue'[j] = IF j = i THEN NULL ELSE mQueue[j]
    BY DEF CInv, ListInv, TypeOK, Unlink
  <2>2. \A j \in Items : mQueue[j] # NULL => mQueue[j] \in Queues
    BY DEF CInv, ListInv, TypeOK
  <2> QED
    BY <1>5, <2>1, <2>2 DEF CInv, QueueKnowsMembers
<1>7. IteratorStaysInQueue'
  BY <1>5 DEF CInv, CTypeOK, IteratorStaysInQueue, Untrack
<1> QED
  BY <1>3, <1>4, <1>6, <1>7 DEF CInv, Unlink

\* DeQueue of a queue that is not empty takes its first item out.
LEMMA DeQueueStep ==
    ASSUME CInv, NEW q \in Queues, ~(fLength[q] <= 0), DeQueue(q)
    PROVE  /\ CInv'
           /\ Len(order[q]) # 0
           /\ result' = order[q][1]
           /\ order' = [order EXCEPT ![q] = SubSeq(@, 2, Len(@))]
<1>1. ListInv /\ Len(order[q]) # 0 /\ UnlinkFirst(q) /\ Untrack(next[q])
      /\ result' = next[q]
  BY DEF CInv, ListInv, LengthIsExact, DeQueue
<1>2. /\ 1 \in 1..Len(order[q]) /\ next[q] = order[q][1] /\ next[q] \in Items
      /\ Unlink(q, next[q])
  BY <1>1, UnlinkFirstIsUnlink
<1>3. mQueue[next[q]] = q
  <2>1. 1 \in DOMAIN order[q]
    BY <1>1, <1>2 DEF ListInv, TypeOK
  <2> QED
    BY <1>1, <1>2, <2>1, ItemAt
<1>4. CInv'
  BY <1>1, <1>2, <1>3, UnlinkStep
<1> QED
  BY <1>1, <1>2, <1>4 DEF UnlinkFirst

\* A successful Next of the iterator stays in the queue.
LEMMA IteratorStep ==
    ASSUME CInv, IteratorNext
    PROVE  CInv' /\ GoesToSuccessor
<1>1. /\ ListInv /\ queue \in Queues /\ fCurrentItem \in Nodes
      /\ fCurrentItem' = IF fCurrentItem = GetTailItem(queue) THEN NULL
                         ELSE next[fCurrentItem]
      /\ UNCHANGED <<links, result, queue, tracking>>
  BY DEF CInv, CTypeOK, IteratorNext
<1>2. ListInv' /\ QueueKnowsMembers'
  BY <1>1 DEF links, ListInv, TypeOK, LinksSpellOrder, LengthIsExact, At,
              MembersKnowQueue, QueueKnowsMembers, CInv
<1>3. CTypeOK'
  <2>1. next[fCurrentItem] \in Nodes \cup {NULL}
    BY <1>1 DEF ListInv, TypeOK
  <2> QED
    BY <1>1, <1>2, <2>1 DEF CInv, CTypeOK, ListInv
<1>4. ASSUME tracking
      PROVE  /\ fCurrentItem' = IF Position = Len(order[queue]) THEN NULL
                                ELSE order[queue][Position + 1]
             /\ fCurrentItem' \in ToSet(order[queue]) \cup {NULL}
  <2> DEFINE s == order[queue]
             k == Position
  <2>1. s \in Seq(Items) /\ Len(s) \in Nat /\ DOMAIN s = 1..Len(s)
    BY <1>1 DEF ListInv, TypeOK
  <2>2. fCurrentItem \in ToSet(s)
    BY <1>1, <1>4 DEF CInv, IteratorStaysInQueue, IteratorNext
  <2>3. k \in 1..Len(s) /\ s[k] = fCurrentItem
    BY <2>1, <2>2 DEF ToSet, Position
  <2> HIDE DEF k
  <2>4. fLength[queue] > 0 /\ GetTailItem(queue) = At(queue, Len(s))
    BY <1>1, <2>1, <2>3, LastAt DEF GetTailItem, ListInv, LengthIsExact
  <2>5. /\ k \in 0..Len(s) /\ Len(s) \in 0..Len(s)
        /\ At(queue, k) = fCurrentItem
        /\ next[fCurrentItem] = At(queue, k + 1)
    <3>1. k \in 0..Len(s)
      BY <2>1, <2>3
    <3> QED
      BY <1>1, <2>1, <2>3, <3>1 DEF ListInv, LinksSpellOrder, At
  <2>6. fCurrentItem = GetTailItem(queue) <=> k = Len(s)
    BY <1>1, <2>4, <2>5, OnePosition
  <2>7. k # Len(s) => At(queue, k + 1) = s[k + 1] /\ s[k + 1] \in ToSet(s)
    BY <2>1, <2>3 DEF At, ToSet
  <2>8. /\ fCurrentItem' = IF k = Len(s) THEN NULL ELSE s[k + 1]
        /\ fCurrentItem' \in ToSet(s) \cup {NULL}
    BY <1>1, <2>5, <2>6, <2>7
  <2> QED
    BY <2>8 DEF k
<1>5. IteratorStaysInQueue'
  BY <1>1, <1>4 DEF IteratorStaysInQueue, links
<1> QED
  BY <1>2, <1>3, <1>4, <1>5 DEF CInv, GoesToSuccessor

\* Starting an iterator.
LEMMA StartStep ==
    ASSUME CInv, NEW q \in Queues,
           IterateFromHead(q) \/ \E i \in Items \cup {NULL} : IterateFromItem(q, i)
    PROVE  CInv'
<1>1. UNCHANGED links /\ UNCHANGED result /\ queue' = q /\ ListInv
  BY DEF IterateFromHead, IterateFromItem, CInv
<1>2. ListInv' /\ QueueKnowsMembers'
  BY <1>1 DEF links, ListInv, TypeOK, LinksSpellOrder, LengthIsExact, At,
              MembersKnowQueue, QueueKnowsMembers, CInv
<1>3. order[q] \in Seq(Items) /\ DOMAIN order[q] = 1..Len(order[q])
      /\ Len(order[q]) \in Nat
  BY <1>1 DEF ListInv, TypeOK
<1>4. CASE IterateFromHead(q)
  <2>1. fCurrentItem' \in ToSet(order[q]) \cup {NULL} /\ tracking' = TRUE
    <3>1. CASE fLength[q] > 0
      <4>1. 1 \in DOMAIN order[q]
        BY <1>1, <1>3, <3>1 DEF ListInv, LengthIsExact
      <4>2. next[q] = order[q][1]
        BY <1>1, <4>1, LastAt DEF At
      <4> QED
        BY <1>4, <3>1, <4>1, <4>2 DEF IterateFromHead, GetHeadItem, ToSet
    <3>2. CASE ~(fLength[q] > 0)
      BY <1>4, <3>2 DEF IterateFromHead, GetHeadItem
    <3> QED
      BY <3>1, <3>2
  <2>2. ToSet(order[q]) \subseteq Items
    BY <1>3 DEF ToSet
  <2>3. CTypeOK'
    BY <1>1, <1>2, <2>1, <2>2 DEF CInv, CTypeOK, ListInv, Nodes
  <2>4. IteratorStaysInQueue'
    BY <1>1, <2>1 DEF IteratorStaysInQueue, links
  <2> QED
    BY <1>2, <2>3, <2>4 DEF CInv
<1>5. ASSUME NEW i \in Items \cup {NULL}, IterateFromItem(q, i) PROVE CInv'
  <2>1. CTypeOK'
    BY <1>1, <1>2, <1>5 DEF CInv, CTypeOK, ListInv, Nodes, IterateFromItem
  <2>2. i # NULL /\ mQueue[i] = q => i \in ToSet(order[q])
    BY ListAssumption DEF CInv, QueueKnowsMembers
  <2>3. IteratorStaysInQueue'
    BY <1>1, <1>5, <2>2 DEF IteratorStaysInQueue, IterateFromItem, links
  <2> QED
    BY <1>2, <2>1, <2>3 DEF CInv
<1> QED
  BY <1>4, <1>5

\* A call that leaves links and iterator alone.
LEMMA QuietStep ==
    ASSUME CInv, UNCHANGED <<links, iterator>>, result' \in Items \cup {NULL}
    PROVE  CInv'
<1>1. ListInv' /\ QueueKnowsMembers'
  BY DEF links, ListInv, TypeOK, LinksSpellOrder, LengthIsExact, At,
         MembersKnowQueue, QueueKnowsMembers, CInv
<1>2. CTypeOK' /\ IteratorStaysInQueue'
  BY <1>1 DEF CInv, CTypeOK, ListInv, IteratorStaysInQueue, iterator, links
<1> QED
  BY <1>1, <1>2 DEF CInv

LEMMA CNextKeepsInv == CInv /\ [CNext]_cvars => CInv'
<1> SUFFICES ASSUME CInv, [CNext]_cvars PROVE CInv'
  OBVIOUS
<1>0. result \in Items \cup {NULL} /\ \A i \in Items : mQueue[i] # NULL => mQueue[i] \in Queues
  BY DEF CInv, CTypeOK, TypeOK
<1>1. ASSUME NEW q \in Queues, NEW i \in Items, EnQueue(q, i) PROVE CInv'
  <2>1. CASE mQueue[i] # NULL
    BY <1>0, <1>1, <2>1, QuietStep DEF EnQueue, iterator, links
  <2>2. CASE mQueue[i] = NULL
    BY <1>1, <2>2, LinkStep DEF EnQueue
  <2> QED
    BY <2>1, <2>2
<1>2. ASSUME NEW q \in Queues, DeQueue(q) PROVE CInv'
  <2>1. CASE fLength[q] <= 0
    BY <1>2, <2>1, QuietStep DEF DeQueue, iterator, links
  <2>2. CASE ~(fLength[q] <= 0)
    BY <1>2, <2>2, DeQueueStep
  <2> QED
    BY <2>1, <2>2
<1>3. ASSUME NEW q \in Queues, NEW i \in Items, RemoveFrom(q, i) PROVE CInv'
  <2>1. CASE mQueue[i] # q
    BY <1>0, <1>3, <2>1, QuietStep DEF RemoveFrom, iterator, links
  <2>2. CASE mQueue[i] = q
    BY <1>0, <1>3, <2>2, UnlinkStep DEF RemoveFrom
  <2> QED
    BY <2>1, <2>2
<1>4. ASSUME NEW i \in Items, RemoveItem(i) PROVE CInv'
  BY <1>0, <1>3, <1>4 DEF RemoveItem
<1>5. ASSUME NEW q \in Queues,
             IterateFromHead(q) \/ \E i \in Items \cup {NULL} : IterateFromItem(q, i)
      PROVE  CInv'
  BY <1>5, StartStep
<1>6. CASE Reset
  BY <1>5, <1>6 DEF Reset, CInv, CTypeOK
<1>7. CASE IteratorNext
  BY <1>7, IteratorStep
<1>8. CASE UNCHANGED cvars
  BY <1>0, <1>8, QuietStep DEF cvars, links, iterator
<1> QED
  BY <1>1, <1>2, <1>3, <1>4, <1>5, <1>6, <1>7, <1>8 DEF CNext

\* The invariant holds of every CQueue.
THEOREM CInvariant == CSpec => []CInv
  BY CInitEstablishesInv, CNextKeepsInv, PTL DEF CSpec

\* The two chains of every queue spell the same items, and items and queues
\* agree on who is where, whatever was linked and unlinked: Queue.hpp lines
\* 47-104.
THEOREM LinksAreSound == CSpec => []ListsAreSound
<1>1. CInv => ListsAreSound
  BY DEF CInv, ListInv, ListsAreSound
<1> QED
  BY <1>1, CInvariant, PTL

\* An iterator whose item is not removed never leaves its queue.
THEOREM IteratorIsSound == CSpec => []IteratorStaysInQueue
<1>1. CInv => IteratorStaysInQueue
  BY DEF CInv
<1> QED
  BY <1>1, CInvariant, PTL

\* And it shows the items of the queue in their order.
THEOREM IterationInOrder == CSpec => NextIsSuccessor
<1>1. CInv => GoesToSuccessor
  <2>1. CASE IteratorNext
    BY <2>1, IteratorStep
  <2>2. CASE ~IteratorNext
    BY <2>2 DEF GoesToSuccessor
  <2> QED
    BY <2>1, <2>2
<1> QED
  BY <1>1, CInvariant, PTL DEF CSpec, NextIsSuccessor

-----------------------------------------------------------------------------
\* What the calls do to the abstract queues.
LEMMA CCallIsFifoCall == CInv /\ [CNext]_cvars => [F!Next]_(F!vars)
<1> SUFFICES ASSUME CInv, CNext PROVE F!Next \/ UNCHANGED F!vars
  BY DEF cvars, links, F!vars
<1> USE DEF F!vars
<1>0. /\ ListInv
      /\ \A q \in Queues : order[q] \in Seq(Items)
      /\ \A i \in Items : mQueue[i] # NULL => mQueue[i] \in Queues
  BY DEF CInv, ListInv, TypeOK
<1>1. ASSUME NEW q \in Queues, NEW i \in Items, EnQueue(q, i)
      PROVE  F!Next
  <2>1. F!Queued(i) <=> mQueue[i] # NULL
    <3>1. ASSUME NEW r \in Queues, i \in ToSet(order[r]) PROVE mQueue[i] = r
      BY <3>1, MemberPosition
    <3>2. mQueue[i] # NULL => i \in ToSet(order[mQueue[i]])
      BY DEF CInv, QueueKnowsMembers
    <3> QED
      BY <1>0, <3>1, <3>2, ListAssumption DEF F!Queued, F!ToSet, ToSet
  <2>2. F!EnQueue(q, i)
    BY <1>1, <2>1 DEF EnQueue, F!EnQueue, LinkLast, links
  <2> QED
    BY <2>2 DEF F!Next
<1>2. ASSUME NEW q \in Queues, DeQueue(q) PROVE F!Next
  <2>1. CASE fLength[q] <= 0
    <3>1. order[q] = <<>>
      BY <1>0, <2>1 DEF ListInv, LengthIsExact
    <3>2. F!DeQueueEmpty(q)
      BY <1>2, <2>1, <3>1 DEF DeQueue, F!DeQueueEmpty, links
    <3> QED
      BY <3>2 DEF F!Next
  <2>2. CASE ~(fLength[q] <= 0)
    <3>1. /\ Len(order[q]) # 0 /\ result' = order[q][1]
          /\ order' = [order EXCEPT ![q] = SubSeq(@, 2, Len(@))]
      BY <1>2, <2>2, DeQueueStep
    <3>2. order[q] # <<>> /\ Tail(order[q]) = SubSeq(order[q], 2, Len(order[q]))
      BY <1>0, <3>1
    <3>3. F!DeQueue(q)
      BY <3>1, <3>2 DEF F!DeQueue
    <3> QED
      BY <3>3 DEF F!Next
  <2> QED
    BY <2>1, <2>2
<1>3. ASSUME NEW q \in Queues, NEW i \in Items, RemoveFrom(q, i)
      PROVE  F!Next \/ UNCHANGED F!vars
  <2>1. CASE mQueue[i] # q
    BY <1>3, <2>1 DEF RemoveFrom, links
  <2>2. CASE mQueue[i] = q
    <3>1. i \in ToSet(order[q])
      BY <2>2, ListAssumption DEF CInv, QueueKnowsMembers
    <3>2. F!RemoveFrom(q, i)
      BY <1>3, <2>2, <3>1 DEF RemoveFrom, Unlink, F!RemoveFrom, F!IndexOf,
                                 F!ToSet, F!RemoveAt, ToSet, RemoveAt
    <3> QED
      BY <3>2 DEF F!Next
  <2> QED
    BY <2>1, <2>2
<1>4. ASSUME NEW i \in Items, RemoveItem(i) PROVE F!Next \/ UNCHANGED F!vars
  BY <1>0, <1>3, <1>4 DEF RemoveItem
<1>5. ASSUME Reset \/ IteratorNext \/
             \E q \in Queues : IterateFromHead(q) \/
                               \E i \in Items \cup {NULL} : IterateFromItem(q, i)
      PROVE  UNCHANGED F!vars
  BY <1>5 DEF Reset, IteratorNext, IterateFromHead, IterateFromItem, links
<1> QED
  BY <1>1, <1>2, <1>3, <1>4, <1>5 DEF CNext

\* CQueue implements the queues of Fifo, with the order of the items as the
\* abstract content: what was put in first comes out first, an item is in one
\* queue at most, and NULL is returned exactly when a queue is empty.
THEOREM QueuesAreFifo == CSpec => RefinesFifo
<1>1. CInit => F!Init
  BY DEF CInit, Init, F!Init
<1>2. CInv /\ [CNext]_cvars => [F!Next]_(F!vars)
  BY CCallIsFifoCall
<1> QED
  BY <1>1, <1>2, CInvariant, PTL DEF CSpec, RefinesFifo, F!Spec

-----------------------------------------------------------------------------
(***************************************************************************)
(* VmQueue: MQUEUE, as VmBlockingQueue uses it and with mqueue_clear.      *)
(***************************************************************************)

\* The inductive invariant.  A mark may outlive mqueue_clear, so that unlike
\* that of CQueue it does not say that marked items are linked.
VInv == VTypeOK /\ ListInv

LEMMA VInitEstablishesInv == VInit => VInv
<1> SUFFICES ASSUME VInit PROVE VInv
  OBVIOUS
<1>1. VTypeOK
  BY DEF VInit, Init, VTypeOK, TypeOK, Nodes
<1>2. \A q \in Queues : order[q] = <<>> /\ next[q] = q /\ prev[q] = q
  BY DEF VInit, Init, Nodes
<1>3. LinksSpellOrder
  BY <1>2 DEF LinksSpellOrder, At
<1>4. LengthIsExact
  BY <1>2 DEF LengthIsExact, VInit, Init
<1>5. MembersKnowQueue
  BY <1>2 DEF MembersKnowQueue, IsInjective, ToSet
<1> QED
  BY <1>1, <1>3, <1>4, <1>5 DEF VInv, ListInv, VTypeOK

\* Emptying a list: the items of the other queues keep their places.
LEMMA EmptyListKeepsInv ==
    ASSUME ListInv, NEW q \in Queues, EmptyList(q)
    PROVE  ListInv'
<1>1. /\ \A r \in Queues : order[r] \in Seq(Items) /\ Len(order[r]) \in Nat
      /\ order'[q] = <<>>
      /\ \A r \in Queues \ {q} : order'[r] = order[r]
  BY DEF ListInv, TypeOK, EmptyList
<1>2. TypeOK'
  BY DEF ListInv, TypeOK, EmptyList, Nodes
<1>3. \A m \in Nodes \ {q} : next'[m] = next[m] /\ prev'[m] = prev[m]
  BY DEF ListInv, TypeOK, EmptyList
<1>4. next'[q] = q /\ prev'[q] = q
  BY DEF ListInv, TypeOK, EmptyList, Nodes
<1>5. LinksSpellOrder'
  <2> SUFFICES ASSUME NEW r \in Queues, NEW k \in 0..Len(order'[r])
               PROVE  /\ next'[At(r, k)'] = At(r, k + 1)'
                      /\ prev'[At(r, k + 1)'] = At(r, k)'
    BY DEF LinksSpellOrder
  <2>1. CASE r = q
    <3>1. At(r, k)' = q /\ At(r, k + 1)' = q
      BY <1>1, <2>1 DEF At
    <3> QED
      BY <1>4, <3>1
  <2>2. CASE r # q
    <3>1. k \in 0..Len(order[r]) /\ k + 1 \in Int /\ k \in Int
      BY <1>1, <2>2
    <3>2. At(r, k)' = At(r, k) /\ At(r, k + 1)' = At(r, k + 1)
      BY <1>1, <2>2 DEF At
    <3>3. At(r, k) \in Nodes \ {q} /\ At(r, k + 1) \in Nodes \ {q}
      BY <2>2, <3>1, NodeAt, ListAssumption DEF ListAssumption
    <3>4. next[At(r, k)] = At(r, k + 1) /\ prev[At(r, k + 1)] = At(r, k)
      BY <3>1 DEF ListInv, LinksSpellOrder
    <3> QED
      BY <1>3, <3>2, <3>3, <3>4
  <2> QED
    BY <2>1, <2>2
<1>6. LengthIsExact'
  BY <1>1 DEF ListInv, TypeOK, LengthIsExact, EmptyList
<1>7. MembersKnowQueue'
  <2> SUFFICES ASSUME NEW r \in Queues
               PROVE  /\ IsInjective(order'[r])
                      /\ \A j \in ToSet(order'[r]) : mQueue'[j] = r
    BY DEF MembersKnowQueue
  <2>1. CASE r = q
    BY <1>1, <2>1 DEF IsInjective, ToSet
  <2>2. CASE r # q
    BY <1>1, <2>2 DEF ListInv, MembersKnowQueue, EmptyList
  <2> QED
    BY <2>1, <2>2
<1> QED
  BY <1>2, <1>5, <1>6, <1>7 DEF ListInv

\* mqueue_pop of a list that is not empty.
LEMMA PopStep ==
    ASSUME VInv, NEW q \in Queues, fLength[q] # 0, mqueue_pop(q)
    PROVE  /\ ListInv'
           /\ Len(order[q]) # 0
           /\ result' = order[q][1] /\ result' \in Items
           /\ order' = [order EXCEPT ![q] = SubSeq(@, 2, Len(@))]
<1>1. ListInv /\ Len(order[q]) # 0 /\ UnlinkFirst(q) /\ result' = next[q]
  BY DEF VInv, ListInv, LengthIsExact, mqueue_pop
<1>2. /\ 1 \in 1..Len(order[q]) /\ next[q] = order[q][1] /\ next[q] \in Items
      /\ Unlink(q, next[q])
  BY <1>1, UnlinkFirstIsUnlink
<1>3. ListInv'
  BY <1>1, <1>2, UnlinkKeepsInv
<1> QED
  BY <1>1, <1>2, <1>3 DEF UnlinkFirst

LEMMA VNextKeepsInv == VInv /\ [VNext]_vvars => VInv'
<1> SUFFICES ASSUME VInv, [VNext]_vvars PROVE VInv'
  OBVIOUS
<1>0. ListInv /\ result \in Items \cup {NULL} /\ head \in [Queues -> BOOLEAN]
  BY DEF VInv, VTypeOK
<1>1. ASSUME NEW q \in Queues, NEW i \in Items, mqueue_push(q, i) PROVE VInv'
  <2>1. ListInv'
    BY <1>0, <1>1, LinkLastKeepsInv DEF mqueue_push
  <2> QED
    BY <1>0, <1>1, <2>1 DEF VInv, VTypeOK, ListInv, mqueue_push
<1>2. ASSUME NEW q \in Queues, mqueue_pop(q) PROVE VInv'
  <2>1. CASE fLength[q] = 0
    BY <1>0, <1>2, <2>1, UnchangedLists DEF VInv, VTypeOK, ListInv, mqueue_pop
  <2>2. CASE fLength[q] # 0
    <3>1. ListInv' /\ result' \in Items /\ UNCHANGED head
      BY <1>2, <2>2, PopStep DEF mqueue_pop
    <3> QED
      BY <1>0, <3>1 DEF VInv, VTypeOK, ListInv
  <2> QED
    BY <2>1, <2>2
<1>3. ASSUME NEW q \in Queues, mqueue_clear(q) \/ mqueue_free(q) \/ mqueue_init(q)
      PROVE  VInv'
  <2>1. /\ EmptyList(q) \/ UNCHANGED links
        /\ UNCHANGED result /\ head' \in [Queues -> BOOLEAN]
    BY <1>0, <1>3 DEF mqueue_clear, mqueue_free, mqueue_init
  <2>2. ListInv'
    BY <1>0, <2>1, EmptyListKeepsInv, UnchangedLists
  <2> QED
    BY <1>0, <2>1, <2>2 DEF VInv, VTypeOK, ListInv
<1>4. CASE UNCHANGED vvars
  BY <1>0, <1>4, UnchangedLists DEF vvars, VInv, VTypeOK, ListInv
<1> QED
  BY <1>1, <1>2, <1>3, <1>4 DEF VNext

\* The invariant holds of every MQUEUE.
THEOREM VInvariant == VSpec => []VInv
  BY VInitEstablishesInv, VNextKeepsInv, PTL DEF VSpec

\* The counter mqueue_pop and VmBlockingQueue::DeQueue look at is the number of
\* items in the list.
THEOREM LengthStaysExact == VSpec => []LengthIsExact
<1>1. VInv => LengthIsExact
  BY DEF VInv, ListInv
<1> QED
  BY <1>1, VInvariant, PTL

-----------------------------------------------------------------------------
LEMMA VCallIsFifoCall == VInv /\ [VNext]_vvars => [F!Next]_(F!vars)
<1> SUFFICES ASSUME VInv, VNext PROVE F!Next \/ UNCHANGED F!vars
  BY DEF vvars, links, F!vars
<1>0. ListInv /\ \A q \in Queues : order[q] \in Seq(Items)
  BY DEF VInv, ListInv, TypeOK
<1>1. ASSUME NEW q \in Queues, NEW i \in Items, mqueue_push(q, i) PROVE F!Next
  <2>1. ASSUME NEW r \in Queues, i \in ToSet(order[r]) PROVE FALSE
    BY <1>0, <1>1, <2>1, ListAssumption DEF ListInv, MembersKnowQueue, mqueue_push
  <2>2. ~F!Queued(i)
    BY <2>1 DEF F!Queued, F!ToSet, ToSet
  <2>3. F!EnQueue(q, i)
    BY <1>1, <2>2 DEF mqueue_push, F!EnQueue, LinkLast
  <2> QED
    BY <2>3 DEF F!Next
<1>2. ASSUME NEW q \in Queues, mqueue_pop(q) PROVE F!Next
  <2>1. CASE fLength[q] = 0
    <3>1. order[q] = <<>>
      BY <1>0, <2>1 DEF ListInv, LengthIsExact
    <3>2. F!DeQueueEmpty(q)
      BY <1>2, <2>1, <3>1 DEF mqueue_pop, F!DeQueueEmpty, links
    <3> QED
      BY <3>2 DEF F!Next
  <2>2. CASE fLength[q] # 0
    <3>1. /\ Len(order[q]) # 0 /\ result' = order[q][1]
          /\ order' = [order EXCEPT ![q] = SubSeq(@, 2, Len(@))]
      BY <1>2, <2>2, PopStep
    <3>2. order[q] # <<>> /\ Tail(order[q]) = SubSeq(order[q], 2, Len(order[q]))
      BY <1>0, <3>1
    <3>3. F!DeQueue(q)
      BY <3>1, <3>2 DEF F!DeQueue
    <3> QED
      BY <3>3 DEF F!Next
  <2> QED
    BY <2>1, <2>2
<1>3. ASSUME NEW q \in Queues, mqueue_clear(q) \/ mqueue_free(q) \/ mqueue_init(q)
      PROVE  F!Next \/ UNCHANGED F!vars
  <2>1. EmptyList(q) \/ UNCHANGED links
    BY <1>3 DEF mqueue_clear, mqueue_free, mqueue_init
  <2>2. UNCHANGED result
    BY <1>3 DEF mqueue_clear, mqueue_free, mqueue_init
  <2>3. F!Clear(q) \/ UNCHANGED F!vars
    BY <2>1, <2>2 DEF EmptyList, F!Clear, F!vars, links
  <2> QED
    BY <2>3 DEF F!Next
<1> QED
  BY <1>1, <1>2, <1>3 DEF VNext

\* MQUEUE implements the queues of Fifo, with the order of the items as the
\* abstract content.  This is what entitles VmBlockingQueue.tla to treat its
\* list as a sequence.
THEOREM ListIsFifo == VSpec => RefinesFifo
<1>1. VInit => F!Init
  BY DEF VInit, Init, F!Init
<1> QED
  BY <1>1, VCallIsFifoCall, VInvariant, PTL DEF VSpec, RefinesFifo, F!Spec
=============================================================================
