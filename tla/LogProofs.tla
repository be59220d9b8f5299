----------------------------- MODULE LogProofs -----------------------------
(***************************************************************************)
(* Proofs about Log, for any number of printers and lines.  What the steps *)
(* of the queue do is taken from TaskQueueProofs.                          *)
(***************************************************************************)
EXTENDS Log, TLAPS, FiniteSetTheorems, SequenceTheorems

QP == INSTANCE TaskQueueProofs WITH Items <- Lines, Clearers <- {}

-----------------------------------------------------------------------------
(* The members of a set of numbers, in their order. *)

UpTo(K, i) == {j \in K : j <= i}
Rank(K, i) == Cardinality(UpTo(K, i))

LEMMA FirstNumbers ==
  ASSUME NEW c \in Nat
  PROVE  IsFiniteSet(1 .. c) /\ Cardinality(1 .. c) = c
<1>1. IsFiniteSet(1 .. c) /\ Cardinality(1 .. c) = IF 1 > c THEN 0 ELSE c - 1 + 1
  BY FS_Interval
<1> QED
  BY <1>1

LEMMA UpToFinite ==
  ASSUME NEW K \in SUBSET Nat, IsFiniteSet(K), NEW i
  PROVE  /\ Cardinality(K) \in Nat /\ UpTo(K, i) \in SUBSET K
         /\ IsFiniteSet(UpTo(K, i)) /\ Rank(K, i) \in Nat /\ Rank(K, i) <= Cardinality(K)
<1>1. UpTo(K, i) \in SUBSET K
  BY DEF UpTo
<1>2. IsFiniteSet(UpTo(K, i)) /\ Cardinality(UpTo(K, i)) <= Cardinality(K)
  BY <1>1, FS_Subset
<1> QED
  BY <1>1, <1>2, FS_CardinalityType DEF Rank

LEMMA RankIncreases ==
  ASSUME NEW K \in SUBSET Nat, IsFiniteSet(K), NEW i \in K, NEW j \in K, i < j
  PROVE  Rank(K, i) < Rank(K, j)
<1>1. /\ UpTo(K, i) \cup {j} \in SUBSET UpTo(K, j)
      /\ j \notin UpTo(K, i)
  <2>1. i \in Nat /\ j \in Nat /\ \A k \in K : k \in Nat
    OBVIOUS
  <2>2. \A k \in K : k <= i => k <= j
    BY <2>1
  <2>3. j <= j /\ ~(j <= i)
    BY <2>1
  <2> QED
    BY <2>2, <2>3 DEF UpTo
<1>2. /\ IsFiniteSet(UpTo(K, i)) /\ IsFiniteSet(UpTo(K, j))
      /\ Rank(K, i) \in Nat /\ Rank(K, j) \in Nat
  BY UpToFinite
<1>3. Cardinality(UpTo(K, i) \cup {j}) = Rank(K, i) + 1
  BY <1>1, <1>2, FS_AddElement DEF Rank
<1>4. Cardinality(UpTo(K, i) \cup {j}) <= Rank(K, j)
  BY <1>1, <1>2, FS_Subset DEF Rank
<1> QED
  BY <1>2, <1>3, <1>4

LEMMA RankPositive ==
  ASSUME NEW K \in SUBSET Nat, IsFiniteSet(K), NEW i \in K
  PROVE  Rank(K, i) \in 1 .. Cardinality(K)
<1>1. i \in UpTo(K, i)
  BY DEF UpTo
<1>2. IsFiniteSet(UpTo(K, i)) /\ Rank(K, i) # 0
  BY <1>1, UpToFinite, FS_EmptySet DEF Rank
<1>3. Rank(K, i) \in Nat /\ Cardinality(K) \in Nat /\ Rank(K, i) <= Cardinality(K)
  BY UpToFinite
<1> QED
  BY <1>2, <1>3

(* Every number up to the cardinality is the rank of one member. *)
LEMMA RankBijective ==
  ASSUME NEW K \in SUBSET Nat, IsFiniteSet(K)
  PROVE  /\ \A i, j \in K : Rank(K, i) = Rank(K, j) => i = j
         /\ \A k \in 1 .. Cardinality(K) : \E i \in K : Rank(K, i) = k
<1> DEFINE rank == [i \in K |-> Rank(K, i)]
<1>1. /\ Cardinality(K) \in Nat
      /\ IsFiniteSet(1 .. Cardinality(K)) /\ Cardinality(1 .. Cardinality(K)) = Cardinality(K)
  BY UpToFinite, FirstNumbers
<1>2. \A i, j \in K : Rank(K, i) = Rank(K, j) => i = j
  <2> SUFFICES ASSUME NEW i \in K, NEW j \in K, i # j PROVE Rank(K, i) # Rank(K, j)
    OBVIOUS
  <2>1. i < j \/ j < i
    OBVIOUS
  <2>2. Rank(K, i) < Rank(K, j) \/ Rank(K, j) < Rank(K, i)
    BY <2>1, RankIncreases
  <2>3. Rank(K, i) \in Nat /\ Rank(K, j) \in Nat
    BY UpToFinite
  <2> QED
    BY <2>2, <2>3
<1>3. rank \in [K -> 1 .. Cardinality(K)]
  BY RankPositive
<1>4. \A i, j \in K : rank[i] = rank[j] => i = j
  BY <1>2
<1>5. \A k \in 1 .. Cardinality(K) : \E i \in K : rank[i] = k
  <2> HIDE DEF rank
  <2>1. rank \in Injection(K, 1 .. Cardinality(K))
    BY <1>3, <1>4 DEF Injection, IsInjective
  <2>2. rank \in Surjection(K, 1 .. Cardinality(K))
    BY <1>1, <2>1, FS_Injection
  <2> QED
    BY <2>2 DEF Surjection
<1> QED
  BY <1>2, <1>5

(* A new greatest member has the highest rank, the others keep theirs. *)
LEMMA RankOfLast ==
  ASSUME NEW K \in SUBSET Nat, IsFiniteSet(K), NEW n \in Nat, \A i \in K : i < n
  PROVE  /\ Cardinality(K \cup {n}) = Cardinality(K) + 1
         /\ Rank(K \cup {n}, n) = Cardinality(K) + 1
         /\ \A i \in K : Rank(K \cup {n}, i) = Rank(K, i)
<1>1. n \notin K /\ n <= n /\ \A i \in K : i \in Nat /\ i <= n /\ ~(n <= i)
  OBVIOUS
<1>2. Cardinality(K \cup {n}) = Cardinality(K) + 1
  BY <1>1, FS_AddElement
<1>3. UpTo(K \cup {n}, n) = K \cup {n}
  BY <1>1 DEF UpTo
<1>4. \A i \in K : UpTo(K \cup {n}, i) = UpTo(K, i)
  BY <1>1 DEF UpTo
<1> QED
  BY <1>2, <1>3, <1>4 DEF Rank

(* The members up to a rank. *)
LEMMA RankOfFirst ==
  ASSUME NEW K \in SUBSET Nat, IsFiniteSet(K), NEW m \in 0 .. Cardinality(K),
         NEW M, M = {i \in K : Rank(K, i) <= m}
  PROVE  /\ Cardinality(M) = m
         /\ \A i \in M : Rank(M, i) = Rank(K, i)
<1>1. \A i \in K : i \in Nat /\ Rank(K, i) \in Nat
  BY UpToFinite
<1>2. \A i \in M : UpTo(M, i) = UpTo(K, i)
  <2> SUFFICES ASSUME NEW i \in M, NEW j \in K, j <= i PROVE j \in M
    BY DEF UpTo
  <2>1. j = i \/ j < i
    BY <1>1
  <2>2. Rank(K, j) <= Rank(K, i)
    BY <1>1, <2>1, RankIncreases
  <2>3. Rank(K, i) <= m /\ m \in Nat
    BY UpToFinite
  <2>4. Rank(K, j) <= m
    BY <1>1, <2>2, <2>3
  <2> QED
    BY <2>4
<1> DEFINE rank == [i \in M |-> Rank(K, i)]
<1>3. /\ IsFiniteSet(M) /\ IsFiniteSet(1 .. m) /\ Cardinality(1 .. m) = m
      /\ m \in Nat /\ \A k \in 1 .. m : k \in 1 .. Cardinality(K)
  <2>1. M \in SUBSET K /\ Cardinality(K) \in Nat
    BY UpToFinite
  <2>2. m \in Nat /\ \A k \in 1 .. m : k \in 1 .. Cardinality(K)
    BY <2>1
  <2> QED
    BY <2>1, <2>2, FS_Subset, FirstNumbers
<1>4. rank \in Injection(M, 1 .. m) /\ rank \in Surjection(M, 1 .. m)
  <2>1. \A i \in M : Rank(K, i) \in 1 .. m
    BY <1>1, <1>3, RankPositive
  <2>2. \A i, j \in M : Rank(K, i) = Rank(K, j) => i = j
    BY RankBijective
  <2>3. \A k \in 1 .. m : \E i \in M : Rank(K, i) = k
    <3> SUFFICES ASSUME NEW k \in 1 .. m PROVE \E i \in M : Rank(K, i) = k
      OBVIOUS
    <3>1. PICK i \in K : Rank(K, i) = k
      BY <1>3, RankBijective
    <3>2. k <= m
      BY <1>3
    <3> QED
      BY <3>1, <3>2
  <2>4. rank \in [M -> 1 .. m]
    BY <2>1
  <2>5. \A k \in 1 .. m : \E i \in M : rank[i] = k
    BY <2>3
  <2>6. \A i, j \in M : rank[i] = rank[j] => i = j
    BY <2>2
  <2> HIDE DEF rank
  <2> QED
    BY <2>4, <2>5, <2>6 DEF Injection, IsInjective, Surjection
<1>5. Cardinality(M) = m
  <2> HIDE DEF rank
  <2> QED
    BY <1>3, <1>4, FS_Injection
<1> QED
  BY <1>2, <1>5 DEF Rank

-----------------------------------------------------------------------------
(* Lines in the order they were accepted. *)

KeptOf(acc, gone) == {i \in DOMAIN acc : acc[i] \notin gone}

InOrder(acc, gone, lines) ==
  /\ Len(lines) = Cardinality(KeptOf(acc, gone))
  /\ \A i \in KeptOf(acc, gone) : lines[Rank(KeptOf(acc, gone), i)] = acc[i]

LEMMA KeptFinite ==
  ASSUME NEW acc \in Seq(Lines), NEW gone
  PROVE  /\ KeptOf(acc, gone) \in SUBSET Nat /\ IsFiniteSet(KeptOf(acc, gone))
         /\ Len(acc) \in Nat /\ DOMAIN acc = 1 .. Len(acc)
         /\ \A i \in KeptOf(acc, gone) : i < Len(acc) + 1
<1>1. Len(acc) \in Nat /\ DOMAIN acc = 1 .. Len(acc)
  BY LenProperties
<1>2. KeptOf(acc, gone) \in SUBSET (1 .. Len(acc))
  BY <1>1 DEF KeptOf
<1>3. IsFiniteSet(1 .. Len(acc))
  BY <1>1, FirstNumbers
<1>4. IsFiniteSet(KeptOf(acc, gone))
  BY <1>2, <1>3, FS_Subset
<1>5. \A i \in 1 .. Len(acc) : i \in Nat /\ i < Len(acc) + 1
  BY <1>1
<1> QED
  BY <1>1, <1>2, <1>4, <1>5

(* One more line is accepted, and is the last to be written. *)
LEMMA AppendInOrder ==
  ASSUME NEW acc \in Seq(Lines), NEW gone, NEW lines \in Seq(Lines), NEW x \in Lines \ gone,
         InOrder(acc, gone, lines)
  PROVE  InOrder(Append(acc, x), gone, Append(lines, x))
<1> DEFINE K == KeptOf(acc, gone)
           n == Len(acc)
           K2 == KeptOf(Append(acc, x), gone)
<1>1. /\ K \in SUBSET Nat /\ IsFiniteSet(K) /\ n \in Nat /\ DOMAIN acc = 1 .. n
      /\ \A i \in K : i < n + 1
  BY KeptFinite
<1>2. /\ DOMAIN Append(acc, x) = 1 .. n + 1 /\ Append(acc, x)[n + 1] = x
      /\ \A i \in 1 .. n : Append(acc, x)[i] = acc[i]
  BY <1>1, AppendProperties, LenProperties
<1>3. K2 = K \cup {n + 1}
  <2>1. DOMAIN Append(acc, x) = (1 .. n) \cup {n + 1}
    BY <1>1, <1>2
  <2> HIDE DEF n
  <2> QED
    BY <1>1, <1>2, <2>1 DEF KeptOf
<1>4. /\ Cardinality(K2) = Cardinality(K) + 1 /\ Rank(K2, n + 1) = Cardinality(K) + 1
      /\ \A i \in K : Rank(K2, i) = Rank(K, i)
  <2>1. n + 1 \in Nat
    BY <1>1
  <2> HIDE DEF K, K2, n
  <2> QED
    BY <1>1, <1>3, <2>1, RankOfLast
<1>5. /\ Len(lines) = Cardinality(K) /\ Cardinality(K) \in Nat
      /\ \A i \in K : lines[Rank(K, i)] = acc[i]
  BY <1>1, UpToFinite DEF InOrder
<1>6. /\ Len(Append(lines, x)) = Cardinality(K) + 1
      /\ Append(lines, x)[Cardinality(K) + 1] = x
      /\ \A k \in 1 .. Cardinality(K) : Append(lines, x)[k] = lines[k]
  <2> HIDE DEF K
  <2> QED
    BY <1>5, AppendProperties
<1>7. \A i \in K : Rank(K, i) \in 1 .. Cardinality(K) /\ i \in 1 .. n
  BY <1>1, RankPositive DEF KeptOf
<1>8. \A i \in K2 : Append(lines, x)[Rank(K2, i)] = Append(acc, x)[i]
  <2> HIDE DEF K, K2, n
  <2> QED
    BY <1>2, <1>3, <1>4, <1>5, <1>6, <1>7
<1> QED
  BY <1>4, <1>6, <1>8 DEF InOrder

(* The last lines are deleted. *)
LEMMA DeletedInOrder ==
  ASSUME NEW acc \in Seq(Lines), NEW gone, NEW first \in Seq(Lines), NEW last \in Seq(Lines),
         \A i, j \in DOMAIN acc : acc[i] = acc[j] => i = j,
         InOrder(acc, gone, first \o last)
  PROVE  InOrder(acc, gone \cup {last[k] : k \in DOMAIN last}, first)
<1> DEFINE lines == first \o last
           K == KeptOf(acc, gone)
           M == KeptOf(acc, gone \cup {last[k] : k \in DOMAIN last})
           m == Len(first)
<1>1. K \in SUBSET Nat /\ IsFiniteSet(K) /\ Cardinality(K) \in Nat /\ K \subseteq DOMAIN acc
  BY KeptFinite, UpToFinite DEF KeptOf
<1>2. /\ m \in Nat /\ Len(last) \in Nat /\ DOMAIN last = 1 .. Len(last)
      /\ Len(lines) = m + Len(last) /\ Len(lines) = Cardinality(K)
      /\ \A i \in K : lines[Rank(K, i)] = acc[i] /\ Rank(K, i) \in 1 .. Cardinality(K)
  <2>1. m \in Nat /\ Len(last) \in Nat /\ DOMAIN last = 1 .. Len(last)
    BY LenProperties
  <2>2. Len(lines) = m + Len(last)
    BY ConcatProperties
  <2>3. Len(lines) = Cardinality(K) /\ \A i \in K : lines[Rank(K, i)] = acc[i]
    BY DEF InOrder
  <2>4. \A i \in K : Rank(K, i) \in 1 .. Cardinality(K)
    BY <1>1, RankPositive
  <2> HIDE DEF lines, K, m
  <2> QED
    BY <2>1, <2>2, <2>3, <2>4
<1>3. /\ \A k \in 1 .. m : lines[k] = first[k]
      /\ \A k \in 1 .. Len(last) : lines[m + k] = last[k]
  BY <1>2, ConcatProperties
<1>4. \A i, j \in K : acc[i] = acc[j] => i = j
  BY <1>1
<1>5. M = {i \in K : acc[i] \notin {last[k] : k \in DOMAIN last}}
  BY DEF KeptOf
<1>6. \A i \in K : acc[i] \in {last[k] : k \in DOMAIN last} <=> ~(Rank(K, i) <= m)
  <2> HIDE DEF lines, K, M, m
  <2> SUFFICES ASSUME NEW i \in K
               PROVE  acc[i] \in {last[k] : k \in DOMAIN last} <=> ~(Rank(K, i) <= m)
    OBVIOUS
  <2>1. Rank(K, i) \in Nat /\ Rank(K, i) <= m + Len(last) /\ lines[Rank(K, i)] = acc[i]
    BY <1>1, <1>2
  <2>2. ASSUME ~(Rank(K, i) <= m) PROVE acc[i] \in {last[k] : k \in DOMAIN last}
    <3>1. Rank(K, i) - m \in 1 .. Len(last) /\ m + (Rank(K, i) - m) = Rank(K, i)
      BY <1>2, <2>1, <2>2
    <3> QED
      BY <1>2, <1>3, <2>1, <3>1
  <2>3. ASSUME NEW k \in DOMAIN last, acc[i] = last[k] PROVE ~(Rank(K, i) <= m)
    <3>1. m + k \in 1 .. Cardinality(K) /\ ~(m + k <= m) /\ lines[m + k] = last[k]
      BY <1>2, <1>3
    <3>2. PICK j \in K : Rank(K, j) = m + k
      BY <1>1, <3>1, RankBijective
    <3>3. acc[j] = acc[i]
      BY <1>2, <2>3, <3>1, <3>2
    <3> QED
      BY <1>4, <3>1, <3>2, <3>3
  <2> QED
    BY <2>2, <2>3
<1>7. M = {i \in K : Rank(K, i) <= m}
  <2> HIDE DEF lines, K, M, m
  <2> QED
    BY <1>5, <1>6
<1>8. Cardinality(M) = m /\ \A i \in M : Rank(M, i) = Rank(K, i)
  <2>1. m \in 0 .. Cardinality(K)
    BY <1>2
  <2> HIDE DEF K, M, m
  <2> QED
    BY <1>1, <1>7, <2>1, RankOfFirst
<1>9. \A i \in M : first[Rank(M, i)] = acc[i]
  <2> SUFFICES ASSUME NEW i \in M PROVE first[Rank(M, i)] = acc[i]
    OBVIOUS
  <2>1. i \in K /\ Rank(K, i) <= m
    BY <1>7
  <2> HIDE DEF lines, K, M, m
  <2>2. Rank(K, i) \in 1 .. m
    BY <1>1, <1>2, <2>1
  <2> QED
    BY <1>2, <1>3, <1>8, <2>1, <2>2
<1> QED
  BY <1>8, <1>9 DEF InOrder

(* Lines that are written in order were accepted. *)
LEMMA LastAreAccepted ==
  ASSUME NEW acc \in Seq(Lines), NEW gone, NEW first \in Seq(Lines), NEW last \in Seq(Lines),
         InOrder(acc, gone, first \o last), NEW k \in DOMAIN last
  PROVE  \E i \in DOMAIN acc : acc[i] = last[k] /\ acc[i] \notin gone
<1> DEFINE K == KeptOf(acc, gone)
           m == Len(first)
<1>1. m \in Nat /\ Len(last) \in Nat /\ DOMAIN last = 1 .. Len(last)
  BY LenProperties
<1>2. m + Len(last) = Cardinality(K)
  BY ConcatProperties DEF InOrder
<1>3. m + k \in 1 .. m + Len(last) /\ ~(m + k <= m) /\ (m + k) - m = k
  BY <1>1
<1>4. (first \o last)[m + k] = last[k]
  BY <1>1, <1>3, ConcatProperties
<1>5. K \in SUBSET Nat /\ IsFiniteSet(K)
  BY KeptFinite
<1>6. PICK i \in K : Rank(K, i) = m + k
  BY <1>2, <1>3, <1>5, RankBijective
<1>7. acc[i] = last[k]
  BY <1>4, <1>6 DEF InOrder
<1> QED
  BY <1>7 DEF KeptOf

-----------------------------------------------------------------------------
(* What TaskQueue assumes of its constants. *)
LEMMA QueueAssumption == QP!TaskQueueAssumption
<1>1. IsFiniteSet(Threads)
  <2>1. IsFiniteSet({Writer}) /\ IsFiniteSet({Main})
    BY FS_Singleton
  <2>2. IsFiniteSet({Writer} \cup {Main}) /\ {Writer} \cup {Main} = {Writer, Main}
    BY <2>1, FS_Union
  <2> QED
    BY <2>2, LogAssumption, FS_Union DEF Threads
<1> QED
  BY <1>1, LogAssumption DEF QP!TaskQueueAssumption, QP!IsFiniteSet, IsFiniteSet

(* The queue of Log is the one TaskQueueProofs is about. *)
LEMMA SameWakes ==
  ASSUME NEW t, NEW next, NEW woken
  PROVE  Queue!Move(t, next, woken) <=> QP!Move(t, next, woken)
  BY Zenon DEF Queue!Move, QP!Move

LEMMA SameHelpers ==
  /\ \A t, next : Queue!Goto(t, next) <=> QP!Goto(t, next)
  /\ \A place : Queue!Waiting(place) = QP!Waiting(place)
  /\ \A t : Queue!Free(t) <=> QP!Free(t)
  /\ Queue!Full <=> QP!Full
  /\ Queue!WokenByPush = QP!WokenByPush
  /\ Queue!WokenByPop = QP!WokenByPop
  /\ Queue!Queued = QP!Queued
  BY SameWakes
     DEF Queue!Goto, QP!Goto, Queue!Waiting, QP!Waiting, Queue!Free, QP!Free, Queue!Full, QP!Full,
         Queue!One, QP!One, Queue!WokenByPush, QP!WokenByPush, Queue!WokenByPop, QP!WokenByPop,
         Queue!Queued, QP!Queued

LEMMA SameSteps ==
  ASSUME NEW t
  PROVE  /\ Queue!PushStep(t) <=> QP!PushStep(t)
         /\ Queue!PopStep(t) <=> QP!PopStep(t)
         /\ Queue!ClearUpStep(t) <=> QP!ClearUpStep(t)
         /\ Queue!CallPop(t) <=> QP!CallPop(t)
         /\ Queue!CallClearUp(t) <=> QP!CallClearUp(t)
         /\ \A x : Queue!CallPush(t, x) <=> QP!CallPush(t, x)
         /\ Queue!SpuriousWake(t) <=> QP!SpuriousWake(t)
         /\ Queue!StoreValid(t) <=> QP!StoreValid(t)
<1>1. Queue!PushStep(t) <=> QP!PushStep(t)
  BY SameHelpers, SameWakes
     DEF Queue!PushStep, Queue!PushEnqueue, Queue!PushRefused, Queue!PushCheck, Queue!PushWait,
         QP!PushStep, QP!PushEnqueue, QP!PushRefused, QP!PushCheck, QP!PushWait
<1>2. Queue!PopStep(t) <=> QP!PopStep(t)
  BY SameHelpers, SameWakes
     DEF Queue!PopStep, Queue!PopTake, Queue!PopNothing, Queue!PopCheck, Queue!PopWait,
         QP!PopStep, QP!PopTake, QP!PopNothing, QP!PopCheck, QP!PopWait
<1>3. Queue!ClearUpStep(t) <=> QP!ClearUpStep(t)
  BY SameHelpers, SameWakes
     DEF Queue!ClearUpStep, Queue!Clear, Queue!Invalidate, Queue!NotifyNotEmpty,
         Queue!NotifyNotFull, Queue!NotifyAll,
         QP!ClearUpStep, QP!Clear, QP!Invalidate, QP!NotifyNotEmpty, QP!NotifyNotFull,
         QP!NotifyAll
<1>4. /\ Queue!CallPop(t) <=> QP!CallPop(t)
      /\ Queue!CallClearUp(t) <=> QP!CallClearUp(t)
      /\ \A x : Queue!CallPush(t, x) <=> QP!CallPush(t, x)
      /\ Queue!SpuriousWake(t) <=> QP!SpuriousWake(t)
  BY SameHelpers
     DEF Queue!CallPop, Queue!CallClearUp, Queue!CallPush, Queue!SpuriousWake,
         QP!CallPop, QP!CallClearUp, QP!CallPush, QP!SpuriousWake
<1>5. Queue!StoreValid(t) <=> QP!StoreValid(t)
  BY DEF Queue!StoreValid, QP!StoreValid
<1> QED
  BY <1>1, <1>2, <1>3, <1>4, <1>5

LEMMA SameTypes == Queue!QueueTypeOK <=> QP!QueueTypeOK
  BY DEF Queue!QueueTypeOK, QP!QueueTypeOK, Queue!Places, QP!Places

(* What Pop has taken is the oldest item, and the others stay queued. *)
LEMMA TakenWasQueued ==
  ASSUME QP!QInv, NEW t \in Threads, QP!PopTake(t)
  PROVE  /\ Head(queue_) \in Lines /\ Head(queue_) # NULL
         /\ QP!Queued = {Head(queue_)} \cup QP!Queued'
<1>1. queue_ \in Seq(Lines) /\ queue_ # << >> /\ queue_' = Tail(queue_)
  BY DEF QP!QInv, QP!QueueTypeOK, QP!PopTake
<1> DEFINE n == Len(queue_)
<1>2. /\ n \in Nat \ {0} /\ DOMAIN queue_ = 1 .. n
      /\ DOMAIN queue_' = 1 .. n - 1 /\ Head(queue_) = queue_[1] /\ queue_[1] \in Lines
  BY <1>1, HeadTailProperties, LenProperties, EmptySeq
<1>3. \A i \in DOMAIN queue_' : queue_'[i] = queue_[i + 1]
  BY <1>1, HeadTailProperties, LenProperties
<1> HIDE DEF n
<1>4. \A i \in DOMAIN queue_ : i = 1 \/ (i - 1 \in DOMAIN queue_' /\ (i - 1) + 1 = i)
  BY <1>2
<1>5. 1 \in DOMAIN queue_ /\ \A i \in DOMAIN queue_' : i + 1 \in DOMAIN queue_
  BY <1>2
<1>6. QP!Queued \subseteq {Head(queue_)} \cup QP!Queued'
  BY <1>2, <1>3, <1>4 DEF QP!Queued
<1>7. {Head(queue_)} \cup QP!Queued' \subseteq QP!Queued
  BY <1>2, <1>3, <1>5 DEF QP!Queued
<1> QED
  BY <1>2, <1>6, <1>7, LogAssumption

(* What Push adds to the queue. *)
LEMMA EnqueuedIsQueued ==
  ASSUME QP!QInv, NEW t \in Threads, QP!PushEnqueue(t)
  PROVE  /\ queue_' = Append(queue_, item[t]) /\ item[t] \in Lines
         /\ QP!Queued' = QP!Queued \cup {item[t]}
<1>1. item[t] \in Lines /\ queue_ \in Seq(Lines) /\ queue_' = Append(queue_, item[t])
  BY DEF QP!PushEnqueue, QP!QInv, QP!QueueTypeOK, QP!Waits
<1> DEFINE n == Len(queue_)
<1>2. /\ n \in Nat /\ DOMAIN queue_ = 1 .. n
      /\ DOMAIN queue_' = 1 .. n + 1 /\ queue_'[n + 1] = item[t]
      /\ \A i \in 1 .. n : queue_'[i] = queue_[i]
  BY <1>1, AppendProperties, LenProperties
<1> HIDE DEF n
<1>3. DOMAIN queue_' = DOMAIN queue_ \cup {n + 1}
  BY <1>2
<1> QED
  BY <1>1, <1>2, <1>3 DEF QP!Queued

-----------------------------------------------------------------------------
(* Where each thread is in the queue and what it holds, by where it is in  *)
(* the functions of Log.                                                   *)
WriterPlaced ==
  /\ pc[Writer] \in {"new", "test", "popping", "write", "ended"}
  /\ pc[Writer] = "popping" => at[Writer] \in {"pop", "popWait", "popParked"}
  /\ pc[Writer] # "popping" => at[Writer] = "out"
  /\ item[Writer] # NULL <=> pc[Writer] = "write"

MainPlaced ==
  /\ pc[Main] \in {"new", "started", "clearing", "stopping", "joining", "joined"}
  /\ pc[Main] = "new" => pc[Writer] = "new"
  /\ pc[Main] = "clearing" => at[Main] \in {"clearUp", "invalidate", "notifyEmpty", "notifyFull"}
  /\ pc[Main] # "clearing" => at[Main] = "out"

PrinterPlaced(p) ==
  /\ pc[p] \in {"idle", "printing"}
  /\ pc[p] = "printing" => at[p] \in {"push", "pushWait", "pushParked"}
  /\ pc[p] = "idle" => at[p] = "out"

Placed(t) ==
  /\ t = Writer => WriterPlaced
  /\ t = Main => MainPlaced
  /\ t \in Printers => PrinterPlaced(t)

Functions == {"new", "idle", "printing", "test", "popping", "write", "ended", "started",
              "clearing", "stopping", "joining", "joined"}

AcceptedLines == {accepted[i] : i \in DOMAIN accepted}

(* Only printed lines are anywhere; a line that is being printed was not   *)
(* accepted yet, no two printers print the same, and none is accepted      *)
(* twice; only accepted lines are deleted.                                 *)
Known ==
  /\ running \in BOOLEAN /\ late \in BOOLEAN
  /\ printed \subseteq Lines
  /\ output \in Seq(printed) /\ accepted \in Seq(printed)
  /\ \A t \in Threads : item[t] # NULL => item[t] \in printed
  /\ \A p \in Printers : item[p] \notin AcceptedLines
  /\ \A p, q \in Printers : item[p] # NULL /\ item[p] = item[q] => p = q
  /\ \A i, j \in DOMAIN accepted : accepted[i] = accepted[j] => i = j
  /\ freed \subseteq AcceptedLines

Ordered == InOrder(accepted, freed, output \o Held \o queue_)

LInv ==
  /\ QP!QInv
  /\ pc \in [Threads -> Functions] /\ \A t \in Threads : Placed(t)
  /\ Known /\ Ordered

LEMMA LInvImplies == LInv => TypeOK /\ WrittenInOrder
<1>1. LInv => TypeOK
  BY SameTypes DEF LInv, Known, Functions, TypeOK, QP!QInv
<1>2. KeptOf(accepted, freed) = Kept
  BY DEF KeptOf, Kept
<1>3. Ordered => WrittenInOrder
  BY <1>2 DEF Ordered, InOrder, WrittenInOrder, Rank, UpTo
<1> QED
  BY <1>1, <1>3 DEF LInv

(* The sequences the invariant is about are sequences of lines. *)
LEMMA LineSequences ==
  ASSUME QP!QInv, Known
  PROVE  /\ output \in Seq(Lines) /\ accepted \in Seq(Lines) /\ queue_ \in Seq(Lines)
         /\ Held \in Seq(Lines) /\ output \o Held \in Seq(Lines)
         /\ output \o Held \o queue_ \in Seq(Lines)
<1>1. output \in Seq(Lines) /\ accepted \in Seq(Lines)
  BY SeqMonotonic DEF Known
<1>2. queue_ \in Seq(Lines)
  BY DEF QP!QInv, QP!QueueTypeOK
<1>3. item[Writer] = NULL \/ item[Writer] \in Lines
  BY DEF Known, Threads
<1>4. Held \in Seq(Lines)
  BY <1>3, EmptySeq DEF Held
<1> QED
  BY <1>1, <1>2, <1>4, ConcatProperties

LEMMA InitLInv == Init => LInv
<1> SUFFICES ASSUME Init PROVE LInv
  OBVIOUS
<1>1. QP!QueueInit
  BY DEF Init, Queue!QueueInit, QP!QueueInit
<1>2. QP!QInv
  BY <1>1, QP!InitQInv, QueueAssumption
<1>3. pc \in [Threads -> Functions]
  BY DEF Init, Functions
<1>4. \A t \in Threads : Placed(t)
  BY <1>1, LogAssumption
     DEF Init, QP!QueueInit, Placed, WriterPlaced, MainPlaced, PrinterPlaced, Threads
<1>5. output = << >> /\ accepted = << >> /\ queue_ = << >> /\ freed = {} /\ Held = << >>
  BY <1>1 DEF Init, QP!QueueInit, Held, Threads
<1>6. DOMAIN accepted = {} /\ AcceptedLines = {}
  BY <1>5 DEF AcceptedLines
<1>7. Known
  BY <1>1, <1>5, <1>6, LogAssumption, EmptySeq DEF Init, Known, QP!QueueInit, Threads
<1>8. Ordered
  <2>1. KeptOf(accepted, freed) = {}
    BY <1>6 DEF KeptOf
  <2>2. output \o Held \o queue_ = << >>
    BY <1>5, ConcatEmptySeq, EmptySeq
  <2>3. Len(output \o Held \o queue_) = 0
    BY <2>2, EmptySeq
  <2> QED
    BY <2>1, <2>3, FS_EmptySet DEF Ordered, InOrder
<1> QED
  BY <1>2, <1>3, <1>4, <1>7, <1>8 DEF LInv

-----------------------------------------------------------------------------
(* The steps that leave the queue and the lines alone. *)
LEMMA LinesUntouched ==
  ASSUME LInv, UNCHANGED <<queue_, item, freed, output, accepted>>,
         running' \in BOOLEAN, late' \in BOOLEAN, printed \subseteq printed', printed' \subseteq Lines
  PROVE  Known' /\ Ordered'
<1>1. output \in Seq(printed') /\ accepted \in Seq(printed')
  BY SeqMonotonic DEF LInv, Known
<1> QED
  BY <1>1 DEF LInv, Known, AcceptedLines, Ordered, Held

LEMMA IdleKeepsQueue == LInv /\ UNCHANGED queueVars => QP!QInv'
  BY QP!IdleKeepsTypes, QueueAssumption DEF LInv, queueVars, QP!queueVars

LEMMA ThreadsDiffer ==
  /\ Main \in Threads /\ Main \notin Printers /\ Writer \in Threads /\ Writer \notin Printers
  /\ Writer # Main /\ \A p \in Printers : p \in Threads
  BY LogAssumption DEF Threads

LEMMA MainStepKeepsInvariant ==
  ASSUME LInv, Start \/ StopRunning \/ JoinLogThread
  PROVE  LInv'
<1>1. UNCHANGED <<queueVars, printed, output, history>> /\ running' \in BOOLEAN
  BY DEF Start, StopRunning, JoinLogThread, LInv, Known
<1>2. /\ pc' \in [Threads -> Functions] /\ \A p \in Printers : pc'[p] = pc[p]
      /\ pc[Main] # "clearing" /\ pc'[Main] \in {"started", "joining", "joined"}
      /\ \/ pc'[Writer] = pc[Writer]
         \/ pc'[Writer] = "test" /\ pc[Main] = "new"
  BY ThreadsDiffer DEF Start, StopRunning, JoinLogThread, Goto, LInv, Functions
<1>3. UNCHANGED <<queue_, item, freed, output, accepted, late, printed, at>>
  BY <1>1 DEF queueVars, history
<1>4. /\ WriterPlaced /\ MainPlaced /\ \A p \in Printers : PrinterPlaced(p)
  BY ThreadsDiffer DEF LInv, Placed
<1>5. WriterPlaced' /\ MainPlaced' /\ \A p \in Printers : PrinterPlaced(p)'
  BY <1>2, <1>3, <1>4 DEF WriterPlaced, MainPlaced, PrinterPlaced
<1>6. Known' /\ Ordered'
  BY <1>1, <1>3, LinesUntouched DEF LInv, Known
<1> QED
  BY <1>1, <1>2, <1>5, <1>6, IdleKeepsQueue DEF LInv, Placed

-----------------------------------------------------------------------------
(* The steps inside the queue. *)

(* The threads that do not take the step stay where they are. *)
LEMMA OthersStayPlaced ==
  ASSUME LInv, NEW t \in Threads, t # Main => pc'[Main] = pc[Main],
         QP!QueueStep(t) \/ \E x \in Lines : QP!CallPush(t, x),
         \A u \in Threads \ {t} : pc'[u] = pc[u]
  PROVE  /\ t # Writer => WriterPlaced'
         /\ t # Main /\ (pc[Main] = "new" => t # Writer) => MainPlaced'
         /\ \A p \in Printers \ {t} : PrinterPlaced(p)'
<1>1. QP!QInv
  BY DEF LInv
<1>2. \A u \in Threads \ {t} :
        /\ item'[u] = item[u]
        /\ \/ at'[u] = at[u]
           \/ at[u] = "pushParked" /\ at'[u] = "push"
           \/ at[u] = "popParked" /\ at'[u] = "pop"
  BY <1>1, QP!ItemsOfOthers, QP!OthersMove, QueueAssumption
<1>3. WriterPlaced /\ MainPlaced /\ \A p \in Printers : PrinterPlaced(p)
  BY ThreadsDiffer DEF LInv, Placed
<1>4. t # Writer => WriterPlaced'
  BY <1>2, <1>3, ThreadsDiffer DEF WriterPlaced
<1>5. t # Main /\ (pc[Main] = "new" => t # Writer) => MainPlaced'
  BY <1>2, <1>3, ThreadsDiffer DEF MainPlaced
<1>6. \A p \in Printers \ {t} : PrinterPlaced(p)'
  BY <1>2, <1>3, ThreadsDiffer DEF PrinterPlaced
<1> QED
  BY <1>4, <1>5, <1>6

LEMMA PlacedWhere ==
  /\ LInv => WriterPlaced /\ MainPlaced /\ \A p \in Printers : PrinterPlaced(p)
  /\ WriterPlaced' /\ MainPlaced' /\ (\A p \in Printers : PrinterPlaced(p)')
        => \A t \in Threads : Placed(t)'
  BY ThreadsDiffer DEF LInv, Placed

LEMMA QueueStepKeepsQueue ==
  ASSUME LInv, NEW t \in Threads, QP!QueueStep(t)
  PROVE  QP!QInv'
  BY QP!StepKeepsTypes, QueueAssumption DEF LInv

LEMMA StopKeepsInvariant ==
  ASSUME LInv, Stop
  PROVE  LInv'
<1>1. /\ QP!CallClearUp(Main) /\ QP!QueueStep(Main) /\ pc[Main] = "started"
      /\ pc' = [pc EXCEPT ![Main] = "clearing"]
      /\ UNCHANGED <<running, printed, output, history>>
  BY SameSteps DEF Stop, Goto, QP!QueueStep
<1>2. at'[Main] = "clearUp" /\ UNCHANGED <<queue_, item, freed>>
  BY <1>1, ThreadsDiffer, QP!CallGoes, QueueAssumption DEF LInv, QP!CallClearUp
<1>3. /\ pc' \in [Threads -> Functions] /\ pc'[Main] = "clearing"
      /\ \A t \in Threads \ {Main} : pc'[t] = pc[t]
  BY <1>1, ThreadsDiffer DEF LInv, Functions
<1>4. MainPlaced'
  BY <1>2, <1>3 DEF MainPlaced
<1>5. \A t \in Threads : Placed(t)'
  BY <1>1, <1>3, <1>4, OthersStayPlaced, PlacedWhere, ThreadsDiffer
<1>6. Known' /\ Ordered'
  BY <1>1, <1>2, LinesUntouched DEF LInv, Known, history
<1> QED
  BY <1>1, <1>3, <1>5, <1>6, QueueStepKeepsQueue, ThreadsDiffer DEF LInv

LEMMA DrainKeepsInvariant ==
  ASSUME LInv, Drain
  PROVE  LInv'
<1>1. /\ QP!StoreValid(Main) /\ QP!QueueStep(Main)
      /\ UNCHANGED <<running, pc, printed, output, history>>
      /\ UNCHANGED <<queue_, at, item, freed>>
  BY SameSteps DEF Drain, QP!QueueStep, QP!StoreValid
<1>2. \A t \in Threads : Placed(t)'
  BY <1>1 DEF LInv, Placed, WriterPlaced, MainPlaced, PrinterPlaced
<1>3. Known' /\ Ordered'
  BY <1>1, LinesUntouched DEF LInv, Known, history
<1> QED
  BY <1>1, <1>2, <1>3, QueueStepKeepsQueue, ThreadsDiffer DEF LInv

LEMMA WakeKeepsInvariant ==
  ASSUME LInv, Wake
  PROVE  LInv'
<1>1. PICK t \in Threads : QP!SpuriousWake(t) /\ QP!QueueStep(t)
  BY SameSteps DEF Wake, QP!QueueStep
<1>2. UNCHANGED <<queue_, item, freed, running, pc, printed, output, history>>
  BY <1>1 DEF Wake, QP!SpuriousWake
<1>3. \/ at[t] = "pushParked" /\ at'[t] = "push"
      \/ at[t] = "popParked" /\ at'[t] = "pop"
  BY <1>1, QP!CallGoes, QueueAssumption DEF LInv
<1>4. Placed(t)'
  BY <1>2, <1>3, ThreadsDiffer DEF LInv, Placed, WriterPlaced, MainPlaced, PrinterPlaced
<1>5. \A u \in Threads \ {t} : Placed(u)'
  <2>1. \A u \in Threads \ {t} :
          \/ at'[u] = at[u]
          \/ at[u] = "pushParked" /\ at'[u] = "push"
          \/ at[u] = "popParked" /\ at'[u] = "pop"
    BY <1>1, QP!OthersMove, QueueAssumption DEF LInv
  <2> QED
    BY <1>2, <2>1 DEF LInv, Placed, WriterPlaced, MainPlaced, PrinterPlaced
<1>6. Known' /\ Ordered'
  BY <1>2, LinesUntouched DEF LInv, Known, history
<1> QED
  BY <1>1, <1>2, <1>4, <1>5, <1>6, QueueStepKeepsQueue DEF LInv

(* What Clear deletes are the last lines. *)
LEMMA ClearUpKeepsInvariant ==
  ASSUME LInv, ClearUp
  PROVE  LInv'
<1>1. /\ pc[Main] = "clearing" /\ QP!ClearUpStep(Main) /\ QP!QueueStep(Main)
      /\ pc' = [pc EXCEPT ![Main] = IF at'[Main] = "out" THEN "stopping" ELSE "clearing"]
      /\ UNCHANGED <<running, printed, output, history>>
  BY SameSteps DEF ClearUp, Goto, QP!QueueStep
<1>2. at[Main] \in {"clearUp", "invalidate", "notifyEmpty", "notifyFull"}
  BY <1>1, PlacedWhere DEF MainPlaced
<1>3. /\ at'[Main] \in {"invalidate", "notifyEmpty", "notifyFull", "out"} /\ item' = item
      /\ \/ queue_' = << >> /\ freed' = freed \cup QP!Queued
         \/ UNCHANGED <<queue_, freed>>
  BY <1>1, <1>2, ThreadsDiffer, QP!ClearUpGoes, QueueAssumption DEF LInv
<1>4. /\ pc' \in [Threads -> Functions] /\ \A t \in Threads \ {Main} : pc'[t] = pc[t]
      /\ pc'[Main] = IF at'[Main] = "out" THEN "stopping" ELSE "clearing"
  BY <1>1, ThreadsDiffer DEF LInv, Functions
<1>5. MainPlaced'
  BY <1>3, <1>4 DEF MainPlaced
<1>6. \A t \in Threads : Placed(t)'
  BY <1>1, <1>4, <1>5, OthersStayPlaced, PlacedWhere, ThreadsDiffer
<1>7. Known' /\ Ordered'
  <2>1. CASE UNCHANGED <<queue_, freed>>
    BY <1>1, <1>3, <2>1, LinesUntouched DEF LInv, Known, history
  <2>2. CASE queue_' = << >> /\ freed' = freed \cup QP!Queued
    <3>1. /\ output \o Held \in Seq(Lines) /\ queue_ \in Seq(Lines) /\ accepted \in Seq(Lines)
          /\ \A i, j \in DOMAIN accepted : accepted[i] = accepted[j] => i = j
          /\ InOrder(accepted, freed, (output \o Held) \o queue_)
      BY LineSequences DEF LInv, Known, Ordered
    <3>2. InOrder(accepted, freed \cup QP!Queued, output \o Held)
      BY <3>1, DeletedInOrder DEF QP!Queued
    <3>3. (output \o Held) \o << >> = output \o Held
      BY <3>1, ConcatEmptySeq
    <3>4. Held' = Held /\ UNCHANGED <<output, accepted>>
      BY <1>1, <1>3 DEF Held, history
    <3>5. Ordered'
      BY <2>2, <3>2, <3>3, <3>4 DEF Ordered
    <3>6. QP!Queued \subseteq AcceptedLines
      <4>1. \A k \in DOMAIN queue_ : \E i \in DOMAIN accepted : accepted[i] = queue_[k]
        <5> DEFINE first == output \o Held
        <5> SUFFICES ASSUME NEW k \in DOMAIN queue_
                     PROVE  \E i \in DOMAIN accepted : accepted[i] = queue_[k]
          OBVIOUS
        <5>1. first \in Seq(Lines) /\ InOrder(accepted, freed, first \o queue_)
          BY <3>1
        <5> HIDE DEF first
        <5> QED
          BY <3>1, <5>1, LastAreAccepted
      <4> QED
        BY <4>1 DEF QP!Queued, AcceptedLines
    <3>7. Known'
      BY <1>1, <1>3, <2>2, <3>6 DEF LInv, Known, AcceptedLines, history
    <3> QED
      BY <3>5, <3>7
  <2> QED
    BY <1>3, <2>1, <2>2
<1> QED
  BY <1>1, <1>4, <1>6, <1>7, QueueStepKeepsQueue, ThreadsDiffer DEF LInv

(* The queued lines were accepted, so they were printed. *)
LEMMA QueuedWereAccepted ==
  ASSUME LInv
  PROVE  QP!Queued \subseteq AcceptedLines /\ AcceptedLines \subseteq printed
<1> DEFINE first == output \o Held
<1>1. /\ first \in Seq(Lines) /\ queue_ \in Seq(Lines) /\ accepted \in Seq(Lines)
      /\ InOrder(accepted, freed, first \o queue_)
  BY LineSequences DEF LInv, Ordered
<1>2. \A k \in DOMAIN queue_ : \E i \in DOMAIN accepted : accepted[i] = queue_[k]
  <2> SUFFICES ASSUME NEW k \in DOMAIN queue_
               PROVE  \E i \in DOMAIN accepted : accepted[i] = queue_[k]
    OBVIOUS
  <2> HIDE DEF first
  <2> QED
    BY <1>1, LastAreAccepted
<1>3. \A i \in DOMAIN accepted : accepted[i] \in printed
  BY ElementOfSeq, LenProperties DEF LInv, Known
<1> QED
  BY <1>2, <1>3 DEF QP!Queued, AcceptedLines

LEMMA HeadThenTail ==
  ASSUME NEW s \in Seq(Lines), s # << >>
  PROVE  <<Head(s)>> \o Tail(s) = s
<1>1. /\ Head(s) \in Lines /\ Tail(s) \in Seq(Lines) /\ Head(s) = s[1]
      /\ Len(s) \in Nat \ {0} /\ Len(Tail(s)) = Len(s) - 1
      /\ \A i \in 1 .. Len(s) - 1 : Tail(s)[i] = s[i + 1]
  BY HeadTailProperties, LenProperties, EmptySeq
<1>2. <<Head(s)>> \in Seq(Lines) /\ Len(<<Head(s)>>) = 1 /\ <<Head(s)>>[1] = Head(s)
  BY <1>1
<1> DEFINE h == <<Head(s)>>
           both == h \o Tail(s)
<1>3. /\ both \in Seq(Lines) /\ Len(both) = Len(s)
      /\ \A i \in 1 .. Len(s) : both[i] = IF i <= 1 THEN h[i] ELSE Tail(s)[i - 1]
  <2> HIDE DEF h
  <2> DEFINE t == Tail(s)
  <2>1. h \in Seq(Lines) /\ Len(h) = 1 /\ t \in Seq(Lines) /\ Len(t) = Len(s) - 1
    BY <1>1, <1>2 DEF h
  <2>2. Len(h) + Len(t) = Len(s)
    BY <1>1, <2>1
  <2> HIDE DEF t
  <2>3. /\ h \o t \in Seq(Lines) /\ Len(h \o t) = Len(h) + Len(t)
        /\ \A i \in 1 .. Len(h) + Len(t) :
             (h \o t)[i] = IF i <= Len(h) THEN h[i] ELSE t[i - Len(h)]
    BY <2>1, ConcatProperties
  <2> QED
    BY <2>1, <2>2, <2>3 DEF t
<1>4. \A i \in 1 .. Len(s) : both[i] = s[i]
  <2> HIDE DEF both
  <2> SUFFICES ASSUME NEW i \in 1 .. Len(s) PROVE both[i] = s[i]
    OBVIOUS
  <2>1. CASE i = 1
    BY <1>1, <1>2, <1>3, <2>1
  <2>2. CASE i # 1
    <3>1. i - 1 \in 1 .. Len(s) - 1 /\ (i - 1) + 1 = i /\ ~(i <= 1)
      BY <1>1, <2>2
    <3> QED
      BY <1>1, <1>3, <3>1
  <2> QED
    BY <2>1, <2>2
<1> HIDE DEF both, h
<1>5. both = s
  BY <1>3, <1>4, SeqEqual
<1> QED
  BY <1>5 DEF both, h

LEMMA TestRunningKeepsInvariant ==
  ASSUME LInv, TestRunning
  PROVE  LInv'
<1>1. /\ pc[Writer] = "test" /\ UNCHANGED <<running, printed, output, history>>
      /\ at[Writer] = "out" /\ item[Writer] = NULL /\ pc[Main] # "new"
  BY PlacedWhere DEF TestRunning, WriterPlaced, MainPlaced
<1>2. /\ pc' \in [Threads -> Functions] /\ pc'[Writer] \in {"popping", "ended"}
      /\ \A t \in Threads \ {Writer} : pc'[t] = pc[t]
  BY ThreadsDiffer DEF TestRunning, Goto, LInv, Functions
<1>3. CASE running
  <2>1. QP!CallPop(Writer) /\ QP!QueueStep(Writer) /\ pc'[Writer] = "popping"
    BY <1>1, <1>3, SameSteps, ThreadsDiffer DEF TestRunning, Goto, QP!QueueStep, LInv
  <2>2. /\ at'[Writer] = "pop" /\ item' = item /\ UNCHANGED <<queue_, freed>>
    BY <1>1, <2>1, ThreadsDiffer, QP!CallGoes, QueueAssumption
       DEF LInv, QP!QInv, QP!QueueTypeOK, QP!CallPop
  <2>3. WriterPlaced'
    BY <1>1, <2>1, <2>2 DEF WriterPlaced
  <2>4. \A t \in Threads : Placed(t)'
    BY <1>1, <1>2, <2>1, <2>3, OthersStayPlaced, PlacedWhere, ThreadsDiffer
  <2>5. Known' /\ Ordered'
    BY <1>1, <2>2, LinesUntouched DEF LInv, Known, history
  <2> QED
    BY <1>2, <2>1, <2>4, <2>5, QueueStepKeepsQueue, ThreadsDiffer DEF LInv
<1>4. CASE ~running
  <2>1. UNCHANGED queueVars /\ pc'[Writer] = "ended"
    BY <1>4, ThreadsDiffer DEF TestRunning, Goto, LInv
  <2>2. UNCHANGED <<queue_, item, freed, at>>
    BY <2>1 DEF queueVars
  <2>3. WriterPlaced /\ MainPlaced /\ \A p \in Printers : PrinterPlaced(p)
    BY PlacedWhere
  <2>4. WriterPlaced' /\ MainPlaced' /\ \A p \in Printers : PrinterPlaced(p)'
    BY <1>1, <1>2, <2>1, <2>2, <2>3, ThreadsDiffer DEF WriterPlaced, MainPlaced, PrinterPlaced
  <2>5. Known' /\ Ordered'
    BY <1>1, <2>2, LinesUntouched DEF LInv, Known, history
  <2> QED
    BY <1>2, <2>1, <2>4, <2>5, IdleKeepsQueue, PlacedWhere DEF LInv
<1> QED
  BY <1>3, <1>4

(* The line at the head of the queue becomes the one about to be written. *)
LEMMA PopLineKeepsInvariant ==
  ASSUME LInv, PopLine
  PROVE  LInv'
<1>1. /\ pc[Writer] = "popping" /\ QP!PopStep(Writer) /\ QP!QueueStep(Writer)
      /\ pc' = [pc EXCEPT ![Writer] = IF at'[Writer] # "out" THEN "popping"
                                      ELSE IF item'[Writer] # NULL THEN "write" ELSE "test"]
      /\ late' \in BOOLEAN
      /\ UNCHANGED <<running, printed, output, accepted>>
  BY SameSteps DEF PopLine, Goto, QP!QueueStep, LInv, Known
<1>2. item[Writer] = NULL /\ pc[Main] # "new"
  BY <1>1, PlacedWhere DEF WriterPlaced, MainPlaced
<1>3. /\ at'[Writer] \in {"out", "popWait", "popParked"} /\ freed' = freed
      /\ \/ QP!PopTake(Writer) /\ at'[Writer] = "out"
            /\ item' = [item EXCEPT ![Writer] = Head(queue_)]
         \/ item' = item /\ queue_' = queue_
  BY <1>1, ThreadsDiffer, QP!PopGoes, QueueAssumption DEF LInv
<1>4. /\ pc' \in [Threads -> Functions] /\ \A t \in Threads \ {Writer} : pc'[t] = pc[t]
      /\ pc'[Writer] = IF at'[Writer] # "out" THEN "popping"
                       ELSE IF item'[Writer] # NULL THEN "write" ELSE "test"
  BY <1>1, ThreadsDiffer DEF LInv, Functions
<1>5. CASE item' = item /\ queue_' = queue_
  <2>1. WriterPlaced'
    BY <1>2, <1>3, <1>4, <1>5 DEF WriterPlaced
  <2>2. \A t \in Threads : Placed(t)'
    BY <1>1, <1>2, <1>4, <2>1, OthersStayPlaced, PlacedWhere, ThreadsDiffer
  <2>3. Known' /\ Ordered'
    BY <1>1, <1>3, <1>5, LinesUntouched DEF LInv, Known
  <2> QED
    BY <1>1, <1>4, <2>2, <2>3, QueueStepKeepsQueue, ThreadsDiffer DEF LInv
<1>6. CASE QP!PopTake(Writer) /\ at'[Writer] = "out" /\ item' = [item EXCEPT ![Writer] = Head(queue_)]
  <2> DEFINE x == Head(queue_)
  <2>1. x \in Lines /\ x # NULL /\ x \in QP!Queued
    BY <1>6, TakenWasQueued, ThreadsDiffer DEF LInv
  <2>2. queue_ \in Seq(Lines) /\ queue_ # << >> /\ queue_' = Tail(queue_)
    BY <1>6, LineSequences DEF LInv, QP!PopTake
  <2>3. /\ item'[Writer] = x /\ \A t \in Threads \ {Writer} : item'[t] = item[t]
    BY <1>6, ThreadsDiffer DEF LInv, QP!QInv, QP!QueueTypeOK
  <2>4. WriterPlaced'
    BY <1>2, <1>4, <1>6, <2>1, <2>3 DEF WriterPlaced
  <2>5. \A t \in Threads : Placed(t)'
    BY <1>1, <1>2, <1>4, <2>4, OthersStayPlaced, PlacedWhere, ThreadsDiffer
  <2>6. Known'
    <3>1. x \in printed /\ AcceptedLines' = AcceptedLines
      BY <1>1, <2>1, QueuedWereAccepted DEF AcceptedLines
    <3> HIDE DEF x
    <3> QED
      BY <1>1, <1>3, <2>3, <3>1, ThreadsDiffer DEF LInv, Known
  <2>7. Ordered'
    <3>1. Held = << >> /\ Held' = <<x>>
      BY <1>2, <2>1, <2>3 DEF Held
    <3>2. output \in Seq(Lines) /\ <<x>> \in Seq(Lines) /\ Tail(queue_) \in Seq(Lines)
      BY <2>1, <2>2, LineSequences, HeadTailProperties DEF LInv
    <3>3. output \o Held = output
      BY <3>1, <3>2, ConcatEmptySeq
    <3>4. (output \o <<x>>) \o Tail(queue_) = output \o (<<x>> \o Tail(queue_))
      BY <3>2, ConcatAssociative
    <3>5. <<x>> \o Tail(queue_) = queue_
      BY <2>2, HeadThenTail
    <3> HIDE DEF x
    <3> QED
      BY <1>1, <1>3, <2>2, <3>1, <3>3, <3>4, <3>5 DEF LInv, Ordered
  <2> QED
    BY <1>1, <1>4, <2>5, <2>6, <2>7, QueueStepKeepsQueue, ThreadsDiffer DEF LInv
<1> QED
  BY <1>3, <1>5, <1>6

LEMMA WriteLineKeepsInvariant ==
  ASSUME LInv, WriteLine
  PROVE  LInv'
<1> DEFINE x == item[Writer]
<1>1. /\ pc[Writer] = "write" /\ output' = Append(output, x)
      /\ item' = [item EXCEPT ![Writer] = NULL]
      /\ pc' = [pc EXCEPT ![Writer] = "test"]
      /\ UNCHANGED <<queue_, mtx_, valid_, storing, at, freed, running, printed, accepted, late>>
  BY DEF WriteLine, Goto, history
<1>2. WriterPlaced /\ MainPlaced /\ \A p \in Printers : PrinterPlaced(p)
  BY PlacedWhere
<1>3. x # NULL /\ x \in printed /\ x \in Lines /\ at[Writer] = "out" /\ pc[Main] # "new"
  BY <1>1, <1>2, ThreadsDiffer DEF WriterPlaced, MainPlaced, LInv, Known
<1>4. item'[Writer] = NULL /\ \A t \in Threads \ {Writer} : item'[t] = item[t]
  BY <1>1, ThreadsDiffer DEF LInv, QP!QInv, QP!QueueTypeOK
<1>5. /\ pc' \in [Threads -> Functions] /\ pc'[Writer] = "test"
      /\ \A t \in Threads \ {Writer} : pc'[t] = pc[t]
  BY <1>1, ThreadsDiffer DEF LInv, Functions
<1>6. QP!QInv'
  <2>1. item' \in [Threads -> Lines \cup {NULL}]
    BY <1>1 DEF LInv, QP!QInv, QP!QueueTypeOK
  <2>2. QP!QueueTypeOK'
    BY <1>1, <2>1 DEF LInv, QP!QInv, QP!QueueTypeOK
  <2>3. QP!Waits'
    BY <1>1, <1>3, <1>4 DEF LInv, QP!QInv, QP!Waits
  <2> QED
    BY <2>2, <2>3 DEF QP!QInv
<1>7. WriterPlaced' /\ MainPlaced' /\ \A p \in Printers : PrinterPlaced(p)'
  BY <1>1, <1>2, <1>3, <1>4, <1>5, ThreadsDiffer DEF WriterPlaced, MainPlaced, PrinterPlaced
<1>8. Known'
  <2>1. output' \in Seq(printed)
    BY <1>1, <1>3, AppendProperties DEF LInv, Known
  <2>2. AcceptedLines' = AcceptedLines
    BY <1>1 DEF AcceptedLines
  <2>3. NULL \notin AcceptedLines
    BY LogAssumption, QueuedWereAccepted DEF LInv, Known
  <2> QED
    BY <1>1, <1>4, <2>1, <2>2, <2>3, ThreadsDiffer DEF LInv, Known
<1>9. Ordered'
  <2>1. Held = <<x>> /\ Held' = << >>
    BY <1>3, <1>4 DEF Held
  <2>2. output \in Seq(Lines) /\ Append(output, x) = output \o <<x>>
    BY <1>3, LineSequences, AppendIsConcat DEF LInv
  <2>3. output' \in Seq(Lines)
    BY <1>1, <1>3, <2>2, AppendProperties
  <2>4. output' \o << >> = output \o Held
    BY <1>1, <2>1, <2>2, <2>3, ConcatEmptySeq
  <2> QED
    BY <1>1, <2>1, <2>4 DEF LInv, Ordered
<1> QED
  BY <1>5, <1>6, <1>7, <1>8, <1>9, PlacedWhere DEF LInv

LEMMA PrintLineKeepsInvariant ==
  ASSUME LInv, NEW p \in Printers, PrintLine(p)
  PROVE  LInv'
<1>1. PICK line \in Lines \ printed :
        /\ printed' = printed \cup {line}
        /\ \/ UNCHANGED <<queueVars, pc>>
           \/ QP!CallPush(p, line) /\ Goto(p, "printing")
  BY SameSteps DEF PrintLine
<1>2. UNCHANGED <<running, output, accepted, late>>
  BY DEF PrintLine, history
<1>3. CASE UNCHANGED <<queueVars, pc>>
  <2>1. UNCHANGED <<queue_, item, freed, at>>
    BY <1>3 DEF queueVars
  <2>2. \A t \in Threads : Placed(t)'
    BY <1>3, <2>1 DEF LInv, Placed, WriterPlaced, MainPlaced, PrinterPlaced
  <2>3. Known' /\ Ordered'
    BY <1>1, <1>2, <2>1, LinesUntouched DEF LInv, Known
  <2> QED
    BY <1>3, <2>2, <2>3, IdleKeepsQueue DEF LInv
<1>4. CASE QP!CallPush(p, line) /\ Goto(p, "printing")
  <2>1. /\ p \in Threads /\ p # Writer /\ p # Main
        /\ \E x \in Lines : QP!CallPush(p, x)
    BY <1>4, ThreadsDiffer
  <2>2. QP!QInv'
    BY <2>1, QP!StepKeepsTypes, QueueAssumption DEF LInv
  <2>3. /\ at'[p] = "push" /\ item'[p] = line /\ UNCHANGED <<queue_, freed>>
        /\ \A t \in Threads \ {p} : item'[t] = item[t]
    <3>1. at'[p] = "push" /\ item'[p] = line /\ UNCHANGED <<queue_, freed>>
      BY <1>4, <2>1, QP!CallGoes, QueueAssumption DEF LInv, QP!CallPush
    <3>2. \A t \in Threads \ {p} : item'[t] = item[t]
      BY <2>1, QP!ItemsOfOthers, QueueAssumption DEF LInv
    <3> QED
      BY <3>1, <3>2
  <2>4. /\ pc' \in [Threads -> Functions] /\ pc'[p] = "printing"
        /\ \A t \in Threads \ {p} : pc'[t] = pc[t]
    BY <1>4, <2>1 DEF LInv, Functions, Goto
  <2>5. PrinterPlaced(p)'
    BY <2>3, <2>4 DEF PrinterPlaced
  <2>6. \A t \in Threads : Placed(t)'
    <3>1. WriterPlaced' /\ MainPlaced' /\ \A q \in Printers \ {p} : PrinterPlaced(q)'
      BY <2>1, <2>4, OthersStayPlaced, ThreadsDiffer
    <3> QED
      BY <2>5, <3>1, PlacedWhere
  <2>7. Known'
    <3>1. /\ AcceptedLines' = AcceptedLines /\ AcceptedLines \subseteq printed
          /\ line # NULL
      BY <1>2, QueuedWereAccepted, LogAssumption DEF AcceptedLines
    <3>2. output' \in Seq(printed') /\ accepted' \in Seq(printed')
      BY <1>1, <1>2, SeqMonotonic DEF LInv, Known
    <3>3. \A q \in Printers \ {p} : item'[q] = item[q] /\ (item[q] # NULL => item[q] # line)
      BY <1>1, <2>3, ThreadsDiffer DEF LInv, Known
    <3>4. \A q, r \in Printers : item'[q] # NULL /\ item'[q] = item'[r] => q = r
      BY <2>3, <3>1, <3>3 DEF LInv, Known
    <3> QED
      BY <1>1, <1>2, <2>3, <3>1, <3>2, <3>3, <3>4 DEF LInv, Known
  <2>8. Ordered'
    BY <1>2, <2>1, <2>3, ThreadsDiffer DEF LInv, Ordered, Held
  <2> QED
    BY <2>2, <2>4, <2>6, <2>7, <2>8 DEF LInv
<1> QED
  BY <1>1, <1>3, <1>4

(* A line is accepted when it is put behind the queued ones. *)
LEMMA PushLineKeepsInvariant ==
  ASSUME LInv, NEW p \in Printers, PushLine(p)
  PROVE  LInv'
<1>1. /\ QP!PushStep(p) /\ QP!QueueStep(p) /\ Goto(p, IF at'[p] = "out" THEN "idle" ELSE "printing")
      /\ accepted' = IF queue_' # queue_ THEN Append(accepted, item[p]) ELSE accepted
      /\ UNCHANGED <<running, printed, output, late>>
  BY SameSteps DEF PushLine, QP!QueueStep
<1>2. p \in Threads /\ p # Writer /\ p # Main
  BY ThreadsDiffer
<1>3. /\ at'[p] \in {"out", "pushWait", "pushParked"} /\ freed' = freed
      /\ \/ QP!PushEnqueue(p) /\ item' = [item EXCEPT ![p] = NULL]
         \/ item' = item /\ queue_' = queue_
  BY <1>1, <1>2, QP!PushGoes, QueueAssumption DEF LInv
<1>4. /\ pc' \in [Threads -> Functions] /\ \A t \in Threads \ {p} : pc'[t] = pc[t]
      /\ pc'[p] = IF at'[p] = "out" THEN "idle" ELSE "printing"
  BY <1>1, <1>2 DEF LInv, Functions, Goto
<1>5. PrinterPlaced(p)'
  BY <1>3, <1>4 DEF PrinterPlaced
<1>6. \A t \in Threads : Placed(t)'
  <2>1. WriterPlaced' /\ MainPlaced' /\ \A q \in Printers \ {p} : PrinterPlaced(q)'
    BY <1>1, <1>2, <1>4, OthersStayPlaced, ThreadsDiffer
  <2> QED
    BY <1>5, <2>1, PlacedWhere
<1>7. CASE item' = item /\ queue_' = queue_
  <2>1. Known' /\ Ordered'
    BY <1>1, <1>3, <1>7, LinesUntouched DEF LInv, Known
  <2> QED
    BY <1>1, <1>2, <1>4, <1>6, <2>1, QueueStepKeepsQueue DEF LInv
<1>8. CASE QP!PushEnqueue(p) /\ item' = [item EXCEPT ![p] = NULL]
  <2> DEFINE x == item[p]
  <2>1. queue_' = Append(queue_, x) /\ x \in Lines /\ x # NULL /\ queue_ \in Seq(Lines)
    BY <1>2, <1>8, EnqueuedIsQueued, LogAssumption, LineSequences DEF LInv
  <2>2. accepted' = Append(accepted, x)
    BY <1>1, <2>1, AppendProperties, LenProperties
  <2>3. item'[p] = NULL /\ \A t \in Threads \ {p} : item'[t] = item[t]
    BY <1>2, <1>8 DEF LInv, QP!QInv, QP!QueueTypeOK
  <2>4. x \in printed /\ x \notin AcceptedLines /\ x \notin freed
    BY <1>2, <2>1 DEF LInv, Known
  <2>5. accepted \in Seq(Lines) /\ accepted \in Seq(printed)
    BY LineSequences DEF LInv, Known
  <2> HIDE DEF x
  <2>6. /\ Len(accepted) \in Nat /\ DOMAIN accepted = 1 .. Len(accepted)
        /\ DOMAIN accepted' = 1 .. Len(accepted) + 1
        /\ accepted'[Len(accepted) + 1] = x
        /\ \A i \in DOMAIN accepted : accepted'[i] = accepted[i]
    BY <2>1, <2>2, <2>5, AppendProperties, LenProperties
  <2>7. /\ DOMAIN accepted' = DOMAIN accepted \cup {Len(accepted) + 1}
        /\ Len(accepted) + 1 \notin DOMAIN accepted
    BY <2>6
  <2>8. AcceptedLines' = AcceptedLines \cup {x}
    BY <2>6, <2>7 DEF AcceptedLines
  <2>9. Known'
    <3>1. accepted' \in Seq(printed')
      BY <1>1, <2>2, <2>4, <2>5, AppendProperties
    <3>2. \A i, j \in DOMAIN accepted' : accepted'[i] = accepted'[j] => i = j
      <4>1. \A i \in DOMAIN accepted : accepted[i] # x
        BY <2>4 DEF AcceptedLines
      <4> QED
        BY <2>6, <2>7, <4>1 DEF LInv, Known
    <3>3. \A q \in Printers \ {p} : item'[q] = item[q] /\ item[q] # x
      BY <2>1, <2>3, ThreadsDiffer DEF LInv, Known, x
    <3>4. NULL \notin AcceptedLines'
      BY <2>1, <2>8, LogAssumption, QueuedWereAccepted DEF LInv, Known
    <3>5. \A q \in Printers : item'[q] \notin AcceptedLines'
      BY <2>3, <2>8, <3>3, <3>4 DEF LInv, Known
    <3>6. \A q, r \in Printers : item'[q] # NULL /\ item'[q] = item'[r] => q = r
      BY <2>3, <3>3 DEF LInv, Known
    <3> QED
      BY <1>1, <1>3, <2>3, <2>8, <3>1, <3>2, <3>5, <3>6 DEF LInv, Known
  <2>10. Ordered'
    <3> DEFINE first == output \o Held
    <3>1. first \in Seq(Lines) /\ <<x>> \in Seq(Lines) /\ x \in Lines \ freed
      BY <2>1, <2>4, LineSequences DEF LInv
    <3>2. first' = first
      BY <1>1, <1>2, <2>3, ThreadsDiffer DEF Held
    <3> HIDE DEF first
    <3>3. first \o queue_ \in Seq(Lines)
      BY <2>1, <3>1, ConcatProperties
    <3>4. InOrder(accepted', freed, Append(first \o queue_, x))
      BY <2>2, <2>5, <3>1, <3>3, AppendInOrder DEF LInv, Ordered, first
    <3>5. Append(first \o queue_, x) = (first \o queue_) \o <<x>>
      BY <3>1, <3>3, AppendIsConcat
    <3>6. (first \o queue_) \o <<x>> = first \o (queue_ \o <<x>>)
      BY <2>1, <3>1, ConcatAssociative
    <3>7. queue_ \o <<x>> = queue_'
      BY <2>1, AppendIsConcat
    <3>8. InOrder(accepted', freed', first \o queue_')
      BY <1>3, <3>4, <3>5, <3>6, <3>7
    <3> QED
      BY <3>2, <3>8 DEF Ordered, first
  <2> QED
    BY <1>1, <1>2, <1>4, <1>6, <2>9, <2>10, QueueStepKeepsQueue DEF LInv
<1> QED
  BY <1>3, <1>7, <1>8

LEMMA NextKeepsInvariant == LInv /\ [Next]_vars => LInv'
<1> SUFFICES ASSUME LInv, [Next]_vars PROVE LInv'
  OBVIOUS
<1>1. CASE UNCHANGED vars
  <2>1. UNCHANGED <<queueVars, running, pc, printed, output, accepted, late>>
    BY <1>1 DEF vars, history
  <2>2. UNCHANGED <<queue_, at, item, freed>>
    BY <2>1 DEF queueVars
  <2>3. \A t \in Threads : Placed(t)'
    BY <2>1, <2>2 DEF LInv, Placed, WriterPlaced, MainPlaced, PrinterPlaced
  <2>4. Known' /\ Ordered'
    BY <2>1, <2>2, LinesUntouched DEF LInv, Known
  <2> QED
    BY <2>1, <2>3, <2>4, IdleKeepsQueue DEF LInv
<1>2. CASE Next
  BY <1>2, MainStepKeepsInvariant, StopKeepsInvariant, ClearUpKeepsInvariant,
     TestRunningKeepsInvariant, PopLineKeepsInvariant, WriteLineKeepsInvariant,
     PrintLineKeepsInvariant, PushLineKeepsInvariant, DrainKeepsInvariant, WakeKeepsInvariant
     DEF Next, WriterStep
<1> QED
  BY <1>1, <1>2

LEMMA LogInvariance == Spec => []LInv
  BY InitLInv, NextKeepsInvariant, PTL DEF Spec

(* The log thread, the printers and the thread that stops them are where   *)
(* their functions can be, and only printed lines are accepted or written, *)
(* however many printers there are.                                        *)
THEOREM LogTypeCorrect == Spec => []TypeOK
  BY LogInvariance, LInvImplies, PTL

(* The lines Push accepted and Stop did not delete are written in the      *)
(* order in which they were accepted, none twice and none left out, for    *)
(* any number of printers and lines and any kMaxSize_.                     *)
THEOREM LinesAreWrittenInOrder == Spec => []WrittenInOrder
  BY LogInvariance, LInvImplies, PTL
=============================================================================
