--------------------------- MODULE RingFifoProofs ---------------------------
(***************************************************************************)
(* More proofs about RingBuffer, for every number of threads, every size   *)
(* and every batch, while the heads have not wrapped round: every claimed  *)
(* position belongs to a call that is still running, and the ring is a     *)
(* first-in first-out queue, as UnitFifo says.                             *)
(***************************************************************************)
EXTENDS RingBufferProofs, SequenceTheorems

Contents == Units \cup {Garbage}

(* The places a call has claimed, and those between a tail and its head.   *)
ClaimOf(t) == old[t]..(old[t] + cnt[t] - 1)

(* Every position between a tail and its head is in the claim of a call    *)
(* that is still running.                                                  *)
Covered ==
  /\ \A x \in prodTail..(prodHead - 1) :
       \E p \in Producers : Claims(p) /\ x \in ClaimOf(p)
  /\ \A x \in consTail..(consHead - 1) :
       \E c \in Consumers : Claims(c) /\ x \in ClaimOf(c)

(* How far the copy loop of a claim is: it ends with the last unit. *)
LoopsEnd ==
  \A t \in Threads : Claims(t) =>
    /\ k[t] <= cnt[t]
    /\ pc[t] \notin {"copyIn", "copyOut"} => k[t] = cnt[t]

(* What a producer has copied stands in the slots it claimed. *)
Filled ==
  \A p \in Producers : Claims(p) =>
    \A i \in 0..(k[p] - 1) : slot[SlotOf(old[p] + i)] = buf[p][i + 1]

(* A consumer has as many units as it has copied, and an array is there    *)
(* only while a call uses it.                                              *)
Arrays ==
  /\ \A c \in Consumers :
       /\ Claims(c) => Len(buf[c]) = k[c]
       /\ ~Claims(c) => buf[c] = << >>
  /\ \A p \in Producers : pc[p] = "idle" => buf[p] = << >>

FInv == Covered /\ LoopsEnd /\ Filled /\ Arrays

-----------------------------------------------------------------------------
(* The slots that hold a row of positions. *)

Cells(s, from, n) == [i \in 1..n |-> s[SlotOf(from + i - 1)]]

LEMMA CellsAreStored ==
  ASSUME NEW s, NEW from \in Nat, NEW n \in Int, from + n <= Modulus
  PROVE  [i \in 1..n |-> s[SlotOf(U32(from + i - 1))]] = Cells(s, from, n)
<1>1. \A i \in 1..n : U32(from + i - 1) = from + i - 1
  <2> SUFFICES ASSUME NEW i \in 1..n PROVE from + i - 1 \in Words
    BY U32Small
  <2> QED
    BY RingAssumption DEF Words
<1> QED
  BY <1>1 DEF Cells

LEMMA CellsAreSeq ==
  ASSUME NEW s \in [Slots -> Contents], NEW from \in Nat, NEW n \in Nat
  PROVE  /\ Cells(s, from, n) \in Seq(Contents)
         /\ Len(Cells(s, from, n)) = n
         /\ \A i \in 1..n : Cells(s, from, n)[i] = s[SlotOf(from + i - 1)]
<1>1. \A i \in 1..n : s[SlotOf(from + i - 1)] \in Contents
  <2> SUFFICES ASSUME NEW i \in 1..n PROVE SlotOf(from + i - 1) \in Slots
    OBVIOUS
  <2>1. from + i - 1 \in Nat
    OBVIOUS
  <2> QED
    BY <2>1, SlotOfType
<1>2. Cells(s, from, n) \in [1..n -> Contents]
  BY <1>1 DEF Cells
<1> QED
  BY <1>2 DEF Cells

LEMMA CellsSame ==
  ASSUME NEW s, NEW r, NEW from \in Nat, NEW n \in Int,
         \A x \in from..(from + n - 1) : r[SlotOf(x)] = s[SlotOf(x)]
  PROVE  Cells(r, from, n) = Cells(s, from, n)
<1>1. \A i \in 1..n : from + i - 1 \in from..(from + n - 1)
  OBVIOUS
<1> QED
  BY <1>1 DEF Cells

(* A sequence whose elements are those of two others is their             *)
(* concatenation.                                                          *)
LEMMA JoinIsConcat ==
  ASSUME NEW S, NEW a \in Seq(S), NEW b \in Seq(S), NEW c \in Seq(S),
         Len(c) = Len(a) + Len(b),
         \A i \in 1..Len(a) : c[i] = a[i],
         \A i \in 1..Len(b) : c[Len(a) + i] = b[i]
  PROVE  a \o b = c
<1> DEFINE d == a \o b
<1>1. /\ d \in Seq(S) /\ Len(d) = Len(a) + Len(b)
      /\ \A i \in 1..(Len(a) + Len(b)) : d[i] = IF i <= Len(a) THEN a[i] ELSE b[i - Len(a)]
  BY ConcatProperties
<1>2. Len(a) \in Nat /\ Len(b) \in Nat
  BY LenProperties
<1> HIDE DEF d
<1>3. \A i \in 1..Len(d) : d[i] = c[i]
  <2> SUFFICES ASSUME NEW i \in 1..Len(d) PROVE d[i] = c[i]
    OBVIOUS
  <2>1. i \in 1..(Len(a) + Len(b))
    BY <1>1
  <2>2. CASE i \in 1..Len(a)
    <3>1. d[i] = a[i]
      BY <1>1, <1>2, <2>1, <2>2
    <3> QED
      BY <2>2, <3>1
  <2>3. CASE i - Len(a) \in 1..Len(b)
    <3>1. d[i] = b[i - Len(a)]
      BY <1>1, <1>2, <2>1, <2>3
    <3>2. Len(a) + (i - Len(a)) = i
      BY <1>2, <2>1
    <3>3. c[Len(a) + (i - Len(a))] = b[i - Len(a)]
      BY <2>3
    <3> QED
      BY <3>1, <3>2, <3>3
  <2>4. i \in 1..Len(a) \/ i - Len(a) \in 1..Len(b)
    BY <1>2, <2>1
  <2> QED
    BY <2>2, <2>3, <2>4
<1>4. d = c
  BY <1>1, <1>3, SeqEqual
<1> QED
  BY <1>4 DEF d

(* Two rows one behind the other are one row. *)
LEMMA CellsJoin ==
  ASSUME NEW s \in [Slots -> Contents], NEW from \in Nat, NEW m \in Nat, NEW n \in Nat
  PROVE  Cells(s, from, m) \o Cells(s, from + m, n) = Cells(s, from, m + n)
<1> DEFINE a == Cells(s, from, m)
           b == Cells(s, from + m, n)
           c == Cells(s, from, m + n)
<1>0. m + n \in Nat /\ from + m \in Nat
  OBVIOUS
<1>1. /\ a \in Seq(Contents) /\ Len(a) = m
      /\ \A i \in 1..m : a[i] = s[SlotOf(from + i - 1)]
  BY CellsAreSeq
<1>2. /\ b \in Seq(Contents) /\ Len(b) = n
      /\ \A i \in 1..n : b[i] = s[SlotOf(from + m + i - 1)]
  BY <1>0, CellsAreSeq
<1>3. /\ c \in Seq(Contents) /\ Len(c) = m + n
      /\ \A i \in 1..(m + n) : c[i] = s[SlotOf(from + i - 1)]
  BY <1>0, CellsAreSeq
<1> HIDE DEF a, b, c
<1>4. \A i \in 1..Len(a) : c[i] = a[i]
  BY <1>1, <1>3
<1>5. \A i \in 1..Len(b) : c[Len(a) + i] = b[i]
  <2> SUFFICES ASSUME NEW i \in 1..n PROVE c[m + i] = b[i]
    BY <1>1, <1>2
  <2>1. m + i \in 1..(m + n) /\ from + (m + i) - 1 = from + m + i - 1
    OBVIOUS
  <2> QED
    BY <1>2, <1>3, <2>1
<1>6. a \o b = c
  BY <1>1, <1>2, <1>3, <1>4, <1>5, JoinIsConcat
<1> QED
  BY <1>6 DEF a, b, c

LEMMA CellsExtend ==
  ASSUME NEW s \in [Slots -> Contents], NEW from \in Nat, NEW to \in Nat, NEW m \in Nat,
         from <= to
  PROVE  Cells(s, from, to - from) \o Cells(s, to, m) = Cells(s, from, to + m - from)
<1> DEFINE n == to - from
<1>1. n \in Nat /\ from + n = to /\ n + m = to + m - from
  OBVIOUS
<1> HIDE DEF n
<1>2. Cells(s, from, n) \o Cells(s, from + n, m) = Cells(s, from, n + m)
  BY <1>1, CellsJoin
<1>3. Cells(s, from, n) \o Cells(s, to, m) = Cells(s, from, to + m - from)
  BY <1>1, <1>2
<1> QED
  BY <1>3 DEF n

LEMMA CellsFirst ==
  ASSUME NEW s \in [Slots -> Contents], NEW from \in Nat, NEW n \in Nat
  PROVE  Cells(s, from, n + 1) = <<s[SlotOf(from)]>> \o Cells(s, from + 1, n)
<1>1. Cells(s, from, 1) = <<s[SlotOf(from)]>>
  <2>1. [i \in 1..1 |-> s[SlotOf(from + i - 1)]] = <<s[SlotOf(from)]>>
    OBVIOUS
  <2> QED
    BY <2>1 DEF Cells
<1>2. 1 \in Nat /\ 1 + n = n + 1
  OBVIOUS
<1>3. Cells(s, from, 1) \o Cells(s, from + 1, n) = Cells(s, from, 1 + n)
  BY <1>2, CellsJoin
<1> QED
  BY <1>1, <1>2, <1>3

LEMMA AppendConcat ==
  ASSUME NEW S, NEW s \in Seq(S), NEW t \in Seq(S), NEW e \in S
  PROVE  Append(s, e) \o t = s \o (<<e>> \o t)
<1>1. Append(s, e) = s \o <<e>>
  BY AppendIsConcat
<1>2. <<e>> \in Seq(S)
  OBVIOUS
<1> DEFINE one == <<e>>
<1> HIDE DEF one
<1>3. one \in Seq(S)
  BY <1>2 DEF one
<1>4. (s \o one) \o t = s \o (one \o t)
  BY <1>3, ConcatAssociative
<1> QED
  BY <1>1, <1>4 DEF one

(* The front of a row and the rest of it. *)
LEMMA CellsSplit ==
  ASSUME NEW s \in [Slots -> Contents], NEW from \in Nat, NEW n \in Nat, NEW m \in 0..n
  PROVE  /\ SubSeq(Cells(s, from, n), 1, m) = Cells(s, from, m)
         /\ SubSeq(Cells(s, from, n), m + 1, n) = Cells(s, from + m, n - m)
<1> DEFINE c == Cells(s, from, n)
           a == Cells(s, from, m)
           b == Cells(s, from + m, n - m)
<1>0. n - m \in Nat /\ from + m \in Nat /\ m \in Nat
  OBVIOUS
<1>1. /\ c \in Seq(Contents) /\ Len(c) = n
      /\ \A i \in 1..n : c[i] = s[SlotOf(from + i - 1)]
  BY CellsAreSeq
<1>2. /\ a \in Seq(Contents) /\ Len(a) = m
      /\ \A i \in 1..m : a[i] = s[SlotOf(from + i - 1)]
  BY <1>0, CellsAreSeq
<1>3. /\ b \in Seq(Contents) /\ Len(b) = n - m
      /\ \A i \in 1..(n - m) : b[i] = s[SlotOf(from + m + i - 1)]
  BY <1>0, CellsAreSeq
<1>4. \A i \in 1..n : c[i] \in Contents
  BY <1>1, ElementOfSeq
<1> HIDE DEF a, b, c
<1>5. /\ SubSeq(c, 1, m) \in Seq(Contents) /\ Len(SubSeq(c, 1, m)) = m
      /\ \A i \in 1..m : SubSeq(c, 1, m)[i] = c[i]
  <2>1. \A i \in 1..m : c[i] \in Contents
    BY <1>4
  <2> QED
    BY <2>1, SubSeqProperties
<1>6. /\ SubSeq(c, m + 1, n) \in Seq(Contents) /\ Len(SubSeq(c, m + 1, n)) = n - m
      /\ \A i \in 1..(n - m) : SubSeq(c, m + 1, n)[i] = c[m + i]
  <2>1. \A i \in (m + 1)..n : c[i] \in Contents
    BY <1>4
  <2> QED
    BY <2>1, SubSeqProperties
<1>7. SubSeq(c, 1, m) = a
  <2>1. \A i \in 1..m : SubSeq(c, 1, m)[i] = a[i]
    BY <1>1, <1>2, <1>5
  <2> QED
    BY <1>2, <1>5, <2>1, SeqEqual
<1>8. SubSeq(c, m + 1, n) = b
  <2>1. \A i \in 1..(n - m) : SubSeq(c, m + 1, n)[i] = b[i]
    <3> SUFFICES ASSUME NEW i \in 1..(n - m) PROVE c[m + i] = b[i]
      BY <1>6
    <3>1. m + i \in 1..n /\ from + (m + i) - 1 = from + m + i - 1
      OBVIOUS
    <3> QED
      BY <1>1, <1>3, <3>1
  <2> QED
    BY <1>3, <1>6, <2>1, SeqEqual
<1> QED
  BY <1>7, <1>8 DEF a, b, c

-----------------------------------------------------------------------------
(* What the invariants say of the numbers. *)

Bounds == /\ consTail \in Nat /\ consHead \in Nat /\ prodTail \in Nat /\ prodHead \in Nat
          /\ consTail <= consHead /\ consHead <= prodTail /\ prodTail <= prodHead
          /\ prodHead <= consTail + capacity /\ prodHead < Modulus
          /\ capacity \in Nat /\ Modulus \in Nat
          /\ \A t \in Threads : old[t] \in Nat /\ cnt[t] \in Int /\ k[t] \in Nat

LEMMA BoundsHold == IInv => Bounds
  BY RingAssumption DEF IInv, TypeOK, Order, Words, Bounds, capacity

ClaimBounds(t) ==
  /\ 1 <= cnt[t] /\ k[t] <= cnt[t] /\ consTail <= old[t]
  /\ old[t] + cnt[t] <= prodHead
  /\ t \in Producers => prodTail <= old[t]
  /\ t \in Consumers => old[t] + cnt[t] <= consHead

LEMMA ClaimsAreBounded ==
  ASSUME IInv, FInv, NEW t \in Threads, Claims(t)
  PROVE  ClaimBounds(t)
<1> USE BoundsHold DEF Bounds, ClaimBounds
<1>1. k[t] <= cnt[t]
  BY DEF FInv, LoopsEnd
<1>2. CASE t \in Producers
  <2>1. /\ prodTail <= old[t] /\ old[t] + cnt[t] <= prodHead /\ 1 <= cnt[t]
    BY <1>2 DEF IInv, ProducerClaims
  <2>2. t \notin Consumers
    BY <1>2, RingAssumption
  <2> QED
    BY <1>1, <2>1, <2>2
<1>3. CASE t \in Consumers
  <2>1. /\ consTail <= old[t] /\ old[t] + cnt[t] <= consHead /\ 1 <= cnt[t]
    BY <1>3 DEF IInv, ConsumerClaims
  <2>2. t \notin Producers
    BY <1>3, RingAssumption
  <2> QED
    BY <1>1, <2>1, <2>2
<1> QED
  BY <1>2, <1>3 DEF Threads

(* A claim is a part of what lies between the tail and the head. *)
LEMMA CoveredImpliesNoOrphan == IInv /\ FInv => NoOrphanClaim
<1> SUFFICES ASSUME IInv, FInv PROVE NoOrphanClaim
  OBVIOUS
<1> USE BoundsHold DEF Bounds
<1>1. \A x, y \in Nat : x <= y /\ y < Modulus => Distance(x, y) = y - x
  <2> SUFFICES ASSUME NEW x \in Nat, NEW y \in Nat, x <= y, y < Modulus
               PROVE  y - x \in Words
    BY U32Small DEF Distance
  <2> QED
    BY DEF Words
<1>2. \A x \in Nat : x < Modulus => U32(x) = x
  BY U32Small DEF Words
<1>3. ASSUME NEW d \in 0..(Distance(prodTail, prodHead) - 1)
      PROVE  \E p \in Producers : Claims(p) /\ Distance(old[p], U32(prodTail + d)) < cnt[p]
  <2>1. prodTail + d \in prodTail..(prodHead - 1)
    BY <1>1
  <2>2. PICK p \in Producers : Claims(p) /\ prodTail + d \in ClaimOf(p)
    BY <2>1 DEF FInv, Covered
  <2>3. /\ old[p] \in Nat /\ cnt[p] \in Int /\ old[p] <= prodTail + d
        /\ prodTail + d < old[p] + cnt[p]
    BY <2>1, <2>2 DEF ClaimOf, Threads
  <2>4. U32(prodTail + d) = prodTail + d
    BY <1>2, <2>1
  <2>5. Distance(old[p], prodTail + d) = prodTail + d - old[p]
    BY <1>1, <2>1, <2>3
  <2> QED
    BY <2>1, <2>2, <2>3, <2>4, <2>5
<1>4. ASSUME NEW d \in 0..(Distance(consTail, consHead) - 1)
      PROVE  \E c \in Consumers : Claims(c) /\ Distance(old[c], U32(consTail + d)) < cnt[c]
  <2>1. consTail + d \in consTail..(consHead - 1) /\ consHead < Modulus
    BY <1>1
  <2>2. PICK c \in Consumers : Claims(c) /\ consTail + d \in ClaimOf(c)
    BY <2>1 DEF FInv, Covered
  <2>3. /\ old[c] \in Nat /\ cnt[c] \in Int /\ old[c] <= consTail + d
        /\ consTail + d < old[c] + cnt[c]
    BY <2>1, <2>2 DEF ClaimOf, Threads
  <2>4. U32(consTail + d) = consTail + d
    BY <1>2, <2>1
  <2>5. Distance(old[c], consTail + d) = consTail + d - old[c]
    BY <1>1, <2>1, <2>3
  <2> QED
    BY <2>1, <2>2, <2>3, <2>4, <2>5
<1> QED
  BY <1>3, <1>4 DEF NoOrphanClaim

-----------------------------------------------------------------------------
(* What UnitFifo sees of the ring, below the wrap. *)

Offers == [p \in Producers |-> buf[p]]
Waiting == Cells(slot, consHead, prodTail - consHead)
Taken(c) == IF Claims(c) THEN buf[c] \o Cells(slot, old[c] + k[c], cnt[c] - k[c]) ELSE << >>
Takes == [c \in Consumers |-> Taken(c)]

seen == <<Offers, Waiting, Takes>>

LEMMA SeenIsMapped == IInv /\ FInv => Fifo!fifoVars = seen
<1> SUFFICES ASSUME IInv, FInv PROVE Fifo!fifoVars = seen
  OBVIOUS
<1> USE BoundsHold DEF Bounds
<1>1. Stored(consHead, Distance(consHead, prodTail)) = Waiting
  <2>1. prodTail - consHead \in Words
    BY DEF Words
  <2>2. Distance(consHead, prodTail) = prodTail - consHead
    BY <2>1, U32Small DEF Distance
  <2>3. consHead + (prodTail - consHead) <= Modulus /\ prodTail - consHead \in Int
    OBVIOUS
  <2> QED
    BY <2>2, <2>3, CellsAreStored DEF Stored, Waiting
<1>2. ASSUME NEW c \in Consumers, Claims(c)
      PROVE  Stored(U32(old[c] + k[c]), cnt[c] - k[c]) = Cells(slot, old[c] + k[c], cnt[c] - k[c])
  <2>1. /\ old[c] \in Nat /\ cnt[c] \in Int /\ k[c] \in Nat
        /\ k[c] <= cnt[c] /\ old[c] + cnt[c] < Modulus
    BY <1>2, ClaimsAreBounded DEF ClaimBounds, Threads
  <2>2. old[c] + k[c] \in Words
    BY <2>1 DEF Words
  <2>3. U32(old[c] + k[c]) = old[c] + k[c]
    BY <2>2, U32Small
  <2>4. old[c] + k[c] \in Nat /\ cnt[c] - k[c] \in Int /\ (old[c] + k[c]) + (cnt[c] - k[c]) <= Modulus
    BY <2>1
  <2> QED
    BY <2>3, <2>4, CellsAreStored DEF Stored
<1>3. \A c \in Consumers :
        (IF Claims(c) THEN buf[c] \o Stored(U32(old[c] + k[c]), cnt[c] - k[c]) ELSE << >>) = Taken(c)
  BY <1>2 DEF Taken
<1>4. [c \in Consumers |->
        IF Claims(c) THEN buf[c] \o Stored(U32(old[c] + k[c]), cnt[c] - k[c]) ELSE << >>] = Takes
  BY <1>3 DEF Takes
<1> QED
  BY <1>1, <1>4 DEF Fifo!fifoVars, seen, Offers

(* The steps of UnitFifo, in these terms. *)

OfferSeen(p) ==
  /\ Offers[p] = << >> /\ Offers'[p] \in Seq(Units) \ {<< >>}
  /\ Offers' = [Offers EXCEPT ![p] = Offers'[p]]
  /\ UNCHANGED <<Waiting, Takes>>

PutSeen(p) ==
  /\ \E n \in 1..Len(Offers[p]) : Waiting' = Waiting \o SubSeq(Offers[p], 1, n)
  /\ Offers' = [Offers EXCEPT ![p] = << >>]
  /\ UNCHANGED Takes

RefuseSeen(p) ==
  /\ Offers' = [Offers EXCEPT ![p] = << >>]
  /\ UNCHANGED <<Waiting, Takes>>

TakeSeen(c) ==
  /\ Takes[c] = << >>
  /\ \E n \in 1..Len(Waiting) :
       /\ Takes' = [Takes EXCEPT ![c] = SubSeq(Waiting, 1, n)]
       /\ Waiting' = SubSeq(Waiting, n + 1, Len(Waiting))
  /\ UNCHANGED Offers

HandOverSeen(c) ==
  /\ Takes' = [Takes EXCEPT ![c] = << >>]
  /\ UNCHANGED <<Offers, Waiting>>

EmptySeen ==
  /\ Waiting' = << >>
  /\ UNCHANGED <<Offers, Takes>>

LEMMA StepsSeen ==
  ASSUME Fifo!fifoVars = seen, (Fifo!fifoVars = seen)'
  PROVE  /\ \A p \in Producers : Fifo!Offer(p) <=> OfferSeen(p)
         /\ \A p \in Producers : Fifo!Put(p) <=> PutSeen(p)
         /\ \A p \in Producers : Fifo!Refuse(p) <=> RefuseSeen(p)
         /\ \A c \in Consumers : Fifo!Take(c) <=> TakeSeen(c)
         /\ \A c \in Consumers : Fifo!HandOver(c) <=> HandOverSeen(c)
         /\ Fifo!Empty <=> EmptySeen
<1> USE DEF Fifo!fifoVars, seen
<1>1. \A p \in Producers : Fifo!Offer(p) <=> OfferSeen(p)
  BY DEF Fifo!Offer, OfferSeen
<1>2. \A p \in Producers : Fifo!Put(p) <=> PutSeen(p)
  BY DEF Fifo!Put, PutSeen
<1>3. \A p \in Producers : Fifo!Refuse(p) <=> RefuseSeen(p)
  BY DEF Fifo!Refuse, RefuseSeen
<1>4. \A c \in Consumers : Fifo!Take(c) <=> TakeSeen(c)
  BY DEF Fifo!Take, TakeSeen
<1>5. \A c \in Consumers : Fifo!HandOver(c) <=> HandOverSeen(c)
  BY DEF Fifo!HandOver, HandOverSeen
<1>6. Fifo!Empty <=> EmptySeen
  BY DEF Fifo!Empty, EmptySeen
<1> QED
  BY <1>1, <1>2, <1>3, <1>4, <1>5, <1>6

(* Steps that move nothing: no counter, no slot, no array, and no call     *)
(* enters or leaves its claim.                                             *)
Still ==
  /\ UNCHANGED <<shared, buf>>
  /\ \A t \in Threads :
       /\ Claims(t)' <=> Claims(t)
       /\ Claims(t) => /\ old'[t] = old[t] /\ cnt'[t] = cnt[t] /\ k'[t] = k[t]
                       /\ pc'[t] \in {"copyIn", "copyOut"} <=> pc[t] \in {"copyIn", "copyOut"}
       /\ pc'[t] = "idle" => pc[t] = "idle"

LEMMA StillStep ==
  ASSUME FInv, Still
  PROVE  FInv' /\ UNCHANGED seen
<1> USE DEF Still, shared, Threads
<1>1. \A t \in Threads : Claims(t)' <=> Claims(t)
  OBVIOUS
<1>2. \A t \in Threads : Claims(t) => ClaimOf(t)' = ClaimOf(t)
  BY DEF ClaimOf
<1>3. Covered'
  BY <1>1, <1>2 DEF FInv, Covered
<1>4. LoopsEnd'
  BY <1>1 DEF FInv, LoopsEnd
<1>5. Filled'
  BY <1>1 DEF FInv, Filled
<1>6. Arrays'
  BY <1>1 DEF FInv, Arrays
<1>7. Offers' = Offers /\ Waiting' = Waiting
  BY DEF Offers, Waiting, Cells
<1>8. \A c \in Consumers : Taken(c)' = Taken(c)
  BY <1>1 DEF Taken, Cells
<1>9. Takes' = Takes
  BY <1>8 DEF Takes
<1> QED
  BY <1>3, <1>4, <1>5, <1>6, <1>7, <1>9 DEF FInv, seen

(* A step of a call before its compare-and-swap has succeeded. *)
Unclaimed(t, step) ==
  /\ Goto(t, step) /\ pc[t] \notin ClaimedSteps /\ step \notin ClaimedSteps /\ step # "idle"
  /\ UNCHANGED <<shared, buf, k>>
  /\ \A u \in Threads \ {t} : old'[u] = old[u] /\ cnt'[u] = cnt[u]

LEMMA UnclaimedStep ==
  ASSUME IInv, NEW t \in Threads, NEW step, Unclaimed(t, step)
  PROVE  Still
<1> USE DEF Unclaimed
<1>1. \A u \in Threads : pc'[u] = IF u = t THEN step ELSE pc[u]
  BY DEF Goto, IInv, TypeOK
<1>2. \A u \in Threads : Claims(u)' <=> Claims(u)
  BY <1>1 DEF Claims
<1>3. \A u \in Threads : Claims(u) => u # t
  BY DEF Claims
<1> QED
  BY <1>1, <1>2, <1>3 DEF Still

LEMMA StillSteps ==
  ASSUME IInv, NEW t \in Threads,
         \/ LoadProdHead(t) \/ LoadConsTail(t) \/ RetryProd(t)
         \/ Dequeue(t) \/ LoadConsHead(t) \/ LoadProdTail(t) \/ RetryCons(t)
         \/ AwaitProdTail(t) \/ AwaitConsTail(t)
  PROVE  Still
<1>1. CASE LoadProdHead(t)
  <2>1. Unclaimed(t, "loadConsTail")
    BY <1>1 DEF LoadProdHead, IInv, TypeOK, Unclaimed, ClaimedSteps
  <2> QED
    BY <2>1, UnclaimedStep
<1>2. CASE LoadConsTail(t)
  <2>1. Unclaimed(t, "casProdHead")
    BY <1>2 DEF LoadConsTail, IInv, TypeOK, Unclaimed, ClaimedSteps
  <2> QED
    BY <2>1, UnclaimedStep
<1>3. CASE RetryProd(t)
  <2>1. Unclaimed(t, "loadProdHead")
    BY <1>3 DEF RetryProd, IInv, TypeOK, Unclaimed, ClaimedSteps
  <2> QED
    BY <2>1, UnclaimedStep
<1>4. CASE Dequeue(t)
  <2>1. Unclaimed(t, "loadConsHead")
    BY <1>4 DEF Dequeue, IInv, TypeOK, Unclaimed, ClaimedSteps
  <2> QED
    BY <2>1, UnclaimedStep
<1>5. CASE LoadConsHead(t)
  <2>1. Unclaimed(t, "loadProdTail")
    BY <1>5 DEF LoadConsHead, IInv, TypeOK, Unclaimed, ClaimedSteps
  <2> QED
    BY <2>1, UnclaimedStep
<1>6. CASE LoadProdTail(t)
  <2>1. Unclaimed(t, "casConsHead")
    BY <1>6 DEF LoadProdTail, IInv, TypeOK, Unclaimed, ClaimedSteps
  <2> QED
    BY <2>1, UnclaimedStep
<1>7. CASE RetryCons(t)
  <2>1. Unclaimed(t, "loadConsHead")
    BY <1>7 DEF RetryCons, IInv, TypeOK, Unclaimed, ClaimedSteps
  <2> QED
    BY <2>1, UnclaimedStep
<1>8. CASE AwaitProdTail(t)
  BY <1>8 DEF AwaitProdTail, Goto, Still, Claims, ClaimedSteps, IInv, TypeOK
<1>9. CASE AwaitConsTail(t)
  BY <1>9 DEF AwaitConsTail, Goto, Still, Claims, ClaimedSteps, IInv, TypeOK
<1> QED
  BY <1>1, <1>2, <1>3, <1>4, <1>5, <1>6, <1>7, <1>8, <1>9

LEMMA EnqueueOffers ==
  ASSUME IInv, FInv, NEW p \in Producers, Enqueue(p)
  PROVE  FInv' /\ OfferSeen(p)
<1> USE DEF Threads
<1>1. PICK n \in 1..MaxBatch :
        buf' = [buf EXCEPT ![p] = [i \in 1..n |-> <<p, sent[p] + i>>]] /\ sent[p] + n <= MaxUnits
  BY DEF Enqueue
<1> DEFINE a == [i \in 1..n |-> <<p, sent[p] + i>>]
<1>2. a \in Seq(Units) /\ a # << >>
  <2>1. sent[p] \in Nat /\ MaxUnits \in Nat /\ n \in Nat /\ n >= 1
    BY RingAssumption DEF IInv, TypeOK
  <2>2. \A i \in 1..n : sent[p] + i \in 1..MaxUnits
    BY <1>1, <2>1
  <2>3. \A i \in 1..n : <<p, sent[p] + i>> \in Units
    BY <2>2 DEF Units
  <2>4. a \in [1..n -> Units]
    BY <2>3
  <2>5. a \in Seq(Units) /\ Len(a) = n
    BY <2>1, <2>4
  <2> HIDE DEF a
  <2> QED
    BY <2>1, <2>5, EmptySeq
<1> HIDE DEF a
<1>3. /\ pc[p] = "idle" /\ pc' = [pc EXCEPT ![p] = "loadProdHead"]
      /\ buf' = [buf EXCEPT ![p] = a] /\ UNCHANGED <<shared, old, cnt, k>>
  BY <1>1 DEF Enqueue, Goto, a
<1>4. \A t \in Threads : Claims(t)' <=> Claims(t)
  BY <1>3 DEF Claims, ClaimedSteps, IInv, TypeOK
<1>5. \A t \in Threads : Claims(t) => t # p /\ buf'[t] = buf[t] /\ pc'[t] = pc[t]
  BY <1>3 DEF Claims, ClaimedSteps, IInv, TypeOK
<1>6. \A c \in Consumers : buf'[c] = buf[c]
  BY <1>3, RingAssumption DEF IInv, TypeOK
<1>7. Covered'
  BY <1>3, <1>4 DEF FInv, Covered, ClaimOf, shared
<1>8. LoopsEnd' /\ Filled'
  BY <1>3, <1>4, <1>5 DEF FInv, LoopsEnd, Filled, shared
<1>9. Arrays'
  <2>1. \A q \in Producers : pc'[q] = "idle" => q # p /\ pc[q] = "idle" /\ buf'[q] = buf[q]
    BY <1>3 DEF IInv, TypeOK
  <2> QED
    BY <1>3, <1>4, <1>6, <2>1 DEF FInv, Arrays
<1>10. Waiting' = Waiting
  BY <1>3 DEF Waiting, Cells, shared
<1>11. Takes' = Takes
  <2>1. \A c \in Consumers : Taken(c)' = Taken(c)
    BY <1>3, <1>4, <1>6 DEF Taken, Cells, shared
  <2> QED
    BY <2>1 DEF Takes
<1>12. Offers[p] = << >>
  BY <1>3 DEF FInv, Arrays, Offers
<1>13. Offers'[p] = a /\ Offers' = [Offers EXCEPT ![p] = a]
  BY <1>3 DEF IInv, TypeOK, Offers
<1>14. OfferSeen(p)
  BY <1>2, <1>10, <1>11, <1>12, <1>13 DEF OfferSeen
<1> QED
  BY <1>7, <1>8, <1>9, <1>14 DEF FInv

(* The slot of a position is not touched when another position of the      *)
(* window that starts at the consumer tail is written.                     *)
LEMMA OtherSlotsKept ==
  ASSUME IInv, NEW y \in Int, consTail <= y, y < consTail + capacity, NEW v,
         slot' = [slot EXCEPT ![SlotOf(y)] = v]
  PROVE  /\ slot'[SlotOf(y)] = v
         /\ \A x \in Int : consTail <= x /\ x < consTail + capacity /\ x # y =>
              slot'[SlotOf(x)] = slot[SlotOf(x)]
<1> USE BoundsHold DEF Bounds
<1>1. slot'[SlotOf(y)] = v
  <2>1. y \in Nat
    OBVIOUS
  <2> QED
    BY <2>1, SlotOfType DEF IInv, TypeOK
<1>2. ASSUME NEW x \in Int, consTail <= x, x < consTail + capacity, x # y
      PROVE  slot'[SlotOf(x)] = slot[SlotOf(x)]
  <2>1. x \in Nat /\ y \in Nat /\ x < y + capacity /\ y < x + capacity
    BY <1>2
  <2>2. SlotOf(x) # SlotOf(y)
    BY <1>2, <2>1, SlotOfInjective
  <2>3. SlotOf(x) \in Slots
    BY <2>1, SlotOfType
  <2> QED
    BY <2>2, <2>3 DEF IInv, TypeOK
<1> QED
  BY <1>1, <1>2

LEMMA CopyInUnseen ==
  ASSUME IInv, FInv, NEW p \in Producers, CopyIn(p)
  PROVE  FInv' /\ UNCHANGED seen
<1> USE BoundsHold DEF Threads, Bounds
<1> DEFINE y == old[p] + k[p]
<1>1. /\ pc[p] = "copyIn" /\ Claims(p) /\ k' = [k EXCEPT ![p] = k[p] + 1]
      /\ pc' = [pc EXCEPT ![p] = IF k[p] + 1 = cnt[p] THEN "awaitProdTail" ELSE "copyIn"]
      /\ UNCHANGED <<prodHead, prodTail, consHead, consTail, old, cnt, buf>>
  BY DEF CopyIn, CopiedAll, Goto, Claims, ClaimedSteps, IInv, TypeOK
<1>2. /\ ClaimBounds(p) /\ k[p] < cnt[p]
  BY <1>1, ClaimsAreBounded DEF IInv, ProducerClaims
<1>3. /\ y \in Nat /\ prodTail <= y /\ y < prodHead /\ y < Modulus
      /\ consTail <= y /\ y < consTail + capacity
  BY <1>2 DEF ClaimBounds
<1>4. slot' = [slot EXCEPT ![SlotOf(y)] = buf[p][k[p] + 1]]
  <2>1. U32(y) = y
    BY <1>3, U32Small DEF Words
  <2> QED
    BY <2>1 DEF CopyIn
<1>5. /\ slot'[SlotOf(y)] = buf[p][k[p] + 1]
      /\ \A x \in Int : consTail <= x /\ x < consTail + capacity /\ x # y =>
           slot'[SlotOf(x)] = slot[SlotOf(x)]
  <2>1. y \in Int
    BY <1>3
  <2> HIDE DEF y
  <2> QED
    BY <1>3, <1>4, <2>1, OtherSlotsKept
<1>6. \A t \in Threads : /\ Claims(t)' <=> Claims(t)
                         /\ t # p => pc'[t] = pc[t] /\ k'[t] = k[t]
  BY <1>1 DEF Claims, ClaimedSteps, IInv, TypeOK
<1>7. Covered'
  BY <1>1, <1>6 DEF FInv, Covered, ClaimOf
<1>8. LoopsEnd'
  <2>1. k'[p] = k[p] + 1 /\ k'[p] <= cnt[p] /\ (pc'[p] # "copyIn" => k'[p] = cnt[p])
    BY <1>1, <1>2 DEF IInv, TypeOK
  <2>2. \A t \in Threads \ {p} : Claims(t) =>
          /\ k'[t] <= cnt[t]
          /\ pc'[t] \notin {"copyIn", "copyOut"} => k'[t] = cnt[t]
    BY <1>6 DEF FInv, LoopsEnd
  <2> QED
    BY <1>1, <1>6, <2>1, <2>2 DEF LoopsEnd
<1>9. Filled'
  <2>1. SUFFICES ASSUME NEW q \in Producers, Claims(q), NEW i \in 0..(k'[q] - 1)
                 PROVE  slot'[SlotOf(old[q] + i)] = buf[q][i + 1]
    BY <1>1, <1>6 DEF Filled
  <2>2. ClaimBounds(q) /\ k'[q] \in Nat
    BY <1>1, <2>1, ClaimsAreBounded DEF IInv, TypeOK
  <2>3. CASE q = p /\ i = k[p]
    BY <1>5, <2>3
  <2>4. CASE q # p \/ i # k[p]
    <3>1. i \in 0..(k[q] - 1)
      BY <1>1, <1>6, <2>2, <2>4 DEF IInv, TypeOK
    <3>2. slot[SlotOf(old[q] + i)] = buf[q][i + 1]
      BY <2>1, <3>1 DEF FInv, Filled
    <3>3. old[q] + i # y
      <4>1. CASE q = p
        BY <2>4, <3>1, <4>1
      <4>2. CASE q # p
        <5>1. Apart(q, p)
          BY <1>1, <2>1, <4>2 DEF IInv, ClaimsApart
        <5> QED
          BY <1>2, <2>2, <3>1, <5>1 DEF Apart, ClaimBounds
      <4> QED
        BY <4>1, <4>2
    <3>4. old[q] + i \in Int /\ consTail <= old[q] + i /\ old[q] + i < consTail + capacity
      BY <2>2, <3>1 DEF ClaimBounds
    <3> QED
      BY <1>5, <3>2, <3>3, <3>4
  <2> QED
    BY <2>3, <2>4
<1>10. Arrays'
  <2>1. \A c \in Consumers : c # p
    BY RingAssumption
  <2>2. \A q \in Producers : pc'[q] = "idle" => pc[q] = "idle"
    BY <1>1, <1>6
  <2> QED
    BY <1>1, <1>6, <2>1, <2>2 DEF FInv, Arrays
<1>11. Offers' = Offers
  BY <1>1 DEF Offers
<1>12. Waiting' = Waiting
  <2>1. \A x \in consHead..(consHead + (prodTail - consHead) - 1) :
          slot'[SlotOf(x)] = slot[SlotOf(x)]
    BY <1>3, <1>5
  <2>2. consHead \in Nat /\ prodTail - consHead \in Int
    OBVIOUS
  <2>3. Cells(slot', consHead, prodTail - consHead) = Cells(slot, consHead, prodTail - consHead)
    BY <2>1, <2>2, CellsSame
  <2> QED
    BY <1>1, <2>3 DEF Waiting
<1>13. Takes' = Takes
  <2>1. ASSUME NEW c \in Consumers PROVE Taken(c)' = Taken(c)
    <3>1. c # p
      BY RingAssumption
    <3>2. /\ Claims(c)' <=> Claims(c)
          /\ buf'[c] = buf[c] /\ old'[c] = old[c] /\ cnt'[c] = cnt[c] /\ k'[c] = k[c]
      BY <1>1, <1>6, <3>1
    <3>3. CASE Claims(c)
      <4>1. ClaimBounds(c)
        BY <3>3, ClaimsAreBounded
      <4>2. \A x \in (old[c] + k[c])..(old[c] + k[c] + (cnt[c] - k[c]) - 1) :
              slot'[SlotOf(x)] = slot[SlotOf(x)]
        BY <1>3, <1>5, <4>1 DEF ClaimBounds
      <4>3. old[c] + k[c] \in Nat /\ cnt[c] - k[c] \in Int
        OBVIOUS
      <4>4. Cells(slot', old[c] + k[c], cnt[c] - k[c]) = Cells(slot, old[c] + k[c], cnt[c] - k[c])
        BY <4>2, <4>3, CellsSame
      <4> QED
        BY <3>2, <3>3, <4>4 DEF Taken
    <3>4. CASE ~Claims(c)
      BY <3>2, <3>4 DEF Taken
    <3> QED
      BY <3>3, <3>4
  <2> QED
    BY <2>1 DEF Takes
<1> QED
  BY <1>7, <1>8, <1>9, <1>10, <1>11, <1>12, <1>13 DEF FInv, seen

(* The call of a producer that claims nothing ends, its units refused. *)
LEMMA ClaimSlotsSeen ==
  ASSUME IInv, FInv, BelowWrap, NEW p \in Producers, ClaimSlots(p)
  PROVE  FInv' /\ (RefuseSeen(p) \/ UNCHANGED seen)
<1> USE BoundsHold DEF Threads, Bounds
<1>1. /\ pc[p] = "casProdHead" /\ prodHead = old[p] /\ ~Claims(p)
      /\ prodHead' = U32(old[p] + cnt[p])
      /\ UNCHANGED <<prodTail, consHead, consTail, slot>>
  BY DEF ClaimSlots, Claims, ClaimedSteps
<1>2. 0 <= cnt[p] /\ cnt[p] <= MaxBatch /\ MaxBatch \in Nat
  BY <1>1, RingAssumption DEF IInv, TypeOK, ProducerReads
<1>3. prodHead' = prodHead + cnt[p]
  <2>1. old[p] + cnt[p] \in Words
    BY <1>1, <1>2 DEF BelowWrap, Words
  <2> QED
    BY <1>1, <2>1, U32Small
<1>4. \A c \in Consumers : c # p
  BY RingAssumption
<1>5. CASE Refused(p) /\ Return(p)
  <2>1. prodHead' = prodHead
    BY <1>2, <1>3, <1>5 DEF Refused
  <2>2. \A t \in Threads : /\ Claims(t)' <=> Claims(t)
                           /\ t # p => /\ pc'[t] = pc[t] /\ old'[t] = old[t] /\ cnt'[t] = cnt[t]
                                       /\ k'[t] = k[t] /\ buf'[t] = buf[t]
    BY <1>1, <1>5 DEF Return, Goto, Claims, ClaimedSteps, IInv, TypeOK
  <2>3. \A t \in Threads : Claims(t) => t # p
    BY <1>1
  <2>4. Covered'
    <3>1. \A t \in Threads : Claims(t) => ClaimOf(t)' = ClaimOf(t)
      BY <2>2, <2>3 DEF ClaimOf
    <3> QED
      BY <1>1, <2>1, <2>2, <3>1 DEF FInv, Covered
  <2>5. LoopsEnd' /\ Filled'
    BY <1>1, <2>2, <2>3 DEF FInv, LoopsEnd, Filled
  <2>6. Arrays'
    <3>1. buf'[p] = << >>
      BY <1>5 DEF Return, IInv, TypeOK
    <3> QED
      BY <1>4, <2>2, <3>1 DEF FInv, Arrays
  <2>7. Offers' = [Offers EXCEPT ![p] = << >>]
    BY <1>5 DEF Return, Offers, IInv, TypeOK
  <2>8. Waiting' = Waiting
    BY <1>1 DEF Waiting, Cells
  <2>9. Takes' = Takes
    <3>1. \A c \in Consumers : Taken(c)' = Taken(c)
      BY <1>1, <1>4, <2>2 DEF Taken, Cells
    <3> QED
      BY <3>1 DEF Takes
  <2> QED
    BY <2>4, <2>5, <2>6, <2>7, <2>8, <2>9 DEF FInv, RefuseSeen
<1>6. CASE ~Refused(p) /\ Goto(p, "copyIn") /\ UNCHANGED <<old, num, cnt, k, buf, sent>>
  <2>1. k[p] = 0 /\ 1 <= cnt[p]
    BY <1>1, <1>6 DEF Refused, IInv, Uncopied
  <2>2. \A t \in Threads : pc'[t] = IF t = p THEN "copyIn" ELSE pc[t]
    BY <1>6 DEF Goto, IInv, TypeOK
  <2>3. \A t \in Threads : Claims(t)' <=> t = p \/ Claims(t)
    BY <2>2 DEF Claims, ClaimedSteps
  <2>4. UNCHANGED <<old, cnt, k, buf>>
    BY <1>6
  <2>5. Covered'
    <3>1. ASSUME NEW x \in prodTail..(prodHead' - 1)
          PROVE  \E q \in Producers : (q = p \/ Claims(q)) /\ x \in ClaimOf(q)
      <4>1. CASE x \in prodTail..(prodHead - 1)
        BY <4>1 DEF FInv, Covered
      <4>2. CASE x \in ClaimOf(p)
        BY <4>2
      <4>3. x \in prodTail..(prodHead - 1) \/ x \in ClaimOf(p)
        BY <1>1, <1>3 DEF ClaimOf
      <4> QED
        BY <4>1, <4>2, <4>3
    <3>2. \A t \in Threads : ClaimOf(t)' = ClaimOf(t)
      BY <2>4 DEF ClaimOf
    <3>3. \A c \in Consumers : Claims(c)' <=> Claims(c)
      BY <1>4, <2>3
    <3>4. \A x \in consTail..(consHead - 1) : \E c \in Consumers : Claims(c) /\ x \in ClaimOf(c)
      BY DEF FInv, Covered
    <3>5. \A x \in prodTail'..(prodHead' - 1) : \E q \in Producers : Claims(q)' /\ x \in ClaimOf(q)'
      BY <1>1, <2>3, <3>1, <3>2
    <3>6. \A x \in consTail'..(consHead' - 1) : \E c \in Consumers : Claims(c)' /\ x \in ClaimOf(c)'
      BY <1>1, <3>2, <3>3, <3>4
    <3> QED
      BY <3>5, <3>6 DEF Covered
  <2>6. LoopsEnd' /\ Filled'
    <3>1. LoopsEnd'
      BY <2>1, <2>2, <2>3, <2>4 DEF FInv, LoopsEnd
    <3>2. Filled'
      BY <1>1, <2>1, <2>3, <2>4 DEF FInv, Filled
    <3> QED
      BY <3>1, <3>2
  <2>7. Arrays'
    BY <1>4, <2>2, <2>3, <2>4 DEF FInv, Arrays
  <2>8. Offers' = Offers /\ Waiting' = Waiting
    BY <1>1, <2>4 DEF Offers, Waiting, Cells
  <2>9. Takes' = Takes
    <3>1. \A c \in Consumers : Taken(c)' = Taken(c)
      BY <1>1, <1>4, <2>3, <2>4 DEF Taken, Cells
    <3> QED
      BY <3>1 DEF Takes
  <2> QED
    BY <2>5, <2>6, <2>7, <2>8, <2>9 DEF FInv, seen
<1> QED
  BY <1>5, <1>6 DEF ClaimSlots

(* A call of t ends: its claim and its array are gone, and nothing else. *)
LEMMA ReturnLeaves ==
  ASSUME IInv, NEW t \in Threads, Return(t)
  PROVE  /\ pc'[t] = "idle" /\ ~Claims(t)' /\ buf'[t] = << >>
         /\ buf' = [buf EXCEPT ![t] = << >>]
         /\ \A u \in Threads \ {t} :
              /\ Claims(u)' <=> Claims(u)
              /\ pc'[u] = pc[u] /\ old'[u] = old[u] /\ cnt'[u] = cnt[u]
              /\ k'[u] = k[u] /\ buf'[u] = buf[u]
  BY DEF Return, Goto, Claims, ClaimedSteps, IInv, TypeOK

(* A consumer that a step leaves alone has taken what it had taken. *)
LEMMA TakenSame ==
  ASSUME NEW c \in Consumers, UNCHANGED slot, Claims(c)' <=> Claims(c),
         old'[c] = old[c], cnt'[c] = cnt[c], k'[c] = k[c], buf'[c] = buf[c]
  PROVE  Taken(c)' = Taken(c)
<1>1. CASE Claims(c)
  BY <1>1 DEF Taken, Cells
<1>2. CASE ~Claims(c)
  BY <1>2 DEF Taken
<1> QED
  BY <1>1, <1>2

LEMMA StoreProdTailPuts ==
  ASSUME IInv, FInv, NEW p \in Producers, StoreProdTail(p)
  PROVE  FInv' /\ PutSeen(p)
<1> USE BoundsHold DEF Threads, Bounds
<1>1. /\ pc[p] = "storeProdTail" /\ Claims(p) /\ Return(p)
      /\ prodTail' = U32(old[p] + cnt[p])
      /\ UNCHANGED <<prodHead, consHead, consTail, slot>>
  BY DEF StoreProdTail, Claims, ClaimedSteps
<1>2. ClaimBounds(p) /\ old[p] = prodTail /\ k[p] = cnt[p]
  BY <1>1, ClaimsAreBounded DEF IInv, ProducerClaims, FInv, LoopsEnd
<1>3. prodTail' = prodTail + cnt[p]
  <2>1. old[p] + cnt[p] \in Words
    BY <1>2 DEF ClaimBounds, Words
  <2> QED
    BY <1>1, <1>2, <2>1, U32Small
<1>4. \A c \in Consumers : c # p
  BY RingAssumption
<1>5. /\ pc'[p] = "idle" /\ ~Claims(p)' /\ buf'[p] = << >>
      /\ buf' = [buf EXCEPT ![p] = << >>]
      /\ \A u \in Threads \ {p} :
           /\ Claims(u)' <=> Claims(u)
           /\ pc'[u] = pc[u] /\ old'[u] = old[u] /\ cnt'[u] = cnt[u]
           /\ k'[u] = k[u] /\ buf'[u] = buf[u]
  BY <1>1, ReturnLeaves
<1>6. \A u \in Threads \ {p} : ClaimOf(u)' = ClaimOf(u)
  BY <1>5 DEF ClaimOf
<1>7. Covered'
  <2>1. ASSUME NEW x \in prodTail'..(prodHead' - 1)
        PROVE  \E q \in Producers : Claims(q)' /\ x \in ClaimOf(q)'
    <3>1. x \in prodTail..(prodHead - 1) /\ x \notin ClaimOf(p)
      BY <1>1, <1>2, <1>3 DEF ClaimOf, ClaimBounds
    <3>2. PICK q \in Producers : Claims(q) /\ x \in ClaimOf(q)
      BY <3>1 DEF FInv, Covered
    <3>3. q # p
      BY <3>1, <3>2
    <3> QED
      BY <1>5, <1>6, <3>2, <3>3
  <2>2. ASSUME NEW x \in consTail'..(consHead' - 1)
        PROVE  \E c \in Consumers : Claims(c)' /\ x \in ClaimOf(c)'
    <3>1. PICK c \in Consumers : Claims(c) /\ x \in ClaimOf(c)
      BY <1>1 DEF FInv, Covered
    <3> QED
      BY <1>4, <1>5, <1>6, <3>1
  <2> QED
    BY <2>1, <2>2 DEF Covered
<1>8. LoopsEnd' /\ Filled'
  BY <1>1, <1>5 DEF FInv, LoopsEnd, Filled
<1>9. Arrays'
  BY <1>4, <1>5 DEF FInv, Arrays
<1>10. Offers' = [Offers EXCEPT ![p] = << >>]
  BY <1>5 DEF Offers
<1>11. Takes' = Takes
  <2>1. ASSUME NEW c \in Consumers PROVE Taken(c)' = Taken(c)
    <3>1. /\ slot' = slot /\ (Claims(c)' <=> Claims(c))
          /\ old'[c] = old[c] /\ cnt'[c] = cnt[c] /\ k'[c] = k[c] /\ buf'[c] = buf[c]
      BY <1>1, <1>4, <1>5
    <3> QED
      BY <3>1, TakenSame
  <2> QED
    BY <2>1 DEF Takes
<1>12. Waiting' = Waiting \o SubSeq(buf[p], 1, cnt[p])
  <2>1. slot \in [Slots -> Contents] /\ buf[p] \in Seq(Contents)
    BY DEF IInv, TypeOK, Contents
  <2>2. consHead \in Nat /\ prodTail - consHead \in Nat /\ cnt[p] \in Nat /\ prodTail \in Nat
    BY <1>2 DEF ClaimBounds
  <2>3. /\ Cells(slot, prodTail, cnt[p]) \in Seq(Contents)
        /\ Len(Cells(slot, prodTail, cnt[p])) = cnt[p]
        /\ \A i \in 1..cnt[p] : Cells(slot, prodTail, cnt[p])[i] = slot[SlotOf(prodTail + i - 1)]
    BY <2>1, <2>2, CellsAreSeq
  <2>4. ASSUME NEW i \in 1..cnt[p]
        PROVE  slot[SlotOf(prodTail + i - 1)] = buf[p][i]
    <3>1. i - 1 \in 0..(k[p] - 1) /\ (i - 1) + 1 = i /\ old[p] + (i - 1) = prodTail + i - 1
      BY <1>2, <2>2
    <3>2. slot[SlotOf(old[p] + (i - 1))] = buf[p][(i - 1) + 1]
      BY <1>1, <3>1 DEF FInv, Filled
    <3> QED
      BY <3>1, <3>2
  <2>5. \A i \in 1..cnt[p] : buf[p][i] \in Contents
    BY <2>3, <2>4, ElementOfSeq
  <2>6. /\ SubSeq(buf[p], 1, cnt[p]) \in Seq(Contents)
        /\ Len(SubSeq(buf[p], 1, cnt[p])) = cnt[p]
        /\ \A i \in 1..cnt[p] : SubSeq(buf[p], 1, cnt[p])[i] = buf[p][i]
    BY <1>2, <2>2, <2>5, SubSeqProperties DEF ClaimBounds
  <2>7. Cells(slot, prodTail, cnt[p]) = SubSeq(buf[p], 1, cnt[p])
    <3> DEFINE a == Cells(slot, prodTail, cnt[p])
               b == SubSeq(buf[p], 1, cnt[p])
    <3>1. \A i \in 1..Len(a) : a[i] = b[i]
      BY <2>3, <2>4, <2>6
    <3>2. a \in Seq(Contents) /\ b \in Seq(Contents) /\ Len(a) = Len(b)
      BY <2>3, <2>6
    <3> HIDE DEF a, b
    <3>3. a = b
      BY <3>1, <3>2, SeqEqual
    <3> QED
      BY <3>3 DEF a, b
  <2>8. consHead <= prodTail
    OBVIOUS
  <2>9. Cells(slot, consHead, prodTail - consHead) \o Cells(slot, prodTail, cnt[p])
          = Cells(slot, consHead, prodTail + cnt[p] - consHead)
    BY <2>1, <2>2, <2>8, CellsExtend
  <2>10. Waiting' = Cells(slot, consHead, prodTail + cnt[p] - consHead)
    BY <1>1, <1>3 DEF Waiting
  <2>11. Waiting = Cells(slot, consHead, prodTail - consHead)
    BY DEF Waiting
  <2> QED
    BY <2>7, <2>9, <2>10, <2>11
<1>13. PutSeen(p)
  <2>1. Offers[p] = buf[p]
    BY DEF Offers
  <2>2. cnt[p] \in 1..Len(buf[p])
    <3>1. cnt[p] \in Nat /\ 1 <= cnt[p] /\ cnt[p] <= num[p] /\ num[p] \in Nat
      BY <1>1, <1>2 DEF IInv, TypeOK, ProducerClaims, ClaimBounds
    <3>2. buf[p] \in [1..num[p] -> Units] /\ buf[p] \in Seq(Contents)
      BY <1>1 DEF IInv, TypeOK, Offered, Contents
    <3>3. Len(buf[p]) \in Nat /\ 1..Len(buf[p]) = 1..num[p]
      BY <3>2, LenProperties
    <3>4. Len(buf[p]) = num[p]
      BY <3>1, <3>3
    <3> QED
      BY <3>1, <3>4
  <2> QED
    BY <1>10, <1>11, <1>12, <2>1, <2>2 DEF PutSeen
<1> QED
  BY <1>7, <1>8, <1>9, <1>13 DEF FInv

LEMMA ClaimUnitsTakes ==
  ASSUME IInv, FInv, NEW c \in Consumers, ClaimUnits(c)
  PROVE  FInv' /\ (TakeSeen(c) \/ UNCHANGED seen)
<1> USE BoundsHold DEF Threads, Bounds
<1>1. /\ pc[c] = "casConsHead" /\ consHead = old[c] /\ ~Claims(c)
      /\ consHead' = U32(old[c] + cnt[c])
      /\ UNCHANGED <<prodHead, prodTail, consTail, slot>>
  BY DEF ClaimUnits, Claims, ClaimedSteps
<1>2. 0 <= cnt[c] /\ consHead + cnt[c] <= prodTail
  BY <1>1 DEF IInv, ConsumerReads
<1>3. consHead' = consHead + cnt[c]
  <2>1. old[c] + cnt[c] \in Words
    BY <1>1, <1>2 DEF Words
  <2> QED
    BY <1>1, <2>1, U32Small
<1>4. \A p \in Producers : p # c
  BY RingAssumption
<1>5. buf[c] = << >>
  BY <1>1 DEF FInv, Arrays
<1>6. CASE Refused(c) /\ Return(c)
  <2>1. consHead' = consHead
    BY <1>2, <1>3, <1>6 DEF Refused
  <2>2. /\ pc'[c] = "idle" /\ ~Claims(c)' /\ buf'[c] = << >>
        /\ \A u \in Threads \ {c} :
             /\ Claims(u)' <=> Claims(u)
             /\ pc'[u] = pc[u] /\ old'[u] = old[u] /\ cnt'[u] = cnt[u]
             /\ k'[u] = k[u] /\ buf'[u] = buf[u]
    BY <1>6, ReturnLeaves
  <2>3. \A t \in Threads : Claims(t) => t # c
    BY <1>1
  <2>4. \A t \in Threads : Claims(t)' <=> Claims(t)
    BY <1>1, <2>2
  <2>5. Covered'
    <3>1. \A t \in Threads : Claims(t) => ClaimOf(t)' = ClaimOf(t)
      BY <2>2, <2>3 DEF ClaimOf
    <3> QED
      BY <1>1, <2>1, <2>4, <3>1 DEF FInv, Covered
  <2>6. LoopsEnd' /\ Filled'
    BY <1>1, <2>2, <2>3, <2>4 DEF FInv, LoopsEnd, Filled
  <2>7. Arrays'
    BY <1>4, <2>2, <2>4 DEF FInv, Arrays
  <2>8. Offers' = Offers /\ Waiting' = Waiting
    BY <1>1, <1>4, <2>1, <2>2 DEF Offers, Waiting, Cells
  <2>9. Takes' = Takes
    <3>1. ASSUME NEW d \in Consumers PROVE Taken(d)' = Taken(d)
      <4>1. CASE d = c
        BY <1>1, <2>2, <4>1 DEF Taken
      <4>2. CASE d # c
        BY <1>1, <2>2, <4>2, TakenSame
      <4> QED
        BY <4>1, <4>2
    <3> QED
      BY <3>1 DEF Takes
  <2> QED
    BY <2>5, <2>6, <2>7, <2>8, <2>9 DEF FInv, seen
<1>7. CASE ~Refused(c) /\ Goto(c, "copyOut") /\ UNCHANGED <<old, num, cnt, k, buf, sent>>
  <2>1. k[c] = 0 /\ 1 <= cnt[c]
    BY <1>1, <1>7 DEF Refused, IInv, Uncopied
  <2>2. \A t \in Threads : pc'[t] = IF t = c THEN "copyOut" ELSE pc[t]
    BY <1>7 DEF Goto, IInv, TypeOK
  <2>3. \A t \in Threads : Claims(t)' <=> t = c \/ Claims(t)
    BY <2>2 DEF Claims, ClaimedSteps
  <2>4. UNCHANGED <<old, cnt, k, buf>>
    BY <1>7
  <2>5. Covered'
    <3>1. ASSUME NEW x \in consTail..(consHead' - 1)
          PROVE  \E d \in Consumers : (d = c \/ Claims(d)) /\ x \in ClaimOf(d)
      <4>1. CASE x \in consTail..(consHead - 1)
        BY <4>1 DEF FInv, Covered
      <4>2. CASE x \in ClaimOf(c)
        BY <4>2
      <4>3. x \in consTail..(consHead - 1) \/ x \in ClaimOf(c)
        BY <1>1, <1>3 DEF ClaimOf
      <4> QED
        BY <4>1, <4>2, <4>3
    <3>2. \A t \in Threads : ClaimOf(t)' = ClaimOf(t)
      BY <2>4 DEF ClaimOf
    <3>3. \A p \in Producers : Claims(p)' <=> Claims(p)
      BY <1>4, <2>3
    <3>4. \A x \in prodTail..(prodHead - 1) : \E p \in Producers : Claims(p) /\ x \in ClaimOf(p)
      BY DEF FInv, Covered
    <3>5. \A x \in consTail'..(consHead' - 1) : \E d \in Consumers : Claims(d)' /\ x \in ClaimOf(d)'
      BY <1>1, <2>3, <3>1, <3>2
    <3>6. \A x \in prodTail'..(prodHead' - 1) : \E p \in Producers : Claims(p)' /\ x \in ClaimOf(p)'
      BY <1>1, <3>2, <3>3, <3>4
    <3> QED
      BY <3>5, <3>6 DEF Covered
  <2>6. LoopsEnd'
    BY <2>1, <2>2, <2>3, <2>4 DEF FInv, LoopsEnd
  <2>7. Filled'
    BY <1>1, <1>4, <2>3, <2>4 DEF FInv, Filled
  <2>8. Arrays'
    <3>1. Len(buf[c]) = k[c]
      BY <1>5, <2>1
    <3> QED
      BY <1>4, <2>2, <2>3, <2>4, <3>1 DEF FInv, Arrays
  <2>9. TakeSeen(c)
    <3> DEFINE n == prodTail - consHead
               m == cnt[c]
    <3>1. /\ slot \in [Slots -> Contents] /\ consHead \in Nat /\ n \in Nat /\ m \in 0..n
          /\ m \in 1..n
      BY <1>2, <2>1 DEF IInv, TypeOK, Contents
    <3>2. /\ consHead + m = consHead' /\ n - m = prodTail' - consHead' /\ old[c] = consHead
      BY <1>1, <1>3
    <3> HIDE DEF n, m
    <3>3. /\ SubSeq(Cells(slot, consHead, n), 1, m) = Cells(slot, consHead, m)
          /\ SubSeq(Cells(slot, consHead, n), m + 1, n) = Cells(slot, consHead + m, n - m)
      BY <3>1, CellsSplit
    <3>4. Waiting = Cells(slot, consHead, n) /\ Len(Waiting) = n
      <4>1. Waiting = Cells(slot, consHead, n)
        BY DEF Waiting, n
      <4> QED
        BY <3>1, <4>1, CellsAreSeq
    <3>5. Waiting' = SubSeq(Waiting, m + 1, Len(Waiting))
      BY <1>1, <3>2, <3>3, <3>4 DEF Waiting
    <3>6. Taken(c)' = SubSeq(Waiting, 1, m)
      <4>1. Taken(c)' = buf[c] \o Cells(slot, old[c] + k[c], cnt[c] - k[c])
        BY <1>1, <2>3, <2>4 DEF Taken
      <4>2. old[c] + k[c] = consHead /\ cnt[c] - k[c] = m
        BY <2>1, <3>2 DEF m
      <4>3. Cells(slot, consHead, m) \in Seq(Contents)
        <5>1. m \in Nat
          BY <3>1
        <5> QED
          BY <3>1, <5>1, CellsAreSeq
      <4>4. << >> \o Cells(slot, consHead, m) = Cells(slot, consHead, m)
        BY <4>3, ConcatEmptySeq
      <4> QED
        BY <1>5, <3>3, <3>4, <4>1, <4>2, <4>4
    <3>7. Takes' = [Takes EXCEPT ![c] = SubSeq(Waiting, 1, m)]
      <4>1. ASSUME NEW d \in Consumers, d # c PROVE Taken(d)' = Taken(d)
        <5>1. Claims(d)' <=> Claims(d)
          BY <2>3, <4>1
        <5> QED
          BY <1>1, <2>4, <5>1, TakenSame
      <4> QED
        BY <3>6, <4>1 DEF Takes
    <3>8. Takes[c] = << >>
      BY <1>1 DEF Takes, Taken
    <3>9. Offers' = Offers
      BY <2>4 DEF Offers
    <3> QED
      BY <3>1, <3>4, <3>5, <3>7, <3>8, <3>9 DEF TakeSeen
  <2> QED
    BY <2>5, <2>6, <2>7, <2>8, <2>9 DEF FInv
<1> QED
  BY <1>6, <1>7 DEF ClaimUnits

LEMMA CopyOutUnseen ==
  ASSUME IInv, FInv, NEW c \in Consumers, CopyOut(c)
  PROVE  FInv' /\ UNCHANGED seen
<1> USE BoundsHold DEF Threads, Bounds
<1> DEFINE y == old[c] + k[c]
           u == slot[SlotOf(y)]
<1>1. /\ pc[c] = "copyOut" /\ Claims(c) /\ k' = [k EXCEPT ![c] = k[c] + 1]
      /\ pc' = [pc EXCEPT ![c] = IF k[c] + 1 = cnt[c] THEN "awaitConsTail" ELSE "copyOut"]
      /\ UNCHANGED <<shared, old, cnt>>
  BY DEF CopyOut, CopiedAll, Goto, Claims, ClaimedSteps, IInv, TypeOK
<1>2. /\ ClaimBounds(c) /\ k[c] < cnt[c]
  BY <1>1, ClaimsAreBounded DEF IInv, ConsumerClaims
<1>3. /\ y \in Nat /\ y < Modulus
  BY <1>2 DEF ClaimBounds
<1>4. buf' = [buf EXCEPT ![c] = Append(buf[c], u)]
  <2>1. U32(y) = y
    BY <1>3, U32Small DEF Words
  <2> QED
    BY <2>1 DEF CopyOut
<1>5. u \in Contents /\ buf[c] \in Seq(Contents)
  BY <1>3, SlotOfType DEF IInv, TypeOK, Contents
<1>6. \A t \in Threads : /\ Claims(t)' <=> Claims(t)
                         /\ t # c => pc'[t] = pc[t] /\ k'[t] = k[t] /\ buf'[t] = buf[t]
  BY <1>1, <1>4 DEF Claims, ClaimedSteps, IInv, TypeOK
<1>7. \A p \in Producers : p # c
  BY RingAssumption
<1> HIDE DEF u, y
<1>8. /\ k'[c] = k[c] + 1 /\ k'[c] <= cnt[c] /\ (pc'[c] # "copyOut" => k'[c] = cnt[c])
      /\ buf'[c] = Append(buf[c], u)
  BY <1>1, <1>2, <1>4 DEF IInv, TypeOK
<1>9. Covered'
  BY <1>1, <1>6 DEF FInv, Covered, ClaimOf, shared
<1>10. LoopsEnd'
  <2>1. \A t \in Threads \ {c} : Claims(t) =>
          /\ k'[t] <= cnt[t]
          /\ pc'[t] \notin {"copyIn", "copyOut"} => k'[t] = cnt[t]
    BY <1>6 DEF FInv, LoopsEnd
  <2> QED
    BY <1>1, <1>6, <1>8, <2>1 DEF LoopsEnd
<1>11. Filled'
  BY <1>1, <1>6, <1>7 DEF FInv, Filled, shared
<1>12. Arrays'
  <2>1. Len(buf'[c]) = k'[c]
    <3>1. Len(buf[c]) = k[c]
      BY <1>1 DEF FInv, Arrays
    <3>2. Len(Append(buf[c], u)) = Len(buf[c]) + 1
      BY <1>5, AppendProperties
    <3> QED
      BY <1>8, <3>1, <3>2
  <2> QED
    BY <1>1, <1>6, <1>7, <2>1 DEF FInv, Arrays
<1>13. Offers' = Offers /\ Waiting' = Waiting
  BY <1>1, <1>6, <1>7 DEF Offers, Waiting, Cells, shared
<1>14. Takes' = Takes
  <2>1. Taken(c)' = Taken(c)
    <3> DEFINE n == cnt[c] - k[c]
               rest == Cells(slot, y + 1, n - 1)
    <3>1. slot \in [Slots -> Contents] /\ n \in Nat /\ n - 1 \in Nat /\ y \in Nat /\ y + 1 \in Nat
      BY <1>2, <1>3 DEF IInv, TypeOK, Contents
    <3>2. /\ old'[c] + k'[c] = y + 1 /\ cnt'[c] - k'[c] = n - 1
      BY <1>1, <1>8 DEF y
    <3>3. rest \in Seq(Contents)
      BY <3>1, CellsAreSeq
    <3> HIDE DEF rest
    <3>5. <<u>> \o rest = Cells(slot, y, n)
      <4>1. Cells(slot, y, (n - 1) + 1) = <<slot[SlotOf(y)]>> \o Cells(slot, y + 1, n - 1)
        BY <3>1, CellsFirst
      <4>2. (n - 1) + 1 = n
        BY <3>1
      <4> QED
        BY <4>1, <4>2 DEF u, rest
    <3>6. Append(buf[c], u) \o rest = buf[c] \o (<<u>> \o rest)
      BY <1>5, <3>3, AppendConcat
    <3>7. Taken(c)' = buf'[c] \o Cells(slot', old'[c] + k'[c], cnt'[c] - k'[c])
      BY <1>1, <1>6 DEF Taken
    <3>8. Taken(c) = buf[c] \o Cells(slot, y, n)
      BY <1>1 DEF Taken, y, n
    <3> QED
      BY <1>1, <1>8, <3>2, <3>5, <3>6, <3>7, <3>8 DEF rest, shared
  <2>2. ASSUME NEW d \in Consumers, d # c PROVE Taken(d)' = Taken(d)
    <3>1. /\ slot' = slot /\ (Claims(d)' <=> Claims(d))
          /\ old'[d] = old[d] /\ cnt'[d] = cnt[d] /\ k'[d] = k[d] /\ buf'[d] = buf[d]
      BY <1>1, <1>6, <2>2 DEF shared
    <3> QED
      BY <3>1, TakenSame
  <2> QED
    BY <2>1, <2>2 DEF Takes
<1> QED
  BY <1>9, <1>10, <1>11, <1>12, <1>13, <1>14 DEF FInv, seen

LEMMA StoreConsTailHandsOver ==
  ASSUME IInv, FInv, NEW c \in Consumers, StoreConsTail(c)
  PROVE  FInv' /\ HandOverSeen(c)
<1> USE BoundsHold DEF Threads, Bounds
<1>1. /\ pc[c] = "storeConsTail" /\ Claims(c) /\ Return(c)
      /\ consTail' = U32(old[c] + cnt[c])
      /\ UNCHANGED <<prodHead, prodTail, consHead, slot>>
  BY DEF StoreConsTail, Claims, ClaimedSteps
<1>2. ClaimBounds(c) /\ old[c] = consTail
  BY <1>1, ClaimsAreBounded DEF IInv, ConsumerClaims
<1>3. consTail' = consTail + cnt[c]
  <2>1. old[c] + cnt[c] \in Words
    BY <1>2 DEF ClaimBounds, Words
  <2> QED
    BY <1>1, <1>2, <2>1, U32Small
<1>4. \A p \in Producers : p # c
  BY RingAssumption
<1>5. /\ pc'[c] = "idle" /\ ~Claims(c)' /\ buf'[c] = << >>
      /\ \A u \in Threads \ {c} :
           /\ Claims(u)' <=> Claims(u)
           /\ pc'[u] = pc[u] /\ old'[u] = old[u] /\ cnt'[u] = cnt[u]
           /\ k'[u] = k[u] /\ buf'[u] = buf[u]
  BY <1>1, ReturnLeaves
<1>6. \A u \in Threads \ {c} : ClaimOf(u)' = ClaimOf(u)
  BY <1>5 DEF ClaimOf
<1>7. Covered'
  <2>1. ASSUME NEW x \in consTail'..(consHead' - 1)
        PROVE  \E d \in Consumers : Claims(d)' /\ x \in ClaimOf(d)'
    <3>1. x \in consTail..(consHead - 1) /\ x \notin ClaimOf(c)
      BY <1>1, <1>2, <1>3 DEF ClaimOf, ClaimBounds
    <3>2. PICK d \in Consumers : Claims(d) /\ x \in ClaimOf(d)
      BY <3>1 DEF FInv, Covered
    <3>3. d # c
      BY <3>1, <3>2
    <3> QED
      BY <1>5, <1>6, <3>2, <3>3
  <2>2. ASSUME NEW x \in prodTail'..(prodHead' - 1)
        PROVE  \E p \in Producers : Claims(p)' /\ x \in ClaimOf(p)'
    <3>1. PICK p \in Producers : Claims(p) /\ x \in ClaimOf(p)
      BY <1>1 DEF FInv, Covered
    <3> QED
      BY <1>4, <1>5, <1>6, <3>1
  <2> QED
    BY <2>1, <2>2 DEF Covered
<1>8. LoopsEnd' /\ Filled'
  BY <1>1, <1>4, <1>5 DEF FInv, LoopsEnd, Filled
<1>9. Arrays'
  BY <1>4, <1>5 DEF FInv, Arrays
<1>10. Offers' = Offers /\ Waiting' = Waiting
  BY <1>1, <1>4, <1>5 DEF Offers, Waiting
<1>11. Takes' = [Takes EXCEPT ![c] = << >>]
  <2>1. ASSUME NEW d \in Consumers, d # c PROVE Taken(d)' = Taken(d)
    <3>1. /\ slot' = slot /\ (Claims(d)' <=> Claims(d))
          /\ old'[d] = old[d] /\ cnt'[d] = cnt[d] /\ k'[d] = k[d] /\ buf'[d] = buf[d]
      BY <1>1, <1>5, <2>1
    <3> QED
      BY <3>1, TakenSame
  <2>2. Taken(c)' = << >>
    BY <1>5 DEF Taken
  <2> QED
    BY <2>1, <2>2 DEF Takes
<1> QED
  BY <1>7, <1>8, <1>9, <1>10, <1>11 DEF FInv, HandOverSeen

LEMMA ResetRingEmpties ==
  ASSUME IInv, FInv, ResetRing
  PROVE  FInv' /\ EmptySeen
<1> USE DEF Threads
<1>1. /\ \A t \in Threads : pc[t] = "idle"
      /\ prodHead' = 0 /\ prodTail' = 0 /\ consHead' = 0 /\ consTail' = 0
      /\ UNCHANGED <<slot, pc, old, num, cnt, k, buf, sent>>
  BY DEF ResetRing, locals
<1>2. \A t \in Threads : ~Claims(t) /\ ~Claims(t)'
  BY <1>1 DEF Claims, ClaimedSteps
<1>3. FInv'
  BY <1>1, <1>2 DEF FInv, Covered, LoopsEnd, Filled, Arrays
<1>4. Waiting' = << >>
  BY <1>1 DEF Waiting, Cells
<1>5. Offers' = Offers
  BY <1>1 DEF Offers
<1>6. Takes' = Takes
  BY <1>2 DEF Takes, Taken
<1> QED
  BY <1>3, <1>4, <1>5, <1>6 DEF EmptySeen

LEMMA NothingMoves ==
  ASSUME FInv, UNCHANGED vars
  PROVE  FInv' /\ UNCHANGED seen
<1>1. Still
  BY DEF vars, locals, Still, Claims
<1> QED
  BY <1>1, StillStep

-----------------------------------------------------------------------------
(* The theorems. *)

LEMMA InitStarts == Init => FInv /\ Fifo!FifoInit
<1> SUFFICES ASSUME Init PROVE FInv /\ Fifo!FifoInit
  OBVIOUS
<1> USE RingAssumption DEF Init, CreateRing, Threads
<1>1. \A t \in Threads : ~Claims(t)
  BY DEF Claims, ClaimedSteps
<1>2. FInv
  BY <1>1 DEF FInv, Covered, LoopsEnd, Filled, Arrays, Words
<1>3. IInv
  BY InitEstablishes
<1>4. Fifo!fifoVars = seen
  BY <1>2, <1>3, SeenIsMapped
<1>5. /\ Offers = [p \in Producers |-> << >>]
      /\ Waiting = << >>
      /\ Takes = [c \in Consumers |-> << >>]
  <2>1. Start - Start = 0
    BY DEF Words
  <2>2. Waiting = << >>
    BY <2>1 DEF Waiting, Cells
  <2> QED
    BY <1>1, <2>2 DEF Offers, Takes, Taken
<1>6. Fifo!FifoInit
  BY <1>4, <1>5 DEF Fifo!FifoInit, Fifo!fifoVars, seen
<1> QED
  BY <1>2, <1>6

(* What one step of the ring is to FInv and to UnitFifo. *)
SeenNext ==
  \/ \E p \in Producers : OfferSeen(p) \/ PutSeen(p) \/ RefuseSeen(p)
  \/ \E c \in Consumers : TakeSeen(c) \/ HandOverSeen(c)
  \/ EmptySeen
  \/ UNCHANGED seen

LEMMA StepSeen == IInv /\ FInv /\ BelowWrap /\ [Next]_vars => FInv' /\ SeenNext
<1> SUFFICES ASSUME IInv, FInv, BelowWrap, [Next]_vars PROVE FInv' /\ SeenNext
  OBVIOUS
<1> USE DEF SeenNext, Threads
<1>1. CASE UNCHANGED vars
  BY <1>1, NothingMoves
<1>2. ASSUME NEW p \in Producers, Enqueue(p) \/ ProducerStep(p)
      PROVE  FInv' /\ SeenNext
  <2>1. CASE LoadProdHead(p) \/ LoadConsTail(p) \/ RetryProd(p) \/ AwaitProdTail(p)
    BY <2>1, StillSteps, StillStep
  <2>2. CASE Enqueue(p)
    BY <2>2, EnqueueOffers
  <2>3. CASE ClaimSlots(p)
    BY <2>3, ClaimSlotsSeen
  <2>4. CASE CopyIn(p)
    BY <2>4, CopyInUnseen
  <2>5. CASE StoreProdTail(p)
    BY <2>5, StoreProdTailPuts
  <2> QED
    BY <1>2, <2>1, <2>2, <2>3, <2>4, <2>5 DEF ProducerStep
<1>3. ASSUME NEW c \in Consumers, Dequeue(c) \/ ConsumerStep(c)
      PROVE  FInv' /\ SeenNext
  <2>1. CASE Dequeue(c) \/ LoadConsHead(c) \/ LoadProdTail(c) \/ RetryCons(c) \/ AwaitConsTail(c)
    BY <2>1, StillSteps, StillStep
  <2>2. CASE ClaimUnits(c)
    BY <2>2, ClaimUnitsTakes
  <2>3. CASE CopyOut(c)
    BY <2>3, CopyOutUnseen
  <2>4. CASE StoreConsTail(c)
    BY <2>4, StoreConsTailHandsOver
  <2> QED
    BY <1>3, <2>1, <2>2, <2>3, <2>4 DEF ConsumerStep
<1>4. CASE ResetRing
  BY <1>4, ResetRingEmpties
<1> QED
  BY <1>1, <1>2, <1>3, <1>4 DEF Next

(* What the proofs of this module rest on holds in every state: each       *)
(* claimed position has its running call, and what DataEnqueue has copied  *)
(* in stays in its slots until it is copied out.                           *)
THEOREM FurtherInvariance == Spec /\ []BelowWrap => [](IInv /\ FInv)
<1>1. Init => IInv /\ FInv
  BY InitEstablishes, InitStarts
<1>2. IInv /\ FInv /\ BelowWrap /\ [Next]_vars => (IInv /\ FInv)'
  BY StepPreserves, StepSeen
<1> QED
  BY <1>1, <1>2, PTL DEF Spec

(* Every position between a tail and its head, for which later calls will  *)
(* wait (ring_buffer.cc:208, 229), is in the claim of a call that is still *)
(* running, for any number of threads.                                     *)
THEOREM NoClaimIsOrphaned == Spec /\ []BelowWrap => []NoOrphanClaim
  BY CoveredImpliesNoOrphan, FurtherInvariance, PTL

(* Enqueue and Dequeue, for all their single steps, are what UnitFifo      *)
(* says: a non-empty prefix of what a caller passes enters the queue at    *)
(* once or nothing does, units leave in the order they entered, and a      *)
(* caller of Dequeue gets just those that left for it.                     *)
THEOREM RingImplementsFifo == Spec /\ []BelowWrap => ImplementsFifo
<1>1. Init => Fifo!FifoInit
  BY InitStarts
<1>2. IInv /\ FInv => Fifo!fifoVars = seen
  BY SeenIsMapped
<1>3. /\ IInv /\ FInv /\ BelowWrap /\ [Next]_vars
      /\ Fifo!fifoVars = seen /\ (Fifo!fifoVars = seen)'
      => [Fifo!FifoNext]_(Fifo!fifoVars)
  <2> SUFFICES ASSUME IInv, FInv, BelowWrap, [Next]_vars,
                      Fifo!fifoVars = seen, (Fifo!fifoVars = seen)'
               PROVE  Fifo!FifoNext \/ UNCHANGED Fifo!fifoVars
    OBVIOUS
  <2>1. SeenNext
    BY StepSeen
  <2>2. UNCHANGED seen => UNCHANGED Fifo!fifoVars
    OBVIOUS
  <2> QED
    BY <2>1, <2>2, StepsSeen DEF SeenNext, Fifo!FifoNext
<1> QED
  BY <1>1, <1>2, <1>3, FurtherInvariance, PTL DEF Spec, ImplementsFifo, Fifo!FifoSpec
=============================================================================
