-------------------------- MODULE RingBufferProofs --------------------------
(***************************************************************************)
(* Proofs about RingBuffer, for every number of threads, every size and    *)
(* every batch: as long as the producer head has not come within a batch   *)
(* of 2^32, the counters stay in order and no two threads own a common     *)
(* slot.                                                                   *)
(***************************************************************************)
EXTENDS RingBuffer, TLAPS

(* The assumption of the theorems: the heads have not wrapped round yet.   *)
BelowWrap == prodHead + MaxBatch < Modulus

-----------------------------------------------------------------------------
(* The inductive invariant.  Below the wrap the counters are plain         *)
(* numbers, so every part is linear arithmetic.                            *)

Order ==
  /\ consTail <= consHead /\ consHead <= prodTail
  /\ prodTail <= prodHead /\ prodHead <= consTail + capacity

(* What a producer that has not claimed yet knows of the head it read: it  *)
(* was overtaken, and its compare-and-swap will fail, or the room it       *)
(* computed is still there.                                                *)
ProducerReads ==
  \A p \in Producers :
    /\ pc[p] = "loadConsTail" => old[p] <= prodHead
    /\ pc[p] = "casProdHead" =>
         \/ old[p] < prodHead
         \/ /\ old[p] = prodHead
            /\ 0 <= cnt[p] /\ cnt[p] <= num[p]
            /\ old[p] + cnt[p] <= consTail + capacity

ConsumerReads ==
  \A c \in Consumers :
    /\ pc[c] = "loadProdTail" => old[c] <= consHead
    /\ pc[c] = "casConsHead" =>
         /\ old[c] <= consHead
         /\ 0 <= cnt[c] /\ cnt[c] <= num[c]
         /\ old[c] + cnt[c] <= prodTail

(* A claim lies between the tail and the head of its side. *)
ProducerClaims ==
  \A p \in Producers :
    Claims(p) =>
      /\ prodTail <= old[p] /\ old[p] + cnt[p] <= prodHead
      /\ 1 <= cnt[p] /\ cnt[p] <= num[p]
      /\ pc[p] = "copyIn" => k[p] < cnt[p]
      /\ pc[p] = "storeProdTail" => old[p] = prodTail

ConsumerClaims ==
  \A c \in Consumers :
    Claims(c) =>
      /\ consTail <= old[c] /\ old[c] + cnt[c] <= consHead
      /\ 1 <= cnt[c] /\ cnt[c] <= num[c]
      /\ pc[c] = "copyOut" => k[c] < cnt[c]
      /\ pc[c] = "storeConsTail" => old[c] = consTail

(* Claims of the same side do not overlap. *)
Apart(t, u) == old[t] + cnt[t] <= old[u] \/ old[u] + cnt[u] <= old[t]

ClaimsApart ==
  /\ \A p, q \in Producers : p # q /\ Claims(p) /\ Claims(q) => Apart(p, q)
  /\ \A c, d \in Consumers : c # d /\ Claims(c) /\ Claims(d) => Apart(c, d)

(* A producer in a call has the array its caller passed. *)
Offered ==
  \A p \in Producers :
    pc[p] # "idle" => buf[p] \in [1..num[p] -> Units]

(* The copy loop of a call starts at its first unit. *)
Uncopied == \A t \in Threads : ~Claims(t) => k[t] = 0

IInv ==
  /\ TypeOK
  /\ Order
  /\ ProducerReads
  /\ ConsumerReads
  /\ ProducerClaims
  /\ ConsumerClaims
  /\ ClaimsApart
  /\ Offered
  /\ Uncopied

-----------------------------------------------------------------------------
(* Arithmetic: words below the wrap, and slots of nearby positions. *)

LEMMA U32Type == \A x \in Int : U32(x) \in Words
  BY RingAssumption DEF U32, Words

LEMMA U32Small == \A x \in Words : U32(x) = x
  BY RingAssumption DEF U32, Words

LEMMA AsIntType == \A x \in Words : AsInt(x) \in -Modulus..(Modulus - 1)
  BY RingAssumption DEF AsInt, Words

LEMMA AsIntSmall == \A x \in 0..capacity : x \in Words /\ AsInt(x) = x
  BY RingAssumption DEF AsInt, Words, capacity

LEMMA SlotOfType == \A x \in Nat : SlotOf(x) \in Slots
  BY RingAssumption DEF SlotOf, Slots, capacity

LEMMA ProductAtLeast ==
  ASSUME NEW m \in Nat, NEW d \in Int, d >= 1
  PROVE  m * d >= m
  OBVIOUS

(* Two positions less than a lap apart are in different slots. *)
LEMMA SlotOfInjective ==
  ASSUME NEW a \in Nat, NEW b \in Nat, a < b, b < a + capacity
  PROVE  SlotOf(a) # SlotOf(b)
<1> DEFINE m == capacity
           qa == a \div m
           qb == b \div m
<1>1. m \in Nat /\ m >= 1
  BY RingAssumption DEF capacity
<1>2. /\ qa \in Int /\ a = m * qa + (a % m)
      /\ qb \in Int /\ b = m * qb + (b % m)
  BY <1>1
<1>3. SUFFICES ASSUME a % m = b % m PROVE FALSE
  BY DEF SlotOf
<1> HIDE DEF m, qa, qb
<1>4. b - a = m * (qb - qa)
  BY <1>1, <1>2, <1>3
<1>5. 0 < b - a /\ b - a < m
  BY <1>1 DEF m
<1>6. CASE qb - qa >= 1
  BY <1>1, <1>2, <1>4, <1>5, <1>6, ProductAtLeast
<1>7. CASE qb - qa <= 0
  BY <1>1, <1>2, <1>4, <1>5, <1>7
<1> QED
  BY <1>2, <1>6, <1>7

-----------------------------------------------------------------------------
(* One lemma per action: it preserves the invariant below the wrap. *)

LEMMA InitEstablishes == Init => IInv
<1> SUFFICES ASSUME Init PROVE IInv
  OBVIOUS
<1> USE RingAssumption DEF Init, CreateRing, Threads
<1>1. TypeOK
  BY DEF TypeOK, Words, Units, ProducerSteps, ConsumerSteps
<1>2. Order
  BY DEF Order, capacity, Words
<1>3. ProducerReads /\ ConsumerReads /\ Offered
  BY DEF ProducerReads, ConsumerReads, Offered
<1>4. ProducerClaims /\ ConsumerClaims /\ ClaimsApart /\ Uncopied
  BY DEF ProducerClaims, ConsumerClaims, ClaimsApart, Uncopied, Claims, ClaimedSteps
<1> QED
  BY <1>1, <1>2, <1>3, <1>4 DEF IInv

LEMMA EnqueueStep ==
  ASSUME IInv, NEW p \in Producers, Enqueue(p)
  PROVE  IInv'
<1> USE RingAssumption DEF Enqueue, Goto, shared, Threads
<1>1. PICK n \in 1..MaxBatch :
        /\ sent[p] + n <= MaxUnits
        /\ buf' = [buf EXCEPT ![p] = [i \in 1..n |-> <<p, sent[p] + i>>]]
        /\ num' = [num EXCEPT ![p] = n]
        /\ sent' = [sent EXCEPT ![p] = @ + n]
  OBVIOUS
<1>2. [i \in 1..n |-> <<p, sent[p] + i>>] \in [1..n -> Units]
  BY <1>1 DEF IInv, TypeOK, Units
<1>3. TypeOK'
  <2>1. buf' \in [Threads -> Seq(Units \cup {Garbage})]
    <3>1. [i \in 1..n |-> <<p, sent[p] + i>>] \in Seq(Units \cup {Garbage})
      BY <1>2
    <3> QED
      BY <1>1, <3>1 DEF IInv, TypeOK
  <2>2. num' \in [Threads -> 0..MaxBatch] /\ sent' \in [Producers -> 0..MaxUnits]
    BY <1>1 DEF IInv, TypeOK
  <2>3. /\ pc' \in [Threads -> {"idle"} \cup ProducerSteps \cup ConsumerSteps]
        /\ \A q \in Producers : pc'[q] \notin ConsumerSteps
        /\ \A c \in Consumers : pc'[c] \notin ProducerSteps
    BY DEF IInv, TypeOK, ProducerSteps, ConsumerSteps
  <2> QED
    BY <2>1, <2>2, <2>3 DEF IInv, TypeOK
<1>4. Order'
  BY DEF IInv, Order
<1>5. ProducerReads' /\ ConsumerReads'
  BY <1>1 DEF IInv, TypeOK, ProducerReads, ConsumerReads
<1>6. ProducerClaims' /\ ConsumerClaims' /\ ClaimsApart'
  BY <1>1 DEF IInv, TypeOK, ProducerClaims, ConsumerClaims, ClaimsApart,
              Apart, Claims, ClaimedSteps
<1>7. Offered' /\ Uncopied'
  BY <1>1, <1>2 DEF IInv, TypeOK, Offered, Uncopied, Claims, ClaimedSteps
<1> QED
  BY <1>3, <1>4, <1>5, <1>6, <1>7 DEF IInv

LEMMA LoadProdHeadStep ==
  ASSUME IInv, NEW p \in Producers, LoadProdHead(p)
  PROVE  IInv'
<1> USE RingAssumption DEF LoadProdHead, Goto, shared, Threads
<1>1. TypeOK'
  BY DEF IInv, TypeOK, ProducerSteps, ConsumerSteps
<1>2. Order'
  BY DEF IInv, Order
<1>3. ProducerReads' /\ ConsumerReads'
  BY DEF IInv, TypeOK, Words, ProducerReads, ConsumerReads
<1>4. ProducerClaims' /\ ConsumerClaims' /\ ClaimsApart'
  BY DEF IInv, TypeOK, ProducerClaims, ConsumerClaims, ClaimsApart,
         Apart, Claims, ClaimedSteps
<1>5. Offered' /\ Uncopied'
  BY DEF IInv, TypeOK, Offered, Uncopied, Claims, ClaimedSteps
<1> QED
  BY <1>1, <1>2, <1>3, <1>4, <1>5 DEF IInv

(* What FreeNum gives a producer whose head is not stale. *)
LEMMA FreeNumFresh ==
  ASSUME IInv, NEW p \in Producers, old[p] = prodHead
  PROVE  FreeNum(p) = capacity - prodHead + consTail
<1>1. capacity - prodHead + consTail \in 0..capacity
  BY RingAssumption DEF IInv, TypeOK, Order, Words, capacity
<1> QED
  BY <1>1, AsIntSmall, U32Small DEF FreeNum

LEMMA FreeNumType ==
  ASSUME IInv, NEW p \in Producers
  PROVE  FreeNum(p) \in -Modulus..(Modulus - 1)
<1>1. capacity - old[p] + consTail \in Int
  BY RingAssumption DEF IInv, TypeOK, Words, capacity, Threads
<1> QED
  BY <1>1, U32Type, AsIntType DEF FreeNum

LEMMA LoadConsTailStep ==
  ASSUME IInv, NEW p \in Producers, LoadConsTail(p)
  PROVE  IInv'
<1> USE RingAssumption DEF LoadConsTail, Goto, shared, Threads
<1>1. num[p] \in 0..MaxBatch /\ FreeNum(p) \in -Modulus..(Modulus - 1)
  BY FreeNumType DEF IInv, TypeOK
<1>2. Min2(num[p], FreeNum(p)) \in -Modulus..MaxBatch
  BY <1>1 DEF Min2
<1>3. TypeOK'
  BY <1>2 DEF IInv, TypeOK, ProducerSteps, ConsumerSteps
<1>4. Order'
  BY DEF IInv, Order
<1>5. \/ old[p] < prodHead
      \/ /\ old[p] = prodHead
         /\ FreeNum(p) = capacity - prodHead + consTail
  BY FreeNumFresh DEF IInv, TypeOK, Words, ProducerReads
<1>6. ProducerReads'
  BY <1>1, <1>5 DEF IInv, TypeOK, Words, Order, capacity, ProducerReads, Min2
<1>7. ConsumerReads'
  BY DEF IInv, TypeOK, ConsumerReads
<1>8. ProducerClaims' /\ ConsumerClaims' /\ ClaimsApart'
  BY DEF IInv, TypeOK, ProducerClaims, ConsumerClaims, ClaimsApart,
         Apart, Claims, ClaimedSteps
<1>9. Offered' /\ Uncopied'
  BY DEF IInv, TypeOK, Offered, Uncopied, Claims, ClaimedSteps
<1> QED
  BY <1>3, <1>4, <1>6, <1>7, <1>8, <1>9 DEF IInv

(* The locals of a call that ends keep their types. *)
LEMMA ReturnTypes ==
  ASSUME TypeOK, NEW t \in Threads, Return(t)
  PROVE  /\ pc' \in [Threads -> {"idle"} \cup ProducerSteps \cup ConsumerSteps]
         /\ \A p \in Producers : pc'[p] \notin ConsumerSteps
         /\ \A c \in Consumers : pc'[c] \notin ProducerSteps
         /\ old' \in [Threads -> Words]
         /\ num' \in [Threads -> 0..MaxBatch]
         /\ cnt' \in [Threads -> -Modulus..MaxBatch]
         /\ k' \in [Threads -> 0..MaxBatch]
         /\ buf' \in [Threads -> Seq(Units \cup {Garbage})]
<1>1. 0 \in Words /\ 0 \in 0..MaxBatch /\ 0 \in -Modulus..MaxBatch
  BY RingAssumption DEF Words
<1>2. << >> \in Seq(Units \cup {Garbage})
  OBVIOUS
<1>3. buf' \in [Threads -> Seq(Units \cup {Garbage})]
  BY <1>2 DEF TypeOK, Return
<1>4. /\ pc' \in [Threads -> {"idle"} \cup ProducerSteps \cup ConsumerSteps]
      /\ \A p \in Producers : pc'[p] \notin ConsumerSteps
      /\ \A c \in Consumers : pc'[c] \notin ProducerSteps
  BY DEF TypeOK, Return, Goto, Threads, ProducerSteps, ConsumerSteps
<1> QED
  BY <1>1, <1>3, <1>4 DEF TypeOK, Return

LEMMA ClaimSlotsStep ==
  ASSUME IInv, BelowWrap, NEW p \in Producers, ClaimSlots(p)
  PROVE  IInv'
<1> USE RingAssumption DEF Threads
<1>1. /\ pc[p] = "casProdHead" /\ prodHead = old[p]
      /\ prodHead' = U32(old[p] + cnt[p])
      /\ UNCHANGED <<prodTail, consHead, consTail, slot, sent>>
  BY DEF ClaimSlots, Return
<1>2. /\ 0 <= cnt[p] /\ cnt[p] <= num[p] /\ num[p] <= MaxBatch
      /\ old[p] + cnt[p] <= consTail + capacity
  BY <1>1 DEF IInv, TypeOK, Words, ProducerReads
<1>3. prodHead' = prodHead + cnt[p]
  BY <1>1, <1>2, U32Small DEF BelowWrap, IInv, TypeOK, Words
<1>4. prodHead' \in Words
  BY <1>1, <1>2, <1>3 DEF BelowWrap, IInv, TypeOK, Words
<1>5. Order'
  BY <1>1, <1>2, <1>3 DEF IInv, TypeOK, Order, Words, capacity
<1>6. CASE cnt[p] < 1 /\ Return(p)
  <2>1. TypeOK'
    BY <1>1, <1>4, <1>6, ReturnTypes DEF IInv, TypeOK
  <2>2. ProducerReads'
    <3>1. prodHead' = prodHead
      BY <1>2, <1>3, <1>6 DEF IInv, TypeOK, Words
    <3> QED
      BY <1>1, <1>6, <3>1 DEF Return, Goto, IInv, TypeOK, ProducerReads
  <2>3. ConsumerReads'
    BY <1>1, <1>6 DEF Return, Goto, IInv, TypeOK, ConsumerReads
  <2>4. ProducerClaims' /\ ConsumerClaims' /\ ClaimsApart'
    BY <1>1, <1>2, <1>3, <1>6
       DEF Return, Goto, IInv, TypeOK, Words, ProducerClaims, ConsumerClaims,
           ClaimsApart, Apart, Claims, ClaimedSteps
  <2>5. Offered' /\ Uncopied'
    BY <1>6 DEF Return, Goto, IInv, TypeOK, Offered, Uncopied, Claims, ClaimedSteps
  <2> QED
    BY <1>5, <2>1, <2>2, <2>3, <2>4, <2>5 DEF IInv
<1>7. CASE cnt[p] >= 1 /\ Goto(p, "copyIn") /\ UNCHANGED <<old, num, cnt, k, buf, sent>>
  <2>1. TypeOK'
    BY <1>1, <1>4, <1>7 DEF Goto, IInv, TypeOK, ProducerSteps, ConsumerSteps
  <2>2. ProducerReads'
    BY <1>1, <1>2, <1>3, <1>7 DEF Goto, IInv, TypeOK, Words, ProducerReads
  <2>3. ConsumerReads'
    BY <1>1, <1>7 DEF Goto, IInv, TypeOK, ConsumerReads
  <2>4. ProducerClaims'
    <3>1. SUFFICES ASSUME NEW q \in Producers, Claims(q)'
                   PROVE  /\ prodTail <= old[q] /\ old[q] + cnt[q] <= prodHead'
                          /\ 1 <= cnt[q] /\ cnt[q] <= num[q]
                          /\ pc'[q] = "copyIn" => k[q] < cnt[q]
                          /\ pc'[q] = "storeProdTail" => old[q] = prodTail
      BY <1>1, <1>7 DEF ProducerClaims
    <3>2. /\ old[q] \in Nat /\ cnt[q] \in Int /\ cnt[p] \in Int
          /\ prodHead \in Nat /\ prodTail \in Nat /\ prodTail <= prodHead
      BY DEF IInv, TypeOK, Order, Words
    <3>3. CASE q = p
      <4>1. pc'[p] = "copyIn" /\ k[p] = 0
        BY <1>1, <1>7 DEF Goto, IInv, TypeOK, Uncopied, Claims, ClaimedSteps
      <4> QED
        BY <1>1, <1>2, <1>3, <1>7, <3>2, <3>3, <4>1
    <3>4. CASE q # p
      <4>1. pc'[q] = pc[q] /\ Claims(q)
        BY <1>7, <3>1, <3>4 DEF Goto, IInv, TypeOK, Claims, ClaimedSteps
      <4> QED
        BY <1>2, <1>3, <3>2, <4>1 DEF IInv, ProducerClaims
    <3> QED
      BY <3>3, <3>4
  <2>5. ConsumerClaims'
    BY <1>1, <1>7 DEF Goto, IInv, TypeOK, ConsumerClaims, Claims, ClaimedSteps
  <2>6. ClaimsApart'
    BY <1>1, <1>2, <1>3, <1>7
       DEF Goto, IInv, TypeOK, Words, ProducerClaims, ClaimsApart, Apart,
           Claims, ClaimedSteps
  <2>7. Offered' /\ Uncopied'
    BY <1>1, <1>7 DEF Goto, IInv, TypeOK, Offered, Uncopied, Claims, ClaimedSteps
  <2> QED
    BY <1>5, <2>1, <2>2, <2>3, <2>4, <2>5, <2>6, <2>7 DEF IInv
<1>8. cnt[p] \in Int
  BY DEF IInv, TypeOK
<1> QED
  BY <1>6, <1>7, <1>8 DEF ClaimSlots, Refused

LEMMA RetryProdStep ==
  ASSUME IInv, NEW p \in Producers, RetryProd(p)
  PROVE  IInv'
<1> USE RingAssumption DEF RetryProd, Goto, shared, Threads
<1>1. TypeOK'
  BY DEF IInv, TypeOK, ProducerSteps, ConsumerSteps
<1>2. Order'
  BY DEF IInv, Order
<1>3. ProducerReads' /\ ConsumerReads'
  BY DEF IInv, TypeOK, ProducerReads, ConsumerReads
<1>4. ProducerClaims' /\ ConsumerClaims' /\ ClaimsApart'
  BY DEF IInv, TypeOK, ProducerClaims, ConsumerClaims, ClaimsApart,
         Apart, Claims, ClaimedSteps
<1>5. Offered' /\ Uncopied'
  BY DEF IInv, TypeOK, Offered, Uncopied, Claims, ClaimedSteps
<1> QED
  BY <1>1, <1>2, <1>3, <1>4, <1>5 DEF IInv

LEMMA CopyInStep ==
  ASSUME IInv, NEW p \in Producers, CopyIn(p)
  PROVE  IInv'
<1> USE RingAssumption DEF CopyIn, CopiedAll, Goto, Threads
<1>1. /\ k[p] \in Nat /\ cnt[p] \in Nat /\ num[p] \in Nat
      /\ k[p] < cnt[p] /\ cnt[p] <= num[p] /\ num[p] <= MaxBatch
  BY DEF IInv, TypeOK, ProducerClaims, Claims, ClaimedSteps
<1>2. buf[p][k[p] + 1] \in Units
  <2>1. buf[p] \in [1..num[p] -> Units]
    BY DEF IInv, Offered
  <2>2. k[p] + 1 \in 1..num[p]
    BY <1>1
  <2> QED
    BY <2>1, <2>2
<1>3. TypeOK'
  <2>1. slot' \in [Slots -> Units \cup {Garbage}]
    BY <1>2 DEF IInv, TypeOK
  <2>2. /\ pc' \in [Threads -> {"idle"} \cup ProducerSteps \cup ConsumerSteps]
        /\ \A q \in Producers : pc'[q] \notin ConsumerSteps
        /\ \A c \in Consumers : pc'[c] \notin ProducerSteps
    BY DEF IInv, TypeOK, ProducerSteps, ConsumerSteps
  <2>3. k' \in [Threads -> 0..MaxBatch]
    BY <1>1 DEF IInv, TypeOK
  <2> QED
    BY <2>1, <2>2, <2>3 DEF IInv, TypeOK
<1>4. Order'
  BY DEF IInv, Order
<1>5. ProducerReads' /\ ConsumerReads'
  BY DEF IInv, TypeOK, ProducerReads, ConsumerReads
<1>6. ProducerClaims'
  BY <1>1 DEF IInv, TypeOK, ProducerClaims, Claims, ClaimedSteps
<1>7. ConsumerClaims' /\ ClaimsApart'
  BY DEF IInv, TypeOK, ConsumerClaims, ClaimsApart, Apart, Claims, ClaimedSteps
<1>8. Offered' /\ Uncopied'
  BY DEF IInv, TypeOK, Offered, Uncopied, Claims, ClaimedSteps
<1> QED
  BY <1>3, <1>4, <1>5, <1>6, <1>7, <1>8 DEF IInv

LEMMA AwaitProdTailStep ==
  ASSUME IInv, NEW p \in Producers, AwaitProdTail(p)
  PROVE  IInv'
<1> USE RingAssumption DEF AwaitProdTail, ProdTurn, Goto, shared, Threads
<1>1. TypeOK'
  BY DEF IInv, TypeOK, ProducerSteps, ConsumerSteps
<1>2. Order'
  BY DEF IInv, Order
<1>3. ProducerReads' /\ ConsumerReads'
  BY DEF IInv, TypeOK, ProducerReads, ConsumerReads
<1>4. ProducerClaims' /\ ConsumerClaims' /\ ClaimsApart'
  BY DEF IInv, TypeOK, ProducerClaims, ConsumerClaims, ClaimsApart,
         Apart, Claims, ClaimedSteps
<1>5. Offered' /\ Uncopied'
  BY DEF IInv, TypeOK, Offered, Uncopied, Claims, ClaimedSteps
<1> QED
  BY <1>1, <1>2, <1>3, <1>4, <1>5 DEF IInv

LEMMA StoreProdTailStep ==
  ASSUME IInv, NEW p \in Producers, StoreProdTail(p)
  PROVE  IInv'
<1> USE RingAssumption DEF Threads
<1>1. /\ pc[p] = "storeProdTail" /\ Claims(p) /\ Return(p)
      /\ prodTail' = U32(old[p] + cnt[p])
      /\ UNCHANGED <<prodHead, consHead, consTail, slot, sent>>
  BY DEF StoreProdTail, Return, Claims, ClaimedSteps
<1>2. /\ old[p] = prodTail /\ old[p] + cnt[p] <= prodHead /\ 1 <= cnt[p]
  BY <1>1 DEF IInv, ProducerClaims
<1>3. prodTail' = prodTail + cnt[p] /\ prodTail' \in Words
  BY <1>1, <1>2, U32Small DEF IInv, TypeOK, Words
<1>4. TypeOK'
  BY <1>1, <1>3, ReturnTypes DEF IInv, TypeOK
<1>5. Order'
  BY <1>1, <1>2, <1>3 DEF IInv, TypeOK, Order, Words
<1>6. ProducerReads'
  BY <1>1 DEF Return, Goto, IInv, TypeOK, ProducerReads
<1>7. ConsumerReads'
  <2>1. SUFFICES ASSUME NEW c \in Consumers
                 PROVE  /\ pc'[c] = "loadProdTail" => old'[c] <= consHead'
                        /\ pc'[c] = "casConsHead" =>
                             /\ old'[c] <= consHead'
                             /\ 0 <= cnt'[c] /\ cnt'[c] <= num'[c]
                             /\ old'[c] + cnt'[c] <= prodTail'
    BY DEF ConsumerReads
  <2>2. /\ pc'[c] = pc[c] /\ old'[c] = old[c]
        /\ cnt'[c] = cnt[c] /\ num'[c] = num[c] /\ consHead' = consHead
    BY <1>1, RingAssumption DEF Return, Goto, IInv, TypeOK
  <2>3. /\ old[c] \in Nat /\ cnt[c] \in Int /\ cnt[p] \in Int /\ prodTail \in Nat
    BY DEF IInv, TypeOK, Words
  <2>4. old[c] + cnt[c] <= prodTail => old[c] + cnt[c] <= prodTail'
    BY <1>2, <1>3, <2>3
  <2> QED
    BY <2>2, <2>4 DEF IInv, ConsumerReads
<1>8. ProducerClaims'
  <2>1. SUFFICES ASSUME NEW q \in Producers, Claims(q)'
                 PROVE  /\ q # p /\ Claims(q) /\ pc'[q] = pc[q] /\ k'[q] = k[q]
                        /\ old'[q] = old[q] /\ cnt'[q] = cnt[q] /\ num'[q] = num[q]
                        /\ prodTail' <= old[q] /\ pc[q] # "storeProdTail"
    BY <1>1 DEF IInv, ProducerClaims
  <2>2. /\ q # p /\ Claims(q) /\ pc'[q] = pc[q] /\ k'[q] = k[q]
        /\ old'[q] = old[q] /\ cnt'[q] = cnt[q] /\ num'[q] = num[q]
    BY <1>1, <2>1 DEF Return, Goto, IInv, TypeOK, Claims, ClaimedSteps
  <2>3. /\ Apart(p, q) /\ prodTail <= old[q] /\ 1 <= cnt[q]
        /\ pc[q] = "storeProdTail" => old[q] = prodTail
    BY <1>1, <2>2 DEF IInv, ClaimsApart, ProducerClaims
  <2>4. /\ old[p] \in Nat /\ old[q] \in Nat /\ prodTail \in Nat
        /\ cnt[p] \in Int /\ cnt[q] \in Int
    BY DEF IInv, TypeOK, Words
  <2> QED
    BY <1>2, <1>3, <2>2, <2>3, <2>4 DEF Apart
<1>9. ConsumerClaims' /\ ClaimsApart'
  BY <1>1 DEF Return, Goto, IInv, TypeOK, ConsumerClaims, ClaimsApart, Apart,
              Claims, ClaimedSteps
<1>10. Offered' /\ Uncopied'
  BY <1>1 DEF Return, Goto, IInv, TypeOK, Offered, Uncopied, Claims, ClaimedSteps
<1> QED
  BY <1>4, <1>5, <1>6, <1>7, <1>8, <1>9, <1>10 DEF IInv

LEMMA DequeueStep ==
  ASSUME IInv, NEW c \in Consumers, Dequeue(c)
  PROVE  IInv'
<1> USE RingAssumption DEF Dequeue, Goto, shared, Threads
<1>1. TypeOK'
  BY DEF IInv, TypeOK, ProducerSteps, ConsumerSteps
<1>2. Order'
  BY DEF IInv, Order
<1>3. ProducerReads' /\ ConsumerReads'
  BY DEF IInv, TypeOK, ProducerReads, ConsumerReads
<1>4. ProducerClaims' /\ ConsumerClaims' /\ ClaimsApart'
  BY DEF IInv, TypeOK, ProducerClaims, ConsumerClaims, ClaimsApart,
         Apart, Claims, ClaimedSteps
<1>5. Offered' /\ Uncopied'
  BY DEF IInv, TypeOK, Offered, Uncopied, Claims, ClaimedSteps
<1> QED
  BY <1>1, <1>2, <1>3, <1>4, <1>5 DEF IInv

LEMMA LoadConsHeadStep ==
  ASSUME IInv, NEW c \in Consumers, LoadConsHead(c)
  PROVE  IInv'
<1> USE RingAssumption DEF LoadConsHead, Goto, shared, Threads
<1>1. TypeOK'
  BY DEF IInv, TypeOK, ProducerSteps, ConsumerSteps
<1>2. Order'
  BY DEF IInv, Order
<1>3. ProducerReads' /\ ConsumerReads'
  BY DEF IInv, TypeOK, Words, ProducerReads, ConsumerReads
<1>4. ProducerClaims' /\ ConsumerClaims' /\ ClaimsApart'
  BY DEF IInv, TypeOK, ProducerClaims, ConsumerClaims, ClaimsApart,
         Apart, Claims, ClaimedSteps
<1>5. Offered' /\ Uncopied'
  BY DEF IInv, TypeOK, Offered, Uncopied, Claims, ClaimedSteps
<1> QED
  BY <1>1, <1>2, <1>3, <1>4, <1>5 DEF IInv

LEMMA LoadProdTailStep ==
  ASSUME IInv, NEW c \in Consumers, LoadProdTail(c)
  PROVE  IInv'
<1> USE RingAssumption DEF LoadProdTail, Goto, shared, Threads
<1>1. prodTail - old[c] \in Words
  BY DEF IInv, TypeOK, Order, ConsumerReads, Words
<1>2. ExistNum(c) = prodTail - old[c]
  BY <1>1, U32Small DEF ExistNum
<1>3. num[c] \in 0..MaxBatch
  BY DEF IInv, TypeOK
<1>4. Min2(num[c], ExistNum(c)) \in -Modulus..MaxBatch
  BY <1>1, <1>2, <1>3 DEF Min2, Words
<1>5. TypeOK'
  BY <1>4 DEF IInv, TypeOK, ProducerSteps, ConsumerSteps
<1>6. Order'
  BY DEF IInv, Order
<1>7. ProducerReads'
  BY DEF IInv, TypeOK, ProducerReads
<1>8. ConsumerReads'
  BY <1>1, <1>2, <1>3 DEF IInv, TypeOK, Words, ConsumerReads, Min2
<1>9. ProducerClaims' /\ ConsumerClaims' /\ ClaimsApart'
  BY DEF IInv, TypeOK, ProducerClaims, ConsumerClaims, ClaimsApart,
         Apart, Claims, ClaimedSteps
<1>10. Offered' /\ Uncopied'
  BY DEF IInv, TypeOK, Offered, Uncopied, Claims, ClaimedSteps
<1> QED
  BY <1>5, <1>6, <1>7, <1>8, <1>9, <1>10 DEF IInv

LEMMA ClaimUnitsStep ==
  ASSUME IInv, NEW c \in Consumers, ClaimUnits(c)
  PROVE  IInv'
<1> USE RingAssumption DEF Threads
<1>1. /\ pc[c] = "casConsHead" /\ consHead = old[c]
      /\ consHead' = U32(old[c] + cnt[c])
      /\ UNCHANGED <<prodHead, prodTail, consTail, slot, sent>>
  BY DEF ClaimUnits, Return
<1>2. /\ 0 <= cnt[c] /\ cnt[c] <= num[c] /\ num[c] <= MaxBatch
      /\ old[c] + cnt[c] <= prodTail
  BY <1>1 DEF IInv, TypeOK, Words, ConsumerReads
<1>3. consHead' = consHead + cnt[c] /\ consHead' \in Words
  BY <1>1, <1>2, U32Small DEF IInv, TypeOK, Words
<1>4. Order'
  BY <1>1, <1>2, <1>3 DEF IInv, TypeOK, Order, Words, capacity
<1>5. CASE cnt[c] < 1 /\ Return(c)
  <2>1. TypeOK'
    BY <1>1, <1>3, <1>5, ReturnTypes DEF IInv, TypeOK
  <2>2. ProducerReads'
    BY <1>1, <1>5 DEF Return, Goto, IInv, TypeOK, ProducerReads
  <2>3. ConsumerReads'
    BY <1>1, <1>2, <1>3, <1>5
       DEF Return, Goto, IInv, TypeOK, Words, ConsumerReads
  <2>4. ProducerClaims' /\ ConsumerClaims' /\ ClaimsApart'
    BY <1>1, <1>2, <1>3, <1>5
       DEF Return, Goto, IInv, TypeOK, Words, ProducerClaims, ConsumerClaims,
           ClaimsApart, Apart, Claims, ClaimedSteps
  <2>5. Offered' /\ Uncopied'
    BY <1>5 DEF Return, Goto, IInv, TypeOK, Offered, Uncopied, Claims, ClaimedSteps
  <2> QED
    BY <1>4, <2>1, <2>2, <2>3, <2>4, <2>5 DEF IInv
<1>6. CASE cnt[c] >= 1 /\ Goto(c, "copyOut") /\ UNCHANGED <<old, num, cnt, k, buf, sent>>
  <2>1. TypeOK'
    BY <1>1, <1>3, <1>6 DEF Goto, IInv, TypeOK, ProducerSteps, ConsumerSteps
  <2>2. ProducerReads'
    BY <1>1, <1>6 DEF Goto, IInv, TypeOK, ProducerReads
  <2>3. ConsumerReads'
    BY <1>1, <1>2, <1>3, <1>6 DEF Goto, IInv, TypeOK, Words, ConsumerReads
  <2>4. ProducerClaims'
    BY <1>1, <1>6 DEF Goto, IInv, TypeOK, ProducerClaims, Claims, ClaimedSteps
  <2>5. ConsumerClaims'
    <3>1. SUFFICES ASSUME NEW d \in Consumers, Claims(d)'
                   PROVE  /\ consTail <= old[d] /\ old[d] + cnt[d] <= consHead'
                          /\ 1 <= cnt[d] /\ cnt[d] <= num[d]
                          /\ pc'[d] = "copyOut" => k[d] < cnt[d]
                          /\ pc'[d] = "storeConsTail" => old[d] = consTail
      BY <1>1, <1>6 DEF ConsumerClaims
    <3>2. /\ old[d] \in Nat /\ cnt[d] \in Int /\ cnt[c] \in Int
          /\ consHead \in Nat /\ consTail \in Nat /\ consTail <= consHead
      BY DEF IInv, TypeOK, Order, Words
    <3>3. CASE d = c
      <4>1. pc'[c] = "copyOut" /\ k[c] = 0
        BY <1>1, <1>6 DEF Goto, IInv, TypeOK, Uncopied, Claims, ClaimedSteps
      <4> QED
        BY <1>1, <1>2, <1>3, <1>6, <3>2, <3>3, <4>1
    <3>4. CASE d # c
      <4>1. pc'[d] = pc[d] /\ Claims(d)
        BY <1>6, <3>1, <3>4 DEF Goto, IInv, TypeOK, Claims, ClaimedSteps
      <4> QED
        BY <1>2, <1>3, <3>2, <4>1 DEF IInv, ConsumerClaims
    <3> QED
      BY <3>3, <3>4
  <2>6. ClaimsApart'
    BY <1>1, <1>2, <1>3, <1>6
       DEF Goto, IInv, TypeOK, Words, ConsumerClaims, ClaimsApart, Apart,
           Claims, ClaimedSteps
  <2>7. Offered' /\ Uncopied'
    BY <1>1, <1>6 DEF Goto, IInv, TypeOK, Offered, Uncopied, Claims, ClaimedSteps
  <2> QED
    BY <1>4, <2>1, <2>2, <2>3, <2>4, <2>5, <2>6, <2>7 DEF IInv
<1>7. cnt[c] \in Int
  BY DEF IInv, TypeOK
<1> QED
  BY <1>5, <1>6, <1>7 DEF ClaimUnits, Refused

LEMMA RetryConsStep ==
  ASSUME IInv, NEW c \in Consumers, RetryCons(c)
  PROVE  IInv'
<1> USE RingAssumption DEF RetryCons, Goto, shared, Threads
<1>1. TypeOK'
  BY DEF IInv, TypeOK, ProducerSteps, ConsumerSteps
<1>2. Order'
  BY DEF IInv, Order
<1>3. ProducerReads' /\ ConsumerReads'
  BY DEF IInv, TypeOK, ProducerReads, ConsumerReads
<1>4. ProducerClaims' /\ ConsumerClaims' /\ ClaimsApart'
  BY DEF IInv, TypeOK, ProducerClaims, ConsumerClaims, ClaimsApart,
         Apart, Claims, ClaimedSteps
<1>5. Offered' /\ Uncopied'
  BY DEF IInv, TypeOK, Offered, Uncopied, Claims, ClaimedSteps
<1> QED
  BY <1>1, <1>2, <1>3, <1>4, <1>5 DEF IInv

LEMMA CopyOutStep ==
  ASSUME IInv, NEW c \in Consumers, CopyOut(c)
  PROVE  IInv'
<1> USE RingAssumption DEF CopyOut, CopiedAll, Goto, shared, Threads
<1>1. /\ k[c] \in Nat /\ cnt[c] \in Nat /\ num[c] \in Nat
      /\ k[c] < cnt[c] /\ cnt[c] <= num[c] /\ num[c] <= MaxBatch
      /\ old[c] + k[c] \in Words
  BY DEF IInv, TypeOK, Words, ConsumerClaims, Claims, ClaimedSteps
<1>2. slot[SlotOf(U32(old[c] + k[c]))] \in Units \cup {Garbage}
  BY <1>1, U32Small, SlotOfType DEF IInv, TypeOK, Words
<1>3. TypeOK'
  <2>1. buf' \in [Threads -> Seq(Units \cup {Garbage})]
    BY <1>2 DEF IInv, TypeOK
  <2>2. /\ pc' \in [Threads -> {"idle"} \cup ProducerSteps \cup ConsumerSteps]
        /\ \A p \in Producers : pc'[p] \notin ConsumerSteps
        /\ \A d \in Consumers : pc'[d] \notin ProducerSteps
    BY DEF IInv, TypeOK, ProducerSteps, ConsumerSteps
  <2>3. k' \in [Threads -> 0..MaxBatch]
    BY <1>1 DEF IInv, TypeOK
  <2> QED
    BY <2>1, <2>2, <2>3 DEF IInv, TypeOK
<1>4. Order'
  BY DEF IInv, Order
<1>5. ProducerReads' /\ ConsumerReads'
  BY DEF IInv, TypeOK, ProducerReads, ConsumerReads
<1>6. ConsumerClaims'
  BY <1>1 DEF IInv, TypeOK, ConsumerClaims, Claims, ClaimedSteps
<1>7. ProducerClaims' /\ ClaimsApart'
  BY DEF IInv, TypeOK, ProducerClaims, ClaimsApart, Apart, Claims, ClaimedSteps
<1>8. Offered' /\ Uncopied'
  BY DEF IInv, TypeOK, Offered, Uncopied, Claims, ClaimedSteps
<1> QED
  BY <1>3, <1>4, <1>5, <1>6, <1>7, <1>8 DEF IInv

LEMMA AwaitConsTailStep ==
  ASSUME IInv, NEW c \in Consumers, AwaitConsTail(c)
  PROVE  IInv'
<1> USE RingAssumption DEF AwaitConsTail, ConsTurn, Goto, shared, Threads
<1>1. TypeOK'
  BY DEF IInv, TypeOK, ProducerSteps, ConsumerSteps
<1>2. Order'
  BY DEF IInv, Order
<1>3. ProducerReads' /\ ConsumerReads'
  BY DEF IInv, TypeOK, ProducerReads, ConsumerReads
<1>4. ProducerClaims' /\ ConsumerClaims' /\ ClaimsApart'
  BY DEF IInv, TypeOK, ProducerClaims, ConsumerClaims, ClaimsApart,
         Apart, Claims, ClaimedSteps
<1>5. Offered' /\ Uncopied'
  BY DEF IInv, TypeOK, Offered, Uncopied, Claims, ClaimedSteps
<1> QED
  BY <1>1, <1>2, <1>3, <1>4, <1>5 DEF IInv

LEMMA StoreConsTailStep ==
  ASSUME IInv, NEW c \in Consumers, StoreConsTail(c)
  PROVE  IInv'
<1> USE RingAssumption DEF Threads
<1>1. /\ pc[c] = "storeConsTail" /\ Claims(c) /\ Return(c)
      /\ consTail' = U32(old[c] + cnt[c])
      /\ UNCHANGED <<prodHead, prodTail, consHead, slot, sent>>
  BY DEF StoreConsTail, Return, Claims, ClaimedSteps
<1>2. /\ old[c] = consTail /\ old[c] + cnt[c] <= consHead /\ 1 <= cnt[c]
  BY <1>1 DEF IInv, ConsumerClaims
<1>3. consTail' = consTail + cnt[c] /\ consTail' \in Words
  BY <1>1, <1>2, U32Small DEF IInv, TypeOK, Words
<1>4. TypeOK'
  BY <1>1, <1>3, ReturnTypes DEF IInv, TypeOK
<1>5. Order'
  BY <1>1, <1>2, <1>3 DEF IInv, TypeOK, Order, Words, capacity
<1>6. ProducerReads'
  <2>1. SUFFICES ASSUME NEW p \in Producers
                 PROVE  /\ pc'[p] = "loadConsTail" => old'[p] <= prodHead'
                        /\ pc'[p] = "casProdHead" =>
                             \/ old'[p] < prodHead'
                             \/ /\ old'[p] = prodHead'
                                /\ 0 <= cnt'[p] /\ cnt'[p] <= num'[p]
                                /\ old'[p] + cnt'[p] <= consTail' + capacity
    BY DEF ProducerReads
  <2>2. /\ pc'[p] = pc[p] /\ old'[p] = old[p]
        /\ cnt'[p] = cnt[p] /\ num'[p] = num[p] /\ prodHead' = prodHead
    BY <1>1 DEF Return, Goto, IInv, TypeOK
  <2>3. /\ old[p] \in Nat /\ cnt[p] \in Int /\ cnt[c] \in Int
        /\ consTail \in Nat /\ capacity \in Int
    BY DEF IInv, TypeOK, Words, capacity
  <2>4. old[p] + cnt[p] <= consTail + capacity => old[p] + cnt[p] <= consTail' + capacity
    BY <1>2, <1>3, <2>3
  <2> QED
    BY <2>2, <2>4 DEF IInv, ProducerReads
<1>7. ConsumerReads'
  BY <1>1 DEF Return, Goto, IInv, TypeOK, ConsumerReads
<1>8. ConsumerClaims'
  <2>1. SUFFICES ASSUME NEW d \in Consumers, Claims(d)'
                 PROVE  /\ d # c /\ Claims(d) /\ pc'[d] = pc[d] /\ k'[d] = k[d]
                        /\ old'[d] = old[d] /\ cnt'[d] = cnt[d] /\ num'[d] = num[d]
                        /\ consTail' <= old[d] /\ pc[d] # "storeConsTail"
    BY <1>1 DEF IInv, ConsumerClaims
  <2>2. /\ d # c /\ Claims(d) /\ pc'[d] = pc[d] /\ k'[d] = k[d]
        /\ old'[d] = old[d] /\ cnt'[d] = cnt[d] /\ num'[d] = num[d]
    BY <1>1, <2>1 DEF Return, Goto, IInv, TypeOK, Claims, ClaimedSteps
  <2>3. /\ Apart(c, d) /\ consTail <= old[d] /\ 1 <= cnt[d]
        /\ pc[d] = "storeConsTail" => old[d] = consTail
    BY <1>1, <2>2 DEF IInv, ClaimsApart, ConsumerClaims
  <2>4. /\ old[c] \in Nat /\ old[d] \in Nat /\ consTail \in Nat
        /\ cnt[c] \in Int /\ cnt[d] \in Int
    BY DEF IInv, TypeOK, Words
  <2> QED
    BY <1>2, <1>3, <2>2, <2>3, <2>4 DEF Apart
<1>9. ProducerClaims' /\ ClaimsApart'
  BY <1>1 DEF Return, Goto, IInv, TypeOK, ProducerClaims, ClaimsApart, Apart,
              Claims, ClaimedSteps
<1>10. Offered' /\ Uncopied'
  BY <1>1 DEF Return, Goto, IInv, TypeOK, Offered, Uncopied, Claims, ClaimedSteps
<1> QED
  BY <1>4, <1>5, <1>6, <1>7, <1>8, <1>9, <1>10 DEF IInv

LEMMA ResetRingStep ==
  ASSUME IInv, ResetRing
  PROVE  IInv'
<1> USE RingAssumption DEF ResetRing, locals, Threads
<1>1. TypeOK'
  BY DEF IInv, TypeOK, Words
<1>2. Order'
  BY DEF Order, capacity
<1>3. ProducerReads' /\ ConsumerReads' /\ Offered'
  BY DEF ProducerReads, ConsumerReads, Offered
<1>4. ProducerClaims' /\ ConsumerClaims' /\ ClaimsApart' /\ Uncopied'
  BY DEF IInv, ProducerClaims, ConsumerClaims, ClaimsApart, Uncopied, Claims, ClaimedSteps
<1> QED
  BY <1>1, <1>2, <1>3, <1>4 DEF IInv

LEMMA StutterStep ==
  ASSUME IInv, UNCHANGED vars
  PROVE  IInv'
  BY DEF vars, shared, locals, IInv, TypeOK, Order, ProducerReads, ConsumerReads,
         ProducerClaims, ConsumerClaims, ClaimsApart, Apart, Offered, Uncopied,
         Claims

LEMMA StepPreserves == IInv /\ BelowWrap /\ [Next]_vars => IInv'
<1> SUFFICES ASSUME IInv, BelowWrap, [Next]_vars PROVE IInv'
  OBVIOUS
<1>1. CASE UNCHANGED vars
  BY <1>1, StutterStep
<1>2. CASE \E p \in Producers : Enqueue(p) \/ ProducerStep(p)
  BY <1>2, EnqueueStep, LoadProdHeadStep, LoadConsTailStep, ClaimSlotsStep,
     RetryProdStep, CopyInStep, AwaitProdTailStep, StoreProdTailStep
     DEF ProducerStep
<1>3. CASE \E c \in Consumers : Dequeue(c) \/ ConsumerStep(c)
  BY <1>3, DequeueStep, LoadConsHeadStep, LoadProdTailStep, ClaimUnitsStep,
     RetryConsStep, CopyOutStep, AwaitConsTailStep, StoreConsTailStep
     DEF ConsumerStep
<1>4. CASE ResetRing
  BY <1>4, ResetRingStep
<1> QED
  BY <1>1, <1>2, <1>3, <1>4 DEF Next

-----------------------------------------------------------------------------
(* What the invariant says of the checked properties. *)

LEMMA OrderImpliesCounters == IInv => CountersInOrder
<1> SUFFICES ASSUME IInv PROVE CountersInOrder
  OBVIOUS
<1>1. /\ consHead - consTail \in Words /\ prodTail - consTail \in Words
      /\ prodHead - consTail \in Words
  BY RingAssumption DEF IInv, TypeOK, Order, Words
<1>2. /\ Distance(consTail, consHead) = consHead - consTail
      /\ Distance(consTail, prodTail) = prodTail - consTail
      /\ Distance(consTail, prodHead) = prodHead - consTail
  BY <1>1, U32Small DEF Distance
<1> QED
  BY <1>2, RingAssumption
     DEF IInv, TypeOK, Order, Words, capacity, CountersInOrder

(* Two claims are apart, and all claims lie in one window of capacity      *)
(* positions that starts at the consumer tail.                             *)
LEMMA ClaimsInWindow ==
  ASSUME IInv, NEW t \in Threads, NEW u \in Threads,
         t # u, Claims(t), Claims(u)
  PROVE  /\ Apart(t, u)
         /\ consTail <= old[t] /\ old[t] + cnt[t] <= consTail + capacity
         /\ 1 <= cnt[t] /\ old[t] + cnt[t] < Modulus
<1>1. \A p \in Producers : Claims(p) =>
        /\ prodTail <= old[p] /\ old[p] + cnt[p] <= prodHead /\ 1 <= cnt[p]
  BY DEF IInv, ProducerClaims
<1>2. \A c \in Consumers : Claims(c) =>
        /\ consTail <= old[c] /\ old[c] + cnt[c] <= consHead /\ 1 <= cnt[c]
  BY DEF IInv, ConsumerClaims
<1>3. /\ old[t] \in Nat /\ cnt[t] \in Int
      /\ old[u] \in Nat /\ cnt[u] \in Int
  BY DEF IInv, TypeOK, Words
<1>4. /\ consTail \in Nat /\ consHead \in Nat /\ prodTail \in Nat /\ prodHead \in Nat
      /\ prodHead < Modulus /\ Modulus \in Nat /\ capacity \in Int
  BY RingAssumption DEF IInv, TypeOK, Words, capacity
<1>5. /\ consTail <= consHead /\ consHead <= prodTail /\ consTail <= prodTail
      /\ prodTail <= prodHead /\ consHead <= prodHead
      /\ prodHead <= consTail + capacity
  BY <1>4 DEF IInv, Order
<1>6. CASE t \in Producers /\ u \in Producers
  <2>1. Apart(t, u)
    BY <1>6 DEF IInv, ClaimsApart
  <2>2. prodTail <= old[t] /\ old[t] + cnt[t] <= prodHead /\ 1 <= cnt[t]
    BY <1>1, <1>6
  <2> QED
    BY <1>3, <1>4, <1>5, <2>1, <2>2
<1>7. CASE t \in Consumers /\ u \in Consumers
  <2>1. Apart(t, u)
    BY <1>7 DEF IInv, ClaimsApart
  <2>2. consTail <= old[t] /\ old[t] + cnt[t] <= consHead /\ 1 <= cnt[t]
    BY <1>2, <1>7
  <2> QED
    BY <1>3, <1>4, <1>5, <2>1, <2>2
<1>8. CASE t \in Producers /\ u \in Consumers
  <2>1. prodTail <= old[t] /\ old[t] + cnt[t] <= prodHead /\ 1 <= cnt[t]
    BY <1>1, <1>8
  <2>2. old[u] + cnt[u] <= consHead
    BY <1>2, <1>8
  <2>3. old[u] + cnt[u] <= old[t]
    BY <1>3, <1>4, <1>5, <2>1, <2>2
  <2> QED
    BY <1>3, <1>4, <1>5, <2>1, <2>3 DEF Apart
<1>9. CASE t \in Consumers /\ u \in Producers
  <2>1. consTail <= old[t] /\ old[t] + cnt[t] <= consHead /\ 1 <= cnt[t]
    BY <1>2, <1>9
  <2>2. prodTail <= old[u]
    BY <1>1, <1>9
  <2>3. old[t] + cnt[t] <= old[u]
    BY <1>3, <1>4, <1>5, <2>1, <2>2
  <2> QED
    BY <1>3, <1>4, <1>5, <2>1, <2>3 DEF Apart
<1> QED
  BY <1>6, <1>7, <1>8, <1>9 DEF Threads

LEMMA ClaimsImplySlotsExclusive == IInv => SlotsExclusive
<1> SUFFICES ASSUME IInv, NEW t \in Threads, NEW u \in Threads,
                    t # u, Claims(t), Claims(u),
                    NEW i \in 0..(cnt[t] - 1), NEW j \in 0..(cnt[u] - 1)
             PROVE  SlotOf(U32(old[t] + i)) # SlotOf(U32(old[u] + j))
  BY DEF SlotsExclusive, SlotsOf
<1> DEFINE a == old[t] + i
           b == old[u] + j
<1>1. /\ old[t] \in Nat /\ old[u] \in Nat /\ consTail \in Nat
      /\ cnt[t] \in Int /\ cnt[u] \in Int /\ capacity \in Nat
  BY RingAssumption DEF IInv, TypeOK, Words, capacity
<1>2. /\ Apart(t, u)
      /\ consTail <= old[t] /\ old[t] + cnt[t] <= consTail + capacity
      /\ consTail <= old[u] /\ old[u] + cnt[u] <= consTail + capacity
      /\ old[t] + cnt[t] < Modulus /\ old[u] + cnt[u] < Modulus
  BY ClaimsInWindow
<1>3. /\ a \in Words /\ b \in Words /\ a # b
      /\ a < b + capacity /\ b < a + capacity
  BY <1>1, <1>2, RingAssumption DEF Words, Apart
<1>4. U32(a) = a /\ U32(b) = b
  BY <1>3, U32Small
<1>5. SlotOf(a) # SlotOf(b)
  BY <1>3, SlotOfInjective, RingAssumption DEF Words
<1> QED
  BY <1>4, <1>5

-----------------------------------------------------------------------------
(* The theorems.  BelowWrap is an assumption about the run, not a fact:    *)
(* the run RingBufferWrap shows what happens without it when capacity does *)
(* not divide 2^32.                                                        *)

(* The counters, the claims of all calls and what each call has read stay  *)
(* consistent through every step of Enqueue, Dequeue and ResetRing.        *)
THEOREM Invariance == Spec /\ []BelowWrap => []IInv
<1>1. Init => IInv
  BY InitEstablishes
<1>2. IInv /\ BelowWrap /\ [Next]_vars => IInv'
  BY StepPreserves
<1> QED
  BY <1>1, <1>2, PTL DEF Spec

(* Every variable keeps its type. *)
THEOREM TypeCorrect == Spec /\ []BelowWrap => []TypeOK
<1>1. IInv => TypeOK
  BY DEF IInv
<1> QED
  BY <1>1, Invariance, PTL

(* The four counters of Enqueue and Dequeue never overtake each other.     *)
THEOREM CountersStayInOrder == Spec /\ []BelowWrap => []CountersInOrder
  BY OrderImpliesCounters, Invariance, PTL

(* No slot is ever owned by two calls: DataEnqueue never overwrites a unit *)
(* that DataDequeue is copying out, nor one another producer is writing.   *)
THEOREM SlotsNeverShared == Spec /\ []BelowWrap => []SlotsExclusive
  BY ClaimsImplySlotsExclusive, Invariance, PTL
=============================================================================
