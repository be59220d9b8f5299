----------------------------- MODULE RingBuffer -----------------------------
(***************************************************************************)
(* One ring of ringbuffer/ring_buffer.cc, shared by threads that call      *)
(* Enqueue and threads that call Dequeue without a lock.                   *)
(*                                                                         *)
(* Every access to a shared word is a step of its own: a caller reads the  *)
(* head it competes for, then the opposite tail, then tries to move the    *)
(* head with a compare-and-swap, copies its units one by one, waits until  *)
(* the calls that claimed before it have published, and stores the tail.   *)
(* The fences of the code (ring_buffer.cc:156, 181, 199, 220) forbid the   *)
(* reorderings x86 would allow between these steps, so interleaving the    *)
(* steps is what the hardware does.                                        *)
(***************************************************************************)
EXTENDS Integers, Sequences

CONSTANTS
  Producers,  \* threads that call Enqueue
  Consumers,  \* threads that call Dequeue
  size,       \* the size CreateRing was asked for
  Modulus,    \* heads and tails are uint32_t: 2^32 in the code
  Start,      \* where the counters stand when the model starts: 0 in a new
              \* ring, k after k units have passed through it
  MaxBatch,   \* bound: units in one call
  MaxUnits,   \* bound: units one producer offers in its lifetime
  Garbage     \* what malloc or an earlier lap left in a slot

Threads == Producers \cup Consumers
Units == Producers \X (1..MaxUnits)
Words == 0..(Modulus - 1)

ASSUME RingAssumption ==
  /\ Producers \cap Consumers = {}
  /\ size \in Nat /\ size >= 2
  /\ Modulus \in Nat /\ 2 * size < Modulus
  /\ Start \in Words
  /\ MaxBatch \in Nat /\ 2 * MaxBatch < Modulus
  /\ MaxUnits \in Nat
  /\ Garbage \notin Units

capacity == size - 1
Slots == 0..(capacity - 1)

VARIABLES
  prodHead, prodTail, consHead, consTail,  \* Ring.prod and Ring.cons
  slot,       \* the units behind the Ring header
  pc,         \* which step of its call each thread takes next
  old,        \* *old_head of the running call
  num,        \* the num its caller passed
  cnt,        \* produce_num or cons_num, the result of the call
  k,          \* units copied so far, i of DataEnqueue and DataDequeue
  buf,        \* the caller's array: src of Enqueue, dest of Dequeue
  sent        \* how many units each producer has offered

shared == <<prodHead, prodTail, consHead, consTail, slot>>
locals == <<pc, old, num, cnt, k, buf, sent>>
vars == <<shared, locals>>

ProducerSteps == {"loadProdHead", "loadConsTail", "casProdHead", "copyIn",
                  "awaitProdTail", "storeProdTail"}
ConsumerSteps == {"loadConsHead", "loadProdTail", "casConsHead", "copyOut",
                  "awaitConsTail", "storeConsTail"}

(* Faulty variant of U32: counters of 64 bits, which do not wrap. *)
U32Wide(x) == x
U32(x) == x % Modulus
AsInt(x) == IF x < Modulus \div 2 THEN x ELSE x - Modulus
SlotOf(pos) == pos % capacity
Min2(a, b) == IF a < b THEN a ELSE b

CreateRing ==
  /\ prodHead = Start /\ prodTail = Start
  /\ consHead = Start /\ consTail = Start
  /\ slot = [s \in Slots |-> Garbage]

Init ==
  /\ CreateRing
  /\ pc = [t \in Threads |-> "idle"]
  /\ old = [t \in Threads |-> 0]
  /\ num = [t \in Threads |-> 0]
  /\ cnt = [t \in Threads |-> 0]
  /\ k = [t \in Threads |-> 0]
  /\ buf = [t \in Threads |-> << >>]
  /\ sent = [p \in Producers |-> 0]

Goto(t, step) == pc' = [pc EXCEPT ![t] = step]

(* A call ends and its locals go out of scope. *)
Return(t) ==
  /\ Goto(t, "idle")
  /\ old' = [old EXCEPT ![t] = 0]
  /\ num' = [num EXCEPT ![t] = 0]
  /\ cnt' = [cnt EXCEPT ![t] = 0]
  /\ k' = [k EXCEPT ![t] = 0]
  /\ buf' = [buf EXCEPT ![t] = << >>]
  /\ UNCHANGED sent

-----------------------------------------------------------------------------
(* Enqueue *)

Enqueue(p) ==
  /\ pc[p] = "idle"
  /\ \E n \in 1..MaxBatch :
       /\ sent[p] + n <= MaxUnits
       /\ buf' = [buf EXCEPT ![p] = [i \in 1..n |-> <<p, sent[p] + i>>]]
       /\ num' = [num EXCEPT ![p] = n]
       /\ sent' = [sent EXCEPT ![p] = @ + n]
  /\ Goto(p, "loadProdHead")
  /\ UNCHANGED <<shared, old, cnt, k>>

LoadProdHead(p) ==
  /\ pc[p] = "loadProdHead"
  /\ old' = [old EXCEPT ![p] = prodHead]
  /\ Goto(p, "loadConsTail")
  /\ UNCHANGED <<shared, num, cnt, k, buf, sent>>

(* Faulty variant of FreeNum: the whole size is used, not size - 1. *)
FreeNumOfSize(p) == AsInt(U32(size - old[p] + consTail))

(* free_num.  A stale old head is harmless only because the compare-and-   *)
(* swap then fails: the difference may even come out negative as an int.   *)
FreeNum(p) == AsInt(U32(capacity - old[p] + consTail))

LoadConsTail(p) ==
  /\ pc[p] = "loadConsTail"
  /\ cnt' = [cnt EXCEPT ![p] = Min2(num[p], FreeNum(p))]
  /\ Goto(p, "casProdHead")
  /\ UNCHANGED <<shared, old, num, k, buf, sent>>

(* Faulty variant of Refused: also a claim of one unit is given up, after  *)
(* the head has moved.                                                     *)
RefusedOne(t) == cnt[t] <= 1

(* Enqueue and Dequeue return at once when nothing was claimed. *)
Refused(t) == cnt[t] < 1

ClaimSlots(p) ==
  /\ pc[p] = "casProdHead"
  /\ prodHead = old[p]
  /\ prodHead' = U32(old[p] + cnt[p])
  /\ \/ Refused(p) /\ Return(p)
     \/ ~Refused(p) /\ Goto(p, "copyIn") /\ UNCHANGED <<old, num, cnt, k, buf, sent>>
  /\ UNCHANGED <<prodTail, consHead, consTail, slot>>

RetryProd(p) ==
  /\ pc[p] = "casProdHead"
  /\ prodHead # old[p]
  /\ Goto(p, "loadProdHead")
  /\ UNCHANGED <<shared, old, num, cnt, k, buf, sent>>

CopiedAll(t) == k[t] + 1 = cnt[t]

CopyIn(p) ==
  /\ pc[p] = "copyIn"
  /\ slot' = [slot EXCEPT ![SlotOf(U32(old[p] + k[p]))] = buf[p][k[p] + 1]]
  /\ k' = [k EXCEPT ![p] = @ + 1]
  /\ Goto(p, IF CopiedAll(p) THEN "awaitProdTail" ELSE "copyIn")
  /\ UNCHANGED <<prodHead, prodTail, consHead, consTail, old, num, cnt, buf, sent>>

(* Faulty variants of ProdTurn: no wait for the earlier claims, and a wait *)
(* for *new_value.                                                         *)
ProdTurnAlways(p) == TRUE
ProdTurnNew(p) == prodTail = U32(old[p] + cnt[p])
ProdTurn(p) == prodTail = old[p]

AwaitProdTail(p) ==
  /\ pc[p] = "awaitProdTail"
  /\ ProdTurn(p)
  /\ Goto(p, "storeProdTail")
  /\ UNCHANGED <<shared, old, num, cnt, k, buf, sent>>

StoreProdTail(p) ==
  /\ pc[p] = "storeProdTail"
  /\ prodTail' = U32(old[p] + cnt[p])
  /\ Return(p)
  /\ UNCHANGED <<prodHead, consHead, consTail, slot>>

-----------------------------------------------------------------------------
(* Dequeue *)

Dequeue(c) ==
  /\ pc[c] = "idle"
  /\ \E n \in 1..MaxBatch : num' = [num EXCEPT ![c] = n]
  /\ Goto(c, "loadConsHead")
  /\ UNCHANGED <<shared, old, cnt, k, buf, sent>>

LoadConsHead(c) ==
  /\ pc[c] = "loadConsHead"
  /\ old' = [old EXCEPT ![c] = consHead]
  /\ Goto(c, "loadProdTail")
  /\ UNCHANGED <<shared, num, cnt, k, buf, sent>>

ExistNum(c) == U32(prodTail - old[c])

LoadProdTail(c) ==
  /\ pc[c] = "loadProdTail"
  /\ cnt' = [cnt EXCEPT ![c] = Min2(num[c], ExistNum(c))]
  /\ Goto(c, "casConsHead")
  /\ UNCHANGED <<shared, old, num, k, buf, sent>>

ClaimUnits(c) ==
  /\ pc[c] = "casConsHead"
  /\ consHead = old[c]
  /\ consHead' = U32(old[c] + cnt[c])
  /\ \/ Refused(c) /\ Return(c)
     \/ ~Refused(c) /\ Goto(c, "copyOut") /\ UNCHANGED <<old, num, cnt, k, buf, sent>>
  /\ UNCHANGED <<prodHead, prodTail, consTail, slot>>

RetryCons(c) ==
  /\ pc[c] = "casConsHead"
  /\ consHead # old[c]
  /\ Goto(c, "loadConsHead")
  /\ UNCHANGED <<shared, old, num, cnt, k, buf, sent>>

CopyOut(c) ==
  /\ pc[c] = "copyOut"
  /\ buf' = [buf EXCEPT ![c] = Append(@, slot[SlotOf(U32(old[c] + k[c]))])]
  /\ k' = [k EXCEPT ![c] = @ + 1]
  /\ Goto(c, IF CopiedAll(c) THEN "awaitConsTail" ELSE "copyOut")
  /\ UNCHANGED <<shared, old, num, cnt, sent>>

(* Faulty variant of ConsTurn: no wait for the earlier claims. *)
ConsTurnAlways(c) == TRUE
ConsTurn(c) == consTail = old[c]

AwaitConsTail(c) ==
  /\ pc[c] = "awaitConsTail"
  /\ ConsTurn(c)
  /\ Goto(c, "storeConsTail")
  /\ UNCHANGED <<shared, old, num, cnt, k, buf, sent>>

StoreConsTail(c) ==
  /\ pc[c] = "storeConsTail"
  /\ consTail' = U32(old[c] + cnt[c])
  /\ Return(c)
  /\ UNCHANGED <<prodHead, prodTail, consHead, slot>>

-----------------------------------------------------------------------------
(* ResetRing takes no lock on the counters: its caller must not let it     *)
(* overlap a call of another thread, and the model keeps that contract.    *)
ResetRing ==
  /\ \A t \in Threads : pc[t] = "idle"
  /\ prodHead' = 0 /\ prodTail' = 0
  /\ consHead' = 0 /\ consTail' = 0
  /\ UNCHANGED <<slot, locals>>

ProducerStep(p) ==
  \/ LoadProdHead(p) \/ LoadConsTail(p) \/ ClaimSlots(p) \/ RetryProd(p)
  \/ CopyIn(p) \/ AwaitProdTail(p) \/ StoreProdTail(p)

ConsumerStep(c) ==
  \/ LoadConsHead(c) \/ LoadProdTail(c) \/ ClaimUnits(c) \/ RetryCons(c)
  \/ CopyOut(c) \/ AwaitConsTail(c) \/ StoreConsTail(c)

Next ==
  \/ \E p \in Producers : Enqueue(p) \/ ProducerStep(p)
  \/ \E c \in Consumers : Dequeue(c) \/ ConsumerStep(c)
  \/ ResetRing

Spec == Init /\ [][Next]_vars

(* The scheduler runs every thread inside a call again and again; nobody   *)
(* is obliged to make a call.                                              *)
Fairness ==
  /\ \A p \in Producers : WF_vars(ProducerStep(p))
  /\ \A c \in Consumers : WF_vars(ConsumerStep(c))

FairSpec == Spec /\ Fairness

-----------------------------------------------------------------------------
(* Properties *)

(* Every word stays a uint32_t, every thread is at a step of its own kind  *)
(* of call, and a slot holds a unit or what was there before.              *)
TypeOK ==
  /\ prodHead \in Words /\ prodTail \in Words
  /\ consHead \in Words /\ consTail \in Words
  /\ slot \in [Slots -> Units \cup {Garbage}]
  /\ pc \in [Threads -> {"idle"} \cup ProducerSteps \cup ConsumerSteps]
  /\ \A p \in Producers : pc[p] \notin ConsumerSteps
  /\ \A c \in Consumers : pc[c] \notin ProducerSteps
  /\ old \in [Threads -> Words]
  /\ num \in [Threads -> 0..MaxBatch]
  /\ cnt \in [Threads -> -Modulus..MaxBatch]
  /\ k \in [Threads -> 0..MaxBatch]
  /\ buf \in [Threads -> Seq(Units \cup {Garbage})]
  /\ sent \in [Producers -> 0..MaxUnits]

ClaimedSteps == {"copyIn", "awaitProdTail", "storeProdTail",
                 "copyOut", "awaitConsTail", "storeConsTail"}
Claims(t) == pc[t] \in ClaimedSteps
Distance(from, to) == U32(to - from)
SlotsOf(t) == {SlotOf(U32(old[t] + i)) : i \in 0..(cnt[t] - 1)}

(* Two threads that have both won a compare-and-swap never own a common    *)
(* slot, so no unit is overwritten while it is being copied out and no two *)
(* producers write the same slot.                                          *)
SlotsExclusive ==
  \A t, u \in Threads :
    t # u /\ Claims(t) /\ Claims(u) => SlotsOf(t) \cap SlotsOf(u) = {}

(* Going round the ring from the consumer tail one meets the consumer      *)
(* head, the producer tail and the producer head in this order, within     *)
(* capacity, although each word is moved by a thread that read the others  *)
(* several steps earlier.                                                  *)
CountersInOrder ==
  /\ Distance(consTail, consHead) <= Distance(consTail, prodTail)
  /\ Distance(consTail, prodTail) <= Distance(consTail, prodHead)
  /\ Distance(consTail, prodHead) <= capacity

(* Whatever lies between a tail and its head is owned by a call that is    *)
(* still running: if it were not, every later call would spin for ever on  *)
(* the tail (ring_buffer.cc:208, 229).                                     *)
NoOrphanClaim ==
  /\ \A d \in 0..(Distance(prodTail, prodHead) - 1) :
       \E p \in Producers : Claims(p) /\ Distance(old[p], U32(prodTail + d)) < cnt[p]
  /\ \A d \in 0..(Distance(consTail, consHead) - 1) :
       \E c \in Consumers : Claims(c) /\ Distance(old[c], U32(consTail + d)) < cnt[c]

(* Every call returns: a spinning call is released by the calls it waits   *)
(* for, and a lost compare-and-swap is retried only while others succeed.  *)
EveryCallReturns == \A t \in Threads : pc[t] # "idle" ~> pc[t] = "idle"

(* The units in the slots from position `from' on. *)
Stored(from, n) == [i \in 1..n |-> slot[SlotOf(U32(from + i - 1))]]

(* The ring keeps the promise of UnitFifo.  A unit is put when the tail    *)
(* that covers it is stored and taken when the consumer head moves past    *)
(* it; the units a consumer holds are those it has copied and those still  *)
(* in the slots it claimed.                                                *)
Fifo == INSTANCE UnitFifo WITH
  offered <- [p \in Producers |-> buf[p]],
  fifo <- Stored(consHead, Distance(consHead, prodTail)),
  held <- [c \in Consumers |->
             IF Claims(c) THEN buf[c] \o Stored(U32(old[c] + k[c]), cnt[c] - k[c])
             ELSE << >>]

ImplementsFifo == Fifo!FifoSpec
=============================================================================
