-------------------------- MODULE TaskQueueProofs --------------------------
(***************************************************************************)
(* Proofs about TaskQueue, for any number of threads and any kMaxSize_.    *)
(* The lemmas are about single steps of one thread, so that the modules    *)
(* whose threads use the queue can cite them for the steps they take.      *)
(***************************************************************************)
EXTENDS TaskQueue, TLAPS, FiniteSetTheorems, SequenceTheorems

-----------------------------------------------------------------------------
(* Who waits with the mutex has just read the queue, and nobody else       *)
(* changes it meanwhile; who is in Push has an object to push.             *)
Waits ==
  \A t \in Threads :
    /\ at[t] = "popWait" => queue_ = << >>
    /\ at[t] = "pushWait" => Len(queue_) = kMaxSize_
    /\ at[t] \in {"push", "pushWait", "pushParked"} => item[t] \in Items

QInv == QueueTypeOK /\ Waits

(* What a thread that uses the queue does by itself, except to call Push. *)
QueueStep(t) ==
  \/ CallPop(t) \/ CallClear(t) \/ CallClearUp(t)
  \/ PushStep(t) \/ PopStep(t) \/ ClearUpStep(t)
  \/ SpuriousWake(t) \/ StoreValid(t)

-----------------------------------------------------------------------------
(* Helpers: the threads a step moves. *)

LEMMA Moved ==
  ASSUME at \in [Threads -> Places], NEW t \in Threads, NEW next \in Places,
         NEW woken, t \notin woken, Move(t, next, woken)
  PROVE  /\ at' \in [Threads -> Places]
         /\ at'[t] = next
         /\ \A u \in Threads \ {t} :
              /\ u \in woken /\ at[u] = "pushParked" => at'[u] = "push"
              /\ u \in woken /\ at[u] = "popParked" => at'[u] = "pop"
              /\ ~(u \in woken /\ at[u] \in {"pushParked", "popParked"}) => at'[u] = at[u]
<1> DEFINE To(u) == CASE u = t -> next
                      [] u \in woken /\ at[u] = "pushParked" -> "push"
                      [] u \in woken /\ at[u] = "popParked" -> "pop"
                      [] OTHER -> at[u]
<1>1. at' = [u \in Threads |-> To(u)]
  BY DEF Move
<1>2. To(t) = next
  OBVIOUS
<1>3. ASSUME NEW u \in Threads \ {t}
      PROVE  /\ u \in woken /\ at[u] = "pushParked" => To(u) = "push"
             /\ u \in woken /\ at[u] = "popParked" => To(u) = "pop"
             /\ ~(u \in woken /\ at[u] \in {"pushParked", "popParked"}) => To(u) = at[u]
  <2>1. ASSUME u \in woken, at[u] = "pushParked" PROVE To(u) = "push"
    BY <2>1
  <2>2. ASSUME u \in woken, at[u] = "popParked" PROVE To(u) = "pop"
    BY <2>2
  <2>3. ASSUME ~(u \in woken /\ at[u] \in {"pushParked", "popParked"}) PROVE To(u) = at[u]
    BY <2>3
  <2> HIDE DEF To
  <2> QED
    BY <2>1, <2>2, <2>3
<1> HIDE DEF To
<1>4. \A u \in Threads : To(u) \in Places
  BY <1>2, <1>3 DEF Places
<1> QED
  BY <1>1, <1>2, <1>3, <1>4

LEMMA WentTo ==
  ASSUME at \in [Threads -> Places], NEW t \in Threads, NEW next \in Places, Goto(t, next)
  PROVE  at' = [at EXCEPT ![t] = next]
<1>1. at' \in [Threads -> Places] /\ at'[t] = next
  BY Moved DEF Goto
<1>2. \A u \in Threads \ {t} : at'[u] = at[u]
  BY Moved DEF Goto
<1> QED
  BY <1>1, <1>2

LEMMA InitQInv == QueueInit => QInv
  BY TaskQueueAssumption DEF QueueInit, QInv, QueueTypeOK, Waits, Places

(* A step that leaves the mutex and the queue alone. *)
LEMMA OutsideStep ==
  ASSUME QInv, NEW t \in Threads, NEW next \in Places,
         NEW woken, t \notin woken, Move(t, next, woken),
         at[t] \notin {"pushWait", "popWait"},
         next \notin {"pushWait", "popWait"},
         next \in {"push", "pushParked"} => item'[t] \in Items,
         UNCHANGED <<queue_, mtx_>>,
         valid_' \in BOOLEAN, storing' \subseteq Threads, freed' \subseteq Items,
         \E x \in Items \cup {NULL} : item' = [item EXCEPT ![t] = x]
  PROVE  QInv'
<1>1. /\ at' \in [Threads -> Places] /\ at'[t] = next
      /\ \A u \in Threads \ {t} :
           \/ at'[u] = at[u]
           \/ at[u] = "pushParked" /\ at'[u] = "push"
           \/ at[u] = "popParked" /\ at'[u] = "pop"
  BY Moved DEF QInv, QueueTypeOK
<1>2. item' \in [Threads -> Items \cup {NULL}] /\ \A u \in Threads \ {t} : item'[u] = item[u]
  BY DEF QInv, QueueTypeOK
<1>3. QueueTypeOK'
  BY <1>1, <1>2 DEF QInv, QueueTypeOK
<1>4. Waits'
  BY <1>1, <1>2 DEF QInv, Waits
<1> QED
  BY <1>3, <1>4 DEF QInv

(* A step of a thread that takes and returns the mutex, and leaves Push or *)
(* Pop, Clear or ClearUp: nobody else is about to wait.                    *)
LEMMA MutexStep ==
  ASSUME QInv, NEW t \in Threads, NEW next \in Places \ {"push", "pushWait", "pushParked", "popWait"},
         NEW woken, t \notin woken, Move(t, next, woken),
         mtx_ = NULL, mtx_' = NULL,
         queue_' \in Seq(Items), Len(queue_') <= kMaxSize_,
         UNCHANGED <<valid_, storing>>, freed' \subseteq Items,
         \E x \in Items \cup {NULL} : item' = [item EXCEPT ![t] = x]
  PROVE  QInv'
<1>1. /\ at' \in [Threads -> Places] /\ at'[t] = next
      /\ \A u \in Threads \ {t} :
           \/ at'[u] = at[u]
           \/ at[u] = "pushParked" /\ at'[u] = "push"
           \/ at[u] = "popParked" /\ at'[u] = "pop"
  BY Moved DEF QInv, QueueTypeOK
<1>2. item' \in [Threads -> Items \cup {NULL}] /\ \A u \in Threads \ {t} : item'[u] = item[u]
  BY DEF QInv, QueueTypeOK
<1>3. \A u \in Threads : at[u] \notin {"pushWait", "popWait"} /\ mtx_' # u
  BY TaskQueueAssumption DEF QInv, QueueTypeOK
<1>4. QueueTypeOK'
  BY <1>1, <1>2, <1>3 DEF QInv, QueueTypeOK
<1>5. Waits'
  BY <1>1, <1>2, <1>3 DEF QInv, Waits
<1> QED
  BY <1>4, <1>5 DEF QInv

LEMMA WokenByNotify ==
  /\ \A woken \in WokenByPush : woken \subseteq Waiting("popParked")
  /\ \A woken \in WokenByPop : woken \subseteq Waiting("pushParked")
  BY DEF WokenByPush, WokenByPop, One

LEMMA CallKeepsTypes ==
  ASSUME QInv, NEW t \in Threads,
         \/ CallPop(t) \/ CallClear(t) \/ CallClearUp(t)
         \/ \E x \in Items : CallPush(t, x)
  PROVE  QInv'
<1>1. CASE \E x \in Items : CallPush(t, x)
  <2>1. PICK x \in Items : CallPush(t, x)
    BY <1>1
  <2>2. item'[t] = x /\ "push" \in Places
    BY <2>1 DEF CallPush, QInv, QueueTypeOK, Places
  <2> QED
    BY <2>1, <2>2, OutsideStep DEF CallPush, Goto, QInv, QueueTypeOK
<1>2. CASE CallPop(t)
  <2>1. "pop" \in Places
    BY DEF Places
  <2> QED
    BY <1>2, <2>1, OutsideStep DEF CallPop, Goto, QInv, QueueTypeOK
<1>3. CASE CallClear(t) \/ CallClearUp(t)
  <2>1. "clear" \in Places /\ "clearUp" \in Places
    BY DEF Places
  <2>2. item' = [item EXCEPT ![t] = item[t]] /\ item[t] \in Items \cup {NULL}
    BY <1>3 DEF CallClear, CallClearUp, QInv, QueueTypeOK
  <2> QED
    BY <1>3, <2>1, <2>2, OutsideStep DEF CallClear, CallClearUp, Goto, QInv, QueueTypeOK
<1> QED
  BY <1>1, <1>2, <1>3

LEMMA PushKeepsTypes ==
  ASSUME QInv, NEW t \in Threads, PushStep(t)
  PROVE  QInv'
<1> USE DEF Places
<1>0. item[t] \in Items \cup {NULL} /\ item = [item EXCEPT ![t] = item[t]]
  BY DEF QInv, QueueTypeOK
<1>1. CASE PushEnqueue(t)
  <2>1. /\ item[t] \in Items /\ queue_ \in Seq(Items) /\ ~(Len(queue_) >= kMaxSize_)
        /\ queue_' = Append(queue_, item[t])
    BY <1>1 DEF PushEnqueue, QInv, QueueTypeOK, Waits, Full
  <2>2. queue_' \in Seq(Items) /\ Len(queue_') <= kMaxSize_
    BY <2>1, TaskQueueAssumption
  <2>3. PICK woken \in WokenByPush : Move(t, "out", woken)
    BY <1>1 DEF PushEnqueue
  <2>4. t \notin woken
    BY <1>1, WokenByNotify DEF PushEnqueue, Waiting
  <2> QED
    BY <1>1, <2>2, <2>3, <2>4, MutexStep DEF PushEnqueue, Free, QInv, QueueTypeOK
<1>2. CASE PushRefused(t)
  BY <1>0, <1>2, OutsideStep DEF PushRefused, Goto, QInv, QueueTypeOK
<1>3. CASE PushCheck(t)
  <2>1. at' = [at EXCEPT ![t] = "pushWait"]
    BY <1>3, WentTo DEF PushCheck, QInv, QueueTypeOK
  <2>2. \A u \in Threads : at[u] \notin {"pushWait", "popWait"}
    BY <1>3, TaskQueueAssumption DEF PushCheck, Free, QInv, QueueTypeOK
  <2>3. Len(queue_) = kMaxSize_
    BY <1>3, TaskQueueAssumption DEF PushCheck, Full, QInv, QueueTypeOK
  <2> QED
    BY <1>3, <2>1, <2>2, <2>3 DEF PushCheck, QInv, QueueTypeOK, Waits
<1>4. CASE PushWait(t)
  <2>1. at' = [at EXCEPT ![t] = "pushParked"]
    BY <1>4, WentTo DEF PushWait, QInv, QueueTypeOK
  <2>2. \A u \in Threads \ {t} : at[u] \notin {"pushWait", "popWait"}
    BY <1>4 DEF PushWait, QInv, QueueTypeOK
  <2> QED
    BY <1>4, <2>1, <2>2, TaskQueueAssumption DEF PushWait, QInv, QueueTypeOK, Waits
<1> QED
  BY <1>1, <1>2, <1>3, <1>4 DEF PushStep

LEMMA PopKeepsTypes ==
  ASSUME QInv, NEW t \in Threads, PopStep(t)
  PROVE  QInv'
<1> USE DEF Places
<1>0. item[t] \in Items \cup {NULL} /\ item = [item EXCEPT ![t] = item[t]]
  BY DEF QInv, QueueTypeOK
<1>1. CASE PopTake(t)
  <2>1. /\ queue_ \in Seq(Items) /\ queue_ # << >> /\ Len(queue_) <= kMaxSize_
        /\ queue_' = Tail(queue_)
    BY <1>1 DEF PopTake, QInv, QueueTypeOK
  <2>2. /\ queue_' \in Seq(Items) /\ Len(queue_') = Len(queue_) - 1
        /\ Len(queue_) \in Nat /\ Head(queue_) \in Items
    BY <2>1, HeadTailProperties, LenProperties
  <2>3. Len(queue_') <= kMaxSize_
    BY <2>1, <2>2, TaskQueueAssumption
  <2>4. PICK woken \in WokenByPop : Move(t, "out", woken)
    BY <1>1 DEF PopTake
  <2>5. t \notin woken
    BY <1>1, WokenByNotify DEF PopTake, Waiting
  <2> QED
    BY <1>1, <2>2, <2>3, <2>4, <2>5, MutexStep DEF PopTake, Free, QInv, QueueTypeOK
<1>2. CASE PopNothing(t)
  BY <1>0, <1>2, OutsideStep DEF PopNothing, Goto, QInv, QueueTypeOK
<1>3. CASE PopCheck(t)
  <2>1. at' = [at EXCEPT ![t] = "popWait"]
    BY <1>3, WentTo DEF PopCheck, QInv, QueueTypeOK
  <2>2. \A u \in Threads : at[u] \notin {"pushWait", "popWait"}
    BY <1>3, TaskQueueAssumption DEF PopCheck, Free, QInv, QueueTypeOK
  <2> QED
    BY <1>3, <2>1, <2>2 DEF PopCheck, QInv, QueueTypeOK, Waits
<1>4. CASE PopWait(t)
  <2>1. at' = [at EXCEPT ![t] = "popParked"]
    BY <1>4, WentTo DEF PopWait, QInv, QueueTypeOK
  <2>2. \A u \in Threads \ {t} : at[u] \notin {"pushWait", "popWait"}
    BY <1>4 DEF PopWait, QInv, QueueTypeOK
  <2> QED
    BY <1>4, <2>1, <2>2, TaskQueueAssumption DEF PopWait, QInv, QueueTypeOK, Waits
<1> QED
  BY <1>1, <1>2, <1>3, <1>4 DEF PopStep

LEMMA ClearUpKeepsTypes ==
  ASSUME QInv, NEW t \in Threads, ClearUpStep(t)
  PROVE  QInv'
<1> USE DEF Places
<1>0. item[t] \in Items \cup {NULL} /\ item = [item EXCEPT ![t] = item[t]]
  BY DEF QInv, QueueTypeOK
<1>1. CASE Clear(t)
  <2>1. Queued \subseteq Items
    BY ElementOfSeq, LenProperties DEF Queued, QInv, QueueTypeOK
  <2>2. PICK next \in {"out", "invalidate"} : Move(t, next, {})
    BY <1>1 DEF Clear, Goto
  <2>3. queue_' \in Seq(Items) /\ Len(queue_') <= kMaxSize_
    BY <1>1, TaskQueueAssumption DEF Clear
  <2> QED
    BY <1>0, <1>1, <2>1, <2>2, <2>3, MutexStep DEF Clear, Free, QInv, QueueTypeOK
<1>2. CASE Invalidate(t)
  BY <1>0, <1>2, OutsideStep DEF Invalidate, Goto, QInv, QueueTypeOK
<1>3. CASE NotifyNotEmpty(t)
  <2>1. t \notin Waiting("popParked") /\ Move(t, "notifyFull", Waiting("popParked"))
    BY <1>3 DEF NotifyNotEmpty, NotifyAll, Waiting
  <2> QED
    BY <1>0, <1>3, <2>1, OutsideStep DEF NotifyNotEmpty, NotifyAll, QInv, QueueTypeOK
<1>4. CASE NotifyNotFull(t)
  <2>1. t \notin Waiting("pushParked") /\ Move(t, "out", Waiting("pushParked"))
    BY <1>4 DEF NotifyNotFull, NotifyAll, Waiting
  <2> QED
    BY <1>0, <1>4, <2>1, OutsideStep DEF NotifyNotFull, NotifyAll, QInv, QueueTypeOK
<1> QED
  BY <1>1, <1>2, <1>3, <1>4 DEF ClearUpStep

LEMMA OtherKeepsTypes ==
  ASSUME QInv, NEW t \in Threads, SpuriousWake(t) \/ StoreValid(t)
  PROVE  QInv'
<1>1. CASE SpuriousWake(t)
  <2>1. PICK next \in {"push", "pop"} :
          Goto(t, next) /\ (next = "push" => at[t] = "pushParked")
            /\ at[t] \in {"pushParked", "popParked"}
    BY <1>1 DEF SpuriousWake
  <2>2. next \in Places
    BY DEF Places
  <2>3. item[t] \in Items \cup {NULL} /\ item' = [item EXCEPT ![t] = item[t]]
    BY <1>1 DEF SpuriousWake, QInv, QueueTypeOK
  <2>4. next = "push" => item[t] \in Items
    BY <2>1 DEF QInv, Waits
  <2> QED
    BY <1>1, <2>1, <2>2, <2>3, <2>4, OutsideStep DEF SpuriousWake, Goto, QInv, QueueTypeOK
<1>2. CASE StoreValid(t)
  BY <1>2 DEF StoreValid, QInv, QueueTypeOK, Waits
<1> QED
  BY <1>1, <1>2

LEMMA StepKeepsTypes ==
  ASSUME QInv, NEW t \in Threads, QueueStep(t) \/ \E x \in Items : CallPush(t, x)
  PROVE  QInv'
  BY CallKeepsTypes, PushKeepsTypes, PopKeepsTypes, ClearUpKeepsTypes, OtherKeepsTypes
     DEF QueueStep

LEMMA NextIsStep ==
  ASSUME QueueNext
  PROVE  \E t \in Threads :
           QueueStep(t) \/ \E x \in Items \ Owned : CallPush(t, x)
  BY DEF QueueNext, QueueStep

LEMMA IdleKeepsTypes == QInv /\ UNCHANGED queueVars => QInv'
  BY DEF queueVars, QInv, QueueTypeOK, Waits

LEMMA QInvStep == QInv /\ [QueueNext]_queueVars => QInv'
  BY NextIsStep, StepKeepsTypes, IdleKeepsTypes

(* The queue never holds more than kMaxSize_ items, the mutex is held by   *)
(* the one thread that is about to wait, and every variable has its type,  *)
(* whatever the threads call.                                              *)
THEOREM QueueTypeCorrect == QueueSpec => []QueueTypeOK
<1>1. QueueSpec => []QInv
  BY InitQInv, QInvStep, PTL DEF QueueSpec
<1>2. QInv => QueueTypeOK
  BY DEF QInv
<1> QED
  BY <1>1, <1>2, PTL

-----------------------------------------------------------------------------
(* One owner, without counting: no two places hold the same object. *)
Owners ==
  /\ \A t, u \in Threads : item[t] = item[u] /\ item[t] # NULL => t = u
  /\ \A i, j \in DOMAIN queue_ : queue_[i] = queue_[j] => i = j
  /\ \A t \in Threads : item[t] \notin freed
  /\ \A t \in Threads, i \in DOMAIN queue_ : queue_[i] # item[t]
  /\ \A i \in DOMAIN queue_ : queue_[i] \notin freed

LEMMA QueueDomain ==
  ASSUME QInv
  PROVE  /\ Len(queue_) \in Nat /\ DOMAIN queue_ = 1 .. Len(queue_)
         /\ \A i \in DOMAIN queue_ : queue_[i] \in Items /\ queue_[i] # NULL
  BY LenProperties, ElementOfSeq, TaskQueueAssumption DEF QInv, QueueTypeOK

(* Steps that at most forget what a thread holds. *)
LEMMA ForgetKeepsOwners ==
  ASSUME QInv, Owners, NEW t \in Threads, UNCHANGED <<queue_, freed>>,
         item' = item \/ item' = [item EXCEPT ![t] = NULL]
  PROVE  Owners'
<1>1. NULL \notin freed /\ \A i \in DOMAIN queue_ : queue_[i] # NULL
  BY QueueDomain, TaskQueueAssumption DEF QInv, QueueTypeOK
<1>2. \A u \in Threads : item'[u] = item[u] \/ item'[u] = NULL
  BY DEF QInv, QueueTypeOK
<1> QED
  BY <1>1, <1>2 DEF Owners

LEMMA CallPushKeepsOwners ==
  ASSUME QInv, Owners, NEW t \in Threads, NEW x \in Items \ Owned, CallPush(t, x)
  PROVE  Owners'
<1>1. /\ x \notin freed /\ \A u \in Threads : item[u] # x
      /\ \A i \in DOMAIN queue_ : queue_[i] # x
  BY DEF Owned, Queued
<1> QED
  BY <1>1 DEF CallPush, Owners, QInv, QueueTypeOK

LEMMA PushEnqueueKeepsOwners ==
  ASSUME QInv, Owners, NEW t \in Threads, PushEnqueue(t)
  PROVE  Owners'
<1>1. /\ queue_' = Append(queue_, item[t]) /\ item' = [item EXCEPT ![t] = NULL]
      /\ freed' = freed /\ item[t] \in Items /\ queue_ \in Seq(Items)
  BY DEF PushEnqueue, QInv, QueueTypeOK, Waits
<1> DEFINE n == Len(queue_)
<1>2. /\ n \in Nat /\ DOMAIN queue_ = 1 .. n
      /\ DOMAIN queue_' = 1 .. n + 1 /\ queue_'[n + 1] = item[t]
      /\ \A i \in 1 .. n : queue_'[i] = queue_[i]
  BY <1>1, AppendProperties, LenProperties
<1>3. /\ \A i \in 1 .. n : queue_[i] # item[t] /\ queue_[i] \notin freed
      /\ \A i, j \in 1 .. n : queue_[i] = queue_[j] => i = j
      /\ \A u \in Threads, i \in 1 .. n : queue_[i] # item[u] /\ queue_[i] # NULL
  BY <1>2, QueueDomain DEF Owners
<1>4. /\ item'[t] = NULL /\ \A u \in Threads \ {t} : item'[u] = item[u]
      /\ NULL \notin freed /\ item[t] # NULL
  BY <1>1, TaskQueueAssumption DEF QInv, QueueTypeOK
<1>5. \A u \in Threads \ {t} : item[u] # item[t]
  BY <1>4 DEF Owners
<1> HIDE DEF n
<1>6. \A i, j \in DOMAIN queue_' : queue_'[i] = queue_'[j] => i = j
  BY <1>2, <1>3
<1>7. \A u \in Threads, i \in DOMAIN queue_' : queue_'[i] # item'[u]
  BY <1>2, <1>3, <1>4, <1>5
<1>8. \A i \in DOMAIN queue_' : queue_'[i] \notin freed'
  BY <1>1, <1>2, <1>3 DEF Owners
<1> QED
  BY <1>1, <1>4, <1>6, <1>7, <1>8 DEF Owners

LEMMA PopTakeKeepsOwners ==
  ASSUME QInv, Owners, NEW t \in Threads, PopTake(t)
  PROVE  Owners'
<1>1. /\ queue_ # << >> /\ queue_ \in Seq(Items) /\ queue_' = Tail(queue_)
      /\ item' = [item EXCEPT ![t] = Head(queue_)] /\ freed' = freed
  BY DEF PopTake, QInv, QueueTypeOK
<1> DEFINE n == Len(queue_)
<1>2. /\ n \in Nat \ {0} /\ DOMAIN queue_ = 1 .. n
      /\ DOMAIN queue_' = 1 .. n - 1 /\ Head(queue_) = queue_[1]
  BY <1>1, HeadTailProperties, LenProperties, EmptySeq
<1>3. \A i \in DOMAIN queue_' : queue_'[i] = queue_[i + 1]
  BY <1>1, HeadTailProperties, LenProperties
<1>4. item'[t] = queue_[1] /\ \A u \in Threads \ {t} : item'[u] = item[u]
  BY <1>1, <1>2 DEF QInv, QueueTypeOK
<1> HIDE DEF n
<1>5. /\ \A i \in DOMAIN queue_' : i + 1 \in DOMAIN queue_ /\ i + 1 # 1
      /\ 1 \in DOMAIN queue_
      /\ \A i, j \in DOMAIN queue_' : i + 1 = j + 1 => i = j
  BY <1>2
<1>6. /\ \A u, w \in Threads : item'[u] = item'[w] /\ item'[u] # NULL => u = w
      /\ \A u \in Threads : item'[u] \notin freed'
  BY <1>1, <1>4, <1>5 DEF Owners
<1>7. /\ \A i, j \in DOMAIN queue_' : queue_'[i] = queue_'[j] => i = j
      /\ \A i \in DOMAIN queue_' : queue_'[i] \notin freed'
  BY <1>1, <1>3, <1>5 DEF Owners
<1>8. \A u \in Threads, i \in DOMAIN queue_' : queue_'[i] # item'[u]
  BY <1>3, <1>4, <1>5 DEF Owners
<1> QED
  BY <1>6, <1>7, <1>8 DEF Owners

LEMMA ClearKeepsOwners ==
  ASSUME QInv, Owners, NEW t \in Threads, Clear(t)
  PROVE  Owners'
<1>1. /\ queue_' = << >> /\ freed' = freed \cup Queued /\ item' = item
      /\ DOMAIN queue_' = {}
  BY DEF Clear
<1> QED
  BY <1>1 DEF Owners, Queued

LEMMA StepKeepsOwners ==
  ASSUME QInv, Owners, NEW t \in Threads, QueueStep(t)
  PROVE  Owners'
<1>1. \/ PushEnqueue(t) \/ PopTake(t) \/ Clear(t)
      \/ UNCHANGED <<queue_, freed>> /\ (item' = item \/ item' = [item EXCEPT ![t] = NULL])
  BY DEF QueueStep, CallPop, CallClear, CallClearUp, PushStep, PushRefused, PushCheck, PushWait,
         PopStep, PopNothing, PopCheck, PopWait, ClearUpStep, Invalidate, NotifyNotEmpty,
         NotifyNotFull, NotifyAll, SpuriousWake, StoreValid
<1> QED
  BY <1>1, PushEnqueueKeepsOwners, PopTakeKeepsOwners, ClearKeepsOwners, ForgetKeepsOwners

LEMMA OwnersCounted ==
  ASSUME QInv, Owners
  PROVE  OneOwner
<1> SUFFICES ASSUME NEW x \in Items
             PROVE  LET holders == {t \in Threads : item[t] = x}
                        places == {i \in DOMAIN queue_ : queue_[i] = x}
                    IN  Cardinality(holders) + Cardinality(places)
                          <= (IF x \in freed THEN 0 ELSE 1)
  BY DEF OneOwner
<1> DEFINE holders == {t \in Threads : item[t] = x}
           places == {i \in DOMAIN queue_ : queue_[i] = x}
<1>1. holders = {} \/ \E t : holders = {t}
  <2>1. SUFFICES ASSUME NEW t \in holders PROVE holders = {t}
    OBVIOUS
  <2> QED
    BY TaskQueueAssumption DEF Owners
<1>2. places = {} \/ \E i : places = {i}
  BY DEF Owners
<1>3. holders = {} \/ places = {}
  BY DEF Owners
<1>4. x \in freed => holders = {} /\ places = {}
  BY DEF Owners
<1> HIDE DEF holders, places
<1>5. /\ Cardinality(holders) = 0 \/ Cardinality(holders) = 1
      /\ holders = {} => Cardinality(holders) = 0
  BY <1>1, FS_EmptySet, FS_Singleton
<1>6. /\ Cardinality(places) = 0 \/ Cardinality(places) = 1
      /\ places = {} => Cardinality(places) = 0
  BY <1>2, FS_EmptySet, FS_Singleton
<1>7. Cardinality(holders) + Cardinality(places) <= (IF x \in freed THEN 0 ELSE 1)
  BY <1>3, <1>4, <1>5, <1>6
<1> QED
  BY <1>7 DEF holders, places

(* Every object has one owner at most, so that nothing is deleted twice or *)
(* used after it was deleted, however Push, Pop, Clear and ClearUp of any  *)
(* number of threads interleave.                                           *)
THEOREM ObjectsHaveOneOwner == QueueSpec => []OneOwner
<1>1. QueueInit => Owners
  BY DEF QueueInit, Owners
<1>2. QInv /\ Owners /\ [QueueNext]_queueVars => Owners'
  BY NextIsStep, StepKeepsOwners, CallPushKeepsOwners DEF queueVars, Owners
<1>3. QueueSpec => [](QInv /\ Owners)
  BY <1>1, <1>2, InitQInv, QInvStep, PTL DEF QueueSpec
<1> QED
  BY <1>3, OwnersCounted, PTL

-----------------------------------------------------------------------------
(* Wake-ups.  What the steps do to the number of those who are on their    *)
(* way to the queue.                                                       *)

LEMMA WaitingFinite ==
  ASSUME NEW place
  PROVE  /\ IsFiniteSet(Waiting(place)) /\ Cardinality(Waiting(place)) \in Nat
         /\ IsFiniteSet(Waiting(place)') /\ Cardinality(Waiting(place)') \in Nat
<1>1. Waiting(place) \in SUBSET Threads /\ Waiting(place)' \in SUBSET Threads
  BY DEF Waiting
<1> QED
  BY <1>1, TaskQueueAssumption, FS_Subset, FS_CardinalityType

LEMMA NoFewer ==
  ASSUME NEW place, \A u \in Threads : at[u] = place => at'[u] = place
  PROVE  Cardinality(Waiting(place)) <= Cardinality(Waiting(place)')
<1>1. Waiting(place) \in SUBSET (Waiting(place)')
  BY DEF Waiting
<1> QED
  BY <1>1, WaitingFinite, FS_Subset

LEMMA OneFewer ==
  ASSUME NEW place, NEW t \in Threads, \A u \in Threads \ {t} : at[u] = place => at'[u] = place
  PROVE  Cardinality(Waiting(place)) - 1 <= Cardinality(Waiting(place)')
<1>1. Waiting(place) \ {t} \in SUBSET (Waiting(place)')
  BY DEF Waiting
<1>2. /\ IsFiniteSet(Waiting(place) \ {t})
      /\ Cardinality(Waiting(place) \ {t}) = IF t \in Waiting(place) THEN Cardinality(Waiting(place)) - 1
                                             ELSE Cardinality(Waiting(place))
  BY WaitingFinite, FS_RemoveElement
<1>3. Cardinality(Waiting(place) \ {t}) <= Cardinality(Waiting(place)')
  BY <1>1, WaitingFinite, FS_Subset
<1> QED
  BY <1>2, <1>3, WaitingFinite

LEMMA OneMore ==
  ASSUME NEW place, NEW t \in Threads, at[t] # place, at'[t] = place,
         \A u \in Threads : at[u] = place => at'[u] = place
  PROVE  Cardinality(Waiting(place)) + 1 <= Cardinality(Waiting(place)')
<1>1. Waiting(place) \cup {t} \in SUBSET (Waiting(place)') /\ t \notin Waiting(place)
  BY DEF Waiting
<1>2. /\ IsFiniteSet(Waiting(place) \cup {t})
      /\ Cardinality(Waiting(place) \cup {t}) = Cardinality(Waiting(place)) + 1
  BY <1>1, WaitingFinite, FS_AddElement
<1>3. Cardinality(Waiting(place) \cup {t}) <= Cardinality(Waiting(place)')
  BY <1>1, WaitingFinite, FS_Subset
<1> QED
  BY <1>2, <1>3

(* What a step of t does to the other threads, and to t itself. *)
LEMMA OthersMove ==
  ASSUME QInv, NEW t \in Threads, QueueStep(t) \/ \E x \in Items : CallPush(t, x)
  PROVE  \A u \in Threads \ {t} :
           \/ at'[u] = at[u]
           \/ at[u] = "pushParked" /\ at'[u] = "push"
           \/ at[u] = "popParked" /\ at'[u] = "pop"
<1> USE DEF Places
<1>1. \/ \E next \in Places : \E woken : t \notin woken /\ Move(t, next, woken)
      \/ at' = at
  <2>1. CASE PushEnqueue(t)
    <3>1. PICK woken \in WokenByPush : Move(t, "out", woken)
      BY <2>1 DEF PushEnqueue
    <3>2. t \notin woken
      BY <2>1, WokenByNotify DEF PushEnqueue, Waiting
    <3> QED
      BY <3>1, <3>2
  <2>2. CASE PopTake(t)
    <3>1. PICK woken \in WokenByPop : Move(t, "out", woken)
      BY <2>2 DEF PopTake
    <3>2. t \notin woken
      BY <2>2, WokenByNotify DEF PopTake, Waiting
    <3> QED
      BY <3>1, <3>2
  <2>3. CASE NotifyNotEmpty(t) \/ NotifyNotFull(t)
    <3>1. \/ t \notin Waiting("popParked") /\ Move(t, "notifyFull", Waiting("popParked"))
          \/ t \notin Waiting("pushParked") /\ Move(t, "out", Waiting("pushParked"))
      BY <2>3 DEF NotifyNotEmpty, NotifyNotFull, NotifyAll, Waiting
    <3> QED
      BY <3>1
  <2>4. CASE StoreValid(t)
    BY <2>4 DEF StoreValid
  <2>5. CASE \E next \in Places : Move(t, next, {})
    BY <2>5
  <2> QED
    BY <2>1, <2>2, <2>3, <2>4, <2>5
       DEF QueueStep, CallPush, CallPop, CallClear, CallClearUp, PushStep, PushRefused, PushCheck,
           PushWait, PopStep, PopNothing, PopCheck, PopWait, ClearUpStep, Clear, Invalidate,
           SpuriousWake, Goto
<1> QED
  BY <1>1, Moved DEF QInv, QueueTypeOK

LEMMA WentThere ==
  ASSUME QInv, NEW t \in Threads, NEW next \in Places, Goto(t, next)
  PROVE  at'[t] = next
  BY Moved DEF Goto, QInv, QueueTypeOK

(* The steps that neither change the queue nor take anybody to sleep in    *)
(* Pop, or away from Pop.                                                  *)
LEMMA OtherStepsForPoppers ==
  ASSUME QInv, NEW t \in Threads, QueueStep(t) \/ \E x \in Items : CallPush(t, x),
         ~PushEnqueue(t), ~PopTake(t), ~PopWait(t), ~Clear(t), ~PopCheck(t), ~PopNothing(t),
         ~NotifyNotEmpty(t)
  PROVE  /\ queue_' = queue_
         /\ at[t] = "pop" => at'[t] = "pop"
         /\ at'[t] = "popParked" => at[t] = "popParked"
<1> USE DEF Places
<1>1. CASE StoreValid(t)
  BY <1>1 DEF StoreValid
<1>2. CASE NotifyNotFull(t)
  <2>1. t \notin Waiting("pushParked") /\ Move(t, "out", Waiting("pushParked"))
    BY <1>2 DEF NotifyNotFull, NotifyAll, Waiting
  <2> QED
    BY <1>2, <2>1, Moved DEF NotifyNotFull, NotifyAll, QInv, QueueTypeOK
<1>3. CASE SpuriousWake(t)
  BY <1>3, WentThere DEF SpuriousWake
<1>4. CASE PushRefused(t) \/ PushCheck(t) \/ PushWait(t)
  BY <1>4, WentThere DEF PushRefused, PushCheck, PushWait
<1>5. CASE CallPop(t) \/ CallClear(t) \/ CallClearUp(t) \/ Invalidate(t)
  BY <1>5, WentThere DEF CallPop, CallClear, CallClearUp, Invalidate
<1>6. CASE \E x \in Items : CallPush(t, x)
  BY <1>6, WentThere DEF CallPush
<1> QED
  BY <1>1, <1>2, <1>3, <1>4, <1>5, <1>6 DEF QueueStep, PushStep, PopStep, ClearUpStep

LEMMA StepServesPoppers ==
  ASSUME QInv, PoppersServed, NEW t \in Threads,
         QueueStep(t) \/ \E x \in Items : CallPush(t, x)
  PROVE  PoppersServed'
<1> DEFINE parked == Waiting("popParked")
           coming == Cardinality(Waiting("pop"))
<1>1. /\ coming \in Nat /\ coming' \in Nat /\ Len(queue_) \in Nat
      /\ \A u \in Threads \ {t} :
           /\ at[u] = "pop" => at'[u] = "pop"
           /\ at'[u] = "popParked" => at[u] = "popParked"
  BY WaitingFinite, OthersMove, QueueDomain
<1>2. SUFFICES ASSUME parked' # {} PROVE Len(queue_') <= coming'
  BY DEF PoppersServed
<1>3. CASE PushEnqueue(t)
  <2>1. PICK woken \in WokenByPush : Move(t, "out", woken)
    BY <1>3 DEF PushEnqueue
  <2>2. t \notin woken /\ at[t] = "push" /\ "out" \in Places
    BY <1>3, WokenByNotify DEF PushEnqueue, Waiting, Places
  <2>3. at'[t] = "out"
    BY <2>1, <2>2, Moved DEF QInv, QueueTypeOK
  <2>4. parked # {}
    BY <1>1, <1>2, <2>3 DEF Waiting
  <2>5. PICK u \in parked : woken = {u}
    BY <2>1, <2>4 DEF WokenByPush, One
  <2>6. u \in Threads \ {t} /\ at[u] = "popParked"
    BY <2>2, <2>5 DEF Waiting
  <2>7. at'[u] = "pop"
    BY <2>1, <2>2, <2>5, <2>6, Moved DEF QInv, QueueTypeOK
  <2>8. coming + 1 <= coming'
    BY <1>1, <2>2, <2>6, <2>7, OneMore
  <2>9. Len(queue_') = Len(queue_) + 1
    BY <1>3, AppendProperties DEF PushEnqueue, QInv, QueueTypeOK, Waits
  <2>10. Len(queue_) <= coming
    BY <2>4 DEF PoppersServed
  <2> HIDE DEF coming
  <2> QED
    BY <1>1, <2>8, <2>9, <2>10
<1>4. CASE PopTake(t)
  <2>1. PICK woken \in WokenByPop : Move(t, "out", woken)
    BY <1>4 DEF PopTake
  <2>2. t \notin woken /\ "out" \in Places
    BY <1>4, WokenByNotify DEF PopTake, Waiting, Places
  <2>3. at'[t] = "out"
    BY <2>1, <2>2, Moved DEF QInv, QueueTypeOK
  <2>4. parked # {}
    BY <1>1, <1>2, <2>3 DEF Waiting
  <2>5. coming - 1 <= coming'
    BY <1>1, OneFewer
  <2>6. Len(queue_') = Len(queue_) - 1
    BY <1>4, HeadTailProperties DEF PopTake, QInv, QueueTypeOK
  <2>7. Len(queue_) <= coming
    BY <2>4 DEF PoppersServed
  <2> HIDE DEF coming
  <2> QED
    BY <1>1, <2>5, <2>6, <2>7
<1>5. CASE PopWait(t) \/ Clear(t) \/ PopCheck(t) \/ PopNothing(t)
  <2>1. queue_' = << >>
    BY <1>5 DEF PopWait, Clear, PopCheck, PopNothing, QInv, Waits
  <2>2. Len(queue_') = 0
    BY <2>1, EmptySeq
  <2> HIDE DEF coming
  <2> QED
    BY <1>1, <2>2
<1>6. CASE NotifyNotEmpty(t)
  <2>1. /\ at[t] = "notifyEmpty" /\ t \notin parked /\ "notifyFull" \in Places
        /\ Move(t, "notifyFull", parked)
    BY <1>6 DEF NotifyNotEmpty, NotifyAll, Waiting, Places
  <2>2. at'[t] = "notifyFull" /\ \A u \in parked : at'[u] = "pop"
    BY <2>1, Moved DEF QInv, QueueTypeOK, Waiting
  <2>3. parked' = {}
    BY <1>1, <2>2 DEF Waiting
  <2> QED
    BY <1>2, <2>3
<1>7. CASE ~PushEnqueue(t) /\ ~PopTake(t) /\ ~PopWait(t) /\ ~Clear(t) /\ ~PopCheck(t)
           /\ ~PopNothing(t) /\ ~NotifyNotEmpty(t)
  <2>1. /\ queue_' = queue_
        /\ at[t] = "pop" => at'[t] = "pop"
        /\ at'[t] = "popParked" => at[t] = "popParked"
    BY <1>7, OtherStepsForPoppers
  <2>2. parked # {}
    BY <1>1, <1>2, <2>1 DEF Waiting
  <2>3. coming <= coming'
    BY <1>1, <2>1, NoFewer
  <2>4. Len(queue_) <= coming
    BY <2>2 DEF PoppersServed
  <2> HIDE DEF coming
  <2> QED
    BY <1>1, <2>1, <2>3, <2>4
<1> QED
  BY <1>3, <1>4, <1>5, <1>6, <1>7

(* No wake-up is lost between Push and Pop: while a thread sleeps in Pop,  *)
(* as many threads are on their way to the queue as there are items in it. *)
THEOREM PoppersAreServed == QueueSpec => []PoppersServed
<1>1. QueueInit => PoppersServed
  BY DEF QueueInit, PoppersServed, Waiting
<1>2. QInv /\ PoppersServed /\ [QueueNext]_queueVars => PoppersServed'
  <2>1. QInv /\ PoppersServed /\ QueueNext => PoppersServed'
    BY NextIsStep, StepServesPoppers
  <2>2. PoppersServed /\ UNCHANGED queueVars => PoppersServed'
    BY DEF queueVars, PoppersServed, Waiting
  <2> QED
    BY <2>1, <2>2
<1> QED
  BY <1>1, <1>2, InitQInv, QInvStep, PTL DEF QueueSpec

(* The same of those who sleep in Push. *)

Notifying(t) == at[t] \in {"invalidate", "notifyEmpty", "notifyFull"}

(* The steps that leave the queue alone and take nobody to sleep in Push,  *)
(* or away from Push.                                                      *)
LEMMA OtherStepsForPushers ==
  ASSUME QInv, NEW t \in Threads, QueueStep(t) \/ \E x \in Items : CallPush(t, x),
         ~PushEnqueue(t), ~PopTake(t), ~PushWait(t), ~Clear(t), ~PushCheck(t), ~PushRefused(t),
         ~NotifyNotFull(t)
  PROVE  /\ queue_' = queue_
         /\ at[t] = "push" => at'[t] = "push"
         /\ at'[t] = "pushParked" => at[t] = "pushParked"
         /\ Notifying(t) => Notifying(t)'
<1> USE DEF Places, Notifying
<1>1. CASE StoreValid(t)
  BY <1>1 DEF StoreValid
<1>2. CASE NotifyNotEmpty(t)
  <2>1. t \notin Waiting("popParked") /\ Move(t, "notifyFull", Waiting("popParked"))
    BY <1>2 DEF NotifyNotEmpty, NotifyAll, Waiting
  <2> QED
    BY <1>2, <2>1, Moved DEF NotifyNotEmpty, NotifyAll, QInv, QueueTypeOK
<1>3. CASE SpuriousWake(t)
  BY <1>3, WentThere DEF SpuriousWake
<1>4. CASE PopNothing(t) \/ PopCheck(t) \/ PopWait(t)
  BY <1>4, WentThere DEF PopNothing, PopCheck, PopWait
<1>5. CASE CallPop(t) \/ CallClear(t) \/ CallClearUp(t) \/ Invalidate(t)
  BY <1>5, WentThere DEF CallPop, CallClear, CallClearUp, Invalidate
<1>6. CASE \E x \in Items : CallPush(t, x)
  BY <1>6, WentThere DEF CallPush
<1> QED
  BY <1>1, <1>2, <1>3, <1>4, <1>5, <1>6 DEF QueueStep, PushStep, PopStep, ClearUpStep

LEMMA StepServesPushers ==
  ASSUME QInv, PushersServed, NEW t \in Threads, at[t] # "clear",
         QueueStep(t) \/ \E x \in Items : CallPush(t, x)
  PROVE  PushersServed'
<1> DEFINE parked == Waiting("pushParked")
           coming == Cardinality(Waiting("push"))
<1>1. /\ coming \in Nat /\ coming' \in Nat /\ Len(queue_) \in Nat
      /\ kMaxSize_ \in Nat /\ Len(queue_) <= kMaxSize_
      /\ \A u \in Threads \ {t} :
           /\ at[u] = "push" => at'[u] = "push"
           /\ at'[u] = "pushParked" => at[u] = "pushParked"
           /\ Notifying(u) => Notifying(u)'
  BY WaitingFinite, OthersMove, QueueDomain, TaskQueueAssumption
     DEF Notifying, QInv, QueueTypeOK
<1>2. SUFFICES ASSUME parked' # {}, \A u \in Threads : ~Notifying(u)'
               PROVE kMaxSize_ - Len(queue_') <= coming'
  BY DEF PushersServed, Notifying
<1>3. (\A u \in Threads : ~Notifying(u)) /\ parked # {} => kMaxSize_ - Len(queue_) <= coming
  BY DEF PushersServed, Notifying
<1>4. \A u \in Threads \ {t} : ~Notifying(u)
  BY <1>1, <1>2
<1>5. CASE PopTake(t)
  <2>1. PICK woken \in WokenByPop : Move(t, "out", woken)
    BY <1>5 DEF PopTake
  <2>2. t \notin woken /\ at[t] = "pop" /\ "out" \in Places
    BY <1>5, WokenByNotify DEF PopTake, Waiting, Places
  <2>3. at'[t] = "out"
    BY <2>1, <2>2, Moved DEF QInv, QueueTypeOK
  <2>4. parked # {}
    BY <1>1, <1>2, <2>3 DEF Waiting
  <2>5. PICK u \in parked : woken = {u}
    BY <2>1, <2>4 DEF WokenByPop, One
  <2>6. u \in Threads \ {t} /\ at[u] = "pushParked"
    BY <2>2, <2>5 DEF Waiting
  <2>7. at'[u] = "push"
    BY <2>1, <2>2, <2>5, <2>6, Moved DEF QInv, QueueTypeOK
  <2>8. coming + 1 <= coming'
    BY <1>1, <2>2, <2>6, <2>7, OneMore
  <2>9. Len(queue_') = Len(queue_) - 1
    BY <1>5, HeadTailProperties DEF PopTake, QInv, QueueTypeOK
  <2>10. kMaxSize_ - Len(queue_) <= coming
    BY <1>3, <1>4, <2>2, <2>4 DEF Notifying
  <2> HIDE DEF coming
  <2> QED
    BY <1>1, <2>8, <2>9, <2>10
<1>6. CASE PushEnqueue(t)
  <2>1. PICK woken \in WokenByPush : Move(t, "out", woken)
    BY <1>6 DEF PushEnqueue
  <2>2. t \notin woken /\ at[t] = "push" /\ "out" \in Places
    BY <1>6, WokenByNotify DEF PushEnqueue, Waiting, Places
  <2>3. at'[t] = "out"
    BY <2>1, <2>2, Moved DEF QInv, QueueTypeOK
  <2>4. parked # {}
    BY <1>1, <1>2, <2>3 DEF Waiting
  <2>5. coming - 1 <= coming'
    BY <1>1, OneFewer
  <2>6. Len(queue_') = Len(queue_) + 1
    BY <1>6, AppendProperties DEF PushEnqueue, QInv, QueueTypeOK, Waits
  <2>7. kMaxSize_ - Len(queue_) <= coming
    BY <1>3, <1>4, <2>2, <2>4 DEF Notifying
  <2> HIDE DEF coming
  <2> QED
    BY <1>1, <2>5, <2>6, <2>7
<1>7. CASE PushWait(t) \/ PushCheck(t) \/ PushRefused(t)
  <2>1. queue_' = queue_ /\ kMaxSize_ <= Len(queue_)
    BY <1>1, <1>7 DEF PushWait, PushCheck, PushRefused, Full, QInv, Waits
  <2> HIDE DEF coming
  <2> QED
    BY <1>1, <2>1
<1>8. CASE Clear(t)
  <2>1. Goto(t, "invalidate") /\ "invalidate" \in Places
    BY <1>8 DEF Clear, Places
  <2>2. Notifying(t)'
    BY <2>1, WentThere DEF Notifying
  <2> QED
    BY <1>2, <2>2
<1>9. CASE NotifyNotFull(t)
  <2>1. /\ at[t] = "notifyFull" /\ t \notin parked /\ "out" \in Places
        /\ Move(t, "out", parked)
    BY <1>9 DEF NotifyNotFull, NotifyAll, Waiting, Places
  <2>2. at'[t] = "out" /\ \A u \in parked : at'[u] = "push"
    BY <2>1, Moved DEF QInv, QueueTypeOK, Waiting
  <2>3. parked' = {}
    BY <1>1, <2>2 DEF Waiting
  <2> QED
    BY <1>2, <2>3
<1>10. CASE ~PushEnqueue(t) /\ ~PopTake(t) /\ ~PushWait(t) /\ ~Clear(t) /\ ~PushCheck(t)
            /\ ~PushRefused(t) /\ ~NotifyNotFull(t)
  <2>1. /\ queue_' = queue_
        /\ at[t] = "push" => at'[t] = "push"
        /\ at'[t] = "pushParked" => at[t] = "pushParked"
        /\ Notifying(t) => Notifying(t)'
    BY <1>10, OtherStepsForPushers
  <2>2. parked # {}
    BY <1>1, <1>2, <2>1 DEF Waiting
  <2>3. coming <= coming'
    BY <1>1, <2>1, NoFewer
  <2>4. kMaxSize_ - Len(queue_) <= coming
    BY <1>2, <1>3, <1>4, <2>1, <2>2
  <2> HIDE DEF coming
  <2> QED
    BY <1>1, <2>1, <2>3, <2>4
<1> QED
  BY <1>5, <1>6, <1>7, <1>8, <1>9, <1>10

(* Only CallClear takes a thread to Clear by itself. *)
LEMMA OnlyCallClear ==
  ASSUME QInv, NEW t \in Threads, at[t] # "clear",
         \/ CallPop(t) \/ CallClearUp(t) \/ \E x \in Items : CallPush(t, x)
         \/ PushStep(t) \/ PopStep(t) \/ ClearUpStep(t)
         \/ SpuriousWake(t) \/ StoreValid(t)
  PROVE  at'[t] # "clear"
<1> USE DEF Places
<1>1. CASE PushEnqueue(t)
  <2>1. PICK woken \in WokenByPush : Move(t, "out", woken)
    BY <1>1 DEF PushEnqueue
  <2>2. t \notin woken
    BY <1>1, WokenByNotify DEF PushEnqueue, Waiting
  <2> QED
    BY <2>1, <2>2, Moved DEF QInv, QueueTypeOK
<1>2. CASE PopTake(t)
  <2>1. PICK woken \in WokenByPop : Move(t, "out", woken)
    BY <1>2 DEF PopTake
  <2>2. t \notin woken
    BY <1>2, WokenByNotify DEF PopTake, Waiting
  <2> QED
    BY <2>1, <2>2, Moved DEF QInv, QueueTypeOK
<1>3. CASE NotifyNotEmpty(t) \/ NotifyNotFull(t)
  <2>1. \/ t \notin Waiting("popParked") /\ Move(t, "notifyFull", Waiting("popParked"))
        \/ t \notin Waiting("pushParked") /\ Move(t, "out", Waiting("pushParked"))
    BY <1>3 DEF NotifyNotEmpty, NotifyNotFull, NotifyAll, Waiting
  <2> QED
    BY <2>1, Moved DEF QInv, QueueTypeOK
<1>4. CASE StoreValid(t)
  BY <1>4 DEF StoreValid
<1>5. CASE \E next \in Places \ {"clear"} : Goto(t, next)
  BY <1>5, WentThere
<1> QED
  BY <1>1, <1>2, <1>3, <1>4, <1>5
     DEF CallPush, CallPop, CallClearUp, PushStep, PushRefused, PushCheck, PushWait,
         PopStep, PopNothing, PopCheck, PopWait, ClearUpStep, Clear, Invalidate, SpuriousWake

(* No wake-up is lost between Pop and Push either: while a thread sleeps   *)
(* in Push, as many threads are on their way to the queue as there are     *)
(* free places, except while ClearUp is about to notify.  Clear, called by *)
(* itself, would break this; the code never calls it so.                   *)
THEOREM PushersAreServed == Clearers = {} => (QueueSpec => []PushersServed)
<1> SUFFICES ASSUME Clearers = {} PROVE QueueSpec => []PushersServed
  OBVIOUS
<1> DEFINE NoClear == \A t \in Threads : at[t] # "clear"
<1>1. QueueInit => PushersServed /\ NoClear
  BY DEF QueueInit, PushersServed, Waiting
<1>2. QInv /\ PushersServed /\ NoClear /\ [QueueNext]_queueVars => (PushersServed /\ NoClear)'
  <2>1. ASSUME QInv, PushersServed, NoClear, QueueNext
        PROVE  (PushersServed /\ NoClear)'
    <3>1. PICK t \in Threads :
            \/ CallPop(t) \/ CallClearUp(t) \/ \E x \in Items : CallPush(t, x)
            \/ PushStep(t) \/ PopStep(t) \/ ClearUpStep(t)
            \/ SpuriousWake(t) \/ StoreValid(t)
      BY <2>1 DEF QueueNext
    <3>2. at[t] # "clear" /\ at'[t] # "clear"
      BY <2>1, <3>1, OnlyCallClear
    <3>3. QueueStep(t) \/ \E x \in Items : CallPush(t, x)
      BY <3>1 DEF QueueStep
    <3>4. NoClear'
      BY <2>1, <3>2, <3>3, OthersMove
    <3> QED
      BY <2>1, <3>2, <3>3, <3>4, StepServesPushers
  <2>2. PushersServed /\ NoClear /\ UNCHANGED queueVars => (PushersServed /\ NoClear)'
    BY DEF queueVars, PushersServed, Waiting
  <2> QED
    BY <2>1, <2>2
<1> HIDE DEF NoClear
<1> QED
  BY <1>1, <1>2, InitQInv, QInvStep, PTL DEF QueueSpec

-----------------------------------------------------------------------------
(* What the steps do to their thread, for the modules whose threads use    *)
(* the queue.                                                              *)

LEMMA ItemsOfOthers ==
  ASSUME QInv, NEW t \in Threads, QueueStep(t) \/ \E x \in Items : CallPush(t, x)
  PROVE  \A u \in Threads \ {t} : item'[u] = item[u]
  BY DEF QInv, QueueTypeOK, QueueStep, CallPush, CallPop, CallClear, CallClearUp, PushStep,
         PushEnqueue, PushRefused, PushCheck, PushWait, PopStep, PopTake, PopNothing, PopCheck,
         PopWait, ClearUpStep, Clear, Invalidate, NotifyNotEmpty, NotifyNotFull, NotifyAll,
         SpuriousWake, StoreValid

LEMMA CallGoes ==
  ASSUME QInv, NEW t \in Threads
  PROVE  /\ CallPop(t) => at'[t] = "pop" /\ item'[t] = NULL
         /\ CallClearUp(t) => at'[t] = "clearUp"
         /\ \A x \in Items : CallPush(t, x) => at'[t] = "push" /\ item'[t] = x
         /\ SpuriousWake(t) => \/ at[t] = "pushParked" /\ at'[t] = "push"
                               \/ at[t] = "popParked" /\ at'[t] = "pop"
<1> USE DEF Places
<1>1. CallPop(t) => at'[t] = "pop" /\ item'[t] = NULL
  BY WentThere DEF CallPop, QInv, QueueTypeOK
<1>2. CallClearUp(t) => at'[t] = "clearUp"
  BY WentThere DEF CallClearUp
<1>3. \A x \in Items : CallPush(t, x) => at'[t] = "push" /\ item'[t] = x
  BY WentThere DEF CallPush, QInv, QueueTypeOK
<1>4. SpuriousWake(t) => \/ at[t] = "pushParked" /\ at'[t] = "push"
                         \/ at[t] = "popParked" /\ at'[t] = "pop"
  BY WentThere DEF SpuriousWake
<1> QED
  BY <1>1, <1>2, <1>3, <1>4

LEMMA PushGoes ==
  ASSUME QInv, NEW t \in Threads, PushStep(t)
  PROVE  /\ at[t] \in {"push", "pushWait"} /\ at'[t] \in {"out", "pushWait", "pushParked"}
         /\ \/ PushEnqueue(t) /\ at'[t] = "out" /\ item' = [item EXCEPT ![t] = NULL]
            \/ item' = item /\ queue_' = queue_ /\ (valid_ => at'[t] # "out")
         /\ UNCHANGED <<freed, valid_, storing>>
<1> USE DEF Places
<1>1. CASE PushEnqueue(t)
  <2>1. PICK woken \in WokenByPush : Move(t, "out", woken)
    BY <1>1 DEF PushEnqueue
  <2>2. t \notin woken
    BY <1>1, WokenByNotify DEF PushEnqueue, Waiting
  <2>3. at'[t] = "out"
    BY <2>1, <2>2, Moved DEF QInv, QueueTypeOK
  <2> QED
    BY <1>1, <2>3 DEF PushEnqueue
<1>2. CASE PushRefused(t) \/ PushCheck(t) \/ PushWait(t)
  BY <1>2, WentThere DEF PushRefused, PushCheck, PushWait
<1> QED
  BY <1>1, <1>2 DEF PushStep

LEMMA PopGoes ==
  ASSUME QInv, NEW t \in Threads, PopStep(t)
  PROVE  /\ at[t] \in {"pop", "popWait"} /\ at'[t] \in {"out", "popWait", "popParked"}
         /\ \/ PopTake(t) /\ at'[t] = "out" /\ item' = [item EXCEPT ![t] = Head(queue_)]
            \/ item' = item /\ queue_' = queue_
         /\ UNCHANGED <<freed, valid_, storing>>
<1> USE DEF Places
<1>1. CASE PopTake(t)
  <2>1. PICK woken \in WokenByPop : Move(t, "out", woken)
    BY <1>1 DEF PopTake
  <2>2. t \notin woken
    BY <1>1, WokenByNotify DEF PopTake, Waiting
  <2>3. at'[t] = "out"
    BY <2>1, <2>2, Moved DEF QInv, QueueTypeOK
  <2> QED
    BY <1>1, <2>3 DEF PopTake
<1>2. CASE PopNothing(t) \/ PopCheck(t) \/ PopWait(t)
  BY <1>2, WentThere DEF PopNothing, PopCheck, PopWait
<1> QED
  BY <1>1, <1>2 DEF PopStep

LEMMA ClearUpGoes ==
  ASSUME QInv, NEW t \in Threads, ClearUpStep(t), at[t] # "clear"
  PROVE  /\ item' = item /\ storing' \subseteq storing \cup {t}
         /\ \/ /\ at[t] = "clearUp" /\ at'[t] = "invalidate"
               /\ queue_' = << >> /\ freed' = freed \cup Queued /\ storing' = storing
            \/ /\ at[t] = "invalidate" /\ at'[t] = "notifyEmpty"
               /\ UNCHANGED <<queue_, freed>>
            \/ /\ at[t] = "notifyEmpty" /\ at'[t] = "notifyFull"
               /\ UNCHANGED <<queue_, freed>>
            \/ /\ at[t] = "notifyFull" /\ at'[t] = "out"
               /\ UNCHANGED <<queue_, freed>>
<1> USE DEF Places
<1>1. CASE Clear(t) \/ Invalidate(t)
  BY <1>1, WentThere DEF Clear, Invalidate
<1>2. CASE NotifyNotEmpty(t)
  <2>1. t \notin Waiting("popParked") /\ Move(t, "notifyFull", Waiting("popParked"))
    BY <1>2 DEF NotifyNotEmpty, NotifyAll, Waiting
  <2> QED
    BY <1>2, <2>1, Moved DEF NotifyNotEmpty, NotifyAll, QInv, QueueTypeOK
<1>3. CASE NotifyNotFull(t)
  <2>1. t \notin Waiting("pushParked") /\ Move(t, "out", Waiting("pushParked"))
    BY <1>3 DEF NotifyNotFull, NotifyAll, Waiting
  <2> QED
    BY <1>3, <2>1, Moved DEF NotifyNotFull, NotifyAll, QInv, QueueTypeOK
<1> QED
  BY <1>1, <1>2, <1>3 DEF ClearUpStep
=============================================================================
