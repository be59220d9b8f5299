----------------------------- MODULE TaskQueue -----------------------------
(***************************************************************************)
(* The blocking queue of threadpool/task_queue.h, which the executor and   *)
(* the log share.                                                          *)
(*                                                                         *)
(* What a thread does while it holds mtx_ is one step, with two            *)
(* exceptions.  ClearUp writes valid_ and notifies without the mutex, so a *)
(* thread that has read valid_ in Push or Pop and is about to wait still   *)
(* holds the mutex in a state of its own, which other threads can see      *)
(* pass.  And valid_ is a plain bool: the write of ClearUp stays in the    *)
(* store buffer of its thread until that thread runs a locked instruction, *)
(* which a notify_all without waiters does not.                            *)
(***************************************************************************)
EXTENDS Naturals, Sequences, FiniteSets

CONSTANTS
  Threads,   \* threads that call the queue
  Items,     \* the T objects whose addresses are pushed, none of them NULL
  Clearers,  \* threads that also call Clear by itself, as nobody here does
  kMaxSize_,
  NULL       \* no address, and no thread

ASSUME TaskQueueAssumption ==
  /\ kMaxSize_ \in Nat \ {0}
  /\ NULL \notin Threads \cup Items
  /\ IsFiniteSet(Threads)

VARIABLES
  queue_,
  mtx_,      \* the thread that holds the mutex, or NULL
  valid_,
  storing,   \* the threads whose valid_ = false is still in their store buffer
  at,        \* where each thread is in the call it makes
  item,      \* the address each thread passes to Push or got from Pop
  freed      \* the objects that were deleted

queueVars == <<queue_, mtx_, valid_, storing, at, item, freed>>

Places == {"out",                                     \* in no call
           "push", "pushWait", "pushParked",          \* in Push
           "pop", "popWait", "popParked",             \* in Pop
           "clear", "clearUp", "invalidate",          \* in Clear, ClearUp
           "notifyEmpty", "notifyFull"}

QueueInit ==
  /\ queue_ = << >>
  /\ mtx_ = NULL
  /\ valid_ = TRUE
  /\ storing = {}
  /\ at = [t \in Threads |-> "out"]
  /\ item = [t \in Threads |-> NULL]
  /\ freed = {}

Waiting(place) == {t \in Threads : at[t] = place}

(* `t' goes on at `next', and the threads of `woken' leave their condition *)
(* variable to compete for the mutex again.                                *)
Move(t, next, woken) ==
  at' = [u \in Threads |->
           CASE u = t -> next
             [] u \in woken /\ at[u] = "pushParked" -> "push"
             [] u \in woken /\ at[u] = "popParked" -> "pop"
             [] OTHER -> at[u]]

Goto(t, next) == Move(t, next, {})

(* notify_one: some waiter, if there is any. *)
One(waiters) == IF waiters = {} THEN {{}} ELSE {{t} : t \in waiters}

(* The mutex can be taken; taking it empties the store buffer of `t'.      *)
Free(t) == mtx_ = NULL /\ t \notin storing

-----------------------------------------------------------------------------
(* Push *)

CallPush(t, x) ==
  /\ at[t] = "out" /\ Goto(t, "push")
  /\ item' = [item EXCEPT ![t] = x]
  /\ UNCHANGED <<queue_, mtx_, valid_, storing, freed>>

(* Faulty variant of Full: one item too many. *)
FullPastMax == Len(queue_) > kMaxSize_
Full == Len(queue_) >= kMaxSize_

(* Faulty variants of WokenByPush: a wake-up only for the first item; the  *)
(* wrong condition variable.                                               *)
WokenByPushIfEmpty == IF queue_ = << >> THEN One(Waiting("popParked")) ELSE {{}}
WokenByPushPusher == One(Waiting("pushParked"))
WokenByPush == One(Waiting("popParked"))

PushEnqueue(t) ==
  /\ at[t] = "push" /\ Free(t) /\ ~Full
  /\ queue_' = Append(queue_, item[t])
  /\ item' = [item EXCEPT ![t] = NULL]
  /\ \E woken \in WokenByPush : Move(t, "out", woken)
  /\ UNCHANGED <<mtx_, valid_, storing, freed>>

(* The caller keeps the address. *)
PushRefused(t) ==
  /\ at[t] = "push" /\ Free(t) /\ Full /\ ~valid_
  /\ Goto(t, "out")
  /\ UNCHANGED <<queue_, mtx_, valid_, storing, item, freed>>

PushCheck(t) ==
  /\ at[t] = "push" /\ Free(t) /\ Full /\ valid_
  /\ mtx_' = t /\ Goto(t, "pushWait")
  /\ UNCHANGED <<queue_, valid_, storing, item, freed>>

PushWait(t) ==
  /\ at[t] = "pushWait"
  /\ mtx_' = NULL /\ Goto(t, "pushParked")
  /\ UNCHANGED <<queue_, valid_, storing, item, freed>>

-----------------------------------------------------------------------------
(* Pop *)

CallPop(t) ==
  /\ at[t] = "out" /\ Goto(t, "pop")
  /\ item' = [item EXCEPT ![t] = NULL]
  /\ UNCHANGED <<queue_, mtx_, valid_, storing, freed>>

(* Faulty variant of WokenByPop: nobody is. *)
WokenByPopNobody == {{}}
WokenByPop == One(Waiting("pushParked"))

(* Faulty variant of PopTake: the newest item. *)
PopTakeNewest(t) ==
  /\ at[t] = "pop" /\ Free(t) /\ queue_ # << >>
  /\ item' = [item EXCEPT ![t] = queue_[Len(queue_)]]
  /\ queue_' = SubSeq(queue_, 1, Len(queue_) - 1)
  /\ \E woken \in WokenByPop : Move(t, "out", woken)
  /\ UNCHANGED <<mtx_, valid_, storing, freed>>

PopTake(t) ==
  /\ at[t] = "pop" /\ Free(t) /\ queue_ # << >>
  /\ item' = [item EXCEPT ![t] = Head(queue_)]
  /\ queue_' = Tail(queue_)
  /\ \E woken \in WokenByPop : Move(t, "out", woken)
  /\ UNCHANGED <<mtx_, valid_, storing, freed>>

PopNothing(t) ==
  /\ at[t] = "pop" /\ Free(t) /\ queue_ = << >> /\ ~valid_
  /\ Goto(t, "out")
  /\ UNCHANGED <<queue_, mtx_, valid_, storing, item, freed>>

PopCheck(t) ==
  /\ at[t] = "pop" /\ Free(t) /\ queue_ = << >> /\ valid_
  /\ mtx_' = t /\ Goto(t, "popWait")
  /\ UNCHANGED <<queue_, valid_, storing, item, freed>>

PopWait(t) ==
  /\ at[t] = "popWait"
  /\ mtx_' = NULL /\ Goto(t, "popParked")
  /\ UNCHANGED <<queue_, valid_, storing, item, freed>>

(* A condition variable may wake a thread for no reason. *)
SpuriousWake(t) ==
  /\ \/ at[t] = "pushParked" /\ Goto(t, "push")
     \/ at[t] = "popParked" /\ Goto(t, "pop")
  /\ UNCHANGED <<queue_, mtx_, valid_, storing, item, freed>>

-----------------------------------------------------------------------------
(* Clear and ClearUp *)

CallClear(t) ==
  /\ at[t] = "out" /\ Goto(t, "clear")
  /\ UNCHANGED <<queue_, mtx_, valid_, storing, item, freed>>

CallClearUp(t) ==
  /\ at[t] = "out" /\ Goto(t, "clearUp")
  /\ UNCHANGED <<queue_, mtx_, valid_, storing, item, freed>>

Queued == {queue_[i] : i \in DOMAIN queue_}

(* Faulty variant of Clear: the objects are deleted, their addresses stay. *)
ClearKeepsQueue(t) ==
  /\ Free(t)
  /\ \/ at[t] = "clear" /\ Goto(t, "out")
     \/ at[t] = "clearUp" /\ Goto(t, "invalidate")
  /\ freed' = freed \cup Queued
  /\ UNCHANGED <<queue_, mtx_, valid_, storing, item>>

Clear(t) ==
  /\ Free(t)
  /\ \/ at[t] = "clear" /\ Goto(t, "out")
     \/ at[t] = "clearUp" /\ Goto(t, "invalidate")
  /\ freed' = freed \cup Queued
  /\ queue_' = << >>
  /\ UNCHANGED <<mtx_, valid_, storing, item>>

Invalidate(t) ==
  /\ at[t] = "invalidate" /\ Goto(t, "notifyEmpty")
  /\ storing' = storing \cup {t}
  /\ UNCHANGED <<queue_, mtx_, valid_, item, freed>>

StoreValid(t) ==
  /\ t \in storing
  /\ valid_' = FALSE
  /\ storing' = storing \ {t}
  /\ UNCHANGED <<queue_, mtx_, at, item, freed>>

(* Faulty variant of NotifyAll: notify_one. *)
NotifyAllOne(t, waiters, next) ==
  /\ waiters # {} => t \notin storing
  /\ \E woken \in One(waiters) : Move(t, next, woken)
  /\ UNCHANGED <<queue_, mtx_, valid_, storing, item, freed>>

(* A notify_all that has someone to wake runs locked instructions, which   *)
(* empty the store buffer.                                                 *)
NotifyAll(t, waiters, next) ==
  /\ waiters # {} => t \notin storing
  /\ Move(t, next, waiters)
  /\ UNCHANGED <<queue_, mtx_, valid_, storing, item, freed>>

NotifyNotEmpty(t) ==
  at[t] = "notifyEmpty" /\ NotifyAll(t, Waiting("popParked"), "notifyFull")

NotifyNotFull(t) ==
  at[t] = "notifyFull" /\ NotifyAll(t, Waiting("pushParked"), "out")

-----------------------------------------------------------------------------
(* What a thread inside a call does next; a parked thread does nothing. *)
PushStep(t) == PushEnqueue(t) \/ PushRefused(t) \/ PushCheck(t) \/ PushWait(t)
PopStep(t) == PopTake(t) \/ PopNothing(t) \/ PopCheck(t) \/ PopWait(t)
ClearUpStep(t) == Clear(t) \/ Invalidate(t) \/ NotifyNotEmpty(t) \/ NotifyNotFull(t)

(* Threads that use the queue by themselves: any thread may make any call, *)
(* and pushes an object that nobody holds.                                 *)
Owned == freed \cup Queued \cup {item[t] : t \in Threads}

QueueNext ==
  \/ \E t \in Threads :
       \/ \E x \in Items \ Owned : CallPush(t, x)
       \/ CallPop(t) \/ CallClearUp(t)
       \/ t \in Clearers /\ CallClear(t)
       \/ PushStep(t) \/ PopStep(t) \/ ClearUpStep(t)
       \/ SpuriousWake(t) \/ StoreValid(t)

QueueSpec == QueueInit /\ [][QueueNext]_queueVars

-----------------------------------------------------------------------------
(* Properties *)

(* Every variable has its type, the queue is within kMaxSize_, and the     *)
(* mutex is held by the one thread that is about to wait.                  *)
QueueTypeOK ==
  /\ queue_ \in Seq(Items) /\ Len(queue_) <= kMaxSize_
  /\ mtx_ \in Threads \cup {NULL}
  /\ \A t \in Threads : mtx_ = t <=> at[t] \in {"pushWait", "popWait"}
  /\ valid_ \in BOOLEAN /\ storing \subseteq Threads
  /\ at \in [Threads -> Places]
  /\ item \in [Threads -> Items \cup {NULL}]
  /\ freed \subseteq Items

(* No wake-up is lost between Push and Pop: while a thread sleeps in Pop,  *)
(* as many threads are on their way to the queue as there are items in it. *)
PoppersServed ==
  Waiting("popParked") # {} => Len(queue_) <= Cardinality(Waiting("pop"))

(* The same of the threads that sleep in Push and the free places, save    *)
(* that ClearUp frees all places before it notifies.                       *)
PushersServed ==
  Waiting("pushParked") # {} =>
    \/ kMaxSize_ - Len(queue_) <= Cardinality(Waiting("push"))
    \/ \E t \in Threads : at[t] \in {"invalidate", "notifyEmpty", "notifyFull"}

(* An object has one owner: it was deleted, or it is in one place of the   *)
(* queue, or one thread holds its address.  So nothing is deleted twice,   *)
(* or used after it was deleted.                                           *)
OneOwner ==
  \A x \in Items :
    LET holders == {t \in Threads : item[t] = x}
        places == {i \in DOMAIN queue_ : queue_[i] = x}
    IN  Cardinality(holders) + Cardinality(places) <= (IF x \in freed THEN 0 ELSE 1)
=============================================================================
