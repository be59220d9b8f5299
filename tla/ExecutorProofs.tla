--------------------------- MODULE ExecutorProofs ---------------------------
(***************************************************************************)
(* Proofs about Executor, for any number of workers, posters and tasks.    *)
(* What the steps of the queue do is taken from TaskQueueProofs.           *)
(***************************************************************************)
EXTENDS Executor, TLAPS, FiniteSetTheorems, SequenceTheorems

QP == INSTANCE TaskQueueProofs WITH Items <- Tasks, Clearers <- {}

(* What TaskQueue assumes of its constants. *)
LEMMA QueueAssumption == QP!TaskQueueAssumption
<1>1. IsFiniteSet(Threads)
  BY ExecutorAssumption, FS_Singleton, FS_Union DEF Threads
<1> QED
  BY <1>1, ExecutorAssumption DEF QP!TaskQueueAssumption, QP!IsFiniteSet, IsFiniteSet

(* The queue of Executor is the one TaskQueueProofs is about. *)
LEMMA SameWakes ==
  ASSUME NEW t, NEW next, NEW woken
  PROVE  Queue!Move(t, next, woken) <=> QP!Move(t, next, woken)
  BY Zenon DEF Queue!Move, QP!Move

LEMMA SameHelpers ==
  /\ \A t, next : Queue!Goto(t, next) <=> QP!Goto(t, next)
  /\ \A place : Queue!Waiting(place) = QP!Waiting(place)
  /\ \A t : Queue!Free(t) <=> QP!Free(t)
  /\ Queue!Full <=> QP!Full
  /\ Queue!WokenByPush = QP!WokenByPush
  /\ Queue!WokenByPop = QP!WokenByPop
  /\ Queue!Queued = QP!Queued
  BY SameWakes
     DEF Queue!Goto, QP!Goto, Queue!Waiting, QP!Waiting, Queue!Free, QP!Free, Queue!Full, QP!Full,
         Queue!One, QP!One, Queue!WokenByPush, QP!WokenByPush, Queue!WokenByPop, QP!WokenByPop,
         Queue!Queued, QP!Queued

LEMMA SameSteps ==
  ASSUME NEW t
  PROVE  /\ Queue!PushStep(t) <=> QP!PushStep(t)
         /\ Queue!PopStep(t) <=> QP!PopStep(t)
         /\ Queue!ClearUpStep(t) <=> QP!ClearUpStep(t)
         /\ Queue!CallPop(t) <=> QP!CallPop(t)
         /\ Queue!CallClearUp(t) <=> QP!CallClearUp(t)
         /\ \A x : Queue!CallPush(t, x) <=> QP!CallPush(t, x)
         /\ Queue!SpuriousWake(t) <=> QP!SpuriousWake(t)
         /\ Queue!StoreValid(t) <=> QP!StoreValid(t)
<1>1. Queue!PushStep(t) <=> QP!PushStep(t)
  BY SameHelpers, SameWakes
     DEF Queue!PushStep, Queue!PushEnqueue, Queue!PushRefused, Queue!PushCheck, Queue!PushWait,
         QP!PushStep, QP!PushEnqueue, QP!PushRefused, QP!PushCheck, QP!PushWait
<1>2. Queue!PopStep(t) <=> QP!PopStep(t)
  BY SameHelpers, SameWakes
     DEF Queue!PopStep, Queue!PopTake, Queue!PopNothing, Queue!PopCheck, Queue!PopWait,
         QP!PopStep, QP!PopTake, QP!PopNothing, QP!PopCheck, QP!PopWait
<1>3. Queue!ClearUpStep(t) <=> QP!ClearUpStep(t)
  BY SameHelpers, SameWakes
     DEF Queue!ClearUpStep, Queue!Clear, Queue!Invalidate, Queue!NotifyNotEmpty,
         Queue!NotifyNotFull, Queue!NotifyAll,
         QP!ClearUpStep, QP!Clear, QP!Invalidate, QP!NotifyNotEmpty, QP!NotifyNotFull,
         QP!NotifyAll
<1>4. /\ Queue!CallPop(t) <=> QP!CallPop(t)
      /\ Queue!CallClearUp(t) <=> QP!CallClearUp(t)
      /\ \A x : Queue!CallPush(t, x) <=> QP!CallPush(t, x)
      /\ Queue!SpuriousWake(t) <=> QP!SpuriousWake(t)
  BY SameHelpers
     DEF Queue!CallPop, Queue!CallClearUp, Queue!CallPush, Queue!SpuriousWake,
         QP!CallPop, QP!CallClearUp, QP!CallPush, QP!SpuriousWake
<1>5. Queue!StoreValid(t) <=> QP!StoreValid(t)
  BY DEF Queue!StoreValid, QP!StoreValid
<1> QED
  BY <1>1, <1>2, <1>3, <1>4, <1>5

LEMMA SameServed == Queue!PushersServed <=> QP!PushersServed
  BY SameHelpers DEF Queue!PushersServed, QP!PushersServed, Queue!Cardinality, QP!Cardinality

LEMMA SameTypes == Queue!QueueTypeOK <=> QP!QueueTypeOK
  BY DEF Queue!QueueTypeOK, QP!QueueTypeOK, Queue!Places, QP!Places

-----------------------------------------------------------------------------
(* Where each thread is in the queue and what it holds, by where it is in  *)
(* the functions of Executor.                                              *)
WorkerPlaced(w) ==
  /\ pc[w] \in {"new", "test", "popping", "callback", "delete", "ended"}
  /\ pc[w] = "popping" => at[w] \in {"pop", "popWait", "popParked"}
  /\ pc[w] # "popping" => at[w] = "out"
  /\ item[w] # NULL <=> pc[w] \in {"callback", "delete"}
  /\ pc[w] = "callback" => item[w] \notin ran
  /\ pc[w] = "delete" => item[w] \in ran

CallerPlaced(p) ==
  /\ pc[p] \in {"new", "spawn", "idle", "posting", "clearing", "stopping", "joining", "stopped"}
  /\ p # Main => pc[p] \in {"idle", "posting"}
  /\ pc[p] = "posting" => p \in Posters /\ at[p] \in {"push", "pushWait", "pushParked"}
  /\ pc[p] = "clearing" => at[p] \in {"clearUp", "invalidate", "notifyEmpty", "notifyFull"}
  /\ pc[p] \notin {"posting", "clearing"} => at[p] = "out"

Placed(t) == IF t \in Workers THEN WorkerPlaced(t) ELSE CallerPlaced(t)

Functions == {"new", "test", "popping", "callback", "delete", "ended", "idle", "posting",
              "spawn", "clearing", "stopping", "joining", "stopped"}

(* Only posted tasks are anywhere, and a task whose callback has returned  *)
(* is deleted or about to be.                                              *)
Known ==
  /\ running_ \in BOOLEAN /\ late \subseteq Workers
  /\ posted \subseteq Tasks /\ freed \subseteq posted /\ QP!Queued \subseteq posted
  /\ \A t \in Threads : item[t] # NULL => item[t] \in posted
  /\ inTime \subseteq posted /\ ran \subseteq posted
  /\ \A x \in ran : x \in freed \/ \E w \in Workers : pc[w] = "delete" /\ item[w] = x

EInv ==
  /\ QP!QInv /\ QP!Owners
  /\ pc \in [Threads -> Functions] /\ \A t \in Threads : Placed(t)
  /\ Known

LEMMA InitEInv == Init => EInv
<1> SUFFICES ASSUME Init PROVE EInv
  OBVIOUS
<1>1. QP!QueueInit
  BY DEF Init, Queue!QueueInit, QP!QueueInit
<1>2. QP!QInv
  BY <1>1, QP!InitQInv, QueueAssumption
<1>3. QP!Owners /\ QP!Queued = {}
  BY <1>1 DEF QP!QueueInit, QP!Owners, QP!Queued
<1>4. pc \in [Threads -> Functions]
  BY DEF Init, Functions
<1>5. \A t \in Threads : Placed(t)
  BY <1>1, ExecutorAssumption
     DEF Init, QP!QueueInit, Placed, WorkerPlaced, CallerPlaced, Threads
<1>6. Known
  BY <1>1, <1>3 DEF Init, Known, QP!QueueInit
<1> QED
  BY <1>2, <1>3, <1>4, <1>5, <1>6 DEF EInv

-----------------------------------------------------------------------------
(* The steps that leave the queue and its threads alone. *)
LEMMA OutsideQueueKeepsQueue ==
  ASSUME EInv, UNCHANGED queueVars
  PROVE  QP!QInv' /\ QP!Owners' /\ QP!Queued' = QP!Queued
<1>1. QP!QInv'
  BY QP!IdleKeepsTypes, QueueAssumption DEF EInv, queueVars, QP!queueVars
<1>2. QP!Owners' /\ QP!Queued' = QP!Queued
  BY DEF EInv, queueVars, QP!Owners, QP!Queued
<1> QED
  BY <1>1, <1>2

LEMMA MainStepKeepsInvariant ==
  ASSUME EInv, Execute \/ StopRunning \/ Join
  PROVE  EInv'
<1>1. /\ UNCHANGED <<queueVars, posted, history>> /\ running_' \in BOOLEAN
      /\ \E place \in {"spawn", "joining", "stopped"} : pc' = [pc EXCEPT ![Main] = place]
      /\ pc[Main] \in {"new", "stopping", "joining"}
  BY DEF Execute, StopRunning, Join, Goto, EInv, Known
<1>2. Main \in Threads /\ Main \notin Workers
  BY ExecutorAssumption DEF Threads
<1>3. pc' \in [Threads -> Functions] /\ \A t \in Threads \ {Main} : pc'[t] = pc[t]
  BY <1>1, <1>2 DEF EInv, Functions
<1>4. \A t \in Threads : Placed(t)'
  BY <1>1, <1>2, <1>3
     DEF EInv, Placed, WorkerPlaced, CallerPlaced, queueVars, history
<1>5. Known'
  BY <1>1, <1>2, <1>3, OutsideQueueKeepsQueue DEF EInv, Known, queueVars, history
<1> QED
  BY <1>1, <1>3, <1>4, <1>5, OutsideQueueKeepsQueue DEF EInv

LEMMA SpawnKeepsInvariant ==
  ASSUME EInv, NEW w \in Workers, Spawn(w)
  PROVE  EInv'
<1>1. w \in Threads /\ Main \in Threads /\ Main \notin Workers
  BY ExecutorAssumption DEF Threads
<1>2. /\ pc' \in [Threads -> Functions] /\ \A t \in Threads \ {w, Main} : pc'[t] = pc[t]
      /\ pc'[w] = "test" /\ pc'[Main] \in {"spawn", "idle"} /\ pc[w] = "new"
      /\ pc[Main] = "spawn"
  BY <1>1 DEF Spawn, EInv, Functions
<1>3. \A t \in Threads : Placed(t)'
  BY <1>1, <1>2
     DEF EInv, Placed, WorkerPlaced, CallerPlaced, queueVars, history, Spawn
<1>4. Known'
  <2>1. \A u \in Workers : pc[u] = "delete" => pc'[u] = "delete"
    BY <1>1, <1>2 DEF Threads
  <2>2. Known /\ QP!Queued' = QP!Queued
    BY OutsideQueueKeepsQueue DEF EInv, Spawn
  <2>3. UNCHANGED <<queueVars, running_, posted, history>>
    BY DEF Spawn
  <2> QED
    BY <2>1, <2>2, <2>3 DEF Known, queueVars, history
<1> QED
  BY <1>2, <1>3, <1>4, OutsideQueueKeepsQueue DEF EInv, Spawn

LEMMA RunCallbackKeepsInvariant ==
  ASSUME EInv, NEW w \in Workers, RunCallback(w)
  PROVE  EInv'
<1>1. w \in Threads /\ pc' = [pc EXCEPT ![w] = "delete"] /\ pc[w] = "callback"
  BY DEF Threads, RunCallback, Goto
<1>2. pc' \in [Threads -> Functions] /\ \A t \in Threads \ {w} : pc'[t] = pc[t]
  BY <1>1 DEF EInv, Functions
<1>3. \A u \in Workers \ {w} : pc[u] = "callback" => item[u] # item[w]
  BY <1>1, ExecutorAssumption DEF EInv, QP!Owners, Threads, Placed, WorkerPlaced
<1>4. \A t \in Threads : Placed(t)'
  BY <1>1, <1>2, <1>3
     DEF EInv, Placed, WorkerPlaced, CallerPlaced, queueVars, RunCallback
<1>5. Known'
  <2>1. item[w] \in posted
    BY <1>1 DEF EInv, Known, Placed, WorkerPlaced
  <2> QED
    BY <1>1, <1>2, <2>1, OutsideQueueKeepsQueue DEF EInv, Known, queueVars, RunCallback
<1> QED
  BY <1>2, <1>4, <1>5, OutsideQueueKeepsQueue DEF EInv, RunCallback

LEMMA DeleteTaskKeepsInvariant ==
  ASSUME EInv, NEW w \in Workers, DeleteTask(w)
  PROVE  EInv'
<1>1. /\ w \in Threads /\ pc' = [pc EXCEPT ![w] = "test"] /\ pc[w] = "delete"
      /\ item' = [item EXCEPT ![w] = NULL] /\ freed' = freed \cup {item[w]}
      /\ UNCHANGED <<queue_, mtx_, valid_, storing, at, running_, posted, ran, inTime, late>>
  BY DEF Threads, DeleteTask, Goto, history
<1>2. pc' \in [Threads -> Functions] /\ \A t \in Threads \ {w} : pc'[t] = pc[t]
  BY <1>1 DEF EInv, Functions
<1>3. item[w] \in posted /\ item[w] # NULL /\ at[w] = "out"
  BY <1>1 DEF EInv, Known, Placed, WorkerPlaced
<1>4. item'[w] = NULL /\ \A t \in Threads \ {w} : item'[t] = item[t]
  BY <1>1 DEF EInv, QP!QInv, QP!QueueTypeOK
<1>5. QP!QInv'
  BY <1>1, <1>3, <1>4, QueueAssumption DEF EInv, Known, QP!QInv, QP!QueueTypeOK, QP!Waits
<1>6. QP!Owners'
  BY <1>1, <1>3, <1>4, ExecutorAssumption DEF EInv, Known, QP!Owners, QP!QInv, QP!QueueTypeOK
<1>7. \A t \in Threads : Placed(t)'
  BY <1>1, <1>2, <1>4
     DEF EInv, Placed, WorkerPlaced, CallerPlaced
<1>8. Known'
  BY <1>1, <1>2, <1>3, <1>4 DEF EInv, Known, QP!Queued
<1> QED
  BY <1>2, <1>5, <1>6, <1>7, <1>8 DEF EInv

-----------------------------------------------------------------------------
(* The steps inside the queue. *)

(* The threads that do not take the step stay where they are. *)
LEMMA OthersStayPlaced ==
  ASSUME EInv, NEW t \in Threads, ran' = ran,
         QP!QueueStep(t) \/ \E x \in Tasks : QP!CallPush(t, x),
         \A u \in Threads \ {t} : pc'[u] = pc[u]
  PROVE  \A u \in Threads \ {t} : Placed(u)'
<1>1. QP!QInv
  BY DEF EInv
<1>2. \A u \in Threads \ {t} :
        /\ item'[u] = item[u]
        /\ \/ at'[u] = at[u]
           \/ at[u] = "pushParked" /\ at'[u] = "push"
           \/ at[u] = "popParked" /\ at'[u] = "pop"
  BY <1>1, QP!ItemsOfOthers, QP!OthersMove, QueueAssumption
<1> QED
  BY <1>2 DEF EInv, Placed, WorkerPlaced, CallerPlaced

(* A step of the queue keeps its invariants; what it takes from the queue  *)
(* or puts there was posted.                                               *)
LEMMA QueueStepKeepsQueue ==
  ASSUME EInv, NEW t \in Threads, QP!QueueStep(t)
  PROVE  QP!QInv' /\ QP!Owners'
  BY QP!StepKeepsTypes, QP!StepKeepsOwners, QueueAssumption DEF EInv

LEMMA StopKeepsInvariant ==
  ASSUME EInv, Stop
  PROVE  EInv'
<1>1. /\ Main \in Threads /\ Main \notin Workers /\ QP!CallClearUp(Main) /\ QP!QueueStep(Main)
      /\ pc' = [pc EXCEPT ![Main] = "clearing"]
  BY SameSteps, ExecutorAssumption DEF Stop, Threads, Goto, QP!QueueStep
<1>2. /\ at'[Main] = "clearUp"
      /\ UNCHANGED <<queue_, item, freed, running_, posted, ran, late>>
      /\ inTime' \subseteq posted
  BY <1>1, QP!CallGoes, QueueAssumption DEF EInv, QP!CallClearUp, Stop
<1>3. pc' \in [Threads -> Functions] /\ \A t \in Threads \ {Main} : pc'[t] = pc[t]
  BY <1>1 DEF EInv, Functions
<1>4. Placed(Main)'
  BY <1>1, <1>2 DEF EInv, Placed, CallerPlaced
<1>5. \A t \in Threads : Placed(t)'
  BY <1>1, <1>2, <1>3, <1>4, OthersStayPlaced
<1>6. Known'
  BY <1>1, <1>2, <1>3 DEF EInv, Known, QP!Queued, Threads
<1> QED
  BY <1>1, <1>3, <1>5, <1>6, QueueStepKeepsQueue DEF EInv

LEMMA ClearUpKeepsInvariant ==
  ASSUME EInv, ClearUp
  PROVE  EInv'
<1>1. /\ Main \in Threads /\ Main \notin Workers /\ pc[Main] = "clearing"
      /\ QP!ClearUpStep(Main) /\ QP!QueueStep(Main)
      /\ pc' = [pc EXCEPT ![Main] = IF at'[Main] = "out" THEN "stopping" ELSE "clearing"]
      /\ UNCHANGED <<running_, posted, history>>
  BY SameSteps, ExecutorAssumption DEF ClearUp, Threads, Goto, QP!QueueStep
<1>2. at[Main] \in {"clearUp", "invalidate", "notifyEmpty", "notifyFull"}
  BY <1>1 DEF EInv, Placed, CallerPlaced
<1>3. /\ at'[Main] \in {"invalidate", "notifyEmpty", "notifyFull", "out"} /\ item' = item
      /\ \/ queue_' = << >> /\ freed' = freed \cup QP!Queued
         \/ UNCHANGED <<queue_, freed>>
  BY <1>1, <1>2, QP!ClearUpGoes, QueueAssumption DEF EInv
<1>4. /\ pc' \in [Threads -> Functions] /\ \A t \in Threads \ {Main} : pc'[t] = pc[t]
      /\ pc'[Main] = IF at'[Main] = "out" THEN "stopping" ELSE "clearing"
  BY <1>1 DEF EInv, Functions
<1>5. Placed(Main)'
  BY <1>1, <1>3, <1>4 DEF EInv, Placed, CallerPlaced
<1>6. \A t \in Threads : Placed(t)'
  BY <1>1, <1>4, <1>5, OthersStayPlaced DEF history
<1>7. QP!Queued' \in {QP!Queued, {}} /\ freed' \subseteq posted /\ freed \subseteq freed'
  BY <1>3 DEF QP!Queued, EInv, Known
<1>8. Known'
  BY <1>1, <1>3, <1>4, <1>7 DEF EInv, Known, Threads, history
<1> QED
  BY <1>1, <1>4, <1>6, <1>8, QueueStepKeepsQueue DEF EInv

LEMMA DrainKeepsInvariant ==
  ASSUME EInv, Drain
  PROVE  EInv'
<1>1. /\ Main \in Threads /\ QP!StoreValid(Main) /\ QP!QueueStep(Main)
      /\ UNCHANGED <<running_, pc, posted, history>>
      /\ UNCHANGED <<queue_, at, item, freed>>
  BY SameSteps DEF Drain, Threads, QP!QueueStep, QP!StoreValid
<1>2. \A t \in Threads : Placed(t)'
  BY <1>1 DEF EInv, Placed, WorkerPlaced, CallerPlaced, history
<1>3. Known'
  BY <1>1 DEF EInv, Known, QP!Queued, history
<1> QED
  BY <1>1, <1>2, <1>3, QueueStepKeepsQueue DEF EInv

LEMMA WakeKeepsInvariant ==
  ASSUME EInv, Wake
  PROVE  EInv'
<1>1. PICK t \in Threads : QP!SpuriousWake(t) /\ QP!QueueStep(t)
  BY SameSteps DEF Wake, QP!QueueStep
<1>2. UNCHANGED <<queue_, item, freed, running_, pc, posted, history>>
  BY <1>1 DEF Wake, QP!SpuriousWake
<1>3. \/ at[t] = "pushParked" /\ at'[t] = "push"
      \/ at[t] = "popParked" /\ at'[t] = "pop"
  BY <1>1, QP!CallGoes, QueueAssumption DEF EInv
<1>4. Placed(t)'
  BY <1>2, <1>3 DEF EInv, Placed, WorkerPlaced, CallerPlaced, history
<1>5. \A u \in Threads : Placed(u)'
  BY <1>1, <1>2, <1>4, OthersStayPlaced DEF history
<1>6. Known'
  BY <1>2 DEF EInv, Known, QP!Queued, history
<1> QED
  BY <1>1, <1>2, <1>5, <1>6, QueueStepKeepsQueue DEF EInv

LEMMA TestRunningKeepsInvariant ==
  ASSUME EInv, NEW w \in Workers, TestRunning(w)
  PROVE  EInv'
<1>1. w \in Threads /\ pc[w] = "test" /\ UNCHANGED <<running_, posted, history>>
  BY DEF Threads, TestRunning
<1>2. CASE Goto(w, "popping") /\ Queue!CallPop(w)
  <2>1. QP!CallPop(w) /\ QP!QueueStep(w)
    BY <1>2, SameSteps DEF QP!QueueStep
  <2>2. at'[w] = "pop" /\ item'[w] = NULL
    BY <1>1, <2>1, QP!CallGoes, QueueAssumption DEF EInv
  <2>3. /\ pc' \in [Threads -> Functions] /\ pc'[w] = "popping"
        /\ \A t \in Threads \ {w} : pc'[t] = pc[t]
    BY <1>1, <1>2 DEF Goto, EInv, Functions
  <2>4. Placed(w)'
    BY <1>1, <2>2, <2>3 DEF Placed, WorkerPlaced
  <2>5. \A t \in Threads : Placed(t)'
    BY <1>1, <2>1, <2>3, <2>4, OthersStayPlaced DEF history
  <2>6. \A t \in Threads : item'[t] = item[t] \/ item'[t] = NULL
    BY <1>1, <2>1, <2>2, QP!ItemsOfOthers, QueueAssumption DEF EInv
  <2>7. \A u \in Workers : pc[u] = "delete" => pc'[u] = "delete" /\ item'[u] = item[u]
    BY <1>1, <2>1, <2>3, QP!ItemsOfOthers, QueueAssumption DEF EInv, Threads
  <2>8. Known'
    BY <1>1, <2>1, <2>6, <2>7 DEF EInv, Known, QP!CallPop, QP!Queued, history
  <2> QED
    BY <1>1, <2>1, <2>3, <2>5, <2>8, QueueStepKeepsQueue DEF EInv
<1>3. CASE Goto(w, "ended") /\ UNCHANGED queueVars
  <2>1. /\ pc' \in [Threads -> Functions] /\ pc'[w] = "ended"
        /\ \A t \in Threads \ {w} : pc'[t] = pc[t]
    BY <1>1, <1>3 DEF Goto, EInv, Functions
  <2>2. \A t \in Threads : Placed(t)'
    BY <1>1, <1>3, <2>1 DEF EInv, Placed, WorkerPlaced, CallerPlaced, queueVars, history
  <2>3. \A u \in Workers : pc[u] = "delete" => pc'[u] = "delete"
    BY <1>1, <2>1 DEF Threads
  <2>4. Known /\ QP!Queued' = QP!Queued
    BY <1>3, OutsideQueueKeepsQueue DEF EInv
  <2>5. Known'
    BY <1>1, <1>3, <2>3, <2>4 DEF Known, queueVars, history
  <2> QED
    BY <1>3, <2>1, <2>2, <2>5, OutsideQueueKeepsQueue DEF EInv
<1> QED
  BY <1>2, <1>3 DEF TestRunning

(* What Pop has taken is the oldest item, and the others stay queued. *)
LEMMA TakenWasQueued ==
  ASSUME QP!QInv, NEW t \in Threads, QP!PopTake(t)
  PROVE  /\ Head(queue_) \in Tasks /\ Head(queue_) # NULL
         /\ QP!Queued = {Head(queue_)} \cup QP!Queued'
<1>1. queue_ \in Seq(Tasks) /\ queue_ # << >> /\ queue_' = Tail(queue_)
  BY DEF QP!QInv, QP!QueueTypeOK, QP!PopTake
<1> DEFINE n == Len(queue_)
<1>2. /\ n \in Nat \ {0} /\ DOMAIN queue_ = 1 .. n
      /\ DOMAIN queue_' = 1 .. n - 1 /\ Head(queue_) = queue_[1] /\ queue_[1] \in Tasks
  BY <1>1, HeadTailProperties, LenProperties, EmptySeq
<1>3. \A i \in DOMAIN queue_' : queue_'[i] = queue_[i + 1]
  BY <1>1, HeadTailProperties, LenProperties
<1> HIDE DEF n
<1>4. \A i \in DOMAIN queue_ : i = 1 \/ (i - 1 \in DOMAIN queue_' /\ (i - 1) + 1 = i)
  BY <1>2
<1>5. 1 \in DOMAIN queue_ /\ \A i \in DOMAIN queue_' : i + 1 \in DOMAIN queue_
  BY <1>2
<1>6. QP!Queued \subseteq {Head(queue_)} \cup QP!Queued'
  BY <1>2, <1>3, <1>4 DEF QP!Queued
<1>7. {Head(queue_)} \cup QP!Queued' \subseteq QP!Queued
  BY <1>2, <1>3, <1>5 DEF QP!Queued
<1> QED
  BY <1>2, <1>6, <1>7, ExecutorAssumption

(* A task that Pop takes has not run. *)
LEMMA QueuedDidNotRun ==
  ASSUME EInv
  PROVE  /\ QP!Queued \cap ran = {}
         /\ \A p \in Threads \ Workers : item[p] \notin ran \/ item[p] = NULL
<1>1. QP!Queued \cap freed = {} /\ \A t \in Threads : item[t] \notin QP!Queued
  BY DEF EInv, QP!Owners, QP!Queued
<1>2. \A p \in Threads \ Workers, w \in Workers : item[p] = item[w] => item[p] = NULL
  BY DEF EInv, QP!Owners, Threads
<1>3. \A p \in Threads : item[p] \notin freed
  BY DEF EInv, QP!Owners
<1> QED
  BY <1>1, <1>2, <1>3, ExecutorAssumption DEF EInv, Known, Threads

LEMMA PopTaskKeepsInvariant ==
  ASSUME EInv, NEW w \in Workers, PopTask(w)
  PROVE  EInv'
<1>1. /\ w \in Threads /\ pc[w] = "popping" /\ QP!PopStep(w) /\ QP!QueueStep(w)
      /\ pc' = [pc EXCEPT ![w] = IF at'[w] # "out" THEN "popping"
                                 ELSE IF item'[w] # NULL THEN "callback" ELSE "test"]
      /\ late' \subseteq late \cup {w}
      /\ UNCHANGED <<running_, posted, ran, inTime>>
  BY SameSteps DEF Threads, PopTask, Goto, QP!QueueStep
<1>2. item[w] = NULL
  BY <1>1 DEF EInv, Placed, WorkerPlaced
<1>3. /\ at'[w] \in {"out", "popWait", "popParked"}
      /\ \/ QP!PopTake(w) /\ at'[w] = "out" /\ item' = [item EXCEPT ![w] = Head(queue_)]
         \/ item' = item /\ queue_' = queue_
      /\ freed' = freed
  BY <1>1, QP!PopGoes, QueueAssumption DEF EInv
<1>4. /\ pc' \in [Threads -> Functions]
      /\ pc'[w] = IF at'[w] # "out" THEN "popping"
                  ELSE IF item'[w] # NULL THEN "callback" ELSE "test"
      /\ \A t \in Threads \ {w} : pc'[t] = pc[t]
  BY <1>1 DEF EInv, Functions
<1>5. /\ item'[w] \in QP!Queued \/ item'[w] = NULL
      /\ item'[w] # NULL => at'[w] = "out"
      /\ QP!Queued' \subseteq QP!Queued
  <2>1. CASE QP!PopTake(w) /\ at'[w] = "out" /\ item' = [item EXCEPT ![w] = Head(queue_)]
    <3>1. item'[w] = Head(queue_)
      BY <1>1, <2>1 DEF EInv, QP!QInv, QP!QueueTypeOK
    <3> QED
      BY <1>1, <2>1, <3>1, TakenWasQueued DEF EInv
  <2>2. CASE item' = item /\ queue_' = queue_
    BY <1>2, <2>2 DEF QP!Queued
  <2> QED
    BY <1>3, <2>1, <2>2
<1>6. Placed(w)'
  <2>1. item'[w] \notin ran \/ item'[w] = NULL
    BY <1>5, QueuedDidNotRun
  <2> QED
    BY <1>1, <1>3, <1>4, <1>5, <2>1 DEF Placed, WorkerPlaced
<1>7. \A t \in Threads : Placed(t)'
  BY <1>1, <1>4, <1>6, OthersStayPlaced
<1>8. \A t \in Threads \ {w} : item'[t] = item[t]
  BY <1>1, QP!ItemsOfOthers, QueueAssumption DEF EInv
<1>9. Known'
  <2>1. \A t \in Threads : item'[t] # NULL => item'[t] \in posted
    BY <1>1, <1>5, <1>8 DEF EInv, Known
  <2>2. \A u \in Workers : pc[u] = "delete" => pc'[u] = "delete" /\ item'[u] = item[u]
    BY <1>1, <1>4, <1>8 DEF Threads
  <2> QED
    BY <1>1, <1>3, <1>5, <2>1, <2>2 DEF EInv, Known
<1> QED
  BY <1>1, <1>4, <1>7, <1>9, QueueStepKeepsQueue DEF EInv

(* A task that was not posted has no owner. *)
LEMMA NewTaskIsFree ==
  ASSUME EInv, NEW x \in Tasks \ posted
  PROVE  x \in Tasks \ QP!Owned
  BY ExecutorAssumption DEF EInv, Known, QP!Owned

LEMMA PostTaskKeepsInvariant ==
  ASSUME EInv, NEW p \in Posters, PostTask(p)
  PROVE  EInv'
<1>1. /\ p \in Threads /\ p \notin Workers /\ pc[p] = "idle"
      /\ pc' = [pc EXCEPT ![p] = "posting"] /\ UNCHANGED <<running_, history>>
  BY ExecutorAssumption DEF Threads, PostTask, Goto
<1>2. PICK x \in Tasks \ posted : QP!CallPush(p, x) /\ posted' = posted \cup {x}
  BY SameSteps DEF PostTask
<1>3. QP!QInv' /\ QP!Owners'
  BY <1>1, <1>2, NewTaskIsFree, QP!StepKeepsTypes, QP!CallPushKeepsOwners, QueueAssumption
     DEF EInv
<1>4. at'[p] = "push" /\ item'[p] = x
  BY <1>1, <1>2, QP!CallGoes, QueueAssumption DEF EInv
<1>5. /\ pc' \in [Threads -> Functions] /\ pc'[p] = "posting"
      /\ \A t \in Threads \ {p} : pc'[t] = pc[t]
  BY <1>1 DEF EInv, Functions
<1>6. Placed(p)'
  BY <1>1, <1>4, <1>5 DEF Placed, CallerPlaced
<1>7. \A t \in Threads : Placed(t)'
  BY <1>1, <1>2, <1>5, <1>6, OthersStayPlaced DEF history
<1>8. \A t \in Threads \ {p} : item'[t] = item[t]
  BY <1>1, <1>2, QP!ItemsOfOthers, QueueAssumption DEF EInv
<1>9. Known'
  <2>1. \A t \in Threads : item'[t] # NULL => item'[t] \in posted'
    BY <1>2, <1>4, <1>8 DEF EInv, Known
  <2>2. \A u \in Workers : pc[u] = "delete" => pc'[u] = "delete" /\ item'[u] = item[u]
    BY <1>1, <1>5, <1>8 DEF Threads
  <2> QED
    BY <1>1, <1>2, <2>1, <2>2 DEF EInv, Known, QP!CallPush, QP!Queued, history
<1> QED
  BY <1>3, <1>5, <1>7, <1>9 DEF EInv

(* What Push adds to the queue. *)
LEMMA EnqueuedIsQueued ==
  ASSUME QP!QInv, NEW t \in Threads, QP!PushEnqueue(t)
  PROVE  /\ queue_' = Append(queue_, item[t]) /\ item[t] \in Tasks
         /\ QP!Queued' = QP!Queued \cup {item[t]}
<1>1. item[t] \in Tasks /\ queue_ \in Seq(Tasks) /\ queue_' = Append(queue_, item[t])
  BY DEF QP!PushEnqueue, QP!QInv, QP!QueueTypeOK, QP!Waits
<1> DEFINE n == Len(queue_)
<1>2. /\ n \in Nat /\ DOMAIN queue_ = 1 .. n
      /\ DOMAIN queue_' = 1 .. n + 1 /\ queue_'[n + 1] = item[t]
      /\ \A i \in 1 .. n : queue_'[i] = queue_[i]
  BY <1>1, AppendProperties, LenProperties
<1> HIDE DEF n
<1>3. DOMAIN queue_' = DOMAIN queue_ \cup {n + 1}
  BY <1>2
<1> QED
  BY <1>1, <1>2, <1>3 DEF QP!Queued

LEMMA PushTaskKeepsInvariant ==
  ASSUME EInv, NEW p \in Posters, PushTask(p)
  PROVE  EInv'
<1>1. /\ p \in Threads /\ p \notin Workers /\ pc[p] = "posting"
      /\ QP!PushStep(p) /\ QP!QueueStep(p)
      /\ pc' = [pc EXCEPT ![p] = IF at'[p] = "out" THEN "idle" ELSE "posting"]
      /\ UNCHANGED <<running_, posted, history>>
  BY SameSteps, ExecutorAssumption DEF Threads, PushTask, Goto, QP!QueueStep
<1>2. /\ at'[p] \in {"out", "pushWait", "pushParked"} /\ freed' = freed
      /\ \/ QP!PushEnqueue(p) /\ item' = [item EXCEPT ![p] = NULL]
         \/ item' = item /\ queue_' = queue_
  BY <1>1, QP!PushGoes, QueueAssumption DEF EInv
<1>3. /\ pc' \in [Threads -> Functions]
      /\ pc'[p] = IF at'[p] = "out" THEN "idle" ELSE "posting"
      /\ \A t \in Threads \ {p} : pc'[t] = pc[t]
  BY <1>1 DEF EInv, Functions
<1>4. Placed(p)'
  BY <1>1, <1>2, <1>3 DEF Placed, CallerPlaced
<1>5. \A t \in Threads : Placed(t)'
  BY <1>1, <1>3, <1>4, OthersStayPlaced DEF history
<1>6. /\ \A t \in Threads \ {p} : item'[t] = item[t]
      /\ item'[p] = item[p] \/ item'[p] = NULL
  BY <1>1, <1>2, QP!ItemsOfOthers, QueueAssumption DEF EInv, QP!QInv, QP!QueueTypeOK
<1>7. QP!Queued' \subseteq posted
  <2>1. CASE QP!PushEnqueue(p)
    BY <1>1, <2>1, EnqueuedIsQueued, ExecutorAssumption DEF EInv, Known
  <2>2. CASE queue_' = queue_
    BY <2>2 DEF EInv, Known, QP!Queued
  <2> QED
    BY <1>2, <2>1, <2>2
<1>8. Known'
  <2>1. \A u \in Workers : pc[u] = "delete" => pc'[u] = "delete" /\ item'[u] = item[u]
    BY <1>1, <1>3, <1>6 DEF Threads
  <2> QED
    BY <1>1, <1>2, <1>6, <1>7, <2>1 DEF EInv, Known, history
<1> QED
  BY <1>1, <1>3, <1>5, <1>8, QueueStepKeepsQueue DEF EInv

LEMMA EInvStep == EInv /\ [Next]_vars => EInv'
<1>1. EInv /\ Next => EInv'
  BY MainStepKeepsInvariant, SpawnKeepsInvariant, RunCallbackKeepsInvariant,
     DeleteTaskKeepsInvariant, StopKeepsInvariant, ClearUpKeepsInvariant, DrainKeepsInvariant,
     WakeKeepsInvariant, TestRunningKeepsInvariant, PopTaskKeepsInvariant,
     PostTaskKeepsInvariant, PushTaskKeepsInvariant
     DEF Next, WorkerStep
<1>2. EInv /\ UNCHANGED vars => EInv'
  <2> SUFFICES ASSUME EInv, UNCHANGED vars PROVE EInv'
    OBVIOUS
  <2>1. UNCHANGED queueVars /\ UNCHANGED <<running_, pc, posted, history>>
    BY DEF vars
  <2>2. \A t \in Threads : Placed(t)'
    BY <2>1 DEF EInv, Placed, WorkerPlaced, CallerPlaced, queueVars, history
  <2>3. Known'
    BY <2>1, OutsideQueueKeepsQueue DEF EInv, Known, queueVars, history
  <2> QED
    BY <2>1, <2>2, <2>3, OutsideQueueKeepsQueue DEF EInv
<1> QED
  BY <1>1, <1>2

LEMMA Invariance == Spec => []EInv
  BY InitEInv, EInvStep, PTL DEF Spec

(* Every variable has its type, whatever the workers, the posters and the  *)
(* thread that calls Execute and Stop do: in particular only posted tasks  *)
(* are run, and the queue stays within kMaxSize_.                          *)
THEOREM ExecutorTypeCorrect == Spec => []TypeOK
<1>1. EInv => TypeOK
  BY SameTypes DEF EInv, Known, Functions, TypeOK, QP!QInv
<1> QED
  BY <1>1, Invariance, PTL

-----------------------------------------------------------------------------
(* Wake-ups. *)

LEMMA NobodyOnlyClears ==
  ASSUME EInv
  PROVE  \A t \in Threads : at[t] # "clear"
  BY DEF EInv, Placed, WorkerPlaced, CallerPlaced

(* No wake-up is lost between the workers and the posters that sleep in    *)
(* front of a full queue, whatever Stop does meanwhile.                    *)
THEOREM PostersAreServed == Spec => []PostersServed
<1>1. Init => QP!PushersServed
  BY DEF Init, Queue!QueueInit, QP!PushersServed, QP!Waiting
<1>2. EInv /\ QP!PushersServed /\ Next => QP!PushersServed'
  <2> SUFFICES ASSUME EInv, QP!PushersServed, Next PROVE QP!PushersServed'
    OBVIOUS
  <2>1. CASE UNCHANGED <<at, queue_>>
    BY <2>1 DEF QP!PushersServed, QP!Waiting
  <2>2. CASE \E t \in Threads : QP!QueueStep(t) \/ \E x \in Tasks : QP!CallPush(t, x)
    BY <2>2, NobodyOnlyClears, QP!StepServesPushers, QueueAssumption DEF EInv
  <2>3. Main \in Threads /\ \A t \in Workers \cup Posters : t \in Threads
    BY DEF Threads
  <2> QED
    BY <2>1, <2>2, <2>3, SameSteps
       DEF Next, Execute, Spawn, WorkerStep, TestRunning, PopTask, RunCallback, DeleteTask,
           PostTask, PushTask, Stop, ClearUp, StopRunning, Join, Drain, Wake, QP!QueueStep,
           queueVars
<1>3. QP!PushersServed /\ UNCHANGED vars => QP!PushersServed'
  BY DEF vars, queueVars, QP!PushersServed, QP!Waiting
<1>4. QP!PushersServed <=> PostersServed
  BY SameServed DEF PostersServed
<1> QED
  BY <1>1, <1>2, <1>3, <1>4, Invariance, PTL DEF Spec

-----------------------------------------------------------------------------
(* What becomes of a task. *)

Pending(x) == \E p \in Posters : pc[p] = "posting" /\ item[p] = x

(* Deleted, or in the hands of a worker, who will delete it. *)
Taken(x) == x \in freed \/ \E w \in Workers : item[w] = x

Accepted(x) == x \in QP!Queued \/ Taken(x)

(* An accepted task is never lost. *)
LEMMA AcceptedStays ==
  ASSUME EInv, Next, NEW x \in Tasks
  PROVE  (Taken(x) => Taken(x)') /\ (Accepted(x) => Accepted(x)')
<1>1. x # NULL /\ \A w \in Workers : w \in Threads
  BY ExecutorAssumption DEF Threads
<1>2. CASE UNCHANGED <<queue_, item, freed>>
  BY <1>2 DEF Taken, Accepted, QP!Queued
<1>3. ASSUME NEW w \in Workers, PopTask(w)
      PROVE  (Taken(x) => Taken(x)') /\ (Accepted(x) => Accepted(x)')
  <2>1. QP!PopStep(w) /\ w \in Threads /\ pc[w] = "popping"
    BY <1>3, SameSteps DEF PopTask, Threads
  <2>2. item[w] = NULL
    BY <2>1 DEF EInv, Placed, WorkerPlaced
  <2>3. /\ freed' = freed
        /\ \/ QP!PopTake(w) /\ item' = [item EXCEPT ![w] = Head(queue_)]
           \/ item' = item /\ queue_' = queue_
    BY <2>1, QP!PopGoes, QueueAssumption DEF EInv
  <2>4. CASE QP!PopTake(w) /\ item' = [item EXCEPT ![w] = Head(queue_)]
    <3>1. /\ item'[w] = Head(queue_) /\ \A u \in Workers \ {w} : item'[u] = item[u]
          /\ QP!Queued = {Head(queue_)} \cup QP!Queued'
      BY <1>1, <2>1, <2>4, TakenWasQueued DEF EInv, QP!QInv, QP!QueueTypeOK
    <3> QED
      BY <1>1, <2>2, <2>3, <3>1 DEF Taken, Accepted
  <2>5. CASE item' = item /\ queue_' = queue_
    BY <1>2, <2>3, <2>5
  <2> QED
    BY <2>3, <2>4, <2>5
<1>4. ASSUME NEW w \in Workers, TestRunning(w)
      PROVE  (Taken(x) => Taken(x)') /\ (Accepted(x) => Accepted(x)')
  <2>1. item[w] = NULL
    BY <1>1, <1>4 DEF TestRunning, EInv, Placed, WorkerPlaced
  <2>2. QP!CallPop(w) \/ UNCHANGED queueVars
    BY <1>4, SameSteps DEF TestRunning
  <2>3. item' = [item EXCEPT ![w] = NULL] \/ item' = item
    BY <2>2 DEF QP!CallPop, queueVars
  <2>4. UNCHANGED <<queue_, freed>> /\ \A u \in Workers : item'[u] = item[u]
    BY <1>1, <2>1, <2>2, <2>3 DEF QP!CallPop, queueVars, EInv, QP!QInv, QP!QueueTypeOK
  <2> QED
    BY <2>4 DEF Taken, Accepted, QP!Queued
<1>5. ASSUME NEW w \in Workers, DeleteTask(w)
      PROVE  (Taken(x) => Taken(x)') /\ (Accepted(x) => Accepted(x)')
  <2>1. queue_' = queue_ /\ freed' = freed \cup {item[w]} /\ item' = [item EXCEPT ![w] = NULL]
    BY <1>5 DEF DeleteTask
  <2>2. \A u \in Workers \ {w} : item'[u] = item[u]
    BY <1>1, <2>1 DEF EInv, QP!QInv, QP!QueueTypeOK
  <2> QED
    BY <2>1, <2>2 DEF Taken, Accepted, QP!Queued
<1>6. ASSUME NEW p \in Posters, PostTask(p)
      PROVE  (Taken(x) => Taken(x)') /\ (Accepted(x) => Accepted(x)')
  <2>1. PICK y \in Tasks : QP!CallPush(p, y)
    BY <1>6, SameSteps DEF PostTask
  <2>2. UNCHANGED <<queue_, freed>> /\ \A u \in Workers : item'[u] = item[u]
    BY <1>1, <2>1, ExecutorAssumption DEF QP!CallPush, EInv, QP!QInv, QP!QueueTypeOK
  <2> QED
    BY <2>2 DEF Taken, Accepted, QP!Queued
<1>7. ASSUME NEW p \in Posters, PushTask(p)
      PROVE  (Taken(x) => Taken(x)') /\ (Accepted(x) => Accepted(x)')
  <2>1. QP!PushStep(p) /\ p \in Threads /\ p \notin Workers
    BY <1>7, SameSteps, ExecutorAssumption DEF PushTask, Threads
  <2>2. /\ freed' = freed
        /\ \/ QP!PushEnqueue(p) /\ item' = [item EXCEPT ![p] = NULL]
           \/ item' = item /\ queue_' = queue_
    BY <2>1, QP!PushGoes, QueueAssumption DEF EInv
  <2>3. \A u \in Workers : item'[u] = item[u]
    BY <1>1, <2>1, <2>2 DEF EInv, QP!QInv, QP!QueueTypeOK
  <2>4. QP!Queued \subseteq QP!Queued'
    BY <2>1, <2>2, EnqueuedIsQueued DEF EInv, QP!Queued
  <2> QED
    BY <2>2, <2>3, <2>4 DEF Taken, Accepted
<1>8. CASE ClearUp
  <2>1. QP!ClearUpStep(Main) /\ Main \in Threads
    BY <1>8, SameSteps DEF ClearUp, Threads
  <2>2. /\ item' = item
        /\ freed' = freed \cup QP!Queued \/ UNCHANGED <<queue_, freed>>
    BY <2>1, NobodyOnlyClears, QP!ClearUpGoes, QueueAssumption DEF EInv
  <2> QED
    BY <2>2 DEF Taken, Accepted, QP!Queued
<1>9. CASE Stop \/ Drain \/ Wake
  <2>1. \E t \in Threads : QP!CallClearUp(t) \/ QP!StoreValid(t) \/ QP!SpuriousWake(t)
    BY <1>9, SameSteps DEF Stop, Drain, Wake, Threads
  <2>2. UNCHANGED <<queue_, item, freed>>
    BY <2>1 DEF QP!CallClearUp, QP!StoreValid, QP!SpuriousWake
  <2> QED
    BY <1>2, <2>2
<1>10. CASE Execute \/ StopRunning \/ Join \/ \E w \in Workers : Spawn(w) \/ RunCallback(w)
  BY <1>2, <1>10 DEF Execute, StopRunning, Join, Spawn, RunCallback, queueVars
<1> QED
  BY <1>3, <1>4, <1>5, <1>6, <1>7, <1>8, <1>9, <1>10 DEF Next, WorkerStep

(* Before Stop the queue is valid and no posted task is lost; after the    *)
(* queue was cleared, what PostTask had accepted in time has been taken.   *)
Before == pc[Main] \in {"new", "spawn", "idle", "posting"}

Kept ==
  /\ Before => valid_ /\ storing = {} /\ \A x \in posted : Pending(x) \/ Accepted(x)
  /\ ~Before => \A x \in inTime : Accepted(x) /\ (at[Main] # "clearUp" => Taken(x))
  /\ pc[Main] = "stopped" => \A w \in Workers : pc[w] = "ended"

LEMMA EndedStays ==
  ASSUME EInv, Next, NEW w \in Workers, pc[w] = "ended"
  PROVE  pc'[w] = "ended"
<1>1. w # Main /\ w \notin Posters /\ w \in Threads
  BY ExecutorAssumption DEF Threads
<1> QED
  BY <1>1
     DEF EInv, Next, Execute, Stop, ClearUp, StopRunning, Join, Spawn, WorkerStep, TestRunning,
         PopTask, RunCallback, DeleteTask, PostTask, PushTask, Drain, Wake, Goto

(* After Stop was called, the other threads do not move its thread.        *)
LEMMA MainStands ==
  ASSUME EInv, Next, ~Before, ~ClearUp, ~StopRunning, ~Join
  PROVE  pc'[Main] = pc[Main] /\ at'[Main] = at[Main] /\ inTime' = inTime
<1>1. /\ Main \in Threads /\ Main \notin Workers
      /\ at[Main] \notin {"pushParked", "popParked"}
      /\ pc[Main] \notin {"new", "spawn", "idle", "posting"}
  BY ExecutorAssumption DEF EInv, Placed, CallerPlaced, Threads, Before
<1>2. ASSUME NEW w \in Workers, Spawn(w) \/ WorkerStep(w)
      PROVE  pc'[Main] = pc[Main] /\ at'[Main] = at[Main] /\ inTime' = inTime
  <2>1. ~Spawn(w) /\ w \in Threads \ {Main}
    BY <1>1 DEF Spawn, Threads
  <2>2. at' = at \/ QP!QueueStep(w)
    BY <1>2, <2>1, SameSteps
       DEF WorkerStep, TestRunning, PopTask, RunCallback, DeleteTask, queueVars, QP!QueueStep
  <2>3. at'[Main] = at[Main]
    BY <1>1, <2>1, <2>2, QP!OthersMove, QueueAssumption DEF EInv
  <2> QED
    BY <1>1, <1>2, <2>1, <2>3
       DEF EInv, WorkerStep, TestRunning, PopTask, RunCallback, DeleteTask, Goto, history
<1>3. ASSUME NEW p \in Posters, PostTask(p) \/ PushTask(p)
      PROVE  pc'[Main] = pc[Main] /\ at'[Main] = at[Main] /\ inTime' = inTime
  <2>1. p \in Threads \ {Main}
    BY <1>1, <1>3 DEF PostTask, PushTask, Threads
  <2>2. QP!QueueStep(p) \/ \E x \in Tasks : QP!CallPush(p, x)
    BY <1>3, SameSteps DEF PostTask, PushTask, QP!QueueStep
  <2>3. at'[Main] = at[Main]
    BY <1>1, <2>1, <2>2, QP!OthersMove, QueueAssumption DEF EInv
  <2> QED
    BY <1>1, <1>3, <2>1, <2>3 DEF EInv, PostTask, PushTask, Goto, history
<1>4. CASE Drain
  <2>1. at' = at
    BY <1>4 DEF Drain, Queue!StoreValid
  <2> QED
    BY <1>4, <2>1 DEF Drain, history
<1>5. CASE Wake
  <2>1. PICK t \in Threads : QP!SpuriousWake(t) /\ QP!QueueStep(t)
    BY <1>5, SameSteps DEF Wake, QP!QueueStep
  <2>2. t # Main
    BY <1>1, <2>1 DEF QP!SpuriousWake
  <2>3. at'[Main] = at[Main]
    BY <1>1, <2>1, <2>2, QP!OthersMove, QueueAssumption DEF EInv
  <2> QED
    BY <1>5, <2>3 DEF Wake, history
<1> QED
  BY <1>1, <1>2, <1>3, <1>4, <1>5 DEF Next, Execute, Stop

LEMMA KeptAfterStop ==
  ASSUME EInv, Kept, Next, ~Before
  PROVE  Kept'
<1>1. Main \in Threads /\ Main \notin Workers /\ inTime \subseteq Tasks
  BY ExecutorAssumption DEF Threads, EInv, Known
<1>2. /\ \A x \in inTime : Accepted(x)'
      /\ at[Main] # "clearUp" => \A x \in inTime : Taken(x)'
  BY <1>1, AcceptedStays DEF Kept
<1>3. CASE ClearUp
  <2>1. /\ QP!ClearUpStep(Main) /\ pc[Main] = "clearing" /\ inTime' = inTime
        /\ pc' = [pc EXCEPT ![Main] = IF at'[Main] = "out" THEN "stopping" ELSE "clearing"]
    BY <1>3, SameSteps DEF ClearUp, Goto, history
  <2>2. pc'[Main] \in {"stopping", "clearing"}
    BY <1>1, <2>1 DEF EInv
  <2>3. at[Main] = "clearUp" => \A x \in inTime : Taken(x)'
    <3>1. at[Main] = "clearUp" => freed' = freed \cup QP!Queued /\ item' = item
      BY <1>1, <2>1, NobodyOnlyClears, QP!ClearUpGoes, QueueAssumption DEF EInv
    <3> QED
      BY <3>1 DEF Kept, Accepted, Taken
  <2> QED
    BY <1>2, <2>1, <2>2, <2>3 DEF Kept, Before
<1>4. CASE StopRunning \/ Join
  <2>1. pc'[Main] \in {"joining", "stopped"} /\ at' = at /\ inTime' = inTime
    BY <1>1, <1>4 DEF StopRunning, Join, Goto, EInv, queueVars, history
  <2>2. pc'[Main] = "stopped" => \A w \in Workers : pc[w] = "ended"
    BY <1>1, <1>4 DEF StopRunning, Join, Goto, EInv
  <2> QED
    BY <1>2, <2>1, <2>2, EndedStays DEF Kept, Before
<1>5. CASE ~ClearUp /\ ~StopRunning /\ ~Join
  <2>1. pc'[Main] = pc[Main] /\ at'[Main] = at[Main] /\ inTime' = inTime
    BY <1>5, MainStands
  <2>2. pc[Main] = "stopped" => \A w \in Workers : pc'[w] = "ended"
    BY EndedStays DEF Kept
  <2> QED
    BY <1>2, <2>1, <2>2 DEF Kept, Before
<1> QED
  BY <1>3, <1>4, <1>5

LEMMA KeptByStop ==
  ASSUME EInv, Kept, Stop
  PROVE  Kept'
<1>1. Main \in Threads /\ pc[Main] = "idle" /\ pc' = [pc EXCEPT ![Main] = "clearing"]
  BY DEF Stop, Threads, Goto
<1>2. pc'[Main] = "clearing" /\ Before /\ ~Before'
  BY <1>1 DEF EInv, Before
<1>3. QP!CallClearUp(Main)
  BY SameSteps DEF Stop
<1>4. UNCHANGED <<queue_, item, freed>> /\ at'[Main] = "clearUp"
  BY <1>1, <1>3, QP!CallGoes, QueueAssumption DEF QP!CallClearUp, EInv
<1>5. \A x \in inTime' : Accepted(x)
  BY <1>2 DEF Stop, InFlight, Kept, Pending
<1> QED
  BY <1>2, <1>4, <1>5 DEF Kept, Accepted, Taken, QP!Queued

(* Before Stop a task that is being posted stays so or is accepted. *)
LEMMA PendingStays ==
  ASSUME EInv, Kept, Before, Next, ~Stop, NEW x \in Tasks, Pending(x)
  PROVE  Pending(x)' \/ Accepted(x)'
<1>1. PICK p \in Posters : pc[p] = "posting" /\ item[p] = x
  BY DEF Pending
<1>2. p \in Threads /\ p \notin Workers /\ x # NULL
  BY ExecutorAssumption DEF Threads
<1>3. CASE PushTask(p)
  <2>1. /\ QP!PushStep(p) /\ pc' = [pc EXCEPT ![p] = IF at'[p] = "out" THEN "idle" ELSE "posting"]
    BY <1>3, SameSteps DEF PushTask, Goto
  <2>2. \/ QP!PushEnqueue(p)
        \/ item' = item /\ at'[p] # "out"
    BY <1>2, <2>1, QP!PushGoes, QueueAssumption DEF EInv, Kept
  <2>3. CASE QP!PushEnqueue(p)
    BY <1>1, <1>2, <2>3, EnqueuedIsQueued DEF EInv, Accepted
  <2>4. CASE item' = item /\ at'[p] # "out"
    BY <1>1, <1>2, <2>1, <2>4 DEF EInv, Pending
  <2> QED
    BY <2>2, <2>3, <2>4
<1>4. ASSUME NEW t \in Threads \ {p}, QP!QueueStep(t) \/ \E y \in Tasks : QP!CallPush(t, y),
             pc'[p] = pc[p]
      PROVE  Pending(x)'
  BY <1>1, <1>2, <1>4, QP!ItemsOfOthers, QueueAssumption DEF EInv, Pending
<1>5. ASSUME NEW q \in Posters, PostTask(q) \/ (q # p /\ PushTask(q))
      PROVE  Pending(x)'
  <2>1. q \in Threads \ {p}
    BY <1>1, <1>5 DEF PostTask, Threads
  <2>2. QP!QueueStep(q) \/ \E y \in Tasks : QP!CallPush(q, y)
    BY <1>5, SameSteps DEF PostTask, PushTask, QP!QueueStep
  <2>3. pc'[p] = pc[p]
    BY <1>2, <1>5, <2>1 DEF EInv, PostTask, PushTask, Goto
  <2> QED
    BY <1>4, <2>1, <2>2, <2>3
<1>6. ASSUME NEW w \in Workers, WorkerStep(w) \/ Spawn(w)
      PROVE  Pending(x)'
  <2>1. w \in Threads \ {p}
    BY <1>2 DEF Threads
  <2>2. pc'[p] = pc[p]
    BY <1>1, <1>2, <1>6, <2>1
       DEF EInv, WorkerStep, TestRunning, PopTask, RunCallback, DeleteTask, Spawn, Goto
  <2>3. \/ QP!QueueStep(w) \/ item' = item \/ item' = [item EXCEPT ![w] = NULL]
    BY <1>6, SameSteps
       DEF WorkerStep, TestRunning, PopTask, RunCallback, DeleteTask, Spawn, queueVars,
           QP!QueueStep
  <2>4. QP!QueueStep(w) \/ item'[p] = item[p]
    BY <1>2, <2>1, <2>3 DEF EInv, QP!QInv, QP!QueueTypeOK
  <2> QED
    BY <1>1, <1>4, <2>1, <2>2, <2>4 DEF Pending
<1>7. CASE Execute \/ ClearUp \/ StopRunning \/ Join
  <2>1. CASE Execute
    <3>1. p # Main
      BY <1>1, <2>1 DEF Execute
    <3>2. pc'[p] = pc[p] /\ item' = item
      BY <1>2, <2>1, <3>1 DEF Execute, Goto, EInv, queueVars
    <3> QED
      BY <1>1, <3>2 DEF Pending
  <2>2. CASE ClearUp \/ StopRunning \/ Join
    BY <2>2 DEF ClearUp, StopRunning, Join, Before
  <2> QED
    BY <1>7, <2>1, <2>2
<1>8. CASE Drain \/ Wake
  <2>1. \E t \in Threads : QP!StoreValid(t) \/ QP!SpuriousWake(t)
    BY <1>8, SameSteps DEF Drain, Wake, Threads
  <2>2. item' = item /\ pc' = pc
    BY <1>8, <2>1 DEF QP!StoreValid, QP!SpuriousWake, Drain, Wake
  <2> QED
    BY <1>1, <2>2 DEF Pending
<1> QED
  BY <1>3, <1>5, <1>6, <1>7, <1>8 DEF Next

LEMMA KeptBeforeStop ==
  ASSUME EInv, Kept, Next, Before, ~Stop
  PROVE  Kept'
<1>1. Main \in Threads /\ Main \notin Workers
  BY ExecutorAssumption DEF Threads
<1>2. UNCHANGED <<valid_, storing>>
  <2>1. \/ UNCHANGED <<valid_, storing>>
        \/ \E t \in Threads : QP!PushStep(t) \/ QP!PopStep(t)
        \/ ClearUp \/ Drain
    BY SameSteps
       DEF Next, Execute, Spawn, WorkerStep, TestRunning, PopTask, RunCallback, DeleteTask,
           PostTask, PushTask, StopRunning, Join, Wake, queueVars, Threads,
           QP!CallPop, QP!CallPush, QP!SpuriousWake
  <2>2. ~ClearUp /\ ~Drain
    BY DEF Before, Kept, ClearUp, Drain, Queue!StoreValid
  <2> QED
    BY <2>1, <2>2, QP!PushGoes, QP!PopGoes, QueueAssumption DEF EInv
<1>3. Before'
  BY <1>1
     DEF EInv, Before, Next, Execute, Spawn, WorkerStep, TestRunning, PopTask, RunCallback,
         DeleteTask, PostTask, PushTask, ClearUp, StopRunning, Join, Drain, Wake, Goto, Threads
<1>4. \A x \in posted : Pending(x)' \/ Accepted(x)'
  BY AcceptedStays, PendingStays DEF Kept, EInv, Known
<1>5. posted' = posted \/ \E p \in Posters : PostTask(p)
  BY DEF Next, Execute, Spawn, WorkerStep, TestRunning, PopTask, RunCallback, DeleteTask,
         PushTask, ClearUp, StopRunning, Join, Drain, Wake
<1>6. ASSUME NEW p \in Posters, PostTask(p)
      PROVE  \A x \in posted' \ posted : Pending(x)'
  <2>1. PICK y \in Tasks : QP!CallPush(p, y) /\ posted' = posted \cup {y}
    BY <1>6, SameSteps DEF PostTask
  <2>2. p \in Threads /\ pc' = [pc EXCEPT ![p] = "posting"]
    BY <1>6 DEF PostTask, Goto, Threads
  <2>3. item'[p] = y /\ pc'[p] = "posting"
    BY <2>1, <2>2, QP!CallGoes, QueueAssumption DEF EInv
  <2> QED
    BY <2>1, <2>3 DEF Pending
<1>7. \A x \in posted' : Pending(x)' \/ Accepted(x)'
  BY <1>4, <1>5, <1>6
<1> QED
  BY <1>2, <1>3, <1>7 DEF Kept, Before

(* When Stop returns, every task whose PostTask had returned before Stop   *)
(* was called has been deleted: Stop leaks none of them, whatever the      *)
(* workers were doing and however late they leave Loop.                    *)
THEOREM NothingIsLeaked == Spec => []NothingLeaked
<1>1. Init => Kept
  <2>1. Main \in Threads
    BY DEF Threads
  <2> QED
    BY <2>1 DEF Init, Kept, Before, Queue!QueueInit
<1>2. EInv /\ Kept /\ [Next]_vars => Kept'
  <2>1. EInv /\ Kept /\ Next => Kept'
    BY KeptAfterStop, KeptByStop, KeptBeforeStop
  <2>2. Kept /\ UNCHANGED vars => Kept'
    BY DEF Kept, Before, Pending, Accepted, Taken, QP!Queued, vars, queueVars, history
  <2> QED
    BY <2>1, <2>2
<1>3. EInv /\ Kept => NothingLeaked
  <2> SUFFICES ASSUME EInv, Kept, pc[Main] = "stopped" PROVE inTime \subseteq freed
    BY DEF NothingLeaked
  <2>1. at[Main] = "out" /\ \A x \in inTime : Taken(x)
    BY ExecutorAssumption DEF Kept, Before, EInv, Placed, CallerPlaced, Threads
  <2>2. \A w \in Workers : item[w] = NULL
    BY DEF Kept, EInv, Placed, WorkerPlaced, Threads
  <2>3. NULL \notin inTime
    BY ExecutorAssumption DEF EInv, Known
  <2> QED
    BY <2>1, <2>2, <2>3 DEF Taken
<1> QED
  BY <1>1, <1>2, <1>3, Invariance, PTL DEF Spec

-----------------------------------------------------------------------------
(* The executor implements TaskPool. *)

Busy == {w \in Workers : pc[w] \in {"callback", "delete"}}
Active == {item[w] : w \in Busy}

MappedVars == <<queue_, Active, freed \cap ran, freed \ ran>>

LEMMA Mapped ==
  /\ Pool!poolVars = MappedVars /\ Pool!poolVars' = MappedVars'
  /\ Pool!Accept <=>
       /\ \E x \in Tasks \ (QP!Queued \cup Active \cup freed) : queue_' = Append(queue_, x)
       /\ UNCHANGED <<Active, freed \cap ran, freed \ ran>>
  /\ Pool!StartOldest <=>
       /\ queue_ # << >> /\ Cardinality(Active) < Cardinality(Workers)
       /\ Active' = Active \cup {Head(queue_)} /\ queue_' = Tail(queue_)
       /\ UNCHANGED <<freed \cap ran, freed \ ran>>
  /\ Pool!Finish <=>
       /\ \E x \in Active : /\ Active' = Active \ {x}
                            /\ (freed \cap ran)' = (freed \cap ran) \cup {x}
       /\ UNCHANGED <<queue_, freed \ ran>>
  /\ Pool!DropWaiting <=>
       /\ (freed \ ran)' = (freed \ ran) \cup QP!Queued /\ queue_' = << >>
       /\ UNCHANGED <<Active, freed \cap ran>>
<1>1. Pool!poolVars = MappedVars /\ Pool!poolVars' = MappedVars'
  BY DEF Pool!poolVars, MappedVars, Active, Busy
<1>2. Pool!Known = QP!Queued \cup Active \cup freed
  BY DEF Pool!Known, QP!Queued, Active, Busy
<1>3. \A S : Pool!Cardinality(S) = Cardinality(S)
  BY DEF Pool!Cardinality, Cardinality
<1>4. Pool!Accept <=>
       /\ \E x \in Tasks \ (QP!Queued \cup Active \cup freed) : queue_' = Append(queue_, x)
       /\ UNCHANGED <<Active, freed \cap ran, freed \ ran>>
  BY <1>2 DEF Pool!Accept, Active, Busy
<1>5. Pool!StartOldest <=>
       /\ queue_ # << >> /\ Cardinality(Active) < Cardinality(Workers)
       /\ Active' = Active \cup {Head(queue_)} /\ queue_' = Tail(queue_)
       /\ UNCHANGED <<freed \cap ran, freed \ ran>>
  BY <1>3 DEF Pool!StartOldest, Active, Busy
<1>6. Pool!Finish <=>
       /\ \E x \in Active : /\ Active' = Active \ {x}
                            /\ (freed \cap ran)' = (freed \cap ran) \cup {x}
       /\ UNCHANGED <<queue_, freed \ ran>>
  BY DEF Pool!Finish, Active, Busy
<1>7. Pool!DropWaiting <=>
       /\ (freed \ ran)' = (freed \ ran) \cup QP!Queued /\ queue_' = << >>
       /\ UNCHANGED <<Active, freed \cap ran>>
  BY DEF Pool!DropWaiting, QP!Queued, Active, Busy
<1> QED
  BY <1>1, <1>4, <1>5, <1>6, <1>7

(* Steps the pool does not see. *)
LEMMA BusyStays ==
  ASSUME \A w \in Workers : /\ w \in Busy' <=> w \in Busy
                            /\ w \in Busy => item'[w] = item[w]
  PROVE  Active' = Active
<1>1. Busy' = Busy
  BY DEF Busy
<1>2. \A w \in Busy : w \in Workers /\ item'[w] = item[w]
  BY DEF Busy
<1>3. Active' = {item'[w] : w \in Busy'}
  BY DEF Active
<1> QED
  BY <1>1, <1>2, <1>3 DEF Active

(* A worker that is not busy leaves room for one more. *)
LEMMA RoomForOne ==
  ASSUME EInv, NEW w \in Workers, w \notin Busy
  PROVE  Cardinality(Active) < Cardinality(Workers)
<1>1. /\ Busy \in SUBSET (Workers \ {w}) /\ IsFiniteSet(Workers \ {w})
      /\ Cardinality(Workers \ {w}) = Cardinality(Workers) - 1 /\ Cardinality(Workers) \in Nat
  BY ExecutorAssumption, FS_RemoveElement, FS_CardinalityType DEF Busy
<1>2. IsFiniteSet(Busy) /\ Cardinality(Busy) \in Nat /\ Cardinality(Busy) <= Cardinality(Workers) - 1
  BY <1>1, FS_Subset, FS_CardinalityType
<1>3. [u \in Busy |-> item[u]] \in Surjection(Busy, Active)
  BY DEF Surjection, Active
<1>4. Cardinality(Active) <= Cardinality(Busy) /\ Cardinality(Active) \in Nat
  BY <1>2, <1>3, FS_Surjection, FS_CardinalityType
<1> QED
  BY <1>1, <1>2, <1>4

(* A step of a thread that is not busy, and does not become so. *)
LEMMA IdleStep ==
  ASSUME NEW t \in Threads, t \notin Busy, t \notin Busy',
         \A u \in Threads \ {t} : pc'[u] = pc[u] /\ item'[u] = item[u]
  PROVE  Active' = Active
<1>1. \A w \in Workers : w \in Threads
  BY DEF Threads
<1> QED
  BY <1>1, BusyStays DEF Busy

LEMMA PopTaskImplements ==
  ASSUME EInv, NEW w \in Workers, PopTask(w)
  PROVE  Pool!StartOldest \/ UNCHANGED MappedVars
<1>1. /\ w \in Threads /\ pc[w] = "popping" /\ QP!PopStep(w) /\ QP!QueueStep(w)
      /\ pc' = [pc EXCEPT ![w] = IF at'[w] # "out" THEN "popping"
                                 ELSE IF item'[w] # NULL THEN "callback" ELSE "test"]
      /\ ran' = ran
  BY SameSteps DEF Threads, PopTask, Goto, QP!QueueStep
<1>2. item[w] = NULL /\ w \notin Busy
  BY <1>1 DEF EInv, Placed, WorkerPlaced, Busy
<1>3. /\ \/ QP!PopTake(w) /\ at'[w] = "out" /\ item' = [item EXCEPT ![w] = Head(queue_)]
         \/ item' = item /\ queue_' = queue_
      /\ freed' = freed
  BY <1>1, QP!PopGoes, QueueAssumption DEF EInv
<1>4. /\ \A u \in Threads \ {w} : pc'[u] = pc[u] /\ item'[u] = item[u]
      /\ pc'[w] = IF at'[w] # "out" THEN "popping"
                  ELSE IF item'[w] # NULL THEN "callback" ELSE "test"
  BY <1>1, QP!ItemsOfOthers, QueueAssumption DEF EInv
<1>5. CASE QP!PopTake(w) /\ at'[w] = "out" /\ item' = [item EXCEPT ![w] = Head(queue_)]
  <2>1. /\ Head(queue_) # NULL /\ item'[w] = Head(queue_)
        /\ queue_ # << >> /\ queue_' = Tail(queue_)
    BY <1>1, <1>5, TakenWasQueued DEF EInv, QP!PopTake, QP!QInv, QP!QueueTypeOK
  <2>2. Busy' = Busy \cup {w} /\ \A u \in Busy : item'[u] = item[u]
    BY <1>2, <1>4, <1>5, <2>1 DEF Busy, Threads
  <2>3. Active' = {item'[u] : u \in Busy'}
    BY DEF Active
  <2>4. Active' = Active \cup {Head(queue_)}
    BY <2>1, <2>2, <2>3 DEF Active
  <2>5. Cardinality(Active) < Cardinality(Workers)
    BY <1>2, RoomForOne
  <2> QED
    BY <1>1, <1>3, <2>1, <2>4, <2>5, Mapped
<1>6. CASE item' = item /\ queue_' = queue_
  <2>1. w \notin Busy'
    BY <1>2, <1>4, <1>6 DEF Busy
  <2> QED
    BY <1>1, <1>2, <1>3, <1>4, <1>6, <2>1, IdleStep DEF MappedVars
<1> QED
  BY <1>3, <1>5, <1>6

LEMMA PushTaskImplements ==
  ASSUME EInv, NEW p \in Posters, PushTask(p)
  PROVE  Pool!Accept \/ UNCHANGED MappedVars
<1>1. /\ p \in Threads /\ p \notin Workers /\ pc[p] = "posting"
      /\ QP!PushStep(p) /\ QP!QueueStep(p) /\ ran' = ran
      /\ pc' = [pc EXCEPT ![p] = IF at'[p] = "out" THEN "idle" ELSE "posting"]
  BY SameSteps, ExecutorAssumption DEF Threads, PushTask, Goto, QP!QueueStep, history
<1>2. /\ freed' = freed
      /\ QP!PushEnqueue(p) \/ queue_' = queue_
  BY <1>1, QP!PushGoes, QueueAssumption DEF EInv
<1>3. \A u \in Threads \ {p} : pc'[u] = pc[u] /\ item'[u] = item[u]
  BY <1>1, QP!ItemsOfOthers, QueueAssumption DEF EInv
<1>4. Active' = Active
  BY <1>1, <1>3, IdleStep DEF Busy
<1>5. CASE QP!PushEnqueue(p)
  <2>1. queue_' = Append(queue_, item[p]) /\ item[p] \in Tasks /\ item[p] # NULL
    BY <1>1, <1>5, EnqueuedIsQueued, ExecutorAssumption DEF EInv
  <2>2. item[p] \notin freed /\ item[p] \notin QP!Queued
    BY <1>1 DEF EInv, QP!Owners, QP!Queued
  <2>3. item[p] \notin Active
    BY <1>1, <2>1 DEF EInv, QP!Owners, Active, Busy, Threads
  <2> QED
    BY <1>1, <1>2, <1>4, <2>1, <2>2, <2>3, Mapped
<1>6. CASE queue_' = queue_
  BY <1>1, <1>2, <1>4, <1>6 DEF MappedVars
<1> QED
  BY <1>2, <1>5, <1>6

LEMMA DeleteTaskImplements ==
  ASSUME EInv, NEW w \in Workers, DeleteTask(w)
  PROVE  Pool!Finish
<1>1. /\ w \in Threads /\ pc' = [pc EXCEPT ![w] = "test"] /\ pc[w] = "delete"
      /\ item' = [item EXCEPT ![w] = NULL] /\ freed' = freed \cup {item[w]}
      /\ UNCHANGED <<queue_, ran>>
  BY DEF Threads, DeleteTask, Goto, history
<1>2. item[w] \in ran /\ w \in Busy
  BY <1>1 DEF EInv, Placed, WorkerPlaced, Busy
<1>3. /\ \A u \in Threads \ {w} : pc'[u] = pc[u] /\ item'[u] = item[u]
      /\ pc'[w] = "test"
  BY <1>1 DEF EInv, QP!QInv, QP!QueueTypeOK
<1>4. Busy' = Busy \ {w} /\ \A u \in Busy \ {w} : item'[u] = item[u]
  BY <1>1, <1>3 DEF Busy, Threads
<1>5. \A u \in Busy \ {w} : item[u] # item[w]
  BY <1>1 DEF EInv, QP!Owners, Busy, Threads, Placed, WorkerPlaced
<1>6. Active' = {item'[u] : u \in Busy'}
  BY DEF Active
<1>7. Active' = Active \ {item[w]} /\ item[w] \in Active
  BY <1>2, <1>4, <1>5, <1>6 DEF Active
<1>8. (freed \cap ran)' = (freed \cap ran) \cup {item[w]} /\ (freed \ ran)' = freed \ ran
  BY <1>1, <1>2
<1> QED
  BY <1>1, <1>7, <1>8, Mapped

LEMMA ClearUpImplements ==
  ASSUME EInv, ClearUp
  PROVE  Pool!DropWaiting \/ UNCHANGED MappedVars
<1>1. /\ Main \in Threads /\ Main \notin Workers /\ QP!ClearUpStep(Main)
      /\ ran' = ran
      /\ pc' = [pc EXCEPT ![Main] = IF at'[Main] = "out" THEN "stopping" ELSE "clearing"]
  BY SameSteps, ExecutorAssumption DEF ClearUp, Threads, Goto, history
<1>2. /\ item' = item
      /\ \/ queue_' = << >> /\ freed' = freed \cup QP!Queued
         \/ UNCHANGED <<queue_, freed>>
  BY <1>1, NobodyOnlyClears, QP!ClearUpGoes, QueueAssumption DEF EInv
<1>3. \A u \in Threads \ {Main} : pc'[u] = pc[u] /\ item'[u] = item[u]
  BY <1>1, <1>2 DEF EInv
<1>4. Active' = Active
  BY <1>1, <1>3, IdleStep DEF Busy
<1>5. CASE queue_' = << >> /\ freed' = freed \cup QP!Queued
  <2>1. (freed \cap ran)' = freed \cap ran /\ (freed \ ran)' = (freed \ ran) \cup QP!Queued
    BY <1>1, <1>5, QueuedDidNotRun
  <2> QED
    BY <1>4, <1>5, <2>1, Mapped
<1>6. CASE UNCHANGED <<queue_, freed>>
  BY <1>1, <1>4, <1>6 DEF MappedVars
<1> QED
  BY <1>2, <1>5, <1>6

LEMMA RunCallbackImplements ==
  ASSUME EInv, NEW w \in Workers, RunCallback(w)
  PROVE  UNCHANGED MappedVars
<1>1. /\ w \in Threads /\ pc' = [pc EXCEPT ![w] = "delete"] /\ pc[w] = "callback"
      /\ ran' = ran \cup {item[w]} /\ UNCHANGED <<queue_, item, freed>>
  BY DEF Threads, RunCallback, Goto, queueVars
<1>2. \A u \in Workers : u \in Busy' <=> u \in Busy
  BY <1>1 DEF EInv, Busy, Threads
<1>3. item[w] \notin freed
  BY <1>1 DEF EInv, QP!Owners
<1> QED
  BY <1>1, <1>2, <1>3, BusyStays DEF MappedVars

LEMMA OtherStepsStutter ==
  ASSUME EInv,
         \/ Execute \/ Stop \/ StopRunning \/ Join \/ Drain \/ Wake
         \/ \E w \in Workers : Spawn(w) \/ TestRunning(w)
         \/ \E p \in Posters : PostTask(p)
  PROVE  UNCHANGED MappedVars
<1>1. Main \in Threads /\ Main \notin Workers /\ \A t \in Workers \cup Posters : t \in Threads
  BY ExecutorAssumption DEF Threads
<1>2. CASE Drain \/ Wake
  <2>1. \E t \in Threads : QP!StoreValid(t) \/ QP!SpuriousWake(t)
    BY <1>1, <1>2, SameSteps DEF Drain, Wake
  <2>2. UNCHANGED <<queue_, item, freed, pc, ran>>
    BY <1>2, <2>1 DEF QP!StoreValid, QP!SpuriousWake, Drain, Wake, history
  <2> QED
    BY <2>2 DEF MappedVars, Active, Busy
<1>3. CASE Execute \/ Stop \/ StopRunning \/ Join
  <2>1. UNCHANGED <<queue_, item, freed, ran>>
    BY <1>3, SameSteps
       DEF Execute, Stop, StopRunning, Join, queueVars, history, QP!CallClearUp
  <2>2. \A u \in Threads \ {Main} : pc'[u] = pc[u] /\ item'[u] = item[u]
    BY <1>1, <1>3, <2>1 DEF Execute, Stop, StopRunning, Join, Goto, EInv
  <2> QED
    BY <1>1, <2>1, <2>2, IdleStep DEF MappedVars, Busy
<1>4. ASSUME NEW w \in Workers, Spawn(w)
      PROVE  UNCHANGED MappedVars
  <2>1. /\ UNCHANGED <<queue_, item, freed, ran>> /\ pc[w] = "new" /\ pc'[w] = "test"
        /\ \A u \in Threads \ {w, Main} : pc'[u] = pc[u]
    BY <1>1, <1>4 DEF Spawn, queueVars, history, EInv
  <2>2. \A u \in Workers : u \in Busy' <=> u \in Busy
    BY <1>1, <2>1 DEF Busy
  <2> QED
    BY <2>1, <2>2, BusyStays DEF MappedVars
<1>5. ASSUME NEW w \in Workers, TestRunning(w)
      PROVE  UNCHANGED MappedVars
  <2>1. QP!CallPop(w) \/ UNCHANGED queueVars
    BY <1>5, SameSteps DEF TestRunning
  <2>2. UNCHANGED <<queue_, freed, ran>> /\ \A u \in Threads \ {w} : item'[u] = item[u]
    BY <1>5, <2>1 DEF TestRunning, QP!CallPop, queueVars, history, EInv, QP!QInv, QP!QueueTypeOK
  <2>3. /\ pc[w] = "test" /\ pc'[w] \in {"popping", "ended"}
        /\ \A u \in Threads \ {w} : pc'[u] = pc[u]
    BY <1>1, <1>5 DEF TestRunning, Goto, EInv
  <2> QED
    BY <1>1, <2>2, <2>3, IdleStep DEF MappedVars, Busy
<1>6. ASSUME NEW p \in Posters, PostTask(p)
      PROVE  UNCHANGED MappedVars
  <2>1. p \in Threads /\ p \notin Workers /\ \E x \in Tasks : QP!CallPush(p, x)
    BY <1>1, <1>6, SameSteps, ExecutorAssumption DEF PostTask
  <2>2. UNCHANGED <<queue_, freed, ran>> /\ \A u \in Threads \ {p} : item'[u] = item[u]
    BY <1>6, <2>1 DEF PostTask, QP!CallPush, history, EInv, QP!QInv, QP!QueueTypeOK
  <2>3. \A u \in Threads \ {p} : pc'[u] = pc[u]
    BY <1>6, <2>1 DEF PostTask, Goto, EInv
  <2> QED
    BY <2>1, <2>2, <2>3, IdleStep DEF MappedVars, Busy
<1> QED
  BY <1>2, <1>3, <1>4, <1>5, <1>6

(* The executor keeps the promise of TaskPool: tasks are started in the    *)
(* order they were accepted, each once and at most as many at a time as    *)
(* there are workers, a started task is finished, and what Stop drops was  *)
(* never started.                                                          *)
THEOREM ImplementsTaskPool == Spec => ImplementsPool
<1>1. Init => Pool!PoolInit
  <2> SUFFICES ASSUME Init PROVE Pool!PoolInit
    OBVIOUS
  <2>1. queue_ = << >> /\ freed = {} /\ \A w \in Workers : pc[w] = "new"
    BY DEF Init, Queue!QueueInit, Threads
  <2> QED
    BY <2>1 DEF Pool!PoolInit
<1>2. EInv /\ [Next]_vars => [Pool!PoolNext]_(Pool!poolVars)
  <2>1. EInv /\ Next => Pool!PoolNext \/ UNCHANGED MappedVars
    BY PopTaskImplements, PushTaskImplements, DeleteTaskImplements, ClearUpImplements,
       RunCallbackImplements, OtherStepsStutter
       DEF Next, WorkerStep, Pool!PoolNext
  <2>2. UNCHANGED vars => UNCHANGED MappedVars
    BY DEF vars, queueVars, history, MappedVars, Active, Busy
  <2> QED
    BY <2>1, <2>2, Mapped
<1> QED
  BY <1>1, <1>2, Invariance, PTL DEF Spec, ImplementsPool, Pool!PoolSpec
=============================================================================
