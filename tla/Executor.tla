------------------------------ MODULE Executor ------------------------------
(***************************************************************************)
(* The thread pool of threadpool/executor.h: workers that run Loop,        *)
(* threads that call PostTask, and the thread that calls Execute and Stop. *)
(* Tasks travel through a TaskQueue, whose steps are taken here one by one *)
(* on behalf of the thread that is inside Push, Pop or ClearUp.            *)
(***************************************************************************)
EXTENDS Naturals, Sequences, FiniteSets

CONSTANTS
  Workers,   \* the kThreadNum_ threads of Execute
  Posters,   \* threads that call PostTask; Main may be one of them
  Main,      \* the thread that calls Execute and Stop
  Tasks,     \* the Task objects PostTask allocates
  kMaxSize_, \* MAX_QUEUE_SIZE
  NULL

Threads == Workers \cup Posters \cup {Main}

ASSUME ExecutorAssumption ==
  /\ IsFiniteSet(Workers) /\ Workers # {} /\ IsFiniteSet(Posters)
  /\ Main \notin Workers /\ Posters \cap Workers = {}
  /\ kMaxSize_ \in Nat \ {0}
  /\ NULL \notin Threads \cup Tasks

VARIABLES
  queue_, mtx_, valid_, storing, at, item, freed,   \* the TaskQueue
  running_,
  pc,         \* where each thread is in the functions of Executor
  posted,     \* tasks allocated so far
  ran,        \* history: tasks whose callback has returned
  inTime,     \* history: tasks whose PostTask returned before Stop was called
  late        \* history: workers that went to sleep in Pop after Stop had
              \* already notified the sleepers

queueVars == <<queue_, mtx_, valid_, storing, at, item, freed>>
history == <<ran, inTime, late>>
vars == <<queueVars, running_, pc, posted, history>>

Queue == INSTANCE TaskQueue WITH Items <- Tasks, Clearers <- {}

Goto(t, place) == pc' = [pc EXCEPT ![t] = place]

Init ==
  /\ Queue!QueueInit
  /\ running_ = FALSE
  /\ pc = [t \in Threads |-> IF t \in Workers \cup {Main} THEN "new" ELSE "idle"]
  /\ posted = {}
  /\ ran = {} /\ inTime = {} /\ late = {}

-----------------------------------------------------------------------------
(* Execute *)

Execute ==
  /\ pc[Main] = "new"
  /\ running_' = TRUE
  /\ Goto(Main, "spawn")
  /\ UNCHANGED <<queueVars, posted, history>>

Spawn(w) ==
  /\ pc[Main] = "spawn" /\ pc[w] = "new"
  /\ pc' = [pc EXCEPT ![w] = "test",
                      ![Main] = IF \E u \in Workers \ {w} : pc[u] = "new"
                                THEN "spawn" ELSE "idle"]
  /\ UNCHANGED <<queueVars, running_, posted, history>>

-----------------------------------------------------------------------------
(* Loop *)

Notified == at[Main] = "notifyFull" \/ pc[Main] \in {"stopping", "joining"}

TestRunning(w) ==
  /\ pc[w] = "test"
  /\ \/ running_ /\ Goto(w, "popping") /\ Queue!CallPop(w)
     \/ ~running_ /\ Goto(w, "ended") /\ UNCHANGED queueVars
  /\ UNCHANGED <<running_, posted, history>>

PopTask(w) ==
  /\ pc[w] = "popping"
  /\ Queue!PopStep(w)
  /\ Goto(w, IF at'[w] # "out" THEN "popping"
             ELSE IF item'[w] # NULL THEN "callback" ELSE "test")
  /\ late' = IF at'[w] = "popParked" /\ Notified THEN late \cup {w} ELSE late
  /\ UNCHANGED <<running_, posted, ran, inTime>>

RunCallback(w) ==
  /\ pc[w] = "callback"
  /\ ran' = ran \cup {item[w]}
  /\ Goto(w, "delete")
  /\ UNCHANGED <<queueVars, running_, posted, inTime, late>>

DeleteTask(w) ==
  /\ pc[w] = "delete"
  /\ freed' = freed \cup {item[w]}
  /\ item' = [item EXCEPT ![w] = NULL]
  /\ Goto(w, "test")
  /\ UNCHANGED <<queue_, mtx_, valid_, storing, at, running_, posted, history>>

-----------------------------------------------------------------------------
(* PostTask *)

PostTask(p) ==
  /\ pc[p] = "idle"
  /\ \E x \in Tasks \ posted : Queue!CallPush(p, x) /\ posted' = posted \cup {x}
  /\ Goto(p, "posting")
  /\ UNCHANGED <<running_, history>>

(* The result of Push is ignored: a refused task has no owner any more.    *)
PushTask(p) ==
  /\ pc[p] = "posting"
  /\ Queue!PushStep(p)
  /\ Goto(p, IF at'[p] = "out" THEN "idle" ELSE "posting")
  /\ UNCHANGED <<running_, posted, history>>

-----------------------------------------------------------------------------
(* Stop *)

InFlight == {item[p] : p \in {q \in Posters : pc[q] = "posting"}}

Stop ==
  /\ pc[Main] = "idle"
  /\ Queue!CallClearUp(Main)
  /\ Goto(Main, "clearing")
  /\ inTime' = posted \ InFlight
  /\ UNCHANGED <<running_, posted, ran, late>>

ClearUp ==
  /\ pc[Main] = "clearing"
  /\ Queue!ClearUpStep(Main)
  /\ Goto(Main, IF at'[Main] = "out" THEN "stopping" ELSE "clearing")
  /\ UNCHANGED <<running_, posted, history>>

(* valid_ = false leaves the store buffer before running_ = false.         *)
StopRunning ==
  /\ pc[Main] = "stopping" /\ Main \notin storing
  /\ running_' = FALSE
  /\ Goto(Main, "joining")
  /\ UNCHANGED <<queueVars, posted, history>>

(* Faulty variant of Join: the workers are detached. *)
JoinDetached ==
  /\ pc[Main] = "joining"
  /\ Goto(Main, "stopped")
  /\ UNCHANGED <<queueVars, running_, posted, history>>

Join ==
  /\ pc[Main] = "joining"
  /\ \A w \in Workers : pc[w] = "ended"
  /\ Goto(Main, "stopped")
  /\ UNCHANGED <<queueVars, running_, posted, history>>

-----------------------------------------------------------------------------
(* What happens to a thread rather than being done by it. *)
Drain == Queue!StoreValid(Main) /\ UNCHANGED <<running_, pc, posted, history>>

Wake ==
  /\ \E t \in Threads : Queue!SpuriousWake(t)
  /\ UNCHANGED <<running_, pc, posted, history>>

WorkerStep(w) == TestRunning(w) \/ PopTask(w) \/ RunCallback(w) \/ DeleteTask(w)

Next ==
  \/ Execute \/ Stop \/ ClearUp \/ StopRunning \/ Join
  \/ \E w \in Workers : Spawn(w) \/ WorkerStep(w)
  \/ \E p \in Posters : PostTask(p) \/ PushTask(p)
  \/ Drain \/ Wake

Spec == Init /\ [][Next]_vars

(* The scheduler keeps running every thread that is inside a function of   *)
(* the executor or the queue, and the store buffer drains.  Nobody has to  *)
(* call PostTask or Stop, and spurious wake-ups do not go on for ever.     *)
Fairness ==
  /\ \A w \in Workers : WF_vars(Spawn(w)) /\ WF_vars(WorkerStep(w))
  /\ \A p \in Posters : WF_vars(PushTask(p))
  /\ WF_vars(ClearUp) /\ WF_vars(StopRunning) /\ WF_vars(Join)
  /\ WF_vars(Drain)
  /\ <>[][~Wake]_vars

FairSpec == Spec /\ Fairness

-----------------------------------------------------------------------------
(* Properties *)

TypeOK ==
  /\ Queue!QueueTypeOK
  /\ running_ \in BOOLEAN
  /\ pc \in [Threads -> {"new", "test", "popping", "callback", "delete", "ended",
                         "idle", "posting", "spawn", "clearing", "stopping",
                         "joining", "stopped"}]
  /\ posted \subseteq Tasks
  /\ ran \subseteq posted /\ inTime \subseteq posted /\ late \subseteq Workers

(* Between workers and posters that sleep in front of a full queue no      *)
(* wake-up is lost, whatever Stop does.                                    *)
PostersServed == Queue!PushersServed

(* When Stop returns, every task whose PostTask had returned before Stop   *)
(* was called has been deleted, run or not: Stop leaks nothing of them.    *)
NothingLeaked == pc[Main] = "stopped" => inTime \subseteq freed

Stopping == pc[Main] \in {"clearing", "stopping", "joining", "stopped"}

(* A queued task is run by some worker, unless Stop comes first.           *)
QueuedIsRun ==
  \A x \in Tasks :
    (\E i \in DOMAIN queue_ : queue_[i] = x)
      ~> (x \in ran \/ Stopping \/ pc[Main] = "new")

(* PostTask returns once there are workers, however full the queue is.     *)
PostTaskReturns ==
  \A p \in Posters :
    pc[p] = "posting" ~> (pc[p] = "idle" \/ Stopping \/ pc[Main] = "new")

(* Stop returns: every worker leaves Loop and is joined.                   *)
StopReturns == Stopping ~> pc[Main] = "stopped"

(* The one thing that can keep Stop waiting is a worker that went to sleep *)
(* in Pop after Stop had notified.                                         *)
StopReturnsUnlessLate == Stopping ~> (pc[Main] = "stopped" \/ late # {})

(* The executor keeps the promise of TaskPool.                             *)
Pool == INSTANCE TaskPool WITH
  Parallel <- Cardinality(Workers),
  waiting <- queue_,
  active <- {item[w] : w \in {u \in Workers : pc[u] \in {"callback", "delete"}}},
  finished <- freed \cap ran,
  dropped <- freed \ ran

ImplementsPool == Pool!PoolSpec
=============================================================================
