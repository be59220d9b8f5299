-------------------------------- MODULE Log --------------------------------
(***************************************************************************)
(* The log of log/log.h: threads that call Print, the log thread that runs *)
(* ThreadFun, and the thread that calls Start and Stop and then, as        *)
(* log/main.cc does, joins the log thread.  Lines travel through a         *)
(* TaskQueue.                                                              *)
(***************************************************************************)
EXTENDS Naturals, Sequences, FiniteSets

CONSTANTS
  Printers,  \* threads that call Print
  Writer,    \* the log thread
  Main,      \* the thread that calls Start and Stop
  Lines,     \* the strings passed to Print
  Muted,     \* those printed at a level below level_
  kMaxSize_, \* 1024 in the code
  NULL

Threads == Printers \cup {Writer, Main}

ASSUME LogAssumption ==
  /\ Writer # Main /\ Printers \cap {Writer, Main} = {}
  /\ Muted \subseteq Lines
  /\ IsFiniteSet(Printers) /\ kMaxSize_ \in Nat \ {0}
  /\ NULL \notin Threads \cup Lines

VARIABLES
  queue_, mtx_, valid_, storing, at, item, freed,   \* the TaskQueue
  running,
  pc,        \* where each thread is in the functions of Log
  printed,   \* lines passed to Print so far
  output,    \* what the log thread has written to file_ or std::cout
  accepted,  \* history: the lines Push has put in the queue, in this order
  late       \* history: the log thread went to sleep after Stop had notified

queueVars == <<queue_, mtx_, valid_, storing, at, item, freed>>
history == <<accepted, late>>
vars == <<queueVars, running, pc, printed, output, history>>

Queue == INSTANCE TaskQueue WITH Items <- Lines, Clearers <- {}

Goto(t, place) == pc' = [pc EXCEPT ![t] = place]

Init ==
  /\ Queue!QueueInit
  /\ running = FALSE
  /\ pc = [t \in Threads |-> IF t \in Printers THEN "idle" ELSE "new"]
  /\ printed = {} /\ output = << >>
  /\ accepted = << >> /\ late = FALSE

Start ==
  /\ pc[Main] = "new"
  /\ running' = TRUE
  /\ pc' = [pc EXCEPT ![Main] = "started", ![Writer] = "test"]
  /\ UNCHANGED <<queueVars, printed, output, history>>

-----------------------------------------------------------------------------
(* Print *)

(* A muted line is dropped; its string stays with nobody. *)
PrintLine(p) ==
  /\ pc[p] = "idle"
  /\ \E line \in Lines \ printed :
       /\ printed' = printed \cup {line}
       /\ \/ line \in Muted /\ UNCHANGED <<queueVars, pc>>
          \/ line \notin Muted /\ Queue!CallPush(p, line) /\ Goto(p, "printing")
  /\ UNCHANGED <<running, output, history>>

PushLine(p) ==
  /\ pc[p] = "printing"
  /\ Queue!PushStep(p)
  /\ Goto(p, IF at'[p] = "out" THEN "idle" ELSE "printing")
  /\ accepted' = IF queue_' # queue_ THEN Append(accepted, item[p]) ELSE accepted
  /\ UNCHANGED <<running, printed, output, late>>

-----------------------------------------------------------------------------
(* ThreadFun *)

TestRunning ==
  /\ pc[Writer] = "test"
  /\ \/ running /\ Goto(Writer, "popping") /\ Queue!CallPop(Writer)
     \/ ~running /\ Goto(Writer, "ended") /\ UNCHANGED queueVars
  /\ UNCHANGED <<running, printed, output, history>>

Notified == at[Main] = "notifyFull" \/ pc[Main] \in {"stopping", "joining"}

PopLine ==
  /\ pc[Writer] = "popping"
  /\ Queue!PopStep(Writer)
  /\ Goto(Writer, IF at'[Writer] # "out" THEN "popping"
                  ELSE IF item'[Writer] # NULL THEN "write" ELSE "test")
  /\ late' = (late \/ (at'[Writer] = "popParked" /\ Notified))
  /\ UNCHANGED <<running, printed, output, accepted>>

(* The string is written and never deleted. *)
WriteLine ==
  /\ pc[Writer] = "write"
  /\ output' = Append(output, item[Writer])
  /\ item' = [item EXCEPT ![Writer] = NULL]
  /\ Goto(Writer, "test")
  /\ UNCHANGED <<queue_, mtx_, valid_, storing, at, freed, running, printed, history>>

-----------------------------------------------------------------------------
(* Stop, and the join that follows it *)

Stop ==
  /\ pc[Main] = "started"
  /\ Queue!CallClearUp(Main)
  /\ Goto(Main, "clearing")
  /\ UNCHANGED <<running, printed, output, history>>

ClearUp ==
  /\ pc[Main] = "clearing"
  /\ Queue!ClearUpStep(Main)
  /\ Goto(Main, IF at'[Main] = "out" THEN "stopping" ELSE "clearing")
  /\ UNCHANGED <<running, printed, output, history>>

(* Faulty variant of StopRunning: the flag stays set. *)
StopRunningForgotten ==
  /\ pc[Main] = "stopping" /\ Main \notin storing
  /\ Goto(Main, "joining")
  /\ UNCHANGED <<queueVars, running, printed, output, history>>

StopRunning ==
  /\ pc[Main] = "stopping" /\ Main \notin storing
  /\ running' = FALSE
  /\ Goto(Main, "joining")
  /\ UNCHANGED <<queueVars, printed, output, history>>

JoinLogThread ==
  /\ pc[Main] = "joining" /\ pc[Writer] = "ended"
  /\ Goto(Main, "joined")
  /\ UNCHANGED <<queueVars, running, printed, output, history>>

-----------------------------------------------------------------------------
(* What happens to a thread rather than being done by it. *)
Drain == Queue!StoreValid(Main) /\ UNCHANGED <<running, pc, printed, output, history>>

Wake ==
  /\ \E t \in Threads : Queue!SpuriousWake(t)
  /\ UNCHANGED <<running, pc, printed, output, history>>

WriterStep == TestRunning \/ PopLine \/ WriteLine

Next ==
  \/ Start \/ Stop \/ ClearUp \/ StopRunning \/ JoinLogThread
  \/ WriterStep
  \/ \E p \in Printers : PrintLine(p) \/ PushLine(p)
  \/ Drain \/ Wake

Spec == Init /\ [][Next]_vars

(* As in Executor: threads inside a function go on, calls are free.        *)
Fairness ==
  /\ WF_vars(WriterStep) /\ \A p \in Printers : WF_vars(PushLine(p))
  /\ WF_vars(ClearUp) /\ WF_vars(StopRunning) /\ WF_vars(JoinLogThread)
  /\ WF_vars(Drain)
  /\ <>[][~Wake]_vars

FairSpec == Spec /\ Fairness

-----------------------------------------------------------------------------
(* Properties *)

TypeOK ==
  /\ Queue!QueueTypeOK
  /\ running \in BOOLEAN /\ late \in BOOLEAN
  /\ pc \in [Threads -> {"new", "idle", "printing", "test", "popping", "write",
                         "ended", "started", "clearing", "stopping", "joining",
                         "joined"}]
  /\ printed \subseteq Lines
  /\ output \in Seq(printed) /\ accepted \in Seq(printed)

(* The lines the queue accepted and Stop did not delete are written in the *)
(* order they were accepted: what is written, what the log thread is about *)
(* to write and what is queued are these lines, always, and the n-th of    *)
(* all these is the n-th that was accepted and kept.                       *)
Kept == {i \in DOMAIN accepted : accepted[i] \notin freed}

Held == IF item[Writer] = NULL THEN << >> ELSE <<item[Writer]>>

WrittenInOrder ==
  LET lines == output \o Held \o queue_
  IN  /\ Len(lines) = Cardinality(Kept)
      /\ \A i \in Kept : lines[Cardinality({j \in Kept : j <= i})] = accepted[i]

Stopping == pc[Main] \in {"clearing", "stopping", "joining", "joined"}

(* A line that was printed loud enough gets written, unless Stop is called *)
(* first or the log was never started.                                     *)
PrintedIsWritten ==
  \A line \in Lines :
    (line \in printed \ Muted)
      ~> ((\E i \in DOMAIN output : output[i] = line) \/ Stopping \/ pc[Main] = "new")

(* After Stop the log thread ends and can be joined, unless it went to     *)
(* sleep after Stop had notified.                                          *)
JoinReturnsUnlessLate == Stopping ~> (pc[Main] = "joined" \/ late)
=============================================================================
