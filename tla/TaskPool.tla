------------------------------ MODULE TaskPool ------------------------------
(***************************************************************************)
(* What whoever posts tasks to threadpool/executor.h is promised, without  *)
(* mutex, condition variable or worker loop: accepted tasks are started in *)
(* the order they were accepted, each at most once; a started task is      *)
(* finished and then gone; the tasks nobody has started may be dropped,    *)
(* all together, and a dropped task never runs.                            *)
(***************************************************************************)
EXTENDS Naturals, Sequences, FiniteSets

CONSTANTS
  Tasks,
  Parallel   \* how many tasks run at the same time

VARIABLES
  waiting,   \* accepted and not started, oldest first
  active,    \* started and not finished
  finished,
  dropped

poolVars == <<waiting, active, finished, dropped>>

PoolInit ==
  /\ waiting = << >>
  /\ active = {} /\ finished = {} /\ dropped = {}

Known == {waiting[i] : i \in DOMAIN waiting} \cup active \cup finished \cup dropped

Accept ==
  /\ \E x \in Tasks \ Known : waiting' = Append(waiting, x)
  /\ UNCHANGED <<active, finished, dropped>>

StartOldest ==
  /\ waiting # << >> /\ Cardinality(active) < Parallel
  /\ active' = active \cup {Head(waiting)}
  /\ waiting' = Tail(waiting)
  /\ UNCHANGED <<finished, dropped>>

Finish ==
  /\ \E x \in active : active' = active \ {x} /\ finished' = finished \cup {x}
  /\ UNCHANGED <<waiting, dropped>>

DropWaiting ==
  /\ dropped' = dropped \cup {waiting[i] : i \in DOMAIN waiting}
  /\ waiting' = << >>
  /\ UNCHANGED <<active, finished>>

PoolNext == Accept \/ StartOldest \/ Finish \/ DropWaiting

PoolSpec == PoolInit /\ [][PoolNext]_poolVars
=============================================================================
