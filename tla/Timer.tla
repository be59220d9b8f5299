------------------------------- MODULE Timer -------------------------------
(***************************************************************************)
(* The timer manager of timer/timer_manager.h: threads that call AddTimer  *)
(* and RunTimerTask on one manager, whose list is a SkipList.  The spin    *)
(* lock makes what AddTimer and RunTimerTask do to the list one step; the  *)
(* clock is read before the lock is taken and the timers are run after it  *)
(* is released.  A callback that adds a timer is one more caller.          *)
(***************************************************************************)
EXTENDS SkipList, FiniteSets

CONSTANTS
  Runners,   \* threads that call RunTimerTask
  Second     \* readings of the clock in a second: it shows tv_nsec alone

ASSUME TimerAssumption ==
  /\ Second \in Nat \ {0} /\ Keys = 0 .. Second - 1
  /\ Runners \cap {head_, NULL} = {}

VARIABLES
  clock,
  status_,    \* status_ of every timer, "none" before it is allocated
  pc, now,    \* per runner: its place in RunTimerTask and the time it read
  cur,        \* per runner: the node at hand of the chain it detached
  freed,
  destroyed   \* ~TimerManager has run

runnerVars == <<pc, now, cur>>
vars == <<listVars, clock, status_, runnerVars, freed, destroyed>>

Init ==
  /\ ListInit
  /\ clock = 0
  /\ status_ = [n \in Nodes |-> "none"]
  /\ pc = [t \in Runners |-> "idle"]
  /\ now = [t \in Runners |-> 0]
  /\ cur = [t \in Runners |-> NULL]
  /\ freed = {}
  /\ destroyed = FALSE

Alive == ~crashed /\ ~destroyed

(* tv_nsec starts again at 0 when a second is over.                        *)
Tick ==
  /\ Alive
  /\ clock' = (clock + 1) % Second
  /\ UNCHANGED <<listVars, status_, runnerVars, freed, destroyed>>

AddTimer(expire) ==
  /\ Alive
  /\ AddNode(expire)
  /\ status_' = IF crashed' THEN status_
                ELSE [status_ EXCEPT ![Len(key')] = "PENDING"]
  /\ UNCHANGED <<clock, runnerVars, freed, destroyed>>

-----------------------------------------------------------------------------
(* RunTimerTask *)

(* Faulty variant of GetCurrentTime: rounded up, without a carry. *)
GetCurrentTimeNext(t) ==
  /\ Alive /\ pc[t] = "idle"
  /\ now' = [now EXCEPT ![t] = clock + 1]
  /\ pc' = [pc EXCEPT ![t] = "detaching"]
  /\ UNCHANGED <<listVars, clock, status_, cur, freed, destroyed>>

GetCurrentTime(t) ==
  /\ Alive /\ pc[t] = "idle"
  /\ now' = [now EXCEPT ![t] = clock]
  /\ pc' = [pc EXCEPT ![t] = "detaching"]
  /\ UNCHANGED <<listVars, clock, status_, cur, freed, destroyed>>

(* now - 1 as a uint64_t: at time 0 it lies above every time.              *)
LastExpired(time) == IF time = 0 THEN Second ELSE time - 1

(* Faulty variant of CutBehind: the expired part still leads to the rest. *)
CutBehindLinked(prev) == [next EXCEPT ![head_] = next[prev]]

(* The part of the list up to prev is cut off.                             *)
CutBehind(prev) == [next EXCEPT ![head_] = next[prev], ![prev] = NULL]

(* Faulty variant of LevelsLeft: level 0 is always given up. *)
LevelsLeftNone(emptied) == UintRange - 1

LevelsLeft(emptied) == IF emptied THEN UintRange - 1 ELSE 0

(* Each level above 0 is found empty and given up; level 0 too if nothing  *)
(* is left in it.  When no node has expired, prev is the head and all of   *)
(* them are detached.                                                      *)
Detach(t) ==
  /\ Alive /\ pc[t] = "detaching"
  /\ InArray(max_depth_)
  /\ next' = CutBehind(GetPrevNode(LastExpired(now[t])))
  /\ cur_depth_' = LevelsLeft(next'[head_] = NULL)
  /\ cur' = [cur EXCEPT ![t] = next[head_]]
  /\ pc' = [pc EXCEPT ![t] = IF next[head_] = NULL THEN "idle" ELSE "walking"]
  /\ UNCHANGED <<key, num_, crashed, clock, status_, now, freed, destroyed>>

DetachCrash(t) ==
  /\ Alive /\ pc[t] = "detaching"
  /\ ~InArray(max_depth_)
  /\ crashed' = TRUE
  /\ UNCHANGED <<next, key, num_, cur_depth_, clock, status_, runnerVars, freed, destroyed>>

RunTask(t) ==
  /\ Alive /\ pc[t] = "walking"
  /\ status_' = [status_ EXCEPT ![cur[t]] = "RUNNING"]
  /\ pc' = [pc EXCEPT ![t] = "callback"]
  /\ UNCHANGED <<listVars, clock, now, cur, freed, destroyed>>

(* Faulty variant of FinishTask: the rest of the chain is forgotten. *)
FinishTaskLast(t) ==
  /\ Alive /\ pc[t] = "callback"
  /\ status_' = [status_ EXCEPT ![cur[t]] = "STOP"]
  /\ freed' = freed \cup {cur[t]}
  /\ cur' = [cur EXCEPT ![t] = NULL]
  /\ pc' = [pc EXCEPT ![t] = "idle"]
  /\ UNCHANGED <<listVars, clock, now, destroyed>>

(* The callback returns; the timer and its node are freed.                 *)
FinishTask(t) ==
  /\ Alive /\ pc[t] = "callback"
  /\ status_' = [status_ EXCEPT ![cur[t]] = "STOP"]
  /\ freed' = freed \cup {cur[t]}
  /\ cur' = [cur EXCEPT ![t] = next[cur[t]]]
  /\ pc' = [pc EXCEPT ![t] = IF cur'[t] = NULL THEN "idle" ELSE "walking"]
  /\ UNCHANGED <<listVars, clock, now, destroyed>>

(* ~SkipList frees the timers that are left.  No call may be running.      *)
Destroy ==
  /\ Alive /\ \A t \in Runners : pc[t] = "idle"
  /\ freed' = freed \cup Listed
  /\ next' = [next EXCEPT ![head_] = NULL]
  /\ destroyed' = TRUE
  /\ UNCHANGED <<key, num_, cur_depth_, crashed, clock, status_, runnerVars>>

-----------------------------------------------------------------------------
RunTimerTask(t) ==
  GetCurrentTime(t) \/ Detach(t) \/ DetachCrash(t) \/ RunTask(t) \/ FinishTask(t)

Next ==
  \/ Tick \/ Destroy
  \/ \E expire \in Keys : AddTimer(expire)
  \/ \E t \in Runners : RunTimerTask(t)

Spec == Init /\ [][Next]_vars

(* A thread inside RunTimerTask keeps running, and callbacks return.       *)
(* Nobody has to call AddTimer or RunTimerTask.                            *)
Fairness ==
  \A t \in Runners :
    /\ WF_vars(Detach(t)) /\ WF_vars(DetachCrash(t))
    /\ WF_vars(RunTask(t)) /\ WF_vars(FinishTask(t))

FairSpec == Spec /\ Fairness

-----------------------------------------------------------------------------
(* Properties *)

TypeOK ==
  /\ next \in [Places -> Nodes \cup {NULL}]
  /\ \A n \in DOMAIN key : key[n] \in Keys
  /\ num_ \in 0 .. MaxNodes /\ cur_depth_ \in 0 .. UintRange - 1
  /\ clock \in Keys /\ now \in [Runners -> Keys]
  /\ status_ \in [Nodes -> {"none", "PENDING", "RUNNING", "STOP"}]
  /\ pc \in [Runners -> {"idle", "detaching", "walking", "callback"}]
  /\ cur \in [Runners -> Nodes \cup {NULL}] /\ freed \subseteq Nodes

Owners(n) ==
  {t \in Runners : n \in ChainFrom(cur[t])}
    \cup {head_ : x \in {n} \cap Listed} \cup {NULL : x \in {n} \cap freed}

(* A timer that was added is in the list, in the chain of one thread that  *)
(* is running it or is about to, or freed, and never in two of these:      *)
(* however calls of RunTimerTask overlap with each other and with          *)
(* AddTimer, none runs twice, none is used once freed, none is lost.       *)
OneOwner ==
  \A n \in Nodes : status_[n] # "none" => Cardinality(Owners(n)) = 1

Sorted == \A n \in Listed : next[n] # NULL => key[n] <= key[next[n]]

(* While timers wait, the list has at most one level and the next call of  *)
(* the manager stays within its arrays.  (Once RunTimerTask has emptied    *)
(* the list, cur_depth_ has run below 0 and the next call does not.)       *)
WaitingListUsable == Listed # {} => cur_depth_ \in {0, 1}

(* From a sorted list with a level, RunTimerTask takes the timers below    *)
(* its reading of the clock and leaves the others, if there is one to      *)
(* take.                                                                   *)
TakesTheExpired ==
  [][\A t \in Runners :
       /\ pc[t] = "detaching" /\ pc'[t] # "detaching"
       /\ cur_depth_ = 1 /\ Sorted
       /\ \E n \in Listed : key[n] < LastExpired(now[t])
       => Listed' = {n \in Listed : key[n] >= LastExpired(now[t])}]_vars

(* Every timer that RunTimerTask detached is run to its end, unless the    *)
(* process dies in another call.                                           *)
DetachedIsRun ==
  \A n \in Nodes :
    (\E t \in Runners : n \in ChainFrom(cur[t])) ~> (status_[n] = "STOP" \/ crashed)

(* "Timer for run task on time" (timer/main.cc:4): a callback is not run   *)
(* before the time it was added for.  (Calls made at reading 0, whose       *)
(* now - 1 lies above every time, are left aside.)                         *)
OnTime ==
  \A t \in Runners : pc[t] = "callback" /\ now[t] > 0 => key[cur[t]] <= now[t]
=============================================================================
