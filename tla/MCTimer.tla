------------------------------ MODULE MCTimer ------------------------------
(* The two uses of timer/main.cc: a skip list of its own (case 1), whose   *)
(* nodes have different keys, or a timer manager (case 2).                 *)
EXTENDS Timer

VARIABLE case
mcVars == <<vars, case>>

MCInit == Init /\ case \in {1, 2}

AddNew(k) == k \notin {key[n] : n \in DOMAIN key} /\ AddNode(k)

ListNext ==
  /\ (\E k \in Keys : AddNew(k)) \/ (\E n \in DOMAIN key : RemoveNode(n))
  /\ UNCHANGED <<clock, status_, runnerVars, freed, destroyed>>

MCNext ==
  /\ \/ case = 1 /\ ListNext
     \/ case = 2 /\ Next
  /\ UNCHANGED case

MCSpec == MCInit /\ [][MCNext]_mcVars /\ Fairness

(* With AddNode and RemoveNode alone the list stays sorted and linked, and *)
(* has a level whenever it has nodes.                                      *)
ListSound == case = 1 => Sound
=============================================================================
