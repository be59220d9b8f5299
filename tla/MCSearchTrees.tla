---------------------------- MODULE MCSearchTrees ----------------------------
(* SearchTrees for TLC: nodes in the order of their numbers, two of them   *)
(* with one key.                                                           *)
EXTENDS SearchTrees

MCKeyOf == [n \in Boxes |-> IF n = 1 THEN 2 ELSE n]
=============================================================================
