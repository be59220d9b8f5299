------------------------------ MODULE KeyTable ------------------------------
(***************************************************************************)
(* What a user of a search tree is promised, with no node in sight: a set  *)
(* of entries, each a key with its data.  Insert adds one, Delete takes    *)
(* one with the key it was asked for or reports that there is none.        *)
(***************************************************************************)
EXTENDS Integers

CONSTANTS
  Keys,
  Data       \* the satellite information of a key

VARIABLES
  stored,
  asked,     \* the key of the last call
  result     \* what that call returned: 0, or -1 for a key not found

tableVars == <<stored, asked, result>>

TableInit == stored = {} /\ asked \in Keys /\ result = 0

Add(key) ==
  /\ \E d \in Data : <<key, d>> \notin stored /\ stored' = stored \cup {<<key, d>>}
  /\ asked' = key /\ result' = 0

Take(key) ==
  /\ \E d \in Data : <<key, d>> \in stored /\ stored' = stored \ {<<key, d>>}
  /\ asked' = key /\ result' = 0

Miss(key) ==
  /\ \A d \in Data : <<key, d>> \notin stored
  /\ asked' = key /\ result' = -1
  /\ UNCHANGED stored

TableNext == \E key \in Keys : Add(key) \/ Take(key) \/ Miss(key)

TableSpec == TableInit /\ [][TableNext]_tableVars
=============================================================================
