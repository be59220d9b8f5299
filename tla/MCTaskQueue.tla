----------------------------- MODULE MCTaskQueue -----------------------------
(* TaskQueue for TLC: threads of a kind may be exchanged, and items.       *)
EXTENDS TaskQueue, TLC

QueueSymmetry ==
  Permutations(Threads \ Clearers) \cup Permutations(Clearers) \cup Permutations(Items)
=============================================================================
