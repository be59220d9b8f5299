---------------------------- MODULE MCRingBuffer ----------------------------
(* RingBuffer for TLC: the producers may be exchanged, and the consumers.  *)
EXTENDS RingBuffer, TLC

ThreadSymmetry == Permutations(Producers) \cup Permutations(Consumers)
=============================================================================
