------------------------------ MODULE SkipList ------------------------------
(***************************************************************************)
(* The skip list of timer/skiplist.h.  GetTrailingZeroNum returns 0 for    *)
(* every number, since n & (0x01 << i) == 0 compares before it masks, so a *)
(* new node gets level 0 only or, when rand() returns 0, the top level.    *)
(* No node is ever linked above level 0, and next is the link at level 0.  *)
(***************************************************************************)
EXTENDS Naturals, Sequences

CONSTANTS
  MaxNodes,    \* bound on the calls of InitNode
  Keys,        \* keys a node may have
  head_,       \* the dummy in front of the list
  NULL,
  max_depth_,  \* levels of the list, 10 by default
  UintRange    \* stands for 2^32, the range of cur_depth_

Nodes == 1 .. MaxNodes

ASSUME SkipListAssumption ==
  /\ MaxNodes \in Nat /\ Keys \subseteq Nat
  /\ head_ \notin Nodes /\ NULL \notin Nodes \cup {head_}
  /\ max_depth_ \in Nat /\ UintRange \in Nat
  /\ 2 < max_depth_ /\ max_depth_ < UintRange - 1

VARIABLES
  next,        \* next[0] of every node
  key,         \* the keys of the nodes allocated so far
  num_,
  cur_depth_,
  crashed      \* the process died of an access to unmapped memory

listVars == <<next, key, num_, cur_depth_, crashed>>

Places == Nodes \cup {head_}

ListInit ==
  /\ next = [p \in Places |-> NULL]
  /\ key = << >>
  /\ num_ = 0
  /\ cur_depth_ = 1
  /\ crashed = FALSE

(* The nodes on the chain that starts at n, which is included: they are in *)
(* every set that has n and, with each node, the next one.                 *)
ChainFrom(n) ==
  {m \in Nodes :
     \A S \in SUBSET Nodes :
       ({n} \ {NULL}) \subseteq S /\ (\A p \in S : next[p] \in S \cup {NULL}) => m \in S}

Listed == ChainFrom(next[head_])

-----------------------------------------------------------------------------
(* Faulty variant of Before: the walk passes equal keys too. *)
BeforeOrEqual(n, k) == n # NULL /\ key[n] <= k

Before(n, k) == n # NULL /\ key[n] < k

(* prev[0] of GetPrevNode: the last place in front of the first key that   *)
(* is not below k.  With no level to search it is the head.                *)
GetPrevNode(k) ==
  LET walk[p \in Places] == IF Before(next[p], k) THEN walk[next[p]] ELSE p
  IN  IF cur_depth_ = 0 THEN head_ ELSE walk[head_]

(* prev[cur_depth_] lies within an array of that length.                   *)
InArray(length) == cur_depth_ < length

(* A node at level 0: it gives a list without levels its level back.       *)
Link(n, k) ==
  LET prev == GetPrevNode(k)
  IN  /\ InArray(max_depth_ + 1)
      /\ key' = Append(key, k)
      /\ next' = [next EXCEPT ![n] = next[prev], ![prev] = n]
      /\ cur_depth_' = IF cur_depth_ = 0 THEN 1 ELSE cur_depth_
      /\ num_' = num_ + 1
      /\ UNCHANGED crashed

(* The array of previous nodes is overrun, or rand() returned 0 and there  *)
(* is no previous node for level max_depth_ - 1.                           *)
LinkCrash ==
  /\ ~InArray(max_depth_ + 1) \/ cur_depth_ < max_depth_ - 1
  /\ crashed' = TRUE
  /\ UNCHANGED <<next, key, num_, cur_depth_>>

(* InitNode and AddNode.                                                   *)
AddNode(k) ==
  /\ ~crashed /\ Len(key) < MaxNodes
  /\ Link(Len(key) + 1, k) \/ LinkCrash

(* Faulty variant of LevelsWhen: the level goes with every search. *)
LevelsWhenSearched(emptied) == IF cur_depth_ > 0 THEN cur_depth_ - 1 ELSE 0

LevelsWhen(emptied) ==
  IF emptied THEN (cur_depth_ + UintRange - 1) % UintRange ELSE cur_depth_

(* A node is taken out when it is the first with its key.  A list without  *)
(* levels is not searched at all.                                          *)
RemoveNode(n) ==
  LET prev == GetPrevNode(key[n])
      found == cur_depth_ > 0 /\ next[prev] = n
  IN  /\ ~crashed /\ InArray(max_depth_ + 1)
      /\ next' = IF found THEN [next EXCEPT ![prev] = next[n], ![n] = NULL] ELSE next
      /\ num_' = IF found THEN num_ - 1 ELSE num_
      /\ cur_depth_' = LevelsWhen(cur_depth_ > 0 /\ next'[head_] = NULL)
      /\ UNCHANGED <<key, crashed>>

-----------------------------------------------------------------------------
(* The list is sorted and counts its nodes, and it has a level exactly if  *)
(* it has a node (or never had one).  cur_depth_ decides where AddNode and *)
(* RemoveNode look, and both change it.                                    *)
Sound ==
  /\ \A n \in Listed : next[n] # NULL => key[n] <= key[next[n]]
  /\ \A m, n \in Places : next[m] = next[n] /\ next[m] # NULL => m = n
  /\ cur_depth_ \in {0, 1} /\ (cur_depth_ = 0 => next[head_] = NULL)
=============================================================================
