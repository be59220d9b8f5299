------------------------------- MODULE BTree -------------------------------
(***************************************************************************)
(* The B-tree of btree/b_tree.cc.  No two nodes share a child and only one *)
(* thread uses a tree, so a node is a value: its entries in order, and its *)
(* children, none for a leaf.  Each call of Insert or Delete is one step;  *)
(* the loop that descends from the root is a recursion that gives back the *)
(* subtree the code leaves behind.                                         *)
(***************************************************************************)
EXTENDS Integers, Sequences, FiniteSets, SequencesExt, FiniteSetsExt

CONSTANTS
  degree_,
  Keys,      \* bound: the keys callers use
  Data       \* bound: the data they pass with a key

ASSUME BTreeAssumption == degree_ \in Nat /\ degree_ >= 2 /\ Keys \subseteq Int

VARIABLES
  root_,
  asked,     \* the key of the last call
  result     \* what that call returned

vars == <<root_, asked, result>>

Entries == Keys \X Data
KeyOf(e) == e[1]
EmptyLeaf == [keys |-> << >>, children |-> << >>]
Leaf(n) == n.children = << >>
MaxNode == 2 * degree_ - 1

Init == root_ = EmptyLeaf /\ asked \in Keys /\ result = 0

-----------------------------------------------------------------------------
(* Searching *)

(* Where the scan of a node stops: at the first key that is not smaller. *)
Place(n, key) ==
  Min({i \in DOMAIN n.keys : KeyOf(n.keys[i]) >= key} \cup {Len(n.keys) + 1})

Holds(n, key) ==
  Place(n, key) <= Len(n.keys) /\ KeyOf(n.keys[Place(n, key)]) = key

RECURSIVE Search(_, _)
Search(n, key) ==
  \/ Holds(n, key)
  \/ ~Leaf(n) /\ Search(n.children[Place(n, key)], key)

(* Faulty variant of Maximum: no descent. *)
MaximumHere(n) == Last(n.keys)

RECURSIVE Maximum(_)
Maximum(n) == IF Leaf(n) THEN Last(n.keys) ELSE Maximum(Last(n.children))

RECURSIVE Minimum(_)
Minimum(n) == IF Leaf(n) THEN Head(n.keys) ELSE Minimum(Head(n.children))

(* The stack of InorderPredecessor serves one purpose: to find the deepest *)
(* ancestor with an entry before the path, which is `before' here.         *)
RECURSIVE InorderPredecessor(_, _, _)
InorderPredecessor(n, key, before) ==
  LET i == Place(n, key)
      nearest == IF i > 1 THEN <<n.keys[i - 1]>> ELSE before
  IN  CASE Holds(n, key) /\ Leaf(n)   -> nearest
        [] Holds(n, key) /\ ~Leaf(n)  -> <<Maximum(n.children[i])>>
        [] ~Holds(n, key) /\ Leaf(n)  -> << >>
        [] ~Holds(n, key) /\ ~Leaf(n) -> InorderPredecessor(n.children[i], key, nearest)

RECURSIVE InorderSuccessor(_, _, _)
InorderSuccessor(n, key, after) ==
  LET i == Place(n, key)
      nearest(j) == IF j <= Len(n.keys) THEN <<n.keys[j]>> ELSE after
  IN  CASE Holds(n, key) /\ Leaf(n)   -> nearest(i + 1)
        [] Holds(n, key) /\ ~Leaf(n)  -> <<Minimum(n.children[i + 1])>>
        [] ~Holds(n, key) /\ Leaf(n)  -> << >>
        [] ~Holds(n, key) /\ ~Leaf(n) -> InorderSuccessor(n.children[i], key, nearest(i))

RECURSIVE InorderTraverse(_)
InorderTraverse(n) ==
  IF Leaf(n) THEN n.keys
  ELSE FlattenSeq([i \in 1..Len(n.keys) |->
                     Append(InorderTraverse(n.children[i]), n.keys[i])])
         \o InorderTraverse(Last(n.children))

-----------------------------------------------------------------------------
(* Insert *)

(* The entries first..last of a full node, with the children around them. *)
Part(n, first, last) ==
  [keys |-> SubSeq(n.keys, first, last),
   children |-> IF Leaf(n) THEN << >> ELSE SubSeq(n.children, first, last + 1)]

(* Faulty variant of SplitChild: the middle entry also stays on the left. *)
SplitChildKeepsMiddle(n, i) ==
  LET full == n.children[i]
  IN  [keys |-> InsertAt(n.keys, i, full.keys[degree_]),
       children |-> InsertAt(ReplaceAt(n.children, i, Part(full, 1, degree_)),
                             i + 1, Part(full, degree_ + 1, MaxNode))]

SplitChild(n, i) ==
  LET full == n.children[i]
  IN  [keys |-> InsertAt(n.keys, i, full.keys[degree_]),
       children |-> InsertAt(ReplaceAt(n.children, i, Part(full, 1, degree_ - 1)),
                             i + 1, Part(full, degree_ + 1, MaxNode))]

RECURSIVE InsertBelow(_, _)
InsertBelow(n, e) ==
  LET i == Place(n, KeyOf(e))
      split == SplitChild(n, i)
      side == IF KeyOf(e) > KeyOf(split.keys[i]) THEN i + 1 ELSE i
  IN  CASE Leaf(n) -> [n EXCEPT !.keys = InsertAt(@, i, e)]
        [] ~Leaf(n) /\ Len(n.children[i].keys) < MaxNode ->
             [n EXCEPT !.children[i] = InsertBelow(@, e)]
        [] OTHER -> [split EXCEPT !.children[side] = InsertBelow(@, e)]

Insert(e) ==
  /\ root_' = InsertBelow(IF Len(root_.keys) = MaxNode
                          THEN SplitChild([keys |-> << >>, children |-> <<root_>>], 1)
                          ELSE root_, e)
  /\ asked' = KeyOf(e) /\ result' = 0

-----------------------------------------------------------------------------
(* Delete *)

(* Faulty variant of Rich: a child with just degree_ - 1 entries is robbed. *)
RichEnough(n) == Len(n.keys) >= degree_ - 1

(* A child that can spare an entry. *)
Rich(n) == Len(n.keys) > degree_ - 1

(* Cases 2c and 3b: entry i and child i + 1 are moved into child i. *)
Merge(n, i) ==
  LET left == n.children[i]
      right == n.children[i + 1]
  IN  [keys |-> RemoveAt(n.keys, i),
       children |-> RemoveAt(ReplaceAt(n.children, i,
                      [keys |-> left.keys \o <<n.keys[i]>> \o right.keys,
                       children |-> left.children \o right.children]), i + 1)]

(* Case 3a: child i takes an entry from its left or its right neighbour.   *)
BorrowLeft(n, i) ==
  LET donor == n.children[i - 1]
      child == n.children[i]
  IN  [keys |-> ReplaceAt(n.keys, i - 1, Last(donor.keys)),
       children |-> [n.children EXCEPT
         ![i - 1] = [keys |-> Front(donor.keys),
                     children |-> IF Leaf(child) THEN << >> ELSE Front(donor.children)],
         ![i] = [keys |-> <<n.keys[i - 1]>> \o child.keys,
                 children |-> IF Leaf(child) THEN << >>
                              ELSE <<Last(donor.children)>> \o child.children]]]

BorrowRight(n, i) ==
  LET donor == n.children[i + 1]
      child == n.children[i]
  IN  [keys |-> ReplaceAt(n.keys, i, Head(donor.keys)),
       children |-> [n.children EXCEPT
         ![i + 1] = [keys |-> Tail(donor.keys),
                     children |-> IF Leaf(child) THEN << >> ELSE Tail(donor.children)],
         ![i] = [keys |-> Append(child.keys, n.keys[i]),
                 children |-> IF Leaf(child) THEN << >>
                              ELSE Append(child.children, Head(donor.children))]]]

(* The node after the step that makes sure the child on the way to `key'   *)
(* can spare an entry, and the place of that child.                        *)
Refill(n, i) ==
  CASE Rich(n.children[i]) -> <<n, i>>
    [] ~Rich(n.children[i]) /\ i > 1 /\ Rich(n.children[i - 1]) -> <<BorrowLeft(n, i), i>>
    [] OTHER ->
         IF i <= Len(n.keys) /\ Rich(n.children[i + 1]) THEN <<BorrowRight(n, i), i>>
         ELSE IF i = 1 THEN <<Merge(n, 1), 1>> ELSE <<Merge(n, i - 1), i - 1>>

(* The subtree without the entry, and the value Delete returns. *)
RECURSIVE DeleteBelow(_, _)
DeleteBelow(n, key) ==
  LET i == Place(n, key)
      Into(m, j, k) ==
        LET below == DeleteBelow(m.children[j], k)
        IN  [below EXCEPT !.node = [m EXCEPT !.children[j] = below.node]]
      Replace(e, j) == Into([n EXCEPT !.keys[i] = e], j, KeyOf(e))
      refilled == Refill(n, i)
  IN  IF Holds(n, key) THEN
        CASE Leaf(n) ->                                                \* case 1
               [node |-> [n EXCEPT !.keys = RemoveAt(@, i)], result |-> 0]
          [] ~Leaf(n) /\ Rich(n.children[i]) ->                        \* case 2a
               Replace(Maximum(n.children[i]), i)
          [] ~Leaf(n) /\ ~Rich(n.children[i]) /\ Rich(n.children[i + 1]) ->
               Replace(Minimum(n.children[i + 1]), i + 1)              \* case 2b
          [] OTHER -> Into(Merge(n, i), i, key)                        \* case 2c
      ELSE IF Leaf(n) THEN [node |-> n, result |-> -1]
           ELSE Into(refilled[1], refilled[2], key)

(* A root whose last two children were merged is deleted. *)
Shrink(n) == IF n.keys = << >> /\ ~Leaf(n) THEN Head(n.children) ELSE n

Delete(key) ==
  /\ root_' = Shrink(DeleteBelow(root_, key).node)
  /\ asked' = key /\ result' = DeleteBelow(root_, key).result

-----------------------------------------------------------------------------
Stored == {InorderTraverse(root_)[i] : i \in DOMAIN InorderTraverse(root_)}

Next ==
  \/ \E e \in Entries \ Stored : Insert(e)
  \/ \E key \in Keys : Delete(key)

Spec == Init /\ [][Next]_vars

-----------------------------------------------------------------------------
(* Properties *)

RECURSIVE Subtrees(_)
Subtrees(n) == {n} \cup UNION {Subtrees(n.children[i]) : i \in DOMAIN n.children}

RECURSIVE Depths(_)
Depths(n) ==
  IF Leaf(n) THEN {0}
  ELSE UNION {{d + 1 : d \in Depths(n.children[i])} : i \in DOMAIN n.children}

(* Every node holds entries, a leaf without children, an inner node with   *)
(* one child more than it has entries.                                     *)
TypeOK ==
  /\ \A n \in Subtrees(root_) :
       n.keys \in Seq(Entries) /\ (Leaf(n) \/ Len(n.children) = Len(n.keys) + 1)
  /\ asked \in Keys /\ result \in {0, -1}

(* However entries were moved between nodes, all leaves are equally deep   *)
(* and every node but the root is at least half full and not over-full.    *)
Balanced ==
  /\ Cardinality(Depths(root_)) = 1
  /\ Len(root_.keys) <= MaxNode /\ (root_.keys = << >> => Leaf(root_))
  /\ \A n \in Subtrees(root_) \ {root_} : Len(n.keys) \in (degree_ - 1)..MaxNode

(* The entries of the whole tree are in the order of their keys, so        *)
(* searches find what is there and only that.                              *)
SearchOrder ==
  LET all == InorderTraverse(root_)
  IN  /\ \A i, j \in DOMAIN all : i < j => KeyOf(all[i]) <= KeyOf(all[j])
      /\ \A key \in Keys : Search(root_, key) <=> \E e \in Stored : KeyOf(e) = key

(* The neighbours of a key are the nearest keys stored, whatever nodes     *)
(* they are in.                                                            *)
NeighboursNearest ==
  \A e \in Stored :
    LET smaller == {KeyOf(f) : f \in {g \in Stored : KeyOf(g) < KeyOf(e)}}
        larger == {KeyOf(f) : f \in {g \in Stored : KeyOf(g) > KeyOf(e)}}
        before == InorderPredecessor(root_, KeyOf(e), << >>)
        after == InorderSuccessor(root_, KeyOf(e), << >>)
    IN  /\ IF smaller = {} THEN before = << >> ELSE KeyOf(before[1]) = Max(smaller)
        /\ IF larger = {} THEN after = << >> ELSE KeyOf(after[1]) = Min(larger)
=============================================================================
