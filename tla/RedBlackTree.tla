---------------------------- MODULE RedBlackTree ----------------------------
(***************************************************************************)
(* The red-black tree of redblacktree/redblack_tree.cc.  The links of all  *)
(* nodes are one record, so that a call's assignments can follow each      *)
(* other.  Insert and Delete link or unlink a node in one step; each turn  *)
(* of the loops of InsertFixup and DeleteFixup is a step of its own, which *)
(* lets the invariants say what the loops rely on.  The two halves of the  *)
(* code that are mirror images are one definition with a side.             *)
(***************************************************************************)
EXTENDS Integers, Sequences, FiniteSets

CONSTANTS
  Nodes,     \* bound: the nodes callers create
  key,       \* the key of each node, an integer
  NULL,      \* no node
  Nil        \* the node of colour -1 that Delete creates for a missing child

VARIABLES
  tree,      \* root, and child, parent and color of every node
  call,      \* the loop that is running: "none", "InsertFixup" or "DeleteFixup"
  node,      \* the argument of the loop
  index,     \* where the loop is (cur in InsertFixup)
  asked,     \* the node of the last call
  result     \* what that call returns

vars == <<tree, call, node, index, asked, result>>

Red == 0
Black == 1
NilColor == -1
Other(side) == IF side = "left" THEN "right" ELSE "left"
NoChildren == [left |-> NULL, right |-> NULL]

Init ==
  /\ tree = [root |-> NULL, child |-> [n \in Nodes \cup {Nil} |-> NoChildren],
             parent |-> [n \in Nodes \cup {Nil} |-> NULL],
             color |-> [n \in Nodes \cup {Nil} |-> IF n = Nil THEN NilColor ELSE Red]]
  /\ call = "none" /\ node = NULL /\ index = NULL
  /\ asked \in Nodes /\ result = 0

-----------------------------------------------------------------------------
(* Links *)

SideOf(t, n) == IF t.child[t.parent[n]].left = n THEN "left" ELSE "right"

SetParent(t, n, p) == IF n = NULL THEN t ELSE [t EXCEPT !.parent[n] = p]

Transplant(t, replacer, replaced) ==
  LET p == t.parent[replaced]
  IN  SetParent(IF p = NULL THEN [t EXCEPT !.root = replacer]
                ELSE [t EXCEPT !.child[p][SideOf(t, replaced)] = replacer],
                replacer, p)

(* LeftRotate moves n down to the left, RightRotate to the right. *)
Rotate(t, side, n) ==
  LET up == t.child[n][Other(side)]
      inner == t.child[up][side]
  IN  IF up = NULL THEN t
      ELSE SetParent([Transplant(t, up, n) EXCEPT
                        !.child[n][Other(side)] = inner,
                        !.child[up][side] = n, !.parent[n] = up],
                     inner, n)

Minimum(t, n) ==
  LET min[m \in Nodes] == IF t.child[m].left = NULL THEN m ELSE min[t.child[m].left]
  IN  min[n]

PaintBlack(t, n) == IF n = NULL THEN t ELSE [t EXCEPT !.color[n] = Black]

-----------------------------------------------------------------------------
(* Insert: equal keys go to the left. *)

SideFor(n, m) == IF key[n] > key[m] THEN "right" ELSE "left"

(* The node that n is put below. *)
PlaceFor(t, n) ==
  LET place[m \in Nodes] == IF t.child[m][SideFor(n, m)] = NULL THEN m
                            ELSE place[t.child[m][SideFor(n, m)]]
  IN  IF t.root = NULL THEN NULL ELSE place[t.root]

Attach(t, n, p) ==
  LET fresh == [t EXCEPT !.parent[n] = p, !.child[n] = NoChildren, !.color[n] = Red]
  IN  IF p = NULL THEN [fresh EXCEPT !.root = n]
      ELSE [fresh EXCEPT !.child[p][SideFor(n, p)] = n]

Insert(n) ==
  /\ call = "none"
  /\ tree' = Attach(tree, n, PlaceFor(tree, n))
  /\ call' = "InsertFixup" /\ node' = n /\ index' = n
  /\ asked' = n /\ result' = 0

Parent == tree.parent[index]
Grandparent == tree.parent[Parent]
Uncle == tree.child[Grandparent][Other(SideOf(tree, Parent))]

RedUncle == Uncle # NULL /\ tree.color[Uncle] = Red

RedParent ==
  /\ call = "InsertFixup"
  /\ Parent # NULL /\ Grandparent # NULL /\ tree.color[Parent] = Red

(* Case 1 of InsertFixup. *)
RecolorUncle ==
  /\ RedParent /\ RedUncle
  /\ tree' = [tree EXCEPT !.color[Parent] = Black, !.color[Uncle] = Black,
                          !.color[Grandparent] = Red]
  /\ index' = Grandparent
  /\ UNCHANGED <<call, node, asked, result>>

(* Case 3 at the node n on the outer side. *)
RaiseParent(t, side, n) ==
  LET p == t.parent[n]
  IN  Rotate([t EXCEPT !.color[p] = Black, !.color[t.parent[p]] = Red],
             Other(side), t.parent[p])

(* Case 3, after case 2 if the node is on the inner side. *)
RotateGrandparent ==
  LET side == SideOf(tree, Parent)
  IN  /\ RedParent /\ ~RedUncle
      /\ \/ /\ SideOf(tree, index) = side
            /\ index' = index
            /\ tree' = RaiseParent(tree, side, index)
         \/ /\ SideOf(tree, index) # side
            /\ index' = Parent
            /\ tree' = RaiseParent(Rotate(tree, side, Parent), side, Parent)
      /\ UNCHANGED <<call, node, asked, result>>

Return == call' = "none" /\ node' = NULL /\ index' = NULL /\ UNCHANGED <<asked, result>>

InsertReturns ==
  /\ call = "InsertFixup" /\ ~RedParent
  /\ tree' = PaintBlack(tree, tree.root)
  /\ Return

-----------------------------------------------------------------------------
(* Delete *)

BothChildren(t, n) == t.child[n].left # NULL /\ t.child[n].right # NULL

Successor(t, n) == IF BothChildren(t, n) THEN Minimum(t, t.child[n].right) ELSE n

(* Faulty variant of OriginalColor: the colour of the node that is deleted. *)
OriginalColorOfNode(t, n) == t.color[n]

(* The colour that leaves its place: with two children, the successor's. *)
OriginalColor(t, n) == t.color[Successor(t, n)]

(* The node that moves up into the gap; Nil stands in for a missing one if *)
(* a black node leaves.                                                    *)
Riser(t, n) ==
  LET m == Successor(t, n)
      child == IF t.child[m].left = NULL THEN t.child[m].right ELSE t.child[m].left
  IN  IF child = NULL /\ OriginalColor(t, n) = Black THEN Nil ELSE child

(* The tree with the successor freed for the place of n.  When it is a     *)
(* child of n already, a Nil below it gets its parent but is nobody's      *)
(* child.                                                                  *)
FreeSuccessor(t, n) ==
  LET m == Successor(t, n)
      right == t.child[n].right
  IN  IF t.parent[m] = n THEN SetParent(t, Riser(t, n), m)
      ELSE SetParent([Transplant(t, Riser(t, n), m) EXCEPT !.child[m].right = right], right, m)

Detach(t, n) ==
  LET m == Successor(t, n)
      left == t.child[n].left
      gone == IF BothChildren(t, n)
              THEN SetParent([Transplant(FreeSuccessor(t, n), m, n) EXCEPT
                                !.child[m].left = left, !.color[m] = t.color[n]], left, m)
              ELSE Transplant(t, Riser(t, n), n)
  IN  [gone EXCEPT !.parent[n] = NULL, !.child[n] = NoChildren, !.color[n] = NilColor]

Delete(n) ==
  /\ call = "none" /\ tree.root # NULL /\ tree.color[n] # NilColor
  /\ tree' = Detach(tree, n)
  /\ IF OriginalColor(tree, n) = Black
     THEN call' = "DeleteFixup" /\ node' = Riser(tree, n) /\ index' = Riser(tree, n)
     ELSE UNCHANGED <<call, node, index>>
  /\ asked' = n /\ result' = 0

DeleteRefused(n) ==
  /\ call = "none" /\ (tree.root # NULL => tree.color[n] = NilColor)
  /\ asked' = n /\ result' = -1
  /\ UNCHANGED <<tree, call, node, index>>

Brother == tree.child[Parent][Other(SideOf(tree, index))]
Outer == tree.child[Brother][Other(SideOf(tree, index))]
Inner == tree.child[Brother][SideOf(tree, index)]

(* The loop goes on: a black too many is at a node that cannot hold it. *)
ExtraBlack ==
  /\ call = "DeleteFixup"
  /\ index # tree.root /\ tree.color[index] \in {Black, NilColor}

BlackOrNull(n) == n # NULL => tree.color[n] = Black

(* Case 1 of DeleteFixup. *)
RotateRedBrother ==
  /\ ExtraBlack /\ tree.color[Brother] = Red
  /\ tree' = Rotate([tree EXCEPT !.color[Brother] = Black, !.color[Parent] = Red],
                    SideOf(tree, index), Parent)
  /\ UNCHANGED <<call, node, index, asked, result>>

(* Case 2. *)
RecolorBrother ==
  /\ ExtraBlack /\ tree.color[Brother] # Red
  /\ BlackOrNull(Inner) /\ BlackOrNull(Outer)
  /\ tree' = [tree EXCEPT !.color[Brother] = Red]
  /\ index' = Parent
  /\ UNCHANGED <<call, node, asked, result>>

(* Case 3, which brings the inner nephew to the brother's place. *)
RaiseInner(t) ==
  Rotate(PaintBlack([t EXCEPT !.color[Brother] = Red], Inner),
         Other(SideOf(t, index)), Brother)

(* Case 4, with the brother that case 3 may have left. *)
RaiseBrother(t) ==
  LET side == SideOf(tree, index)
      brother == t.child[Parent][Other(side)]
      painted == PaintBlack([t EXCEPT !.color[brother] = t.color[Parent], !.color[Parent] = Black],
                            t.child[brother][Other(side)])
  IN  Rotate(painted, side, Parent)

(* Faulty variant of Settle: Nil stays below its parent. *)
SettleWithNil(t) == PaintBlack(t, index)

(* What follows the loop: Nil is taken out of the tree again. *)
Settle(t) ==
  LET p == t.parent[Nil]
      cut == IF p = NULL THEN [t EXCEPT !.root = NULL]
             ELSE [t EXCEPT !.child[p][SideOf(t, Nil)] = NULL, !.parent[Nil] = NULL]
  IN  IF node # Nil THEN PaintBlack(t, index)
      ELSE IF index = Nil THEN cut ELSE PaintBlack(cut, index)

LastRotation ==
  /\ ExtraBlack /\ tree.color[Brother] # Red
  /\ \/ BlackOrNull(Outer) /\ ~BlackOrNull(Inner) /\ tree' = Settle(RaiseBrother(RaiseInner(tree)))
     \/ ~BlackOrNull(Outer) /\ tree' = Settle(RaiseBrother(tree))
  /\ Return

DeleteReturns ==
  /\ call = "DeleteFixup" /\ ~ExtraBlack
  /\ tree' = Settle(tree)
  /\ Return

-----------------------------------------------------------------------------
InorderTraverse(t) ==
  LET below[m \in Nodes \cup {Nil, NULL}] ==
        IF m = NULL THEN << >>
        ELSE below[t.child[m].left] \o <<m>> \o below[t.child[m].right]
  IN  below[t.root]

InTree == {InorderTraverse(tree)[i] : i \in DOMAIN InorderTraverse(tree)}

(* Callers insert a node that is not in the tree, and delete one that they *)
(* inserted before.                                                        *)
Next ==
  \/ \E n \in Nodes \ InTree : Insert(n) \/ DeleteRefused(n)
  \/ \E n \in Nodes \cap InTree : Delete(n)
  \/ RecolorUncle \/ RotateGrandparent \/ InsertReturns
  \/ RotateRedBrother \/ RecolorBrother \/ LastRotation \/ DeleteReturns

Spec == Init /\ [][Next]_vars

-----------------------------------------------------------------------------
(* Properties *)

(* Between calls, no Nil is left anywhere in the tree. *)
TypeOK ==
  /\ tree.root \in Nodes \cup {NULL, Nil}
  /\ tree.child \in [Nodes \cup {Nil} -> [{"left", "right"} -> Nodes \cup {NULL, Nil}]]
  /\ tree.parent \in [Nodes \cup {Nil} -> Nodes \cup {NULL}]
  /\ tree.color \in [Nodes \cup {Nil} -> {Red, Black, NilColor}]
  /\ call \in {"none", "InsertFixup", "DeleteFixup"}
  /\ {node, index} \subseteq Nodes \cup {NULL, Nil}
  /\ asked \in Nodes /\ result \in {0, -1}
  /\ call = "none" => Nil \notin InTree /\ {node, index} = {NULL}

(* Before and after every turn of the loops, the nodes are in the order of *)
(* their keys and the parent links agree with the child links.             *)
InOrder ==
  LET all == InorderTraverse(tree)
      real == SelectSeq(all, LAMBDA n : n # Nil)
  IN  /\ \A i, j \in DOMAIN real : i < j => key[real[i]] <= key[real[j]]
      /\ \A n \in InTree : tree.parent[n] = NULL <=> tree.root = n
      /\ \A n \in InTree, side \in {"left", "right"} :
           LET c == tree.child[n][side] IN c # NULL => tree.parent[c] = n

(* Nil counts as a child of its parent even where no link leads to it. *)
ChildOf(m, side) ==
  IF node = Nil /\ tree.parent[Nil] = m /\ side = SideOf(tree, Nil) THEN Nil
  ELSE tree.child[m][side]

(* The numbers of blacks on the ways down from the root; the index of      *)
(* DeleteFixup stands for one black more than its colour says.             *)
BlackHeights ==
  LET extra(m) == IF call = "DeleteFixup" /\ m = index THEN 1 ELSE 0
      weight(m) == extra(m) + IF tree.color[m] = Black THEN 1 ELSE 0
      heights[m \in Nodes \cup {Nil, NULL}] ==
        IF m = NULL THEN {0}
        ELSE {weight(m) + h : h \in heights[ChildOf(m, "left")] \cup heights[ChildOf(m, "right")]}
  IN  heights[tree.root]

(* Between calls this is the promise of a red-black tree: a black root, no *)
(* red node below a red one, and as many blacks on every way down.  While  *)
(* a loop runs, only its index may break the promise: a red node below a   *)
(* red one in InsertFixup, and in DeleteFixup also a red one above it.     *)
RedBlack ==
  /\ Cardinality(BlackHeights) = 1
  /\ \A n \in InTree :
       /\ tree.color[n] = Red
       /\ call # "none" => index # n
       /\ call = "DeleteFixup" => index # tree.parent[n]
       =>
         tree.parent[n] # NULL /\ tree.color[tree.parent[n]] = Black

(* The entries of the tree, as KeyTable has them. *)
Stored == {<<n, 0>> : n \in Nodes \cap InTree}
=============================================================================
