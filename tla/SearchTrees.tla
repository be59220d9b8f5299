----------------------------- MODULE SearchTrees -----------------------------
(***************************************************************************)
(* The three search trees side by side.  A program uses one of them        *)
(* (btree/main.cc, and the two halves of redblacktree/main.cc), and each   *)
(* keeps the promise of KeyTable.  The variables of BTree are its own; the *)
(* other two share theirs.                                                 *)
(***************************************************************************)
EXTENDS BTree

CONSTANTS
  Boxes,     \* bound: the nodes callers create for the red-black tree
  FewBoxes,  \* bound: and for the binary tree
  keyOf,     \* their keys
  NULL,
  Nil

ASSUME SearchTreesAssumption ==
  /\ FewBoxes \subseteq Boxes /\ keyOf \in [Boxes -> Int]
  /\ NULL # Nil /\ {NULL, Nil} \cap Boxes = {}

VARIABLES
  kind,                     \* the tree this program uses
  tree, call, node, index   \* of RedBlackTree and BinaryTree

otherVars == <<call, node, index>>
treesVars == <<vars, kind, tree, otherVars>>

RB == INSTANCE RedBlackTree WITH Nodes <- Boxes, key <- keyOf
Bin == INSTANCE BinaryTree WITH
  Nodes <- FewBoxes, key <- [n \in FewBoxes |-> keyOf[n]]

NoOther == call = "none" /\ node = NULL /\ index = NULL

TreesInit ==
  \/ kind = "B-tree" /\ Init /\ tree = NULL /\ NoOther
  \/ kind = "red-black tree" /\ RB!Init /\ root_ = EmptyLeaf
  \/ kind = "binary tree" /\ Bin!Init /\ root_ = EmptyLeaf /\ NoOther

TreesNext ==
  /\ \/ kind = "B-tree" /\ Next /\ UNCHANGED <<tree, otherVars>>
     \/ kind = "red-black tree" /\ RB!Next /\ UNCHANGED root_
     \/ kind = "binary tree" /\ Bin!Next /\ UNCHANGED <<root_, otherVars>>
  /\ UNCHANGED kind

TreesSpec == TreesInit /\ [][TreesNext]_treesVars

-----------------------------------------------------------------------------
(* Properties *)

(* The variables of the tree in use are what its code expects: TypeOK of   *)
(* its module.                                                             *)
TreesTypeOK ==
  /\ kind = "B-tree" => TypeOK
  /\ kind = "red-black tree" => RB!TypeOK
  /\ kind = "binary tree" => Bin!TypeOK

(* Whatever calls came before, an inorder walk meets the keys in their     *)
(* order, links agree in both directions and searches find what is there.  *)
Ordered ==
  /\ kind = "B-tree" => SearchOrder
  /\ kind = "red-black tree" => RB!InOrder
  /\ kind = "binary tree" => Bin!InOrder

(* All leaves of a B-tree are equally deep and its nodes half full,        *)
(* however entries were moved, borrowed and merged (BTree.Balanced).       *)
NodesBalanced == kind = "B-tree" => Balanced

(* InorderPredecessor and InorderSuccessor of a B-tree find the nearest    *)
(* keys, whatever nodes they are in (BTree.NeighboursNearest).             *)
NeighboursFound == kind = "B-tree" => NeighboursNearest

(* The colours balance a red-black tree before and after every turn of the *)
(* fixup loops, their index apart (RedBlackTree.RedBlack).                 *)
ColorsBalanced == kind = "red-black tree" => RB!RedBlack

(* The loops of BinaryTree visit the nodes in the three orders, and the    *)
(* neighbours of a node are those of the inorder (BinaryTree.WalksAgree).  *)
WalksInOrder == kind = "binary tree" => Bin!WalksAgree

Table == INSTANCE KeyTable WITH
  Keys <- Keys \cup Boxes, Data <- Data \cup {0},
  stored <- CASE kind = "B-tree" -> Stored
              [] kind = "red-black tree" -> RB!Stored
              [] kind = "binary tree" -> Bin!Stored

(* Insert and Delete of every tree keep the promise of KeyTable, through   *)
(* the loops that follow them too: no entry is lost, doubled or exchanged. *)
ImplementsTable == Table!TableSpec
=============================================================================
