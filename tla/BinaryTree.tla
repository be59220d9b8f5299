---------------------------- MODULE BinaryTree ----------------------------
(***************************************************************************)
(* The binary search tree of redblacktree/binary_tree.cc, which changes    *)
(* shape in Insert and Delete without any balancing.  As in RedBlackTree,  *)
(* the links of all nodes are one record.  Each call is one step.          *)
(***************************************************************************)
EXTENDS Integers, Sequences, FiniteSets

CONSTANTS
  Nodes,     \* bound: the nodes callers create
  key,       \* the key of each node, an integer
  NULL       \* no node

VARIABLES
  tree,      \* root (root_), and child and parent of every node
  asked,     \* the node of the last call
  result     \* what that call returned

vars == <<tree, asked, result>>

NoChildren == [left |-> NULL, right |-> NULL]

Init ==
  /\ tree = [root |-> NULL, child |-> [n \in Nodes |-> NoChildren],
             parent |-> [n \in Nodes |-> NULL]]
  /\ asked \in Nodes /\ result = 0

-----------------------------------------------------------------------------
(* Looking at the tree *)

Search(t, k) ==
  LET search[n \in Nodes \cup {NULL}] ==
        IF n = NULL \/ key[n] = k THEN n
        ELSE search[IF key[n] > k THEN t.child[n].left ELSE t.child[n].right]
  IN  search[t.root]

(* Minimum is Outermost to the left, Maximum to the right.                 *)
Outermost(t, side, n) ==
  LET walk[m \in Nodes] == IF t.child[m][side] = NULL THEN m ELSE walk[t.child[m][side]]
  IN  walk[n]

(* Faulty variant of Climb: the node above is taken, on either side.       *)
ClimbOnce(t, side, n) == t.parent[n]

(* The first ancestor that is not reached from its child on that side.     *)
Climb(t, side, n) ==
  LET climb[m \in Nodes] ==
        LET p == t.parent[m]
        IN  IF p = NULL \/ t.child[p][side] # m THEN p ELSE climb[p]
  IN  climb[n]

InorderPredecessor(t, n) ==
  IF t.child[n].left # NULL THEN Outermost(t, "right", t.child[n].left)
  ELSE Climb(t, "left", n)

InorderSuccessor(t, n) ==
  IF t.child[n].right # NULL THEN Outermost(t, "left", t.child[n].right)
  ELSE Climb(t, "right", n)

(* The loops of the traversals: one turn changes cur, the stack, the node  *)
(* visited last (PostorderTraverse) and what was visited so far.           *)
Walker == [cur : Nodes \cup {NULL}, stack : Seq(Nodes),
           visited : Nodes \cup {NULL}, out : Seq(Nodes)]
Start(t) == [cur |-> t.root, stack |-> << >>, visited |-> NULL, out |-> << >>]
Top(s) == s.stack[Len(s.stack)]
Push(s) == [s EXCEPT !.stack = Append(@, s.cur)]
Pop(s) == [s EXCEPT !.stack = SubSeq(@, 1, Len(@) - 1)]
Visit(s, n) == [s EXCEPT !.out = Append(@, n)]

PreorderTurn(t, s) ==
  IF s.cur # NULL
  THEN [(IF t.child[s.cur].right = NULL THEN Visit(s, s.cur) ELSE Push(Visit(s, s.cur)))
          EXCEPT !.cur = t.child[s.cur].left]
  ELSE [Pop(s) EXCEPT !.cur = t.child[Top(s)].right]

InorderTurn(t, s) ==
  IF s.cur # NULL THEN [Push(s) EXCEPT !.cur = t.child[s.cur].left]
  ELSE [Visit(Pop(s), Top(s)) EXCEPT !.cur = t.child[Top(s)].right]

PostorderTurn(t, s) ==
  IF s.cur # NULL THEN [Push(s) EXCEPT !.cur = t.child[s.cur].left]
  ELSE IF t.child[Top(s)].right \notin {NULL, s.visited}
  THEN [s EXCEPT !.cur = t.child[Top(s)].right]
  ELSE [Visit(Pop(s), Top(s)) EXCEPT !.visited = Top(s)]

Traverse(t, Turn(_, _)) ==
  LET loop[s \in Walker] == IF s.cur = NULL /\ s.stack = << >> THEN s.out
                            ELSE loop[Turn(t, s)]
  IN  loop[Start(t)]

PreorderTraverse(t) == Traverse(t, PreorderTurn)
InorderTraverse(t) == Traverse(t, InorderTurn)
PostorderTraverse(t) == Traverse(t, PostorderTurn)

InTree == {InorderTraverse(tree)[i] : i \in DOMAIN InorderTraverse(tree)}

-----------------------------------------------------------------------------
(* Insert: equal keys go to the right, and the node is refused if that     *)
(* leads to a node with its own key.                                       *)

SideFor(n, m) == IF key[n] < key[m] THEN "left" ELSE "right"

PlaceFor(t, n) ==
  LET place[m \in Nodes] == IF t.child[m][SideFor(n, m)] = NULL THEN m
                            ELSE place[t.child[m][SideFor(n, m)]]
  IN  place[t.root]

(* The node comes from CreateTreeNode, without links.                     *)
Insert(n) ==
  LET p == PlaceFor(tree, n)
  IN  /\ asked' = n
      /\ \/ /\ tree.root = NULL
            /\ tree' = [tree EXCEPT !.root = n]
            /\ result' = 0
         \/ /\ tree.root # NULL /\ key[n] # key[p]
            /\ tree' = [tree EXCEPT !.child[p][SideFor(n, p)] = n, !.parent[n] = p]
            /\ result' = 0
         \/ /\ tree.root # NULL /\ key[n] = key[p]
            /\ result' = -1
            /\ UNCHANGED tree

-----------------------------------------------------------------------------
SetParent(t, n, p) == IF n = NULL THEN t ELSE [t EXCEPT !.parent[n] = p]

(* Faulty variant of Transplant: the replacer keeps its parent. *)
TransplantDown(t, replacer, replaced) ==
  LET p == t.parent[replaced]
  IN  IF p = NULL THEN t
      ELSE IF t.child[p].left = replaced THEN [t EXCEPT !.child[p].left = replacer]
      ELSE [t EXCEPT !.child[p].right = replacer]

(* The root is passed by value, so a replacer of the root does not become  *)
(* root_.                                                                  *)
Transplant(t, replacer, replaced) ==
  LET p == t.parent[replaced]
      linked == IF p = NULL THEN t
                ELSE IF t.child[p].left = replaced THEN [t EXCEPT !.child[p].left = replacer]
                ELSE IF t.child[p].right = replaced THEN [t EXCEPT !.child[p].right = replacer]
                ELSE t
  IN  SetParent(linked, replacer, p)

(* The successor m of n is taken out of its place, with n's right subtree. *)
FreeSuccessor(t, n, m) ==
  LET right == t.child[n].right
  IN  IF t.parent[m] = n THEN t
      ELSE SetParent([Transplant(t, t.child[m].right, m) EXCEPT !.child[m].right = right],
                     right, m)

(* In the code the deleted node keeps its links.  No call reads them again *)
(* while callers leave deleted nodes alone, and the model forgets them.    *)
Forget(t, n) == [t EXCEPT !.child[n] = NoChildren, !.parent[n] = NULL]

Delete(n) ==
  LET left  == tree.child[n].left
      right == tree.child[n].right
      m     == Outermost(tree, "left", right)
  IN  /\ \/ left = NULL /\ tree' = Forget(Transplant(tree, right, n), n)
         \/ left # NULL /\ right = NULL /\ tree' = Forget(Transplant(tree, left, n), n)
         \/ /\ left # NULL /\ right # NULL
            /\ LET unlinked == Transplant(FreeSuccessor(tree, n, m), m, n)
               IN  tree' = Forget(SetParent([unlinked EXCEPT !.child[m].left = left], left, m), n)
      /\ asked' = n /\ result' = 0

-----------------------------------------------------------------------------
(* Callers insert new nodes, and delete a node that is in the tree and not *)
(* its root: Transplant cannot replace the root.                           *)
Next ==
  \/ \E n \in Nodes \ InTree : Insert(n)
  \/ \E n \in InTree \ {tree.root} : Delete(n)

Spec == Init /\ [][Next]_vars

-----------------------------------------------------------------------------
(* Properties *)

TypeOK ==
  /\ tree.root \in Nodes \cup {NULL}
  /\ tree.child \in [Nodes -> [{"left", "right"} -> Nodes \cup {NULL}]]
  /\ tree.parent \in [Nodes -> Nodes \cup {NULL}]
  /\ asked \in Nodes /\ result \in {0, -1}

(* However a sequence of inserts and deletes moved subtrees, parent and    *)
(* child links agree, and the nodes are in the order of their keys, so     *)
(* that Search finds every key there is.                                   *)
InOrder ==
  LET all == InorderTraverse(tree)
  IN  /\ \A i, j \in DOMAIN all : i < j => key[all[i]] <= key[all[j]]
      /\ \A n \in InTree : tree.parent[n] = NULL <=> tree.root = n
      /\ \A n \in InTree, side \in {"left", "right"} :
           LET c == tree.child[n][side] IN c # NULL => tree.parent[c] = n
      /\ \A n \in InTree : key[Search(tree, key[n])] = key[n]

Walk(Order(_, _, _)) ==
  LET walk[n \in Nodes \cup {NULL}] ==
        IF n = NULL THEN << >>
        ELSE Order(<<n>>, walk[tree.child[n].left], walk[tree.child[n].right])
  IN  walk[tree.root]

(* The loops with a stack visit the nodes as the recursive definitions of  *)
(* the three orders do, and the neighbours of a node are the ones beside   *)
(* it in the inorder.                                                      *)
WalksAgree ==
  LET all == InorderTraverse(tree)
  IN  /\ all = Walk(LAMBDA n, left, right : left \o n \o right)
      /\ PreorderTraverse(tree) = Walk(LAMBDA n, left, right : n \o left \o right)
      /\ PostorderTraverse(tree) = Walk(LAMBDA n, left, right : left \o right \o n)
      /\ \A i \in DOMAIN all :
           /\ InorderPredecessor(tree, all[i]) = IF i = 1 THEN NULL ELSE all[i - 1]
           /\ InorderSuccessor(tree, all[i]) = IF i = Len(all) THEN NULL ELSE all[i + 1]

(* The entries of the tree, as KeyTable has them. *)
Stored == {<<n, 0>> : n \in InTree}
=============================================================================
