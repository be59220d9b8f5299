SPECIFICATION TreesSpec
CONSTANTS
  degree_ = 2
  Keys = {1, 2, 3, 4, 5, 6, 7, 8, 9, 10}
  Data = {0}
  Boxes = {1, 2, 3, 4, 5, 6, 7, 8}
  FewBoxes = {1, 2, 3, 4, 5, 6, 7}
  keyOf <- MCKeyOf
  NULL = NULL
  Nil = Nil
INVARIANTS TreesTypeOK  NodesBalanced NeighboursFound ColorsBalanced WalksInOrder
 
