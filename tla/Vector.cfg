SPECIFICATION Spec
VIEW View
CONSTANTS
  N = 2
  Handle = {1, 2}
  Value = {x, y}
  Rare = {y}
  MaxRare = 1
  Free = Free
  Null = Null
  Together = {0, 1, 2, 3, 4, 5, 6, 7, 8, 9, 10, 13, 14, 15}
  Admitted = {}
  MaxLen = 15
  MaxNode = 50
CHECK_DEADLOCK FALSE
INVARIANTS
  TypeOK
  NodeCountsExact
  ValueCountsExact
  RecursionEnds
  ReadsAgree
PROPERTIES
  ImplementsSequences
