SPECIFICATION Spec
VIEW View
CONSTANTS
  N = 2
  Handle = {1, 2}
  Value = {x, y}
  Rare = {y}
  MaxRare = 1
  Free = Free
  Null = Null
  Together = {0, 1, 2, 3, 4, 5, 6, 7}
  Admitted = {"insert"}
  MaxLen = 7
  MaxNode = 50
CHECK_DEADLOCK FALSE
PROPERTIES
  ImplementsSequences
