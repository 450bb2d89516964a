SPECIFICATION Spec
VIEW View
CONSTANTS
  Handle = {1, 2}
  Key = {1, 2, 3, 4, 5, 6, 7}
  SharedKey = {2, 4, 6}
  Payload = {p, q}
  Plain = {p}
  Nil = Nil
  Free = Free
  Null = Null
  MaxNode = 20
INVARIANTS
  TypeOK
  NodeCountsExact
  ValueCountsExact
  EqualBlackHeights
  IterationMatchesFind
PROPERTIES
  ImplementsMaps
CHECK_DEADLOCK FALSE
