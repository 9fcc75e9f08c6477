SPECIFICATION Spec
CONSTANTS
  Literals <- PairAndEmpty
  Added <- Two
  Positions <- AllPositions
  MaxBoxes = 4
  MaxSorted = 4
  MaxWalked = 3
INVARIANTS
  TypeOK
  SharedRunsAreCounted
PROPERTIES
  ListsAreImmutable
  ImplementsLists
CHECK_DEADLOCK FALSE
