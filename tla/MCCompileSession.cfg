SPECIFICATION SessionSpec
ACTION_CONSTRAINT EditsUnderTwo
CONSTANTS
  a = a
  b = b
  c = c
  Files = {a, b, c}
  Missing = Missing
  Unread = Unread
  Texts <- AnyTexts
  Plans <- PairAndAll
  MaxEdits = 1
INVARIANTS
  WorkIsDoneOnce
  GroupsInOrder
  OutcomesAreWhole
CHECK_DEADLOCK FALSE
