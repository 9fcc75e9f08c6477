SPECIFICATION FairSpec
CONSTRAINT OneByOne
ACTION_CONSTRAINT Usual
CONSTANTS
  Sources = {app}
  l1 = l1
  l2 = l2
  Lines = {l1, l2}
  Requests = {r1, r2}
  Wanted <- OneOrTwice
  Budget = 1
  Unmapped = Unmapped
  None = None
INVARIANTS
  LedgerIsEngine
  ClientSeesTheProgram
  NothingIsLeft
PROPERTIES
  NobodyHangs
CHECK_DEADLOCK FALSE
