SPECIFICATION Spec
CONSTANTS
  None = None
  a = a
  b = b
  Files <- TwoFiles
  Versions <- TwoVersions
  Imports <- OneImport
  Broken <- BrokenOther
  Initial <- AllFirst
  Entries <- TwoFiles
  RawDoors <- Other
  Hosts <- Hosting
  Loads = {x, y}
  MaxEdits = 2
INVARIANTS
  WhatIsHeldIsCurrent
  EveryDoorOpens
PROPERTY
  DeclarationsSettle
CHECK_DEADLOCK FALSE
