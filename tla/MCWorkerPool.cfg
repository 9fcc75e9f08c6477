SPECIFICATION FairSpec
ACTION_CONSTRAINT Usual
CONSTANTS
  a = a
  b = b
  c = c
  Files = {a, b, c}
  Size = 2
  MaxRuns = 2
  MaxCrashes = 1
  MaxSpawns = 3
INVARIANTS
  TypeOK
  FreshSession
  CrashTakesOnlyItsOwn
  SlotsDoTheirWork
PROPERTIES
  EveryJobAnswered
  ImplementsService
CHECK_DEADLOCK FALSE
