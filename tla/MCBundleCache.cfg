SPECIFICATION Spec
CONSTANTS
  built = built
  other = other
  Process = {p1, p2, p3}
  Key = {built, other, third, loud}
  Mapped = {built, third}
  Loud = {loud}
  NoProcess = NoProcess
  NoKey = NoKey
  Absent = Absent
  Kept = 2
  Before <- Full
  MaxCompiles = 3
  MaxFaults = 1
SYMMETRY Alike
INVARIANTS
  TypeOK
  ReadsAreWhole
  BundlePromisesMap
  PairIsMended
  PruneKeepsTheNewest
CHECK_DEADLOCK FALSE
