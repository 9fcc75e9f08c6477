SPECIFICATION Spec
CONSTRAINT Small
ACTION_CONSTRAINT KeepsDocuments
CONSTANTS
  app = app
  mid = mid
  lib = lib
  Files = {app, mid, lib}
  Versions = {1, 2}
  Missing = Missing
  None = None
  Imports <- ChainImports
  Debounce = 1
  FolderSets <- Everywhere
  MaxEdits = 3
  MaxSaves = 1
  MaxRequests = 1
  MaxMoves = 1
INVARIANTS
  CachedIsFresh
  NobodyIsHeldBack
  ShownIsTrue
CHECK_DEADLOCK FALSE
