SPECIFICATION FairSpec
CONSTANTS
  app = app
  tool = tool
  lib = lib
  Files = {app, tool, lib}
  Entries = {app, tool}
  Dir <- ApartDir
  Imports <- SharedImports
  Execute = TRUE
  MaxVersions = 2
  MaxDeletes = 1
  MaxKeys = 1
  MaxChecks = 2
CONSTRAINT LongOrBusy
INVARIANTS
  TypeOK
  KnownSavesAreRebuilt
  OneBuildAtATime
PROPERTY Settles
CHECK_DEADLOCK FALSE
