CONSTANTS
  k1 = k1
  c1 = c1
  c2 = c2
  h1 = h1
  NoRow = NoRow
  Loop = Loop
  Stopper = Stopper
  Keys <- OneKey
  Cols <- TwoCols
  Clients <- OneClient
  MaxVersion = 2
  MaxFailures = 1
  MaxCrashes = 1
SPECIFICATION FairSpec
INVARIANTS
  CleanMeansStored
  ExitSavesAll
PROPERTIES
  DbNeverGoesBack
  WritesReachDb
  ShutdownEnds
