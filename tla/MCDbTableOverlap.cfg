CONSTANTS
  k1 = k1
  c1 = c1
  c2 = c2
  h1 = h1
  NoRow = NoRow
  Loop = Loop
  Stopper = Stopper
  Keys <- OneKey
  Cols <- OneCol
  Clients <- OneClient
  MaxVersion = 2
  MaxFailures = 0
  MaxCrashes = 0
SPECIFICATION Spec
INVARIANTS
  LastPassSavesAll
