CONSTANTS
  u1 = u1
  u2 = u2
  c1 = c1
  h1 = h1
  h2 = h2
  NoRow = NoRow
  NoUid = NoUid
  Unnamed = Unnamed
  Loop = Loop
  Stopper = Stopper
  Keys <- Ids
  Cols <- OneCol
  Clients <- TwoClients
  Uids <- TwoUids
  MaxId = 2
  MaxVersion = 1
  MaxFailures = 1
  MaxCrashes = 1
SPECIFICATION IdsSpec
SYMMETRY Symmetry
CONSTRAINT OneFault
INVARIANTS
  InsertIsFirst
  IdsAreFresh
  ExitCoversIds
PROPERTIES
  RowKeepsItsOwner
