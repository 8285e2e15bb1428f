CONSTANTS
  p1 = p1
  p2 = p2
  g1 = g1
  g2 = g2
  i1 = i1
  i2 = i2
  Nobody = Nobody
  Players <- TwoPlayers
  Receivers <- OnePlayer
  Gms <- TwoGms
  Items <- Kinds
  Timed <- TimedKinds
  Orders <- Letters
  SysOrder <- SysItems
  Stock = 1
  MaxNumber = 1
  MailMaxCount = 1
  MaxMails = 2
  MaxRows = 2
  MaxDebt = 0
SPECIFICATION Spec
SYMMETRY Symmetry
INVARIANTS
  CapacityKept
  EveryMailIsSeen
  AnnouncedIsPaid
  SysMailsArrive
CHECK_DEADLOCK FALSE
