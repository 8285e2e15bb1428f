CONSTANTS
  p1 = p1
  r1 = r1
  r2 = r2
  Nobody = Nobody
  Players <- OnePlayer
  Requests <- TwoRequests
  MaxMsgs = 2
  MaxBans = 2
  OpCap = 1
SPECIFICATION FairSpec
INVARIANTS
  OneHandler
  LockIsHeld
  NoticePerSession
  OnlineIsTimed
  BannedStaysOut
PROPERTIES
  SilentGoesOffline
