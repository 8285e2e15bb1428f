CONSTANTS
  a = a
  b = b
  c = c
  Players = {a, b, c}
  Active = {a, b}
  Server <- MCServer
  GiveLists <- MCGiveLists
  MaxGiveNum = 1
  MaxRequests = 5
  MaxDay = 2
SPECIFICATION Spec
INVARIANTS
  FriendsBothWays
  OneGiftADay
  TakenOnce
  GiftsAreLimited
CHECK_DEADLOCK FALSE
