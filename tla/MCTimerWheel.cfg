CONSTANTS
  p1 = p1
  p2 = p2
  NoTimer = NoTimer
  Players <- TwoPlayers
  HeartbeatInterval = 3
  MaxTime = 15
SPECIFICATION Spec
INVARIANTS
  OneTimer
PROPERTIES
  IsQueue
