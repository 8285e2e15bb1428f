CONSTANTS
  p1 = p1
  p2 = p2
  r1 = r1
  r2 = r2
  g1 = g1
  a1 = a1
  s1 = s1
  Players <- TwoPlayers
  Requests <- TwoRequests
  Google <- GoogleIds
  Apple <- AppleIds
  Sandbox <- SandboxIds
  MaxRequests = 3
  MaxBreaks = 1
  MaxCrashes = 1
SPECIFICATION Spec
SYMMETRY Symmetry
INVARIANTS
  
  PayingIsHeld
  RecordedIsGiven
CHECK_DEADLOCK FALSE
