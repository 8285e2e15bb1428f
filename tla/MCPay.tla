-------------------------------- MODULE MCPay --------------------------------
(* Pay on a small instance: two players who may both send an order of      *)
(* Google, one of Apple and one of Apple's sandbox.                        *)
EXTENDS Pay, TLC

CONSTANTS p1, p2, r1, r2, g1, a1, s1

TwoPlayers  == {p1, p2}
TwoRequests == {r1, r2}
GoogleIds   == {g1}
AppleIds    == {a1, s1}
SandboxIds  == {s1}

Symmetry == Permutations(Players) \cup Permutations(Requests)

=============================================================================
