---------------------------- MODULE MCTimerWheel ----------------------------
(* TimerWheel on a small instance. *)
EXTENDS TimerWheel, TLC

CONSTANTS p1, p2

TwoPlayers == {p1, p2}

=============================================================================
