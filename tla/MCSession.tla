----------------------------- MODULE MCSession -----------------------------
(* Session on a small instance. *)
EXTENDS Session

CONSTANTS p1, r1, r2

OnePlayer   == {p1}
TwoRequests == {r1, r2}

=============================================================================
