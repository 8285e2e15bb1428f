------------------------------- MODULE MCMail -------------------------------
(* Mail on a small instance. *)
EXTENDS Mail, TLC

CONSTANTS p1, p2, g1, g2, i1, i2

OnePlayer  == {p1}
TwoPlayers == {p1, p2}
OneGm      == {g1}
TwoGms     == {g1, g2}
Kinds      == {i1, i2}
TimedKinds == {i2}
\* A number that is no number of items, and one of each kind.
Letters    == {<<[item |-> i1, num |-> -1], [item |-> i1, num |-> 1], [item |-> i2, num |-> 1]>>}
SysItems   == <<[item |-> i1, num |-> 1]>>

Symmetry == Permutations(Gms)

=============================================================================
