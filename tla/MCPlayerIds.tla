---------------------------- MODULE MCPlayerIds ----------------------------
(* PlayerIds on small instances. *)
EXTENDS PlayerIds, TLC

CONSTANTS u1, u2, c1, h1, h2

TwoUids    == {u1, u2}
OneCol     == {c1}
TwoClients == {h1, h2}
OneClient  == {h1}
Ids        == 1..MaxId

\* At most one fault in a behaviour: a failed statement, a crash or saves that overlap.
OneFault == failures + crashes + (IF overlapped THEN 1 ELSE 0) <= 1

\* Unique ids and handlers are interchangeable.
Symmetry == Permutations(TwoUids) \cup Permutations(TwoClients)

=============================================================================
