----------------------------- MODULE MCDbTable -----------------------------
(* DbTable on small instances. *)
EXTENDS DbTable

CONSTANTS k1, c1, c2, h1

OneKey    == {k1}
OneCol    == {c1}
TwoCols   == {c1, c2}
OneClient == {h1}

=============================================================================
