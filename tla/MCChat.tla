------------------------------- MODULE MCChat -------------------------------
(***************************************************************************)
(* Bounds for TLC: a pool of four items, which eight messages use again     *)
(* and again, both because they expire and because the pool is empty; a    *)
(* pull looks at three items, fewer than the list may have.                *)
(***************************************************************************)
EXTENDS Chat
=============================================================================
