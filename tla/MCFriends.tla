----------------------------- MODULE MCFriends ------------------------------
(***************************************************************************)
(* Bounds for TLC: two players who send requests, on two servers, and a    *)
(* third of the server of the first who does not; one gift is the limit of *)
(* a day, and the list of two friends goes beyond it.                      *)
(***************************************************************************)
EXTENDS Friends, TLC

CONSTANTS a, b, c

MCServer == a :> 1 @@ b :> 2 @@ c :> 1
MCGiveLists == {<<a>>, <<b>>, <<c, b>>}
=============================================================================
