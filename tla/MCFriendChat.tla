---------------------------- MODULE MCFriendChat ----------------------------
(***************************************************************************)
(* Bounds for TLC: three ids, so that they are used again, and five        *)
(* messages; the first id, the last and the one in between then each meet  *)
(* a confirmation and the end of a friendship.                             *)
(***************************************************************************)
EXTENDS FriendChat
=============================================================================
