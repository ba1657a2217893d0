--------------------------- MODULE MCBadActorSync ---------------------------
(***************************************************************************)
(* A leader and two followers: bad actors of one reach the other through   *)
(* the leader.                                                             *)
(***************************************************************************)
EXTENDS BadActorSync

MCFollowers == {1, 2}
=============================================================================
