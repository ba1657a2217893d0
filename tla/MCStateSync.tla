----------------------------- MODULE MCStateSync -----------------------------
(***************************************************************************)
(* A leader and two followers.                                             *)
(***************************************************************************)
EXTENDS StateSync

MCFollowers == {1, 2}
=============================================================================
