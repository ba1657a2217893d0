------------------------------ MODULE MCTailer ------------------------------
(***************************************************************************)
(* A log file of three writes, the second of which is too long.            *)
(***************************************************************************)
EXTENDS Tailer

MCTooLong == {2}
=============================================================================
