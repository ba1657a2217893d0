---------------------------- MODULE MCPersistence ----------------------------
(***************************************************************************)
(* One IP and two backends; a crash, a clean-up and three decisions about  *)
(* the IP, of which two make it a bad actor.                               *)
(***************************************************************************)
EXTENDS Persistence

MCDurations == {1}
MCTableDurations == {1, 2}
MCBackends == {"b1", "b2"}
MCIPs == {"ip1"}
=============================================================================
