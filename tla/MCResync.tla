------------------------------- MODULE MCResync -------------------------------
(***************************************************************************)
(* Enforcement with a clock: one decision, one failure, a short table that *)
(* expires within the behaviour; no constraint and no view, for liveness.  *)
(***************************************************************************)
EXTENDS Enforcement

CONSTANTS b1, ip1

MCLifetime == [short |-> 1, long |-> 2]
MCLive == {BlockCmd(ip, d) : ip \in IPs, d \in {1, 2}} \cup {UnblockCmd(ip) : ip \in IPs}
=============================================================================
