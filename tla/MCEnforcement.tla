---------------------------- MODULE MCEnforcement ----------------------------
(***************************************************************************)
(* Two backends, one IP, a short and a long table, a queue of two.         *)
(***************************************************************************)
EXTENDS Enforcement

CONSTANTS b1, b2, ip1

MCLifetime == [short |-> 2, long |-> 4]
MCLive == {BlockCmd(ip, d) : ip \in IPs, d \in {2, 4}} \cup {UnblockCmd(ip) : ip \in IPs}

\* The histories of the queue have no influence on what follows.
MCView == <<queue, inflight, dropped, hapVars, decisionVars>>

\* holes only grows, and Agreement says nothing more once every IP has one.
MCConstraint == \E ip \in IPs : \A c \in Causes : <<ip, c>> \notin holes
=============================================================================
