----------------------------- MODULE MCClusterApi -----------------------------
(***************************************************************************)
(* A leader and two followers.  IP 1 is unknown to the leader or blocked   *)
(* there for any reason, in any state that a running node has on one       *)
(* follower, and unknown to the other or blocked there; IP 2 is blocked by *)
(* one follower alone or by nobody.  The other follower knows IP 1 only    *)
(* when nobody knows IP 2: lists of two, and records on every node, are    *)
(* apart, and so are both from a null history and from an actor that is    *)
(* not blocked.                                                            *)
(* One request with a decision and a fault at any time, or two requests    *)
(* side by side.                                                           *)
(***************************************************************************)
EXTENDS ClusterApi

MCFollowers == {1, 2}
MCInit ==
  /\ ApiInit
  /\ act[0][1] # "seen" /\ bad[1][1] # "null" /\ bad[2][1] = "none" /\ act[2][1] # "seen"
  /\ \A n \in Nodes : bad[n][2] = "none" /\ act[n][2] # "seen"
  /\ \A n \in Nodes \ {1} : row[n][2] = "none"
  /\ row[2][1] = "none" \/ row[1][2] = "none"
  /\ row[2][1] # "none" \/ row[1][2] # "none" => bad[0][1] # "null" /\ act[1][1] # "seen"
  /\ \A n \in Nodes, i \in IPs : row[n][i] \in Reasons => act[n][i] = "blocked"

\* A second request is made side by side with the first when both are with the leader, nobody
\* blocks IP 2, and nothing was decided and nothing failed, nor does from then on.
Side ==
  /\ used = [requests |-> 1, decisions |-> 0, faults |-> 0]
  /\ jobs # {} /\ \A j \in jobs : j.pc # "forward" /\ j.ip # 2
  /\ \A n \in Nodes : row[n][2] = "none"
MCNext ==
  \/ used.requests < 2 /\ Others
  \/ used.requests = 0 /\ \E j \in Requests : Submit(j)
  \/ Side /\ \E j \in Requests : j.node = Leader /\ j.ip # 2 /\ Submit(j)
  \/ \E j \in jobs : Handler(j) /\ (used.requests = 2 => used'.faults = 0)
MCSpec == MCInit /\ [][MCNext]_apiVars
=============================================================================
