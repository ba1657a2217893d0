--------------------------- MODULE MCTailerManager ---------------------------
(***************************************************************************)
(* One website, and two of which the first has another log path then; a    *)
(* node with a server.  --exit-on-eof is tried where two logs end one      *)
(* after the other.                                                        *)
(***************************************************************************)
EXTENDS TailerManager

One == [n \in {"a"} |-> "p"]
Two == [n \in {"a", "b"} |-> IF n = "a" THEN "q" ELSE "p"]
MCConfigs == {None, One, Two}

MCInit == ManagerInit /\ (exitOnEOF <=> websites = Two)
MCSpec == MCInit /\ [][ManagerNext]_managerVars /\ ManagerFairness
=============================================================================
