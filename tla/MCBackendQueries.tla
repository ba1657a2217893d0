-------------------------- MODULE MCBackendQueries --------------------------
(***************************************************************************)
(* Three backends, the second of which is the first address; two tables,   *)
(* of which the second is empty when the call begins.                      *)
(***************************************************************************)
EXTENDS BackendQueries

MCAddresses == <<2, 1, 3>>
MCTableNames == <<"short", "long">>

\* The backends may differ in the short table in every way, except that the end
\* on backend 1, which the others are compared with, is in the middle.
MCInit ==
  /\ QueriesInit
  /\ \A b \in Backends : ~Present(entry[<<b, "long">>])
  /\ entry[<<1, "short">>] \in {Absent, [gpc0 |-> 1, exp |-> 2]}
  /\ entry[<<2, "short">>].gpc0 = 1 \/ ~Present(entry[<<2, "short">>])
  /\ entry[<<3, "short">>].gpc0 = 1 \/ entry[<<3, "short">>].exp \in {0, 3}
MCSpec == MCInit /\ [][QueriesNext]_queryVars
=============================================================================
