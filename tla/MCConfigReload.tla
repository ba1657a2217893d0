---------------------------- MODULE MCConfigReload ----------------------------
(***************************************************************************)
(* A leader that reloads on ticks and signals, and followers that do so on *)
(* one of them besides the poller.  Version 2 of config.yaml does not      *)
(* refer to the dependency, version 3 does not load; version 3 of the      *)
(* dependency does not compile.                                            *)
(***************************************************************************)
EXTENDS ConfigReload

MCInit == ReloadInit /\ (role = "leader" <=> reloadOn = "")
MCSpec == MCInit /\ [][ReloadNext]_reloadVars /\ ReloadFairness
=============================================================================
