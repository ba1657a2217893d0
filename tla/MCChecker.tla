------------------------------ MODULE MCChecker ------------------------------
(***************************************************************************)
(* One IP and two clients on it (a good actor and another), with and       *)
(* without a vhost; a chain on IP and client with both delays, which stops *)
(* the others, and a chain of one step on the IP, whose block outlasts     *)
(* what is remembered of a good actor.                                     *)
(***************************************************************************)
EXTENDS Checker

MCStep(kinds, max, min, since) == [kinds |-> kinds, max |-> max, min |-> min, since |-> since]

MCChains ==
  << [key |-> "ip_ua", action |-> "block", dur |-> 1, stop |-> TRUE,
      steps |-> <<MCStep({"a"}, 0, 0, 0), MCStep({"a", "b"}, 1, 1, 0)>>],
     [key |-> "ip", action |-> "block", dur |-> 3, stop |-> FALSE,
      steps |-> <<MCStep({"b"}, 0, 0, 1)>>] >>

MCChainsOf == [v \in VHosts |-> <<1, 2>>]
=============================================================================
