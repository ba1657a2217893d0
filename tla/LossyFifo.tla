------------------------------ MODULE LossyFifo ------------------------------
(***************************************************************************)
(* What the producers of blocker commands may rely on: a bounded FIFO      *)
(* channel.  A command that is accepted is delivered at most once, after   *)
(* every command accepted before it.  A command may be refused, which      *)
(* leaves no trace here, and nothing promises that a pending command is    *)
(* delivered: the process may end first.                                   *)
(***************************************************************************)
EXTENDS Naturals, Sequences

CONSTANTS
  Commands,  \* what is sent
  Capacity   \* commands the channel holds at most, the one in delivery included

VARIABLES pending, delivered

vars == <<pending, delivered>>

Init == pending = <<>> /\ delivered = <<>>

Accept(c) ==
  /\ Len(pending) < Capacity
  /\ pending' = Append(pending, c)
  /\ UNCHANGED delivered

Deliver ==
  /\ pending # <<>>
  /\ delivered' = Append(delivered, Head(pending))
  /\ pending' = Tail(pending)

Next == Deliver \/ \E c \in Commands : Accept(c)

Spec == Init /\ [][Next]_vars
=============================================================================
