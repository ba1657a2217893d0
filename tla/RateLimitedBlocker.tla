-------------------------- MODULE RateLimitedBlocker --------------------------
(***************************************************************************)
(* The command queue between the detector and HAProxy                      *)
(* (internal/blocker/blocker.go, worker.go): producers append to a bounded *)
(* channel without ever waiting, one worker goroutine takes one command    *)
(* per tick and runs it on the wrapped blocker, and Shutdown polls the     *)
(* channel until it is empty before it stops the worker.  The background   *)
(* restore of cmd/bot-detector/main.go is a producer of its own: it sends  *)
(* on the same channel with a blocking send, after yielding while the      *)
(* queue is more than half full.                                           *)
(*                                                                         *)
(* What a command does to HAProxy is the business of HAProxyBlocker; here  *)
(* a command is only taken, run (its error is logged and forgotten) and    *)
(* finished.                                                               *)
(***************************************************************************)
EXTENDS Naturals, Sequences, FiniteSets

CONSTANTS
  LiveCommands,     \* block and unblock commands of the checker, the reloader, the API
  RestoreCommands,  \* commands that restorePersistenceState sends in the background
  QueueSize,        \* cap(CommandQueue): blockers.command_queue_size
  MaxSubmissions    \* bound of the model: calls of Block and Unblock in one behaviour

Commands == LiveCommands \cup RestoreCommands

ASSUME QueueAssumption ==
  /\ QueueSize \in Nat \ {0}
  /\ MaxSubmissions \in Nat
  /\ LiveCommands \cap RestoreCommands = {}

VARIABLES
  queue,      \* the CommandQueue channel
  inflight,   \* <<>> or <<c>>: the command the worker is running
  exited,     \* the worker has returned (wg.Done)
  stopCh,     \* stopCh is closed
  shutdown,   \* where the caller of Shutdown is
  backlog,    \* commands that the restore goroutine has still to send
  restorer,   \* "yield": polling the queue; "send": in the channel send
  accepted,   \* history: every command that entered the channel, in order
  executed,   \* history: every command whose run on the wrapped blocker ended
  dropped,    \* CmdsDropped: live commands refused by a full queue
  mark        \* history: Len(accepted) when Shutdown was called

queueVars == <<queue, inflight, exited, stopCh, shutdown, backlog, restorer,
               accepted, executed, dropped, mark>>

ShutdownStates == {"idle", "draining", "drained", "stopping", "done"}

RLBInit ==
  /\ queue = <<>>
  /\ inflight = <<>>
  /\ exited = FALSE
  /\ stopCh = FALSE
  /\ shutdown = "idle"
  /\ backlog = RestoreCommands
  /\ restorer = "yield"
  /\ accepted = <<>>
  /\ executed = <<>>
  /\ dropped = 0
  /\ mark = 0

(***************************************************************************)
(* Producers                                                               *)
(***************************************************************************)

\* Live commands that Block and Unblock have been called with so far.
LiveAccepted == Len(SelectSeq(accepted, LAMBDA c : c \in LiveCommands))
MaySubmit == LiveAccepted + dropped < MaxSubmissions

\* Faulty variant: one command too many fits.
HasRoomOffByOne == Len(queue) <= QueueSize

\* A send on the channel is ready.
HasRoom == Len(queue) < QueueSize

\* The ready case of the select in Block and Unblock: there is room.
Enqueue(c) ==
  /\ MaySubmit
  /\ HasRoom
  /\ queue' = Append(queue, c)
  /\ accepted' = Append(accepted, c)
  /\ UNCHANGED <<inflight, exited, stopCh, shutdown, backlog, restorer,
                 executed, dropped, mark>>

\* The default case: the channel is full, the command is counted and lost, and
\* the caller gets a nil error all the same.
Drop(c) ==
  /\ MaySubmit
  /\ ~HasRoom
  /\ dropped' = dropped + 1
  /\ UNCHANGED <<queue, inflight, exited, stopCh, shutdown, backlog, restorer,
                 accepted, executed, mark>>

\* Faulty variant: the sleep loop is gone.
RestoreYieldAlways ==
  /\ restorer = "yield"
  /\ backlog # {}
  /\ restorer' = "send"
  /\ UNCHANGED <<queue, inflight, exited, stopCh, shutdown, backlog, accepted,
                 executed, dropped, mark>>

\* The restore goroutine leaves its sleep loop: the queue is at most half full.
RestoreYield ==
  /\ restorer = "yield"
  /\ backlog # {}
  /\ Len(queue) <= QueueSize \div 2
  /\ restorer' = "send"
  /\ UNCHANGED <<queue, inflight, exited, stopCh, shutdown, backlog, accepted,
                 executed, dropped, mark>>

\* Its channel send, which waits for room instead of dropping.  The commands
\* come from a map, in no particular order.
RestoreSend(c) ==
  /\ restorer = "send"
  /\ c \in backlog
  /\ HasRoom
  /\ queue' = Append(queue, c)
  /\ accepted' = Append(accepted, c)
  /\ backlog' = backlog \ {c}
  /\ restorer' = "yield"
  /\ UNCHANGED <<inflight, exited, stopCh, shutdown, executed, dropped, mark>>

(***************************************************************************)
(* The worker                                                              *)
(***************************************************************************)

\* Faulty variant: the command is read but stays in the queue.
WorkerTakePeek ==
  /\ ~exited
  /\ inflight = <<>>
  /\ queue # <<>>
  /\ Len(executed) < MaxSubmissions
  /\ inflight' = <<Head(queue)>>
  /\ UNCHANGED <<queue, exited, stopCh, shutdown, backlog, restorer, accepted,
                 executed, dropped, mark>>

\* A tick finds a command.  A closed stopCh and a tick are both ready cases of
\* one select, so the worker may still take commands after stopCh is closed.
WorkerTake ==
  /\ ~exited
  /\ inflight = <<>>
  /\ queue # <<>>
  /\ inflight' = <<Head(queue)>>
  /\ queue' = Tail(queue)
  /\ UNCHANGED <<exited, stopCh, shutdown, backlog, restorer, accepted,
                 executed, dropped, mark>>

\* The wrapped blocker returned; an error is logged and not retried here.
WorkerFinish ==
  /\ inflight # <<>>
  /\ executed' = Append(executed, Head(inflight))
  /\ inflight' = <<>>
  /\ UNCHANGED <<queue, exited, stopCh, shutdown, backlog, restorer, accepted,
                 dropped, mark>>

\* The stopCh case of the worker's select.
WorkerStop ==
  /\ ~exited
  /\ inflight = <<>>
  /\ stopCh
  /\ exited' = TRUE
  /\ UNCHANGED <<queue, inflight, stopCh, shutdown, backlog, restorer, accepted,
                 executed, dropped, mark>>

(***************************************************************************)
(* Shutdown, called once by performGracefulShutdown                        *)
(***************************************************************************)

ShutdownCall ==
  /\ shutdown = "idle"
  /\ shutdown' = "draining"
  /\ mark' = Len(accepted)
  /\ UNCHANGED <<queue, inflight, exited, stopCh, backlog, restorer, accepted,
                 executed, dropped>>

\* Faulty variant: Shutdown does not wait for the queue to drain.
ShutdownDrainedAtOnce ==
  /\ shutdown = "draining"
  /\ shutdown' = "drained"
  /\ UNCHANGED <<queue, inflight, exited, stopCh, backlog, restorer, accepted,
                 executed, dropped, mark>>

\* The polling loop sees len(CommandQueue) = 0.  The worker may be running the
\* last command, and producers may still send.
ShutdownDrained ==
  /\ shutdown = "draining"
  /\ queue = <<>>
  /\ shutdown' = "drained"
  /\ UNCHANGED <<queue, inflight, exited, stopCh, backlog, restorer, accepted,
                 executed, dropped, mark>>

\* Faulty variant: Stop waits for the worker without closing stopCh.
StopWithoutClose ==
  /\ shutdown = "drained"
  /\ shutdown' = "stopping"
  /\ UNCHANGED <<queue, inflight, exited, stopCh, backlog, restorer, accepted,
                 executed, dropped, mark>>

\* Stop closes stopCh, then waits for the worker (wg.Wait).
StopClose ==
  /\ shutdown = "drained"
  /\ shutdown' = "stopping"
  /\ stopCh' = TRUE
  /\ UNCHANGED <<queue, inflight, exited, backlog, restorer, accepted, executed,
                 dropped, mark>>

\* Faulty variant: no wg.Wait.
StopReturnAtOnce ==
  /\ shutdown = "stopping"
  /\ shutdown' = "done"
  /\ UNCHANGED <<queue, inflight, exited, stopCh, backlog, restorer, accepted,
                 executed, dropped, mark>>

\* wg.Wait returns when the worker has.
StopReturn ==
  /\ shutdown = "stopping"
  /\ exited
  /\ shutdown' = "done"
  /\ UNCHANGED <<queue, inflight, exited, stopCh, backlog, restorer, accepted,
                 executed, dropped, mark>>

(***************************************************************************)
(* Specification                                                           *)
(***************************************************************************)

\* Once Shutdown has returned the process exits: the only place to stop.
ProcessExit == shutdown = "done" /\ UNCHANGED queueVars

RLBNext ==
  \/ \E c \in LiveCommands : Enqueue(c) \/ Drop(c)
  \/ RestoreYield
  \/ \E c \in RestoreCommands : RestoreSend(c)
  \/ WorkerTake
  \/ WorkerFinish
  \/ WorkerStop
  \/ ShutdownCall
  \/ ShutdownDrained
  \/ StopClose
  \/ StopReturn
  \/ ProcessExit

RLBSpec == RLBInit /\ [][RLBNext]_queueVars

\* The worker's ticker never stops, a call on the wrapped blocker returns (dial
\* and read deadlines, bounded retries), and the goroutine in Shutdown is
\* scheduled.  Strong fairness for WorkerStop: Go picks at random between ready
\* cases, so a closed stopCh is picked eventually even if ticks keep coming.
\* The producers need no fairness.
RLBFairSpec ==
  /\ RLBSpec
  /\ WF_queueVars(WorkerTake)
  /\ WF_queueVars(WorkerFinish)
  /\ SF_queueVars(WorkerStop)
  /\ WF_queueVars(ShutdownDrained)
  /\ WF_queueVars(StopClose)
  /\ WF_queueVars(StopReturn)

(***************************************************************************)
(* Properties                                                              *)
(***************************************************************************)

\* Every variable holds a value of its Go type, and the channel never holds more
\* than its capacity.
RLBTypeOK ==
  /\ queue \in Seq(Commands)
  /\ Len(queue) <= QueueSize
  /\ inflight \in Seq(Commands)
  /\ Len(inflight) <= 1
  /\ exited \in BOOLEAN
  /\ stopCh \in BOOLEAN
  /\ shutdown \in ShutdownStates
  /\ backlog \in SUBSET RestoreCommands
  /\ restorer \in {"yield", "send"}
  /\ accepted \in Seq(Commands)
  /\ executed \in Seq(Commands)
  /\ dropped \in Nat
  /\ mark \in Nat

\* Block and Unblock promise that what they queue is run once, in the order of
\* acceptance, whatever the interleaving of producers, restore, worker and
\* Shutdown: what was accepted is what ran, then what is running, then the queue.
RunOnceInOrder == accepted = executed \o inflight \o queue

\* performGracefulShutdown closes the database after Shutdown returns, counting
\* on every command queued before the call having reached HAProxy.
ShutdownDrains == shutdown = "done" => Len(executed) >= mark

\* Why ShutdownDrains holds: the worker ends only after stopCh is closed and
\* between two commands, Shutdown ends only after the worker, and from the moment
\* the queue was seen empty everything up to the mark has run or is running.
ShutdownProgress ==
  /\ stopCh => shutdown \in {"stopping", "done"}
  /\ exited => stopCh /\ inflight = <<>>
  /\ shutdown = "done" => exited
  /\ shutdown # "idle" => mark <= Len(accepted)
  /\ shutdown \in {"drained", "stopping", "done"} =>
       mark <= Len(executed) + Len(inflight)

\* Where the restored commands are in the queue.
Restored == {i \in 1 .. Len(queue) : queue[i] \in RestoreCommands}

\* The yield loop of the background restore: it leaves room for live traffic, so
\* restored commands never take more than half the queue plus the one whose send
\* was under way when the loop last looked.
RestoreLeavesRoom == Cardinality(Restored) <= QueueSize \div 2 + 1

\* What the queue promises its producers, as the abstract channel of LossyFifo:
\* the command being run is still the first of the pending ones.
Channel == INSTANCE LossyFifo WITH
  Capacity <- QueueSize + 1, pending <- inflight \o queue, delivered <- executed

\* The queue, the worker, the restore and Shutdown together implement a FIFO
\* channel that delivers at most once and never more than it holds.
ImplementsChannel == Channel!Spec

\* After Shutdown has returned the worker runs nothing more: wg.Wait saw it end.
QuietAfterShutdown == [][shutdown = "done" => UNCHANGED <<inflight, executed>>]_queueVars

\* Shutdown waits for an empty queue and for the worker, and neither wait is
\* for ever: a graceful shutdown ends (once the producers have stopped, which the
\* bound on submissions stands for).
ShutdownReturns == shutdown = "draining" ~> shutdown = "done"
=============================================================================
