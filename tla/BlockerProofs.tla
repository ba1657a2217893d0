---------------------------- MODULE BlockerProofs ----------------------------
(***************************************************************************)
(* Machine-checked facts about internal/blocker: the command queue, for    *)
(* every queue size, every set of commands and any number of submissions,  *)
(* and the calls that read the stick tables of all backends, for any       *)
(* backends, tables, tolerance and number of retries.                      *)
(***************************************************************************)
EXTENDS RateLimitedBlocker, BackendQueries, SequenceTheorems, FiniteSetTheorems,
        WellFoundedInduction, TLAPS

(***************************************************************************)
(* Sequences: how a send, a receive and the end of a run move a command    *)
(* along  executed \o inflight \o queue.                                   *)
(***************************************************************************)

\* Appending to the last of three concatenated sequences appends to the whole.
LEMMA AppendToLast ==
  ASSUME NEW S, NEW r \in Seq(S), NEW s \in Seq(S), NEW t \in Seq(S), NEW e \in S
  PROVE  r \o s \o Append(t, e) = Append(r \o s \o t, e)
<1>1. /\ r \o s \in Seq(S)
      /\ (r \o s) \o t \in Seq(S)
      /\ <<e>> \in Seq(S)
  BY ConcatProperties
<1>2. Append(t, e) = t \o <<e>>
  BY AppendIsConcat
<1>3. (r \o s) \o (t \o <<e>>) = ((r \o s) \o t) \o <<e>>
  BY <1>1, ConcatAssociative
<1>4. Append((r \o s) \o t, e) = ((r \o s) \o t) \o <<e>>
  BY <1>1, AppendIsConcat
<1> QED
  BY <1>2, <1>3, <1>4

\* A nonempty sequence is its head followed by its tail.
LEMMA HeadThenTail ==
  ASSUME NEW S, NEW s \in Seq(S), s # <<>>
  PROVE  /\ Head(s) \in S
         /\ Tail(s) \in Seq(S)
         /\ Len(Tail(s)) = Len(s) - 1
         /\ <<Head(s)>> \o Tail(s) = s
<1>1. /\ Head(s) \in S
      /\ Tail(s) \in Seq(S)
      /\ Len(Tail(s)) = Len(s) - 1
      /\ \A i \in 1 .. Len(Tail(s)) : Tail(s)[i] = s[i+1]
  BY HeadTailProperties
<1>2. /\ <<Head(s)>> \in Seq(S)
      /\ Len(<<Head(s)>>) = 1
      /\ <<Head(s)>>[1] = s[1]
  BY <1>1
<1>3. Len(s) \in Nat \ {0}
  BY EmptySeq
<1>4. /\ <<Head(s)>> \o Tail(s) \in Seq(S)
      /\ Len(<<Head(s)>> \o Tail(s)) = Len(s)
      /\ \A i \in 1 .. Len(s) : (<<Head(s)>> \o Tail(s))[i] =
            IF i <= 1 THEN <<Head(s)>>[i] ELSE Tail(s)[i - 1]
  BY <1>1, <1>2, <1>3, ConcatProperties
<1>5. \A i \in 1 .. Len(s) : (<<Head(s)>> \o Tail(s))[i] = s[i]
  BY <1>1, <1>2, <1>3, <1>4
<1> QED
  BY <1>1, <1>4, <1>5, SeqEqual

LEMMA OneOfAtMostOne ==
  ASSUME NEW n \in Nat \ {0}, n <= 1
  PROVE  n = 1
OBVIOUS

\* A sequence of at most one element is empty or the singleton of its head.
LEMMA AtMostOne ==
  ASSUME NEW S, NEW s \in Seq(S), Len(s) <= 1, s # <<>>
  PROVE  s = <<Head(s)>> /\ Head(s) \in S /\ Len(s) = 1
<1>0. Len(s) \in Nat \ {0}
  BY EmptySeq
<1>1. Len(s) = 1
  BY <1>0, OneOfAtMostOne, Zenon
<1>2. Head(s) \in S
  BY HeadTailProperties
<1>3. /\ <<Head(s)>> \in Seq(S)
      /\ Len(<<Head(s)>>) = 1
      /\ \A i \in 1 .. 1 : s[i] = <<Head(s)>>[i]
  BY <1>1, <1>2
<1>4. Len(s) = Len(<<Head(s)>>) /\ \A i \in 1 .. Len(s) : s[i] = <<Head(s)>>[i]
  BY <1>1, <1>3, Zenon
<1>5. s = <<Head(s)>>
  BY <1>3, <1>4, SeqEqual, Zenon
<1> QED
  BY <1>1, <1>2, <1>5

(***************************************************************************)
(* Type correctness                                                        *)
(***************************************************************************)

\* Every behaviour of the command queue keeps its types, and the channel never
\* holds more than its capacity, for every capacity.
THEOREM TypeCorrect == RLBSpec => []RLBTypeOK
<1>1. RLBInit => RLBTypeOK
  <2> SUFFICES ASSUME RLBInit
               PROVE  RLBTypeOK
    OBVIOUS
  <2>1. <<>> \in Seq(Commands) /\ Len(<<>>) = 0
    BY EmptySeq
  <2>2. Len(queue) <= QueueSize /\ Len(inflight) <= 1
    BY <2>1, QueueAssumption DEF RLBInit
  <2>3. backlog \in SUBSET RestoreCommands
    BY DEF RLBInit
  <2> QED
    BY <2>1, <2>2, <2>3 DEF RLBInit, RLBTypeOK, ShutdownStates
<1>2. RLBTypeOK /\ [RLBNext]_queueVars => RLBTypeOK'
  <2> SUFFICES ASSUME RLBTypeOK, [RLBNext]_queueVars
               PROVE  RLBTypeOK'
    OBVIOUS
  <2> USE QueueAssumption DEF RLBTypeOK, ShutdownStates
  <2>1. ASSUME NEW c \in LiveCommands, Enqueue(c)
        PROVE  RLBTypeOK'
    <3>1. c \in Commands
      BY DEF Commands
    <3> QED
      BY <2>1, <3>1, AppendProperties DEF Enqueue, HasRoom
  <2>2. ASSUME NEW c \in LiveCommands, Drop(c)
        PROVE  RLBTypeOK'
    BY <2>2 DEF Drop
  <2>3. CASE RestoreYield
    BY <2>3 DEF RestoreYield
  <2>4. ASSUME NEW c \in RestoreCommands, RestoreSend(c)
        PROVE  RLBTypeOK'
    <3>1. c \in Commands
      BY DEF Commands
    <3> QED
      BY <2>4, <3>1, AppendProperties DEF RestoreSend, HasRoom
  <2>5. CASE WorkerTake
    <3>1. /\ Head(queue) \in Commands
          /\ Tail(queue) \in Seq(Commands)
          /\ Len(Tail(queue)) = Len(queue) - 1
      BY <2>5, HeadThenTail DEF WorkerTake
    <3>2. /\ <<Head(queue)>> \in Seq(Commands)
          /\ Len(<<Head(queue)>>) = 1
      BY <3>1
    <3>3. Len(queue) \in Nat
      BY LenProperties
    <3> QED
      BY <2>5, <3>1, <3>2, <3>3 DEF WorkerTake
  <2>6. CASE WorkerFinish
    <3>1. Head(inflight) \in Commands
      BY <2>6, AtMostOne DEF WorkerFinish
    <3>2. Append(executed, Head(inflight)) \in Seq(Commands)
      BY <3>1, AppendProperties
    <3> QED
      BY <2>6, <3>2, EmptySeq DEF WorkerFinish
  <2>7. CASE WorkerStop
    BY <2>7 DEF WorkerStop
  <2>8. CASE ShutdownCall
    BY <2>8, LenProperties DEF ShutdownCall
  <2>9. CASE ShutdownDrained
    BY <2>9 DEF ShutdownDrained
  <2>10. CASE StopClose
    BY <2>10 DEF StopClose
  <2>11. CASE StopReturn
    BY <2>11 DEF StopReturn
  <2>12. CASE UNCHANGED queueVars
    BY <2>12 DEF queueVars
  <2> QED
    BY <2>1, <2>2, <2>3, <2>4, <2>5, <2>6, <2>7, <2>8, <2>9, <2>10, <2>11, <2>12
    DEF RLBNext, ProcessExit
<1> QED
  BY <1>1, <1>2, PTL DEF RLBSpec

(***************************************************************************)
(* Order, and what Shutdown waits for                                      *)
(***************************************************************************)

\* The lengths and the emptiness of the queue's three parts, for arithmetic.
LEMMA Lengths ==
  ASSUME RLBTypeOK
  PROVE  /\ Len(queue) \in Nat /\ Len(inflight) \in Nat
         /\ Len(executed) \in Nat /\ Len(accepted) \in Nat
  BY LenProperties DEF RLBTypeOK

\* A command that enters the channel is accepted last.
LEMMA SendKeepsOrder ==
  ASSUME RLBTypeOK, RunOnceInOrder, NEW c \in Commands,
         queue' = Append(queue, c), accepted' = Append(accepted, c),
         UNCHANGED <<inflight, executed>>
  PROVE  RunOnceInOrder'
<1>1. executed \o inflight \o Append(queue, c) = Append(executed \o inflight \o queue, c)
  BY AppendToLast DEF RLBTypeOK
<1> QED
  BY <1>1 DEF RunOnceInOrder

\* Nothing that leaves the three parts and the history alone disturbs the order.
LEMMA OrderUntouched ==
  ASSUME RunOnceInOrder, UNCHANGED <<queue, inflight, executed, accepted>>
  PROVE  RunOnceInOrder'
  BY DEF RunOnceInOrder

\* For every queue size and every interleaving of producers, restore, worker and
\* Shutdown, an accepted command is run at most once and in order of acceptance,
\* and none disappears: it has run, is running or is queued.
THEOREM RunsOnceInOrder == RLBSpec => []RunOnceInOrder
<1>1. RLBInit => RunOnceInOrder
  <2>1. <<>> \o <<>> \o <<>> = <<>>
    <3>1. <<>> \in Seq(Commands)
      BY EmptySeq
    <3> QED
      BY <3>1, ConcatEmptySeq
  <2> QED
    BY <2>1 DEF RLBInit, RunOnceInOrder
<1>2. RLBTypeOK /\ RunOnceInOrder /\ [RLBNext]_queueVars => RunOnceInOrder'
  <2> SUFFICES ASSUME RLBTypeOK, RunOnceInOrder, [RLBNext]_queueVars
               PROVE  RunOnceInOrder'
    OBVIOUS
  <2>1. ASSUME NEW c \in LiveCommands, Enqueue(c)
        PROVE  RunOnceInOrder'
    BY <2>1, SendKeepsOrder DEF Enqueue, Commands
  <2>2. ASSUME NEW c \in LiveCommands, Drop(c)
        PROVE  RunOnceInOrder'
    BY <2>2, OrderUntouched DEF Drop
  <2>3. CASE RestoreYield
    BY <2>3, OrderUntouched DEF RestoreYield
  <2>4. ASSUME NEW c \in RestoreCommands, RestoreSend(c)
        PROVE  RunOnceInOrder'
    BY <2>4, SendKeepsOrder DEF RestoreSend, Commands
  <2>5. CASE WorkerTake
    <3>1. /\ inflight = <<>>
          /\ inflight' = <<Head(queue)>>
          /\ queue' = Tail(queue)
          /\ queue # <<>>
          /\ UNCHANGED <<executed, accepted>>
      BY <2>5 DEF WorkerTake
    <3>2. /\ Head(queue) \in Commands
          /\ Tail(queue) \in Seq(Commands)
          /\ <<Head(queue)>> \o Tail(queue) = queue
      BY <3>1, HeadThenTail DEF RLBTypeOK
    <3>3. executed \o <<>> = executed
      BY ConcatEmptySeq DEF RLBTypeOK
    <3>4. <<Head(queue)>> \in Seq(Commands)
      BY <3>2
    <3>5. (executed \o <<Head(queue)>>) \o Tail(queue)
            = executed \o (<<Head(queue)>> \o Tail(queue))
      BY <3>2, <3>4, ConcatAssociative DEF RLBTypeOK
    <3> QED
      BY <3>1, <3>2, <3>3, <3>5 DEF RunOnceInOrder
  <2>6. CASE WorkerFinish
    <3>1. /\ inflight # <<>>
          /\ inflight' = <<>>
          /\ executed' = Append(executed, Head(inflight))
          /\ UNCHANGED <<queue, accepted>>
      BY <2>6 DEF WorkerFinish
    <3>2. inflight = <<Head(inflight)>> /\ Head(inflight) \in Commands
      BY <3>1, AtMostOne DEF RLBTypeOK
    <3>3. executed' = executed \o inflight
      BY <3>1, <3>2, AppendIsConcat DEF RLBTypeOK
    <3>4. executed' \in Seq(Commands)
      BY <3>3, ConcatProperties DEF RLBTypeOK
    <3>5. executed' \o <<>> = executed'
      BY <3>4, ConcatEmptySeq
    <3> QED
      BY <3>1, <3>3, <3>5 DEF RunOnceInOrder
  <2>7. CASE WorkerStop
    BY <2>7, OrderUntouched DEF WorkerStop
  <2>8. CASE ShutdownCall
    BY <2>8, OrderUntouched DEF ShutdownCall
  <2>9. CASE ShutdownDrained
    BY <2>9, OrderUntouched DEF ShutdownDrained
  <2>10. CASE StopClose
    BY <2>10, OrderUntouched DEF StopClose
  <2>11. CASE StopReturn
    BY <2>11, OrderUntouched DEF StopReturn
  <2>12. CASE UNCHANGED queueVars
    BY <2>12, OrderUntouched DEF queueVars
  <2> QED
    BY <2>1, <2>2, <2>3, <2>4, <2>5, <2>6, <2>7, <2>8, <2>9, <2>10, <2>11, <2>12
    DEF RLBNext, ProcessExit
<1> QED
  BY <1>1, <1>2, TypeCorrect, PTL DEF RLBSpec

\* The queue, the worker and the history in terms of their lengths.
LEMMA OrderGivesLengths ==
  ASSUME RLBTypeOK, RunOnceInOrder
  PROVE  Len(accepted) = Len(executed) + Len(inflight) + Len(queue)
<1>1. /\ executed \o inflight \in Seq(Commands)
      /\ Len(executed \o inflight) = Len(executed) + Len(inflight)
  BY ConcatProperties DEF RLBTypeOK
<1>2. Len((executed \o inflight) \o queue) = Len(executed \o inflight) + Len(queue)
  BY <1>1, ConcatProperties DEF RLBTypeOK
<1> QED
  BY <1>1, <1>2 DEF RunOnceInOrder

\* The strengthening under ShutdownDrains is inductive.
THEOREM ShutdownProgresses == RLBSpec => []ShutdownProgress
<1>1. RLBInit => ShutdownProgress
  BY DEF RLBInit, ShutdownProgress
<1>2. /\ RLBTypeOK /\ RLBTypeOK' /\ RunOnceInOrder /\ ShutdownProgress
      /\ [RLBNext]_queueVars
      => ShutdownProgress'
  <2> SUFFICES ASSUME RLBTypeOK, RLBTypeOK', RunOnceInOrder, ShutdownProgress,
                      [RLBNext]_queueVars
               PROVE  ShutdownProgress'
    OBVIOUS
  <2>0. /\ Len(queue) \in Nat /\ Len(inflight) \in Nat
        /\ Len(executed) \in Nat /\ Len(accepted) \in Nat
        /\ mark \in Nat
        /\ shutdown \in ShutdownStates
    BY Lengths DEF RLBTypeOK
  <2> USE <2>0 DEF ShutdownProgress
  <2>1. ASSUME NEW c \in LiveCommands, Enqueue(c)
        PROVE  ShutdownProgress'
    <3>1. Len(accepted') = Len(accepted) + 1
      BY <2>1, AppendProperties DEF Enqueue, RLBTypeOK, Commands
    <3> QED
      BY <2>1, <3>1 DEF Enqueue
  <2>2. ASSUME NEW c \in LiveCommands, Drop(c)
        PROVE  ShutdownProgress'
    BY <2>2 DEF Drop
  <2>3. CASE RestoreYield
    BY <2>3 DEF RestoreYield
  <2>4. ASSUME NEW c \in RestoreCommands, RestoreSend(c)
        PROVE  ShutdownProgress'
    <3>1. Len(accepted') = Len(accepted) + 1
      BY <2>4, AppendProperties DEF RestoreSend, RLBTypeOK, Commands
    <3> QED
      BY <2>4, <3>1 DEF RestoreSend
  <2>5. CASE WorkerTake
    <3>1. Len(inflight) = 0 /\ Len(inflight') = 1
      BY <2>5 DEF WorkerTake
    <3> QED
      BY <2>5, <3>1 DEF WorkerTake
  <2>6. CASE WorkerFinish
    <3>1. Len(inflight) = 1 /\ Head(inflight) \in Commands
      BY <2>6, AtMostOne DEF WorkerFinish, RLBTypeOK
    <3>2. Len(executed') = Len(executed) + 1 /\ Len(inflight') = 0
      BY <2>6, <3>1, AppendProperties DEF WorkerFinish, RLBTypeOK
    <3> QED
      BY <2>6, <3>1, <3>2 DEF WorkerFinish
  <2>7. CASE WorkerStop
    BY <2>7 DEF WorkerStop
  <2>8. CASE ShutdownCall
    BY <2>8 DEF ShutdownCall
  <2>9. CASE ShutdownDrained
    <3>1. Len(queue) = 0
      BY <2>9 DEF ShutdownDrained
    <3>2. Len(accepted) = Len(executed) + Len(inflight)
      BY <3>1, OrderGivesLengths
    <3> QED
      BY <2>9, <3>2 DEF ShutdownDrained
  <2>10. CASE StopClose
    BY <2>10 DEF StopClose
  <2>11. CASE StopReturn
    BY <2>11 DEF StopReturn
  <2>12. CASE UNCHANGED queueVars
    BY <2>12 DEF queueVars
  <2> QED
    BY <2>1, <2>2, <2>3, <2>4, <2>5, <2>6, <2>7, <2>8, <2>9, <2>10, <2>11, <2>12
    DEF RLBNext, ProcessExit
<1> QED
  BY <1>1, <1>2, TypeCorrect, RunsOnceInOrder, PTL DEF RLBSpec

\* When Shutdown returns, every command queued before it was called has been run
\* on the wrapped blocker, although Shutdown only polls the length of the queue.
THEOREM ShutdownDrainsQueue == RLBSpec => []ShutdownDrains
<1>1. RLBTypeOK /\ ShutdownProgress => ShutdownDrains
  <2> SUFFICES ASSUME RLBTypeOK, ShutdownProgress, shutdown = "done"
               PROVE  Len(executed) >= mark
    BY DEF ShutdownDrains
  <2>1. Len(inflight) = 0
    BY DEF ShutdownProgress
  <2> QED
    BY <2>1, Lengths DEF ShutdownProgress, RLBTypeOK
<1> QED
  BY <1>1, TypeCorrect, ShutdownProgresses, PTL

\* Nothing runs on the wrapped blocker after Shutdown has returned.
THEOREM QuietOnceShutDown == RLBSpec => QuietAfterShutdown
<1>1. /\ ShutdownProgress /\ [RLBNext]_queueVars
      => [shutdown = "done" => UNCHANGED <<inflight, executed>>]_queueVars
  BY DEF ShutdownProgress, RLBNext, queueVars, Enqueue, Drop, RestoreYield, RestoreSend,
         WorkerTake, WorkerFinish, WorkerStop, ShutdownCall, ShutdownDrained, StopClose,
         StopReturn, ProcessExit
<1> QED
  BY <1>1, ShutdownProgresses, PTL DEF RLBSpec, QuietAfterShutdown

(***************************************************************************)
(* The queue implements the abstract channel                               *)
(***************************************************************************)

\* A send on a channel with room is an Accept of the abstract channel.
LEMMA SendIsAccept ==
  ASSUME RLBTypeOK, NEW c \in Commands, Len(queue) < QueueSize,
         queue' = Append(queue, c), UNCHANGED <<inflight, executed>>
  PROVE  Channel!Next
<1>1. /\ <<>> \in Seq(Commands)
      /\ inflight \o queue \in Seq(Commands)
      /\ Len(inflight \o queue) = Len(inflight) + Len(queue)
  BY EmptySeq, ConcatProperties DEF RLBTypeOK
<1>2. <<>> \o inflight \o Append(queue, c) = Append(<<>> \o inflight \o queue, c)
  BY <1>1, AppendToLast DEF RLBTypeOK
<1>3. <<>> \o inflight = inflight
  BY ConcatEmptySeq DEF RLBTypeOK
<1>4. inflight \o Append(queue, c) = Append(inflight \o queue, c)
  BY <1>2, <1>3
<1>5. Len(inflight \o queue) < QueueSize + 1
  BY <1>1, Lengths, QueueAssumption DEF RLBTypeOK
<1>6. Channel!Accept(c)
  BY <1>4, <1>5 DEF Channel!Accept
<1> QED
  BY <1>6 DEF Channel!Next

\* The command queue with its worker, its restore goroutine and its shutdown
\* implements a bounded at-most-once FIFO channel.
THEOREM QueueImplementsChannel == RLBSpec => ImplementsChannel
<1>1. RLBInit => Channel!Init
  <2>1. <<>> \o <<>> = <<>>
    BY EmptySeq, ConcatEmptySeq
  <2> QED
    BY <2>1 DEF RLBInit, Channel!Init
<1>2. RLBTypeOK /\ [RLBNext]_queueVars => [Channel!Next]_Channel!vars
  <2> SUFFICES ASSUME RLBTypeOK, [RLBNext]_queueVars
               PROVE  [Channel!Next]_Channel!vars
    OBVIOUS
  <2>0. ASSUME UNCHANGED <<queue, inflight, executed>>
        PROVE  UNCHANGED Channel!vars
    BY <2>0 DEF Channel!vars
  <2>1. ASSUME NEW c \in LiveCommands, Enqueue(c)
        PROVE  Channel!Next
    BY <2>1, SendIsAccept DEF Enqueue, HasRoom, Commands
  <2>2. ASSUME NEW c \in LiveCommands, Drop(c)
        PROVE  UNCHANGED Channel!vars
    BY <2>2, <2>0 DEF Drop
  <2>3. CASE RestoreYield
    BY <2>3, <2>0 DEF RestoreYield
  <2>4. ASSUME NEW c \in RestoreCommands, RestoreSend(c)
        PROVE  Channel!Next
    BY <2>4, SendIsAccept DEF RestoreSend, HasRoom, Commands
  <2>5. CASE WorkerTake
    <3>1. <<>> \o queue = queue
      BY ConcatEmptySeq DEF RLBTypeOK
    <3>2. <<Head(queue)>> \o Tail(queue) = queue
      BY <2>5, HeadThenTail DEF WorkerTake, RLBTypeOK
    <3>3. inflight' \o queue' = inflight \o queue
      BY <2>5, <3>1, <3>2 DEF WorkerTake
    <3> QED
      BY <2>5, <3>3 DEF WorkerTake, Channel!vars
  <2>6. CASE WorkerFinish
    <3>1. /\ inflight # <<>>
          /\ inflight' = <<>>
          /\ queue' = queue
          /\ executed' = Append(executed, Head(inflight))
      BY <2>6 DEF WorkerFinish
    <3>2. inflight = <<Head(inflight)>> /\ Head(inflight) \in Commands /\ Len(inflight) = 1
      BY <3>1, AtMostOne DEF RLBTypeOK
    <3>3. <<>> \o queue = queue
      BY ConcatEmptySeq DEF RLBTypeOK
    <3> DEFINE p == inflight \o queue
    <3>4. /\ p \in Seq(Commands)
          /\ Len(p) = 1 + Len(queue)
          /\ \A i \in 1 .. 1 + Len(queue) :
                p[i] = IF i <= 1 THEN inflight[i] ELSE queue[i - 1]
      <4>1. /\ p \in Seq(Commands)
            /\ Len(p) = Len(inflight) + Len(queue)
            /\ \A i \in 1 .. Len(inflight) + Len(queue) :
                  p[i] = IF i <= Len(inflight) THEN inflight[i]
                         ELSE queue[i - Len(inflight)]
        BY ConcatProperties DEF RLBTypeOK
      <4> QED
        BY <4>1, <3>2
    <3>5. Len(queue) \in Nat
      BY Lengths
    <3>6. p # <<>>
      BY <3>4, <3>5
    <3>7. Head(p) = Head(inflight)
      BY <3>2, <3>4, <3>5, <3>6
    <3>8. Tail(p) = queue
      <4>1. /\ Tail(p) \in Seq(Commands)
            /\ Len(Tail(p)) = Len(queue)
            /\ \A i \in 1 .. Len(queue) : Tail(p)[i] = p[i + 1]
        BY <3>4, <3>5, <3>6, HeadTailProperties
      <4>2. \A i \in 1 .. Len(queue) : Tail(p)[i] = queue[i]
        BY <4>1, <3>4, <3>5
      <4> QED
        BY <4>1, <4>2, SeqEqual DEF RLBTypeOK
    <3>9. Channel!Deliver
      BY <3>1, <3>3, <3>6, <3>7, <3>8 DEF Channel!Deliver
    <3> QED
      BY <3>9 DEF Channel!Next
  <2>7. CASE WorkerStop
    BY <2>7, <2>0 DEF WorkerStop
  <2>8. CASE ShutdownCall
    BY <2>8, <2>0 DEF ShutdownCall
  <2>9. CASE ShutdownDrained
    BY <2>9, <2>0 DEF ShutdownDrained
  <2>10. CASE StopClose
    BY <2>10, <2>0 DEF StopClose
  <2>11. CASE StopReturn
    BY <2>11, <2>0 DEF StopReturn
  <2>12. CASE UNCHANGED queueVars
    BY <2>12, <2>0 DEF queueVars
  <2> QED
    BY <2>1, <2>2, <2>3, <2>4, <2>5, <2>6, <2>7, <2>8, <2>9, <2>10, <2>11, <2>12
    DEF RLBNext, ProcessExit
<1> QED
  BY <1>1, <1>2, TypeCorrect, PTL DEF RLBSpec, ImplementsChannel, Channel!Spec

(***************************************************************************)
(* The room that the restore leaves                                        *)
(***************************************************************************)

Half == QueueSize \div 2

\* While the restore is in its send, the restored commands are still no more than half the
\* queue, as they were when its loop last looked: only it adds to them.
RoomOK ==
  /\ Cardinality(Restored) <= Half + 1
  /\ restorer = "send" => Cardinality(Restored) <= Half

\* The restored commands are finitely many, and no more than the queue holds.
LEMMA RestoredFinite ==
  ASSUME RLBTypeOK
  PROVE  /\ IsFiniteSet(Restored) /\ Cardinality(Restored) \in Nat
         /\ Cardinality(Restored) <= Len(queue)
<1>1. Len(queue) \in Nat
  BY Lengths
<1>2. IsFiniteSet(1 .. Len(queue)) /\ Cardinality(1 .. Len(queue)) = Len(queue)
  <2> DEFINE n == Len(queue)
  <2>1. n \in Nat /\ n \in Int /\ 1 \in Int
    BY <1>1
  <2> HIDE DEF n
  <2>2. IsFiniteSet(1 .. n) /\ Cardinality(1 .. n) = IF 1 > n THEN 0 ELSE n - 1 + 1
    BY <2>1, FS_Interval
  <2>3. Cardinality(1 .. n) = n
    BY <2>1, <2>2
  <2> QED
    BY <2>2, <2>3 DEF n
<1>3. Restored \in SUBSET (1 .. Len(queue))
  BY DEF Restored
<1> QED
  BY <1>2, <1>3, FS_Subset, FS_CardinalityType

\* A send adds at most one restored command, and none if it is of a live one.
LEMMA RestoredSend ==
  ASSUME RLBTypeOK, NEW c \in Commands, queue' = Append(queue, c)
  PROVE  /\ Cardinality(Restored') \in Nat
         /\ Cardinality(Restored') <= Cardinality(Restored) + 1
         /\ c \notin RestoreCommands => Cardinality(Restored') = Cardinality(Restored)
<1>1. /\ queue \in Seq(Commands) /\ Len(queue) \in Nat
      /\ IsFiniteSet(Restored) /\ Cardinality(Restored) \in Nat
  BY Lengths, RestoredFinite DEF RLBTypeOK
<1>2. /\ Len(queue') = Len(queue) + 1
      /\ \A i \in 1 .. Len(queue) : queue'[i] = queue[i]
      /\ queue'[Len(queue) + 1] = c
  BY <1>1, AppendProperties
<1>3. \A i : i \in 1 .. Len(queue) + 1 <=> i \in 1 .. Len(queue) \/ i = Len(queue) + 1
  BY <1>1
<1>4. CASE c \in RestoreCommands
  <2>1. Restored' = Restored \cup {Len(queue) + 1}
    BY <1>2, <1>3, <1>4 DEF Restored
  <2>2. /\ Cardinality(Restored \cup {Len(queue) + 1}) \in Nat
        /\ Cardinality(Restored \cup {Len(queue) + 1}) <= Cardinality(Restored) + 1
    <3> DEFINE x == Len(queue) + 1
    <3> HIDE DEF x
    <3>1. Cardinality(Restored \cup {x}) =
            IF x \in Restored THEN Cardinality(Restored) ELSE Cardinality(Restored) + 1
      BY <1>1, FS_AddElement
    <3>2. /\ Cardinality(Restored \cup {x}) \in Nat
          /\ Cardinality(Restored \cup {x}) <= Cardinality(Restored) + 1
      BY <1>1, <3>1
    <3> QED
      BY <3>2 DEF x
  <2> QED
    BY <1>4, <2>1, <2>2
<1>5. CASE c \notin RestoreCommands
  <2>1. Restored' = Restored
    BY <1>2, <1>3, <1>5 DEF Restored
  <2> QED
    BY <1>1, <2>1
<1> QED
  BY <1>4, <1>5

\* Taking the first command adds none.
LEMMA RestoredTake ==
  ASSUME RLBTypeOK, queue # <<>>, queue' = Tail(queue)
  PROVE  Cardinality(Restored') \in Nat /\ Cardinality(Restored') <= Cardinality(Restored)
<1>1. queue \in Seq(Commands) /\ Len(queue) \in Nat /\ IsFiniteSet(Restored)
  BY Lengths, RestoredFinite DEF RLBTypeOK
<1>2. /\ Len(queue') = Len(queue) - 1
      /\ \A i \in 1 .. Len(queue') : queue'[i] = queue[i + 1]
  BY <1>1, HeadTailProperties
<1> DEFINE f == [i \in Restored' |-> i + 1]
<1>3. \A i \in Restored' : i \in Int /\ i + 1 \in Restored
  BY <1>1, <1>2 DEF Restored
<1>4. f \in Injection(Restored', Restored)
  <2>1. f \in [Restored' -> Restored]
    BY <1>3
  <2>2. \A a, b \in Restored' : f[a] = f[b] => a = b
    BY <1>3
  <2> QED
    BY <2>1, <2>2 DEF Injection, IsInjective
<1> HIDE DEF f
<1> QED
  BY <1>1, <1>4, FS_Injection, FS_CardinalityType

\* The yield loop does what it is for, for every queue size: the commands that the restore
\* sends in the background never fill more than half the queue and one place.
THEOREM RestoreYieldsToTraffic == RLBSpec => []RestoreLeavesRoom
<1>0. Half \in Nat
  BY QueueAssumption DEF Half
<1>1. RLBInit => RoomOK
  <2> SUFFICES ASSUME RLBInit PROVE RoomOK
    OBVIOUS
  <2>1. Restored = {}
    BY DEF RLBInit, Restored
  <2> QED
    BY <1>0, <2>1, FS_EmptySet DEF RLBInit, RoomOK
<1>2. RLBTypeOK /\ RoomOK /\ [RLBNext]_queueVars => RoomOK'
  <2> SUFFICES ASSUME RLBTypeOK, RoomOK, [RLBNext]_queueVars
               PROVE  RoomOK'
    OBVIOUS
  <2>0. Cardinality(Restored) \in Nat /\ Cardinality(Restored) <= Len(queue)
        /\ Len(queue) \in Nat
    BY RestoredFinite, Lengths
  <2>1. ASSUME NEW c \in LiveCommands, Enqueue(c)
        PROVE  RoomOK'
    <3>1. c \in Commands /\ c \notin RestoreCommands
      BY QueueAssumption DEF Commands
    <3>2. Cardinality(Restored') = Cardinality(Restored)
      BY <2>1, <3>1, RestoredSend DEF Enqueue
    <3> QED
      BY <2>1, <3>2 DEF RoomOK, Enqueue, Half
  <2>2. ASSUME NEW c \in RestoreCommands, RestoreSend(c)
        PROVE  RoomOK'
    <3>1. Cardinality(Restored') \in Nat /\ Cardinality(Restored') <= Cardinality(Restored) + 1
      BY <2>2, RestoredSend DEF RestoreSend, Commands
    <3>2. Cardinality(Restored) <= Half /\ restorer' = "yield"
      BY <2>2 DEF RoomOK, RestoreSend
    <3> QED
      BY <1>0, <2>0, <3>1, <3>2 DEF RoomOK, Half
  <2>3. CASE WorkerTake
    <3>1. /\ Cardinality(Restored') \in Nat /\ Cardinality(Restored') <= Cardinality(Restored)
          /\ restorer' = restorer
      BY <2>3, RestoredTake DEF WorkerTake
    <3> QED
      BY <1>0, <2>0, <3>1 DEF RoomOK, Half
  <2>4. CASE RestoreYield
    <3>1. Cardinality(Restored') = Cardinality(Restored) /\ Len(queue) <= Half
      BY <2>4 DEF RestoreYield, Restored, Half
    <3> QED
      BY <1>0, <2>0, <3>1 DEF RoomOK, Half
  <2>5. ASSUME UNCHANGED <<queue, restorer>>
        PROVE  RoomOK'
    BY <2>5 DEF RoomOK, Restored, Half
  <2> QED
    BY <2>1, <2>2, <2>3, <2>4, <2>5
    DEF RLBNext, Drop, WorkerFinish, WorkerStop, ShutdownCall, ShutdownDrained, StopClose,
        StopReturn, ProcessExit, queueVars
<1>3. RoomOK => RestoreLeavesRoom
  BY DEF RoomOK, RestoreLeavesRoom, Half
<1> QED
  BY <1>1, <1>2, <1>3, TypeCorrect, PTL DEF RLBSpec

(***************************************************************************)
(* Queries: what a call about an IP has learnt                             *)
(***************************************************************************)

CellValues == Entries \cup {Absent}
Places == Backends \X (Tables \cup {Names})
Calls == [op : Ops, phase : {"read", "send", "verify", "done"}, attempt : Int, err : BOOLEAN,
          seen : {-1, 0, 1}, still : BOOLEAN]

\* An entry after k ticks, and what may have been read of it in the last n ticks.
Aged(e, k) == IF e.exp > k THEN [gpc0 |-> e.gpc0, exp |-> e.exp - k] ELSE Absent
ReadOf(e, n, r) == \E k \in 0 .. n : r = Aged(e, k)

\* The goroutine that reads the cell c, for an operation that does read it.
ReaderOf(op, c) == IF op \in Concurrent THEN c[1] ELSE First
Asks(op, c) == op # "blocked" \/ c[1] = First

QueryTypes ==
  /\ entry \in [Cells -> CellValues] /\ start \in [Cells -> CellValues]
  /\ got \in [Cells -> CellValues]
  /\ up \subseteq Backends /\ healthy \subseteq Backends /\ targets \subseteq Backends
  /\ touched \subseteq Cells /\ trouble \subseteq Backends
  /\ Backends \subseteq up \cup trouble
  /\ elapsed \in Nat /\ call \in Calls /\ todo \in [Backends -> Seq(Places)]

\* Only ClearIP sends commands and verifies them.
PhaseOK ==
  /\ call.op = "clear" \/ call.phase \in {"read", "done"}
  /\ targets # {} => call.phase = "send"

\* Who reads what.
PlacesRead(cl, td) ==
  \A th \in Backends : \A x \in ToSet(td[th]) :
    /\ x[2] = Names => x[1] = th
    /\ cl.op \in Concurrent \/ th = First
    /\ cl.op = "blocked" => x[1] = First

\* An entry nobody wrote has aged, and what was read of it was true when it was read.
HistoryTrue(en, st, n, tou) == \A c \in Cells \ tou : en[c] = Aged(st[c], n)
ReadsTrue(gt, st, n, tou) == \A c \in Cells \ tou : gt[c] = Absent \/ ReadOf(st[c], n, gt[c])

\* Why nothing was read of the cell c although its turn has passed.
Excused(cl, td, gt, trb, c) ==
  \/ cl.op \in {"compare", "dump"} /\ cl.err
  \/ cl.op \notin {"compare", "dump"} /\ (c[1] \in trb \/ ReaderOf(cl.op, c) \in trb)
  \/ /\ cl.op = "blocked" /\ td[First] = <<>>
     /\ \E t \in Tables : gt[<<First, t>>].gpc0 = 1

\* Every cell is still to be read, was read, or there is a reason why it was not.
AllCovered(cl, td, gt, st, n, tou, trb) ==
  \A c \in Cells : Asks(cl.op, c) =>
    \/ c \in ToSet(td[ReaderOf(cl.op, c)])
    \/ c \in tou \/ ReadOf(st[c], n, gt[c])
    \/ Excused(cl, td, gt, trb, c)

\* What GetCurrentState and DumpBackends merge.
SeenTrue(cl, gt, st, tou) ==
  /\ cl.op = "state" => \A c \in Cells : gt[c].gpc0 = 1 => cl.seen = 1
  /\ cl.op = "dump" => \A c \in Cells : Present(gt[c]) => cl.seen # -1
  /\ cl.seen = 1 => \E c \in Cells : c \in tou \/ st[c].gpc0 = 1

\* Only the first backend can fail those that begin with its table names.
ErrorsTrue(cl, trb) == cl.op \in {"blocked", "details", "clear"} /\ cl.err => First \in trb

\* A cell that has been verified is empty, unless it was written since.
Verified(cl, td, en, tou, trb) ==
  /\ \A th \in Backends : \A x \in ToSet(td[th]) : x \in Cells
  /\ \A c \in Cells : c \in ToSet(td[First]) \/ cl.still \/ c[1] \in trb \/ c \in tou
                      \/ ~Present(en[c])

ReadingOK ==
  call.phase = "read" =>
    /\ PlacesRead(call, todo)
    /\ HistoryTrue(entry, start, elapsed, touched)
    /\ ReadsTrue(got, start, elapsed, touched)
    /\ AllCovered(call, todo, got, start, elapsed, touched, trouble)
    /\ SeenTrue(call, got, start, touched)
    /\ ErrorsTrue(call, trouble)
VerifyOK == call.phase = "verify" => Verified(call, todo, entry, touched, trouble)

QueriesInv ==
  /\ QueryTypes /\ PhaseOK /\ ReadingOK /\ VerifyOK
  /\ NothingMissed /\ NoFalseAlarm /\ ClearedIsGone /\ LookupsTruthful

(***************************************************************************)
(* Queries: what is to be read                                             *)
(***************************************************************************)

\* The first address is a backend.
LEMMA FirstIsBackend == First \in Backends
<1>1. Backends # {}
  <2> SUFFICES ASSUME Backends = {} PROVE FALSE
    OBVIOUS
  <2>1. Cardinality(Backends) = 0
    BY FS_EmptySet
  <2> QED
    BY <2>1, QueriesAssumption
<1>2. Addresses # <<>>
  BY <1>1 DEF Backends, ToSet
<1> QED
  BY <1>2, QueriesAssumption DEF First, Backends, ToSet

\* Rows of n cells, counted one after the other.
LEMMA Rows ==
  ASSUME NEW n \in Nat \ {0}, NEW a \in Nat, NEW j \in 0 .. n - 1
  PROVE  (a * n + j) \div n = a /\ (a * n + j) % n = j
OBVIOUS

LEMMA RowBound ==
  ASSUME NEW n \in Nat, NEW m \in Nat, NEW a \in 1 .. m, NEW j \in 1 .. n
  PROVE  (a - 1) * n + j \in 1 .. m * n
OBVIOUS

\* The place of cell i of n in each of m rows.
LEMMA RowOf ==
  ASSUME NEW n \in Nat, NEW m \in Nat, NEW i \in 1 .. m * n
  PROVE  /\ n > 0 /\ ((i - 1) \div n) + 1 \in 1 .. m
         /\ ((i - 1) % n) + 1 \in 1 .. n
OBVIOUS

\* What a table or a sequence of table names has to do with a place.
LEMMA Grid ==
  /\ Cells \subseteq Places
  /\ \A c \in Cells : c[1] \in Backends /\ c[2] \in Tables /\ c[2] # Names
                      /\ c = <<c[1], c[2]>>
  /\ \A b \in Backends, t \in Tables : <<b, t>> \in Cells
  /\ \A x \in Places : x[2] # Names => x \in Cells
  /\ \A x \in Places : x[1] \in Backends
BY QueriesAssumption DEF Cells, Places

\* All tables of one backend.
LEMMA ReadsOfFacts ==
  ASSUME NEW b \in Backends
  PROVE  ReadsOf(b) \in Seq(Cells) /\ ToSet(ReadsOf(b)) = {b} \X Tables
<1>1. TableNames \in Seq(Tables) /\ DOMAIN TableNames = 1 .. Len(TableNames) /\ Len(TableNames) \in Nat
  BY QueriesAssumption
<1>2. \A i \in 1 .. Len(TableNames) : <<b, TableNames[i]>> \in Cells
  BY <1>1 DEF Cells
<1>3. ReadsOf(b) \in Seq(Cells) /\ DOMAIN ReadsOf(b) = 1 .. Len(TableNames)
      /\ \A i \in 1 .. Len(TableNames) : ReadsOf(b)[i] = <<b, TableNames[i]>>
  BY <1>1, <1>2 DEF ReadsOf
<1>4. Tables = {TableNames[i] : i \in 1 .. Len(TableNames)}
  BY <1>1 DEF Tables, ToSet
<1>5. ASSUME NEW x \in ToSet(ReadsOf(b)) PROVE x \in {b} \X Tables
  <2>1. PICK i \in 1 .. Len(TableNames) : x = ReadsOf(b)[i]
    BY <1>3, <1>5 DEF ToSet
  <2>2. TableNames[i] \in Tables
    BY <1>1
  <2>3. x = <<b, TableNames[i]>>
    BY <1>3, <2>1
  <2> QED
    BY <2>2, <2>3
<1>6. ASSUME NEW x \in {b} \X Tables PROVE x \in ToSet(ReadsOf(b))
  <2>1. PICK i \in 1 .. Len(TableNames) : x = <<b, TableNames[i]>>
    BY <1>4
  <2> QED
    BY <1>3, <2>1 DEF ToSet
<1> QED
  BY <1>3, <1>5, <1>6

\* All tables of all backends.
LEMMA AllReadsFacts == AllReads \in Seq(Cells) /\ ToSet(AllReads) = Cells
<1> DEFINE n == Len(TableNames)
           m == Len(Addresses)
<1>1. /\ n \in Nat /\ m \in Nat
      /\ \A j \in 1 .. n : TableNames[j] \in Tables
      /\ \A a \in 1 .. m : Addresses[a] \in Backends
      /\ \A t \in Tables : \E j \in 1 .. n : t = TableNames[j]
      /\ \A b \in Backends : \E a \in 1 .. m : b = Addresses[a]
  BY QueriesAssumption DEF Tables, Backends, ToSet
<1>2. AllReads = [i \in 1 .. m * n |->
                    <<Addresses[((i - 1) \div n) + 1], TableNames[((i - 1) % n) + 1]>>]
  BY DEF AllReads
<1> HIDE DEF n, m
<1>3. \A i \in 1 .. m * n :
        <<Addresses[((i - 1) \div n) + 1], TableNames[((i - 1) % n) + 1]>> \in Cells
  BY <1>1, RowOf DEF Cells
<1>4. m * n \in Nat
  BY <1>1
<1>5. AllReads \in Seq(Cells) /\ DOMAIN AllReads = 1 .. m * n
  BY <1>2, <1>3, <1>4
<1>6. ASSUME NEW c \in Cells PROVE c \in ToSet(AllReads)
  <2>1. PICK a \in 1 .. m, j \in 1 .. n : c = <<Addresses[a], TableNames[j]>>
    BY <1>1 DEF Cells
  <2> DEFINE i == (a - 1) * n + j
  <2>2. i \in 1 .. m * n
    BY <1>1, RowBound
  <2>3. (a - 1) \in Nat /\ j - 1 \in 0 .. n - 1 /\ n \in Nat \ {0} /\ i - 1 = (a - 1) * n + (j - 1)
    BY <1>1
  <2>4. (i - 1) \div n = a - 1 /\ (i - 1) % n = j - 1
    BY <2>3, Rows
  <2> HIDE DEF i
  <2>5. AllReads[i] = <<Addresses[(a - 1) + 1], TableNames[(j - 1) + 1]>>
    BY <1>2, <2>2, <2>4
  <2>6. (a - 1) + 1 = a /\ (j - 1) + 1 = j
    BY <1>1
  <2> QED
    BY <1>5, <2>1, <2>2, <2>5, <2>6 DEF ToSet
<1>7. ASSUME NEW c \in ToSet(AllReads) PROVE c \in Cells
  <2>1. PICK i \in 1 .. m * n : c = AllReads[i]
    BY <1>5, <1>7 DEF ToSet
  <2> QED
    BY <1>2, <1>3, <2>1
<1> QED
  BY <1>5, <1>6, <1>7

\* A sequence is its first element and the rest; a first element put before it.
LEMMA FirstAndRest ==
  ASSUME NEW S, NEW s \in Seq(S), s # <<>>
  PROVE  /\ Head(s) \in S /\ Tail(s) \in Seq(S) /\ Head(s) \in ToSet(s)
         /\ ToSet(Tail(s)) \subseteq ToSet(s)
         /\ \A x \in ToSet(s) : x = Head(s) \/ x \in ToSet(Tail(s))
<1>1. /\ Head(s) = s[1] /\ Len(s) \in Nat \ {0} /\ DOMAIN s = 1 .. Len(s)
      /\ Tail(s) \in Seq(S) /\ Len(Tail(s)) = Len(s) - 1
      /\ \A i \in 1 .. Len(s) - 1 : Tail(s)[i] = s[i + 1]
      /\ \A i \in 1 .. Len(s) : s[i] \in S
  OBVIOUS
<1>2. DOMAIN Tail(s) = 1 .. Len(s) - 1
  BY <1>1
<1>3. ASSUME NEW x \in ToSet(s) PROVE x = Head(s) \/ x \in ToSet(Tail(s))
  <2>1. PICK i \in 1 .. Len(s) : x = s[i]
    BY <1>1, <1>3 DEF ToSet
  <2>2. CASE i = 1
    BY <1>1, <2>1, <2>2
  <2>3. CASE i # 1
    <3>1. i - 1 \in 1 .. Len(s) - 1 /\ (i - 1) + 1 = i
      BY <1>1, <2>3
    <3> QED
      BY <1>1, <1>2, <2>1, <3>1 DEF ToSet
  <2> QED
    BY <2>2, <2>3
<1>4. ASSUME NEW x \in ToSet(Tail(s)) PROVE x \in ToSet(s)
  <2>1. PICK i \in 1 .. Len(s) - 1 : x = Tail(s)[i]
    BY <1>2, <1>4 DEF ToSet
  <2>2. i + 1 \in 1 .. Len(s)
    BY <1>1
  <2> QED
    BY <1>1, <2>1, <2>2 DEF ToSet
<1>5. Head(s) \in S /\ Head(s) \in ToSet(s)
  BY <1>1 DEF ToSet
<1> QED
  BY <1>1, <1>3, <1>4, <1>5

LEMMA PutBefore ==
  ASSUME NEW S, NEW s \in Seq(S), NEW x \in S
  PROVE  <<x>> \o s \in Seq(S) /\ ToSet(<<x>> \o s) = {x} \cup ToSet(s)
<1> DEFINE r == <<x>> \o s
<1>1. /\ r \in Seq(S) /\ Len(r) = Len(s) + 1 /\ Len(s) \in Nat
      /\ r[1] = x /\ \A i \in 1 .. Len(s) : r[i + 1] = s[i]
  <2>1. <<x>> \in Seq(S) /\ Len(<<x>>) = 1 /\ <<x>>[1] = x
    OBVIOUS
  <2>2. Len(s) \in Nat
    OBVIOUS
  <2> DEFINE o == <<x>>
  <2> HIDE DEF o
  <2>3. /\ o \o s \in Seq(S) /\ Len(o \o s) = Len(o) + Len(s)
        /\ \A i \in 1 .. Len(o) + Len(s) : (o \o s)[i] = IF i <= Len(o) THEN o[i] ELSE s[i - Len(o)]
    BY <2>1 DEF o
  <2>4. Len(o) = 1 /\ o[1] = x
    BY <2>1 DEF o
  <2>5. \A i \in 1 .. Len(s) : (o \o s)[i + 1] = s[i]
    <3> TAKE i \in 1 .. Len(s)
    <3>1. i + 1 \in 1 .. 1 + Len(s) /\ ~(i + 1 <= 1) /\ (i + 1) - 1 = i
      BY <2>2
    <3> QED
      BY <2>3, <2>4, <3>1
  <2>6. (o \o s)[1] = x
    BY <2>2, <2>3, <2>4
  <2> QED
    BY <2>2, <2>3, <2>4, <2>5, <2>6 DEF o
<1> HIDE DEF r
<1>2. DOMAIN r = 1 .. Len(s) + 1 /\ DOMAIN s = 1 .. Len(s)
  BY <1>1
<1>3. \A i \in 1 .. Len(s) + 1 : r[i] = x \/ r[i] \in ToSet(s)
  <2> TAKE i \in 1 .. Len(s) + 1
  <2>1. CASE i = 1
    BY <1>1, <2>1
  <2>2. CASE i # 1
    <3>1. i - 1 \in 1 .. Len(s) /\ (i - 1) + 1 = i
      BY <1>1, <2>2
    <3> QED
      BY <1>1, <1>2, <3>1 DEF ToSet
  <2> QED
    BY <2>1, <2>2
<1>4. \A i \in 1 .. Len(s) : s[i] \in ToSet(r)
  <2> TAKE i \in 1 .. Len(s)
  <2>1. i + 1 \in 1 .. Len(s) + 1 /\ s[i] = r[i + 1]
    BY <1>1
  <2> QED
    BY <1>2, <2>1 DEF ToSet
<1>5. x \in ToSet(r)
  <2>1. 1 \in DOMAIN r
    BY <1>1, <1>2
  <2> QED
    BY <1>1, <2>1 DEF ToSet
<1>6. ToSet(r) \subseteq {x} \cup ToSet(s)
  BY <1>2, <1>3 DEF ToSet
<1>7. ToSet(s) \subseteq ToSet(r)
  BY <1>2, <1>4 DEF ToSet
<1> QED
  BY <1>1, <1>5, <1>6, <1>7 DEF r

\* What each goroutine reads when the call begins.
LEMMA ReadsFacts ==
  ASSUME NEW op \in Ops
  PROVE  /\ Reads(op) \in [Backends -> Seq(Places)]
         /\ \A cl : cl.op = op => PlacesRead(cl, Reads(op))
         /\ \A c \in Cells : Asks(op, c) => c \in ToSet(Reads(op)[ReaderOf(op, c)])
<1> DEFINE rd == Reads(op)
<1>1. DOMAIN rd = Backends /\ \A b \in Backends : rd[b] =
        CASE op \in Concurrent -> <<<<b, Names>>>> \o ReadsOf(b)
          [] op = "blocked" /\ b = First -> <<<<b, Names>>>> \o ReadsOf(b)
          [] op \in {"details", "clear"} /\ b = First -> <<<<b, Names>>>> \o AllReads
          [] OTHER -> <<>>
  BY DEF Reads
<1>2. rd = [b \in Backends |-> rd[b]]
  BY DEF Reads
<1> HIDE DEF rd
<1>3. \A b \in Backends : <<b, Names>> \in Places
  BY DEF Places
<1>4. \A s \in Seq(Cells) : s \in Seq(Places)
  BY Grid
<1>5. ASSUME NEW b \in Backends, op \in Concurrent \/ (op = "blocked" /\ b = First)
      PROVE  rd[b] \in Seq(Places) /\ ToSet(rd[b]) = {<<b, Names>>} \cup ({b} \X Tables)
  <2>1. rd[b] = <<<<b, Names>>>> \o ReadsOf(b)
    BY <1>1, <1>5 DEF Concurrent
  <2> QED
    BY <1>3, <1>4, <2>1, PutBefore, ReadsOfFacts
<1>6. ASSUME NEW b \in Backends, op \in {"details", "clear"}, b = First
      PROVE  rd[b] \in Seq(Places) /\ ToSet(rd[b]) = {<<b, Names>>} \cup Cells
  <2>1. rd[b] = <<<<b, Names>>>> \o AllReads
    BY <1>1, <1>6 DEF Concurrent
  <2> QED
    BY <1>3, <1>4, <2>1, PutBefore, AllReadsFacts
<1>7. ASSUME NEW b \in Backends, op \notin Concurrent, b # First
      PROVE  rd[b] \in Seq(Places) /\ ToSet(rd[b]) = {}
  <2>1. rd[b] = <<>>
    BY <1>1, <1>7
  <2> QED
    BY <2>1 DEF ToSet
<1>8. op \in Concurrent \/ op = "blocked" \/ op \in {"details", "clear"}
  BY DEF Ops, Concurrent
<1>9. \A b \in Backends : rd[b] \in Seq(Places)
  BY <1>5, <1>6, <1>7, <1>8
<1>10. rd \in [Backends -> Seq(Places)]
  BY <1>2, <1>9
<1>11. ASSUME NEW cl, cl.op = op PROVE PlacesRead(cl, rd)
  <2> SUFFICES ASSUME NEW th \in Backends, NEW x \in ToSet(rd[th])
               PROVE  /\ x[2] = Names => x[1] = th
                      /\ cl.op \in Concurrent \/ th = First
                      /\ cl.op = "blocked" => x[1] = First
    BY DEF PlacesRead
  <2>1. CASE op \in Concurrent \/ (op = "blocked" /\ th = First)
    <3>1. x[1] = th
      BY <1>5, <2>1
    <3> QED
      BY <1>11, <2>1, <3>1 DEF Concurrent
  <2>2. CASE op \in {"details", "clear"} /\ th = First
    <3>1. x = <<th, Names>> \/ x \in Cells
      BY <1>6, <2>2
    <3> QED
      BY <1>11, <2>2, <3>1, Grid
  <2>3. CASE op \notin Concurrent /\ th # First
    BY <1>7, <2>3
  <2> QED
    BY <1>8, <2>1, <2>2, <2>3
<1>12. ASSUME NEW c \in Cells, Asks(op, c) PROVE c \in ToSet(rd[ReaderOf(op, c)])
  <2>1. c[1] \in Backends /\ c \in {c[1]} \X Tables
    BY Grid
  <2>2. CASE op \in Concurrent
    BY <1>5, <2>1, <2>2 DEF ReaderOf
  <2>3. CASE op = "blocked"
    <3>1. op \notin Concurrent /\ c[1] = First
      BY <1>12, <2>3 DEF Asks, Concurrent
    <3> QED
      BY <1>5, <2>1, <2>3, <3>1 DEF ReaderOf
  <2>4. CASE op \in {"details", "clear"}
    <3>1. op \notin Concurrent
      BY <2>4 DEF Concurrent
    <3> QED
      BY <1>6, <2>4, <3>1, FirstIsBackend DEF ReaderOf
  <2> QED
    BY <1>8, <2>2, <2>3, <2>4
<1> QED
  BY <1>10, <1>11, <1>12 DEF rd

(***************************************************************************)
(* Queries: how entries age                                                *)
(***************************************************************************)

LEMMA AbsentFacts ==
  /\ Absent \in CellValues /\ ~Present(Absent) /\ Absent.gpc0 = 0 /\ Absent.exp = 0
BY DEF Absent, Present, CellValues

LEMMA CellFacts ==
  ASSUME NEW e \in CellValues
  PROVE  /\ e.exp \in Nat /\ e.gpc0 \in {0, 1}
         /\ e = [gpc0 |-> e.gpc0, exp |-> e.exp]
         /\ e.exp <= Lifetime
         /\ e.exp = 0 => e = Absent
         /\ ~Present(e) => e = Absent
  BY QueriesAssumption DEF CellValues, Entries, Absent, Present

LEMMA AgedFacts ==
  ASSUME NEW e \in CellValues, NEW k \in Nat
  PROVE  /\ Aged(e, k) \in CellValues
         /\ Present(Aged(e, k)) <=> e.exp > k
         /\ Aged(e, k).gpc0 = 1 => e.gpc0 = 1
         /\ e.exp > k => Aged(e, k).gpc0 = e.gpc0 /\ Aged(e, k).exp = e.exp - k
<1>1. CASE e.exp > k
  <2>1. Aged(e, k) = [gpc0 |-> e.gpc0, exp |-> e.exp - k]
    BY <1>1 DEF Aged
  <2>2. e.exp - k \in 1 .. Lifetime /\ e.gpc0 \in {0, 1}
    <3>1. e.exp \in Nat /\ e.exp <= Lifetime /\ Lifetime \in Nat /\ e.gpc0 \in {0, 1}
      BY CellFacts, QueriesAssumption
    <3> QED
      BY <1>1, <3>1
  <2> QED
    BY <1>1, <2>1, <2>2 DEF CellValues, Entries, Present
<1>2. CASE ~(e.exp > k)
  BY <1>2, AbsentFacts DEF Aged
<1> QED
  BY <1>1, <1>2

LEMMA AgedNow ==
  ASSUME NEW e \in CellValues
  PROVE  Aged(e, 0) = e
<1>1. CASE e.exp > 0
  <2>1. e.exp - 0 = e.exp
    BY CellFacts
  <2> QED
    BY <1>1, <2>1, CellFacts DEF Aged
<1>2. CASE ~(e.exp > 0)
  BY <1>2, CellFacts DEF Aged
<1> QED
  BY <1>1, <1>2

LEMMA AgeFacts ==
  ASSUME NEW e \in CellValues
  PROVE  Age(e) \in CellValues /\ (~Present(e) => ~Present(Age(e)))
         /\ Age(e) = Aged(e, 1)
<1>1. e.exp \in Nat /\ e = [gpc0 |-> e.gpc0, exp |-> e.exp]
  BY CellFacts
<1>2. CASE e.exp <= 1
  BY <1>1, <1>2, AbsentFacts DEF Age, Aged
<1>3. CASE ~(e.exp <= 1)
  <2>1. Age(e) = [e EXCEPT !.exp = e.exp - 1]
    BY <1>3 DEF Age
  <2> DEFINE n == e.exp - 1
  <2>2. e.exp > 1
    BY <1>1, <1>3
  <2>3. Aged(e, 1) = [gpc0 |-> e.gpc0, exp |-> n]
    BY <2>2 DEF Aged
  <2>4. Age(e) = [e EXCEPT !.exp = n]
    BY <2>1
  <2> HIDE DEF n
  <2>5. [e EXCEPT !.exp = n] = [gpc0 |-> e.gpc0, exp |-> n]
    BY <1>1
  <2>6. Age(e) = Aged(e, 1)
    BY <2>3, <2>4, <2>5
  <2>7. Present(e)
    BY <1>1, <2>2 DEF Present
  <2> QED
    BY <2>6, <2>7, AgedFacts
<1> QED
  BY <1>2, <1>3

\* One more tick.
LEMMA AgeOfAged ==
  ASSUME NEW e \in CellValues, NEW k \in Nat
  PROVE  Age(Aged(e, k)) = Aged(e, k + 1)
<1> DEFINE a == Aged(e, k)
<1>1. a \in CellValues /\ e.exp \in Nat
  BY AgedFacts, CellFacts
<1>2. Age(a) = Aged(a, 1)
  BY <1>1, AgeFacts
<1>3. CASE e.exp > k + 1
  <2>1. e.exp > k
    BY <1>1, <1>3
  <2>2. a.exp = e.exp - k /\ a.gpc0 = e.gpc0
    BY <2>1, AgedFacts
  <2>3. e.exp - k > 1 /\ (e.exp - k) - 1 = e.exp - (k + 1)
    BY <1>1, <1>3
  <2> HIDE DEF a
  <2>4. a.exp > 1 /\ a.exp - 1 = e.exp - (k + 1)
    BY <2>2, <2>3
  <2> QED
    BY <1>2, <1>3, <2>2, <2>4 DEF Aged, a
<1>4. CASE ~(e.exp > k + 1)
  <2>1. Aged(e, k + 1) = Absent
    BY <1>4 DEF Aged
  <2>2. CASE e.exp > k
    <3>1. a.exp = e.exp - k
      BY <2>2, AgedFacts
    <3>2. ~(e.exp - k > 1)
      BY <1>1, <1>4
    <3> HIDE DEF a
    <3>3. ~(a.exp > 1)
      BY <3>1, <3>2
    <3> QED
      BY <1>2, <2>1, <3>3 DEF Aged, a
  <2>3. CASE ~(e.exp > k)
    <3>1. a = Absent
      BY <2>3 DEF Aged
    <3> QED
      BY <1>2, <2>1, <3>1, AbsentFacts DEF Aged
  <2> QED
    BY <2>2, <2>3
<1> QED
  BY <1>3, <1>4

LEMMA ReadLater ==
  ASSUME NEW e, NEW n \in Nat, NEW r, ReadOf(e, n, r)
  PROVE  ReadOf(e, n + 1, r)
<1>1. PICK k \in 0 .. n : r = Aged(e, k)
  BY DEF ReadOf
<1>2. k \in 0 .. n + 1
  OBVIOUS
<1> QED
  BY <1>1, <1>2 DEF ReadOf

LEMMA ReadNow ==
  ASSUME NEW e, NEW n \in Nat
  PROVE  ReadOf(e, n, Aged(e, n))
<1>1. n \in 0 .. n
  OBVIOUS
<1> QED
  BY <1>1 DEF ReadOf

(***************************************************************************)
(* Queries: the beginning and the environment                              *)
(***************************************************************************)

LEMMA QueriesInitInv ==
  ASSUME QueriesInit
  PROVE  QueriesInv
<1>1. PICK op \in Ops :
        /\ call = [op |-> op, phase |-> "read", attempt |-> 0, err |-> FALSE, seen |-> -1,
                   still |-> FALSE]
        /\ todo = Reads(op)
  BY DEF QueriesInit
<1>2. /\ entry \in [Cells -> CellValues] /\ start = entry /\ got = [c \in Cells |-> Absent]
      /\ up = Backends /\ healthy = Backends /\ targets = {} /\ elapsed = 0
      /\ touched = {} /\ trouble = {}
  BY DEF QueriesInit, CellValues
<1>3. call.op = op /\ call.phase = "read" /\ call.err = FALSE /\ call.seen = -1
      /\ call \in Calls
  BY <1>1 DEF Calls
<1>4. QueryTypes
  <2>1. todo \in [Backends -> Seq(Places)]
    BY <1>1, ReadsFacts
  <2>2. got \in [Cells -> CellValues]
    BY <1>2, AbsentFacts
  <2> QED
    BY <1>2, <1>3, <2>1, <2>2 DEF QueryTypes
<1>5. PlacesRead(call, todo)
  BY <1>1, <1>3, ReadsFacts
<1>6. HistoryTrue(entry, start, elapsed, touched) /\ ReadsTrue(got, start, elapsed, touched)
  BY <1>2, AgedNow DEF HistoryTrue, ReadsTrue
<1>7. AllCovered(call, todo, got, start, elapsed, touched, trouble)
  BY <1>1, <1>3, ReadsFacts DEF AllCovered
<1>8. SeenTrue(call, got, start, touched) /\ ErrorsTrue(call, trouble)
  BY <1>2, <1>3, AbsentFacts DEF SeenTrue, ErrorsTrue
<1>9. PhaseOK /\ ReadingOK /\ VerifyOK
  BY <1>2, <1>3, <1>5, <1>6, <1>7, <1>8 DEF PhaseOK, ReadingOK, VerifyOK
<1>10. NothingMissed /\ NoFalseAlarm /\ ClearedIsGone /\ LookupsTruthful
  BY <1>3 DEF NothingMissed, NoFalseAlarm, ClearedIsGone, LookupsTruthful, Answered
<1> QED
  BY <1>4, <1>9, <1>10 DEF QueriesInv

\* A call that has not returned has answered nothing.
LEMMA NoAnswerYet ==
  ASSUME call'.phase # "done"
  PROVE  NothingMissed' /\ NoFalseAlarm' /\ ClearedIsGone' /\ LookupsTruthful'
BY DEF NothingMissed, NoFalseAlarm, ClearedIsGone, LookupsTruthful, Answered

\* What a tick, a command of another and a failure may change.
LEMMA TickInv ==
  ASSUME QueriesInv, Tick
  PROVE  QueriesInv'
<1>0. QueryTypes /\ PhaseOK /\ ReadingOK /\ VerifyOK
  BY DEF QueriesInv
<1>1. /\ call.phase # "done" /\ entry' = [c \in Cells |-> Age(entry[c])]
      /\ elapsed' = elapsed + 1
      /\ UNCHANGED <<up, healthy, call, todo, got, targets, start, touched, trouble>>
  BY DEF Tick, Running
<1>2. /\ elapsed \in Nat /\ \A c \in Cells : /\ entry[c] \in CellValues
                                          /\ start[c] \in CellValues
      /\ \A c \in Cells : entry'[c] = Age(entry[c])
  BY <1>0, <1>1 DEF QueryTypes
<1>3. QueryTypes'
  <2>1. entry' \in [Cells -> CellValues]
    BY <1>1, <1>2, AgeFacts
  <2> QED
    BY <1>0, <1>1, <2>1 DEF QueryTypes
<1>4. ReadingOK'
  <2> SUFFICES ASSUME call.phase = "read"
               PROVE  /\ PlacesRead(call, todo)
                      /\ HistoryTrue(entry', start, elapsed + 1, touched)
                      /\ ReadsTrue(got, start, elapsed + 1, touched)
                      /\ AllCovered(call, todo, got, start, elapsed + 1, touched, trouble)
                      /\ SeenTrue(call, got, start, touched)
                      /\ ErrorsTrue(call, trouble)
    BY <1>1 DEF ReadingOK
  <2>1. /\ PlacesRead(call, todo)
        /\ HistoryTrue(entry, start, elapsed, touched)
        /\ ReadsTrue(got, start, elapsed, touched)
        /\ AllCovered(call, todo, got, start, elapsed, touched, trouble)
        /\ SeenTrue(call, got, start, touched)
        /\ ErrorsTrue(call, trouble)
    BY <1>0 DEF ReadingOK
  <2>2. HistoryTrue(entry', start, elapsed + 1, touched)
    BY <1>2, <2>1, AgeOfAged DEF HistoryTrue
  <2>3. ReadsTrue(got, start, elapsed + 1, touched)
    BY <1>2, <2>1, ReadLater DEF ReadsTrue
  <2>4. AllCovered(call, todo, got, start, elapsed + 1, touched, trouble)
    BY <1>2, <2>1, ReadLater DEF AllCovered
  <2> QED
    BY <2>1, <2>2, <2>3, <2>4
<1>5. VerifyOK'
  BY <1>0, <1>1, <1>2, AgeFacts DEF VerifyOK, Verified
<1> QED
  BY <1>0, <1>1, <1>3, <1>4, <1>5, NoAnswerYet DEF QueriesInv, PhaseOK

LEMMA WriteInv ==
  ASSUME QueriesInv, NEW c \in Cells, NEW g \in {0, 1}, Write(c, g)
  PROVE  QueriesInv'
<1>0. QueryTypes /\ PhaseOK /\ ReadingOK /\ VerifyOK
  BY DEF QueriesInv
<1> DEFINE e == [gpc0 |-> g, exp |-> Lifetime]
<1>1. /\ call.phase # "done" /\ entry' = [entry EXCEPT ![c] = e]
      /\ touched' = touched \cup {c}
      /\ UNCHANGED <<up, healthy, call, todo, got, targets, start, elapsed, trouble>>
  BY DEF Write, Running
<1>2. e \in CellValues
  BY QueriesAssumption DEF CellValues, Entries
<1> HIDE DEF e
<1>3. QueryTypes'
  BY <1>0, <1>1, <1>2 DEF QueryTypes
<1>4. \A d \in Cells : d # c => entry'[d] = entry[d]
  BY <1>0, <1>1 DEF QueryTypes
<1>5. ReadingOK'
  <2> SUFFICES ASSUME call.phase = "read"
               PROVE  /\ PlacesRead(call, todo)
                      /\ HistoryTrue(entry', start, elapsed, touched')
                      /\ ReadsTrue(got, start, elapsed, touched')
                      /\ AllCovered(call, todo, got, start, elapsed, touched', trouble)
                      /\ SeenTrue(call, got, start, touched')
                      /\ ErrorsTrue(call, trouble)
    BY <1>1 DEF ReadingOK
  <2>1. /\ PlacesRead(call, todo)
        /\ HistoryTrue(entry, start, elapsed, touched)
        /\ ReadsTrue(got, start, elapsed, touched)
        /\ AllCovered(call, todo, got, start, elapsed, touched, trouble)
        /\ SeenTrue(call, got, start, touched)
        /\ ErrorsTrue(call, trouble)
    BY <1>0 DEF ReadingOK
  <2>2. HistoryTrue(entry', start, elapsed, touched')
    BY <1>1, <1>4, <2>1 DEF HistoryTrue
  <2>3. ReadsTrue(got, start, elapsed, touched')
    BY <1>1, <2>1 DEF ReadsTrue
  <2>4. AllCovered(call, todo, got, start, elapsed, touched', trouble)
    BY <1>1, <2>1 DEF AllCovered
  <2>5. SeenTrue(call, got, start, touched')
    BY <1>1, <2>1 DEF SeenTrue
  <2> QED
    BY <2>1, <2>2, <2>3, <2>4, <2>5
<1>6. VerifyOK'
  BY <1>0, <1>1, <1>4 DEF VerifyOK, Verified
<1> QED
  BY <1>0, <1>1, <1>3, <1>5, <1>6, NoAnswerYet DEF QueriesInv, PhaseOK

LEMMA CutInv ==
  ASSUME QueriesInv, NEW b \in Backends, Cut(b)
  PROVE  QueriesInv'
<1>0. QueryTypes /\ PhaseOK /\ ReadingOK /\ VerifyOK
  BY DEF QueriesInv
<1>1. /\ call.phase # "done" /\ up' = up \ {b} /\ trouble' = trouble \cup {b}
      /\ UNCHANGED <<entry, healthy, call, todo, got, targets, start, elapsed, touched>>
  BY DEF Cut, Running
<1>2. QueryTypes'
  BY <1>0, <1>1 DEF QueryTypes
<1>3. ReadingOK'
  <2> SUFFICES ASSUME call.phase = "read"
               PROVE  /\ PlacesRead(call, todo)
                      /\ HistoryTrue(entry, start, elapsed, touched)
                      /\ ReadsTrue(got, start, elapsed, touched)
                      /\ AllCovered(call, todo, got, start, elapsed, touched, trouble')
                      /\ SeenTrue(call, got, start, touched)
                      /\ ErrorsTrue(call, trouble')
    BY <1>1 DEF ReadingOK
  <2>1. /\ PlacesRead(call, todo)
        /\ HistoryTrue(entry, start, elapsed, touched)
        /\ ReadsTrue(got, start, elapsed, touched)
        /\ AllCovered(call, todo, got, start, elapsed, touched, trouble)
        /\ SeenTrue(call, got, start, touched)
        /\ ErrorsTrue(call, trouble)
    BY <1>0 DEF ReadingOK
  <2>2. \A d \in Cells : Excused(call, todo, got, trouble, d) => Excused(call, todo, got, trouble', d)
    BY <1>1 DEF Excused
  <2>3. AllCovered(call, todo, got, start, elapsed, touched, trouble')
    BY <2>1, <2>2 DEF AllCovered
  <2> QED
    BY <1>1, <2>1, <2>3 DEF ErrorsTrue
<1>4. VerifyOK'
  BY <1>0, <1>1 DEF VerifyOK, Verified
<1> QED
  BY <1>0, <1>1, <1>2, <1>3, <1>4, NoAnswerYet DEF QueriesInv, PhaseOK

\* The return of a backend and a health check change nothing that the call looks at.
LEMMA QuietInv ==
  ASSUME QueriesInv, QueryTypes',
         UNCHANGED <<entry, call, todo, got, targets, answer, start, elapsed, touched, trouble>>
  PROVE  QueriesInv'
<1>1. PhaseOK' /\ ReadingOK' /\ VerifyOK'
  BY DEF QueriesInv, PhaseOK, ReadingOK, VerifyOK
<1>2. NothingMissed' /\ NoFalseAlarm'
  BY DEF QueriesInv, NothingMissed, NoFalseAlarm, Answered, Steady
<1>3. ClearedIsGone' /\ LookupsTruthful'
  BY DEF QueriesInv, ClearedIsGone, LookupsTruthful, Answered, Steady
<1> QED
  BY <1>1, <1>2, <1>3 DEF QueriesInv

LEMMA EnvironmentInv ==
  ASSUME QueriesInv, Environment
  PROVE  QueriesInv'
<1>1. CASE Tick
  BY <1>1, TickInv
<1>2. CASE \E c \in Cells, g \in {0, 1} : Write(c, g)
  BY <1>2, WriteInv
<1>3. ASSUME NEW b \in Backends, Cut(b) PROVE QueriesInv'
  BY <1>3, CutInv
<1>4. ASSUME NEW b \in Backends, Mend(b) PROVE QueriesInv'
  <2>1. QueryTypes'
    BY <1>4 DEF QueriesInv, QueryTypes, Mend
  <2> QED
    BY <1>4, <2>1, QuietInv DEF Mend
<1>5. ASSUME NEW b \in Backends, HealthCheck(b) PROVE QueriesInv'
  <2>1. QueryTypes'
    BY <1>5 DEF QueriesInv, QueryTypes, HealthCheck
  <2> QED
    BY <1>5, <2>1, QuietInv DEF HealthCheck
<1> QED
  BY <1>1, <1>2, <1>3, <1>4, <1>5 DEF Environment

(***************************************************************************)
(* Queries: a read that fails, and one that succeeds                       *)
(***************************************************************************)

LEMMA FewerPlaces ==
  ASSUME NEW cl, NEW cl2, NEW td, NEW td2, PlacesRead(cl, td), cl2.op = cl.op,
         \A b \in Backends : ToSet(td2[b]) \subseteq ToSet(td[b])
  PROVE  PlacesRead(cl2, td2)
BY DEF PlacesRead

\* The place that is read next.
LEMMA NextPlace ==
  ASSUME QueryTypes, NEW th \in Backends, todo[th] # <<>>
  PROVE  LET p == Head(todo[th]) IN
         /\ p \in Places /\ p \in ToSet(todo[th])
         /\ Tail(todo[th]) \in Seq(Places) /\ ToSet(Tail(todo[th])) \subseteq ToSet(todo[th])
         /\ \A x \in ToSet(todo[th]) : x = p \/ x \in ToSet(Tail(todo[th]))
  BY FirstAndRest DEF QueryTypes

LEMMA ReadFailsInv ==
  ASSUME QueriesInv, NEW th \in Backends, ReadFails(th)
  PROVE  QueriesInv'
<1>0. QueryTypes /\ PhaseOK /\ ReadingOK /\ VerifyOK
  BY DEF QueriesInv
<1> DEFINE p == Head(todo[th])
           givesUp == p[2] = Names \/ call.op \in {"compare", "dump"}
           rest == IF givesUp THEN <<>> ELSE Tail(todo[th])
<1>1. /\ call.phase # "done" /\ todo[th] # <<>> /\ p[1] \notin up
      /\ todo' = [todo EXCEPT ![th] = rest]
      /\ call' = [call EXCEPT !.err = call.err \/ (givesUp /\ call.op # "state")]
      /\ UNCHANGED <<entry, up, healthy, start, elapsed, touched, trouble, got, targets>>
  BY DEF ReadFails, Running, envVars
<1>2. /\ call \in Calls /\ todo \in [Backends -> Seq(Places)]
      /\ call'.op = call.op /\ call'.phase = call.phase /\ call'.seen = call.seen
      /\ call'.still = call.still
      /\ call'.err = (call.err \/ (givesUp /\ call.op # "state"))
  BY <1>0, <1>1 DEF QueryTypes, Calls
<1>3. /\ p \in Places /\ p \in ToSet(todo[th])
      /\ Tail(todo[th]) \in Seq(Places) /\ ToSet(Tail(todo[th])) \subseteq ToSet(todo[th])
      /\ \A x \in ToSet(todo[th]) : x = p \/ x \in ToSet(Tail(todo[th]))
  BY <1>0, <1>1, NextPlace
<1>4. p[1] \in trouble
  BY <1>0, <1>1, <1>3, Grid DEF QueryTypes
<1> HIDE DEF p
<1>5. givesUp => rest = <<>>
  OBVIOUS
<1>6. ~givesUp => rest = Tail(todo[th])
  OBVIOUS
<1>7. givesUp \in BOOLEAN
  OBVIOUS
<1>8. givesUp <=> p[2] = Names \/ call.op \in {"compare", "dump"}
  OBVIOUS
<1> HIDE DEF givesUp, rest
<1>9. rest \in Seq(Places) /\ ToSet(rest) \subseteq ToSet(todo[th])
  <2>1. <<>> \in Seq(Places) /\ ToSet(<<>>) = {}
    BY DEF ToSet
  <2> QED
    BY <1>3, <1>5, <1>6, <2>1
<1>10. /\ todo'[th] = rest
       /\ \A b \in Backends : b # th => todo'[b] = todo[b]
       /\ \A b \in Backends : ToSet(todo'[b]) \subseteq ToSet(todo[b])
  BY <1>1, <1>2, <1>9
<1>11. QueryTypes'
  <2>1. call' \in Calls
    BY <1>1, <1>2, <1>7 DEF Calls
  <2>2. todo' \in [Backends -> Seq(Places)]
    BY <1>1, <1>2, <1>9
  <2> QED
    BY <1>0, <1>1, <2>1, <2>2 DEF QueryTypes
<1>12. ReadingOK'
  <2> SUFFICES ASSUME call.phase = "read"
               PROVE  /\ PlacesRead(call', todo')
                      /\ HistoryTrue(entry, start, elapsed, touched)
                      /\ ReadsTrue(got, start, elapsed, touched)
                      /\ AllCovered(call', todo', got, start, elapsed, touched, trouble)
                      /\ SeenTrue(call', got, start, touched)
                      /\ ErrorsTrue(call', trouble)
    BY <1>1, <1>2 DEF ReadingOK
  <2>1. /\ PlacesRead(call, todo)
        /\ HistoryTrue(entry, start, elapsed, touched)
        /\ ReadsTrue(got, start, elapsed, touched)
        /\ AllCovered(call, todo, got, start, elapsed, touched, trouble)
        /\ SeenTrue(call, got, start, touched)
        /\ ErrorsTrue(call, trouble)
    BY <1>0 DEF ReadingOK
  <2>2. PlacesRead(call', todo')
    BY <1>2, <1>10, <2>1, FewerPlaces
  <2>3. SeenTrue(call', got, start, touched)
    BY <1>2, <2>1 DEF SeenTrue
  <2>4. /\ p[2] = Names => p[1] = th
        /\ call.op \in Concurrent \/ th = First
    BY <1>3, <2>1 DEF PlacesRead
  <2>5. ErrorsTrue(call', trouble)
    BY <1>2, <1>4, <1>8, <2>1, <2>4 DEF ErrorsTrue, Concurrent
  <2>6. ASSUME NEW d \in Cells, Excused(call, todo, got, trouble, d)
        PROVE  Excused(call', todo', got, trouble, d)
    <3>1. call.op = "blocked" => th = First
      BY <2>4 DEF Concurrent
    <3> QED
      BY <1>1, <1>2, <2>6, <3>1 DEF Excused
  <2>7. ASSUME NEW d \in Cells, d \in ToSet(todo[ReaderOf(call.op, d)])
        PROVE  d \in ToSet(todo'[ReaderOf(call.op, d)]) \/ Excused(call', todo', got, trouble, d)
    <3>1. ReaderOf(call.op, d) \in Backends
      BY Grid, FirstIsBackend DEF ReaderOf
    <3>2. CASE ReaderOf(call.op, d) # th
      BY <1>10, <2>7, <3>1, <3>2
    <3>3. CASE ReaderOf(call.op, d) = th
      <4>1. CASE call.op \in {"compare", "dump"}
        BY <1>2, <1>8, <4>1 DEF Excused
      <4>2. CASE call.op \notin {"compare", "dump"} /\ p[2] = Names
        BY <1>2, <1>4, <2>4, <3>3, <4>2 DEF Excused
      <4>3. CASE call.op \notin {"compare", "dump"} /\ p[2] # Names
        <5>1. ToSet(todo'[th]) = ToSet(Tail(todo[th]))
          BY <1>6, <1>8, <1>10, <4>3
        <5>2. d = p => Excused(call', todo', got, trouble, d)
          BY <1>2, <1>4, <4>3 DEF Excused
        <5> QED
          BY <1>3, <2>7, <3>3, <5>1, <5>2
      <4> QED
        BY <4>1, <4>2, <4>3
    <3> QED
      BY <3>2, <3>3
  <2>8. AllCovered(call', todo', got, start, elapsed, touched, trouble)
    BY <1>2, <2>1, <2>6, <2>7 DEF AllCovered
  <2> QED
    BY <2>1, <2>2, <2>3, <2>5, <2>8
<1>13. VerifyOK'
  <2> SUFFICES ASSUME call.phase = "verify"
               PROVE  Verified(call', todo', entry, touched, trouble)
    BY <1>1, <1>2 DEF VerifyOK
  <2>1. Verified(call, todo, entry, touched, trouble) /\ call.op = "clear"
    BY <1>0 DEF VerifyOK, PhaseOK
  <2>2. p \in Cells
    BY <1>3, <2>1 DEF Verified
  <2>3. ~givesUp
    BY <1>8, <2>1, <2>2, Grid
  <2>4. rest = Tail(todo[th])
    BY <1>6, <2>3
  <2>5. ASSUME NEW d \in Cells, d \in ToSet(todo[First])
        PROVE  d \in ToSet(todo'[First]) \/ d[1] \in trouble
    BY <1>3, <1>4, <1>10, <2>4, <2>5, FirstIsBackend
  <2> QED
    BY <1>2, <1>10, <2>1, <2>5 DEF Verified
<1> QED
  BY <1>0, <1>1, <1>2, <1>11, <1>12, <1>13, NoAnswerYet DEF QueriesInv, PhaseOK

LEMMA LargerOfTwo ==
  ASSUME NEW a \in {-1, 0, 1}, NEW b \in {-1, 0, 1}
  PROVE  Max({a, b}) \in {a, b} /\ Max({a, b}) >= a /\ Max({a, b}) >= b
<1>1. \E x \in {a, b} : \A y \in {a, b} : x >= y
  <2>1. CASE a >= b
    BY <2>1
  <2>2. CASE b >= a
    BY <2>2
  <2> QED
    BY <2>1, <2>2
<1> QED
  BY <1>1 DEF Max

LEMMA MergedFacts ==
  ASSUME NEW op, NEW seen \in {-1, 0, 1}, NEW e \in CellValues
  PROVE  /\ Merged(op, seen, e) \in {-1, 0, 1}
         /\ Merged(op, seen, e) = 1 => seen = 1 \/ e.gpc0 = 1
         /\ op = "state" /\ (seen = 1 \/ e.gpc0 = 1) => Merged(op, seen, e) = 1
         /\ op = "dump" /\ (seen # -1 \/ Present(e)) => Merged(op, seen, e) # -1
<1>1. e.gpc0 \in {0, 1} /\ (~Present(e) => e.gpc0 = 0)
  BY CellFacts, AbsentFacts
<1>2. CASE ~Present(e)
  BY <1>1, <1>2 DEF Merged
<1>3. CASE Present(e) /\ op = "state"
  <2>1. Merged(op, seen, e) = Max({seen, e.gpc0})
    BY <1>3 DEF Merged
  <2>2. e.gpc0 \in {-1, 0, 1}
    BY <1>1
  <2>3. Max({seen, e.gpc0}) \in {seen, e.gpc0} /\ Max({seen, e.gpc0}) >= seen
        /\ Max({seen, e.gpc0}) >= e.gpc0
    BY <2>2, LargerOfTwo
  <2> DEFINE m == Merged(op, seen, e)
  <2>4. m \in {seen, e.gpc0} /\ m >= seen /\ m >= e.gpc0
    BY <2>1, <2>3
  <2> HIDE DEF m
  <2>5. m \in {-1, 0, 1} /\ (m = 1 => seen = 1 \/ e.gpc0 = 1)
        /\ (seen = 1 \/ e.gpc0 = 1 => m = 1)
    BY <2>2, <2>4
  <2> QED
    BY <1>3, <2>5 DEF m
<1>4. CASE Present(e) /\ op # "state"
  BY <1>1, <1>4 DEF Merged
<1> QED
  BY <1>2, <1>3, <1>4

LEMMA ReadInv ==
  ASSUME QueriesInv, NEW th \in Backends, Read(th)
  PROVE  QueriesInv'
<1>0. QueryTypes /\ PhaseOK /\ ReadingOK /\ VerifyOK
  BY DEF QueriesInv
<1> DEFINE p == Head(todo[th])
           rest == Tail(todo[th])
           e == entry[p]
<1>1. call.phase # "done" /\ todo[th] # <<>>
      /\ UNCHANGED <<entry, up, healthy, targets, start, elapsed, trouble>>
  BY DEF Read, Running
<1>2. /\ p \in Places /\ p \in ToSet(todo[th])
      /\ rest \in Seq(Places) /\ ToSet(rest) \subseteq ToSet(todo[th])
      /\ \A x \in ToSet(todo[th]) : x = p \/ x \in ToSet(rest)
  BY <1>0, <1>1, NextPlace
<1>3. CASE p[2] = Names
  <2>1. todo' = [todo EXCEPT ![th] = rest] /\ UNCHANGED <<call, got, touched>>
    BY <1>3 DEF Read
  <2> HIDE DEF p, rest
  <2>2. /\ todo'[th] = rest
        /\ \A b \in Backends : b # th => todo'[b] = todo[b]
        /\ \A b \in Backends : ToSet(todo'[b]) \subseteq ToSet(todo[b])
        /\ todo' \in [Backends -> Seq(Places)]
    BY <1>0, <1>2, <2>1 DEF QueryTypes
  <2>3. QueryTypes'
    BY <1>0, <1>1, <2>1, <2>2 DEF QueryTypes
  <2>4. ASSUME NEW d \in Cells, NEW b \in Backends, d \in ToSet(todo[b])
        PROVE  d \in ToSet(todo'[b])
    <3>1. d # p
      BY <1>3, Grid
    <3> QED
      BY <1>2, <2>2, <2>4, <3>1
  <2>5. ReadingOK'
    <3> SUFFICES ASSUME call.phase = "read"
                 PROVE  /\ PlacesRead(call, todo')
                        /\ AllCovered(call, todo', got, start, elapsed, touched, trouble)
      BY <1>0, <1>1, <2>1 DEF ReadingOK
    <3>1. PlacesRead(call, todo) /\ AllCovered(call, todo, got, start, elapsed, touched, trouble)
      BY <1>0 DEF ReadingOK
    <3>2. PlacesRead(call, todo')
      BY <2>2, <3>1, FewerPlaces
    <3>3. ASSUME NEW d \in Cells, Excused(call, todo, got, trouble, d)
          PROVE  Excused(call, todo', got, trouble, d)
      <4>1. call.op = "blocked" => th = First
        BY <1>2, <3>1 DEF PlacesRead, Concurrent
      <4> QED
        BY <1>1, <3>3, <4>1 DEF Excused
    <3>4. \A d \in Cells : ReaderOf(call.op, d) \in Backends
      BY Grid, FirstIsBackend DEF ReaderOf
    <3> QED
      BY <2>4, <3>1, <3>2, <3>3, <3>4 DEF AllCovered
  <2>6. VerifyOK'
    <3> SUFFICES ASSUME call.phase = "verify" PROVE FALSE
      BY <2>1 DEF VerifyOK
    <3>1. p \in Cells
      BY <1>0, <1>2 DEF VerifyOK, Verified
    <3> QED
      BY <1>3, <3>1, Grid
  <2> QED
    BY <1>0, <1>1, <2>1, <2>3, <2>5, <2>6, NoAnswerYet DEF QueriesInv, PhaseOK
<1>4. CASE p[2] # Names
  <2>0. p \in Cells /\ p[1] \in Backends /\ e \in CellValues
    BY <1>0, <1>2, <1>4, Grid DEF QueryTypes
  <2> DEFINE stops == (call.op = "blocked" /\ e.gpc0 = 1) \/ (call.phase = "verify" /\ Present(e))
             after == IF stops THEN <<>> ELSE rest
             here == call.phase = "verify" /\ Present(e)
             m == Merged(call.op, call.seen, e)
             still == call.still \/ here
  <2>1. /\ todo' = [todo EXCEPT ![th] = after]
        /\ call' = [call EXCEPT !.seen = m, !.still = still]
        /\ got' = [got EXCEPT ![p] = IF call.phase = "verify" THEN got[p] ELSE e]
        /\ touched' = IF call.phase = "verify" THEN touched \ {p} ELSE touched
    BY <1>4 DEF Read, Stops
  <2>2. here <=> (call.phase = "verify" /\ Present(e))
    OBVIOUS
  <2>3. stops <=> (call.op = "blocked" /\ e.gpc0 = 1) \/ here
    OBVIOUS
  <2>4. /\ stops => after = <<>>
        /\ ~stops => after = rest
    OBVIOUS
  <2>5. call \in Calls
    BY <1>0 DEF QueryTypes
  <2>6. /\ m \in {-1, 0, 1}
        /\ m = 1 => call.seen = 1 \/ e.gpc0 = 1
        /\ call.op = "state" /\ (call.seen = 1 \/ e.gpc0 = 1) => m = 1
        /\ call.op = "dump" /\ (call.seen # -1 \/ Present(e)) => m # -1
    BY <2>0, <2>5, MergedFacts DEF Calls
  <2>7. here \in BOOLEAN /\ still = (call.still \/ here)
    OBVIOUS
  <2> HIDE DEF stops, after, here, m, still, p, rest, e
  <2>8. /\ call'.op = call.op /\ call'.phase = call.phase /\ call'.seen = m
        /\ call'.still = still /\ call'.err = call.err /\ call' \in Calls
    BY <2>1, <2>5, <2>6, <2>7 DEF Calls
  <2>9. after \in Seq(Places) /\ ToSet(after) \subseteq ToSet(todo[th])
    <3>1. <<>> \in Seq(Places) /\ ToSet(<<>>) = {}
      BY DEF ToSet
    <3> QED
      BY <1>2, <2>4, <3>1
  <2>10. /\ todo'[th] = after
         /\ \A b \in Backends : b # th => todo'[b] = todo[b]
         /\ \A b \in Backends : ToSet(todo'[b]) \subseteq ToSet(todo[b])
         /\ todo' \in [Backends -> Seq(Places)]
    BY <1>0, <2>1, <2>9 DEF QueryTypes
  <2>11. /\ \A d \in Cells : d # p => got'[d] = got[d]
         /\ call.phase # "verify" => got'[p] = e
         /\ got' \in [Cells -> CellValues]
    BY <1>0, <2>0, <2>1 DEF QueryTypes
  <2>12. QueryTypes'
    <3>1. touched' \subseteq Cells
      BY <1>0, <2>1 DEF QueryTypes
    <3> QED
      BY <1>0, <1>1, <2>8, <2>10, <2>11, <3>1 DEF QueryTypes
  <2>13. ReadingOK'
    <3> SUFFICES ASSUME call.phase = "read"
                 PROVE  /\ PlacesRead(call', todo')
                        /\ HistoryTrue(entry, start, elapsed, touched)
                        /\ ReadsTrue(got', start, elapsed, touched)
                        /\ AllCovered(call', todo', got', start, elapsed, touched, trouble)
                        /\ SeenTrue(call', got', start, touched)
                        /\ ErrorsTrue(call', trouble)
      BY <1>1, <2>1, <2>8 DEF ReadingOK
    <3>1. /\ PlacesRead(call, todo)
          /\ HistoryTrue(entry, start, elapsed, touched)
          /\ ReadsTrue(got, start, elapsed, touched)
          /\ AllCovered(call, todo, got, start, elapsed, touched, trouble)
          /\ SeenTrue(call, got, start, touched)
          /\ ErrorsTrue(call, trouble)
      BY <1>0 DEF ReadingOK
    <3>2. PlacesRead(call', todo')
      BY <2>8, <2>10, <3>1, FewerPlaces
    <3>3. got'[p] = e /\ elapsed \in Nat /\ \A d \in Cells : start[d] \in CellValues
      BY <1>0, <2>11 DEF QueryTypes
    <3>4. p \notin touched => e = Aged(start[p], elapsed)
      BY <2>0, <3>1 DEF HistoryTrue, e
    <3>5. p \in touched \/ ReadOf(start[p], elapsed, got'[p])
      BY <3>3, <3>4, ReadNow
    <3>6. ReadsTrue(got', start, elapsed, touched)
      BY <2>11, <3>1, <3>5 DEF ReadsTrue
    <3>7. call.op = "blocked" => th = First /\ p[1] = First
      BY <1>2, <3>1 DEF PlacesRead, Concurrent
    <3>8. ASSUME NEW d \in Cells, Excused(call, todo, got, trouble, d)
          PROVE  Excused(call', todo', got', trouble, d)
      BY <1>1, <2>8, <3>7, <3>8 DEF Excused
    <3>9. ASSUME NEW d \in Cells, d # p, d \in ToSet(todo[ReaderOf(call.op, d)])
          PROVE  d \in ToSet(todo'[ReaderOf(call.op, d)]) \/ Excused(call', todo', got', trouble, d)
      <4>1. ReaderOf(call.op, d) \in Backends
        BY Grid, FirstIsBackend DEF ReaderOf
      <4>2. CASE ReaderOf(call.op, d) # th
        BY <2>10, <3>9, <4>1, <4>2
      <4>3. CASE ReaderOf(call.op, d) = th /\ ~stops
        BY <1>2, <2>4, <2>10, <3>9, <4>3
      <4>4. CASE ReaderOf(call.op, d) = th /\ stops
        <5>1. call.op = "blocked" /\ e.gpc0 = 1
          BY <2>2, <2>3, <4>4
        <5>2. todo'[First] = <<>>
          BY <2>4, <2>10, <3>7, <4>4, <5>1
        <5>3. p = <<First, p[2]>> /\ p[2] \in Tables
          BY <2>0, <3>7, <5>1, Grid
        <5> QED
          BY <2>8, <3>3, <5>1, <5>2, <5>3 DEF Excused
      <4> QED
        BY <4>2, <4>3, <4>4
    <3>10. AllCovered(call', todo', got', start, elapsed, touched, trouble)
      BY <2>8, <2>11, <3>1, <3>5, <3>8, <3>9 DEF AllCovered
    <3>11. SeenTrue(call', got', start, touched)
      <4>1. ASSUME call.op = "state", NEW d \in Cells, got'[d].gpc0 = 1 PROVE m = 1
        <5>1. CASE d = p
          BY <2>6, <3>3, <4>1, <5>1
        <5>2. CASE d # p
          BY <2>6, <2>11, <3>1, <4>1, <5>2 DEF SeenTrue
        <5> QED
          BY <5>1, <5>2
      <4>2. ASSUME call.op = "dump", NEW d \in Cells, Present(got'[d]) PROVE m # -1
        <5>1. CASE d = p
          BY <2>6, <3>3, <4>2, <5>1
        <5>2. CASE d # p
          BY <2>6, <2>11, <3>1, <4>2, <5>2 DEF SeenTrue
        <5> QED
          BY <5>1, <5>2
      <4>3. ASSUME m = 1 PROVE \E d \in Cells : d \in touched \/ start[d].gpc0 = 1
        <5>1. CASE call.seen = 1
          BY <3>1, <5>1 DEF SeenTrue
        <5>2. CASE e.gpc0 = 1
          BY <2>0, <3>3, <3>4, <5>2, AgedFacts
        <5> QED
          BY <2>6, <4>3, <5>1, <5>2
      <4> QED
        BY <2>8, <4>1, <4>2, <4>3 DEF SeenTrue
    <3>12. ErrorsTrue(call', trouble)
      BY <2>8, <3>1 DEF ErrorsTrue
    <3> QED
      BY <3>1, <3>2, <3>6, <3>10, <3>11, <3>12
  <2>14. VerifyOK'
    <3> SUFFICES ASSUME call.phase = "verify"
                 PROVE  Verified(call', todo', entry, touched', trouble)
      BY <1>1, <2>8 DEF VerifyOK
    <3>1. Verified(call, todo, entry, touched, trouble) /\ call.op = "clear"
      BY <1>0 DEF VerifyOK, PhaseOK
    <3>2. touched' = touched \ {p}
      BY <2>1
    <3>3. \A b \in Backends : \A x \in ToSet(todo'[b]) : x \in Cells
      BY <2>10, <3>1 DEF Verified
    <3>4. CASE Present(e)
      <4>1. call'.still
        BY <2>2, <2>7, <2>8, <3>4
      <4> QED
        BY <3>3, <4>1 DEF Verified
    <3>5. CASE ~Present(e)
      <4>1. ~stops
        BY <2>2, <2>3, <3>1, <3>5
      <4>2. todo'[th] = rest
        BY <2>4, <2>10, <4>1
      <4>3. call.still => call'.still
        BY <2>7, <2>8
      <4>4. ~Present(entry[p])
        BY <3>5 DEF e
      <4>5. ASSUME NEW d \in Cells, d # p, d \in ToSet(todo[First])
            PROVE  d \in ToSet(todo'[First])
        BY <1>2, <2>10, <4>2, <4>5, FirstIsBackend
      <4> QED
        BY <3>1, <3>2, <3>3, <4>3, <4>4, <4>5 DEF Verified
    <3> QED
      BY <3>4, <3>5
  <2> QED
    BY <1>0, <1>1, <2>8, <2>12, <2>13, <2>14, NoAnswerYet DEF QueriesInv, PhaseOK
<1> QED
  BY <1>3, <1>4

(***************************************************************************)
(* Queries: the commands of ClearIP and their verification                 *)
(***************************************************************************)

LEMMA ClearStartInv ==
  ASSUME QueriesInv, ClearStart
  PROVE  QueriesInv'
<1>0. QueryTypes
  BY DEF QueriesInv
<1>1. /\ call.op = "clear" /\ call' = [call EXCEPT !.phase = "send"] /\ targets' = healthy
      /\ trouble' = trouble \cup (Backends \ healthy)
      /\ UNCHANGED <<entry, up, healthy, todo, got, start, elapsed, touched>>
  BY DEF ClearStart
<1>2. call' \in Calls /\ call'.op = "clear" /\ call'.phase = "send"
  BY <1>0, <1>1 DEF QueryTypes, Calls
<1>3. QueryTypes'
  BY <1>0, <1>1, <1>2 DEF QueryTypes
<1> QED
  BY <1>2, <1>3, NoAnswerYet DEF QueriesInv, PhaseOK, ReadingOK, VerifyOK

LEMMA ClearSendInv ==
  ASSUME QueriesInv, NEW b \in Backends, ClearSend(b) \/ ClearSendFails(b)
  PROVE  QueriesInv'
<1>0. QueryTypes /\ PhaseOK
  BY DEF QueriesInv
<1>1. /\ b \in targets /\ targets' = targets \ {b}
      /\ UNCHANGED <<up, healthy, todo, got, start, elapsed, touched, trouble>>
      /\ \/ call' = call /\ entry' = [c \in Cells |-> IF c[1] = b THEN Absent ELSE entry[c]]
         \/ call' = [call EXCEPT !.err = TRUE] /\ entry' = entry
  BY DEF ClearSend, ClearSendFails, envVars
<1>2. call.phase = "send" /\ call.op = "clear"
  BY <1>0, <1>1 DEF PhaseOK
<1>3. call' \in Calls /\ call'.op = "clear" /\ call'.phase = "send"
  BY <1>0, <1>1, <1>2 DEF QueryTypes, Calls
<1>4. entry' \in [Cells -> CellValues]
  BY <1>0, <1>1, AbsentFacts DEF QueryTypes
<1>5. QueryTypes'
  BY <1>0, <1>1, <1>3, <1>4 DEF QueryTypes
<1> QED
  BY <1>3, <1>5, NoAnswerYet DEF QueriesInv, PhaseOK, ReadingOK, VerifyOK

LEMMA VerifyReadsFacts ==
  /\ VerifyReads \in [Backends -> Seq(Places)]
  /\ \A b \in Backends : \A x \in ToSet(VerifyReads[b]) : x \in Cells
  /\ \A c \in Cells : c \in ToSet(VerifyReads[First])
<1>1. AllReads \in Seq(Places) /\ <<>> \in Seq(Places) /\ ToSet(<<>>) = {}
  <2>1. \A s \in Seq(Cells) : s \in Seq(Places)
    BY Grid
  <2> QED
    BY <2>1, AllReadsFacts DEF ToSet
<1>2. \A b \in Backends : VerifyReads[b] = IF b = First THEN AllReads ELSE <<>>
  BY DEF VerifyReads
<1>3. VerifyReads \in [Backends -> Seq(Places)]
  BY <1>1 DEF VerifyReads
<1>4. VerifyReads[First] = AllReads
  BY <1>2, FirstIsBackend
<1> QED
  BY <1>1, <1>2, <1>3, <1>4, AllReadsFacts

LEMMA VerifyInv ==
  ASSUME QueriesInv, VerifyStart \/ VerifyAgain
  PROVE  QueriesInv'
<1>0. QueryTypes /\ PhaseOK
  BY DEF QueriesInv
<1>1. /\ call.phase \in {"send", "verify"} /\ todo' = VerifyReads
      /\ UNCHANGED <<entry, up, healthy, start, elapsed, touched, trouble, got, targets>>
      /\ \/ call' = [call EXCEPT !.phase = "verify", !.still = FALSE] /\ targets = {}
         \/ call' = [call EXCEPT !.attempt = call.attempt + 1, !.still = FALSE]
            /\ call.phase = "verify"
  BY DEF VerifyStart, VerifyAgain, envVars
<1>2. call.op = "clear" /\ targets = {}
  BY <1>0, <1>1 DEF PhaseOK
<1>3. call \in Calls
  BY <1>0 DEF QueryTypes
<1>4. call' \in Calls /\ call'.op = "clear" /\ call'.phase = "verify"
  <2>1. CASE call' = [call EXCEPT !.phase = "verify", !.still = FALSE]
    BY <1>2, <1>3, <2>1 DEF Calls
  <2>2. CASE call' = [call EXCEPT !.attempt = call.attempt + 1, !.still = FALSE]
             /\ call.phase = "verify"
    <3> DEFINE n == call.attempt + 1
    <3>1. n \in Int
      BY <1>3 DEF Calls
    <3>2. call' = [call EXCEPT !.attempt = n, !.still = FALSE]
      BY <2>2
    <3> HIDE DEF n
    <3> QED
      BY <1>2, <1>3, <2>2, <3>1, <3>2 DEF Calls
  <2> QED
    BY <1>1, <2>1, <2>2
<1>5. QueryTypes'
  BY <1>0, <1>1, <1>4, VerifyReadsFacts DEF QueryTypes
<1>6. VerifyOK'
  BY <1>1, VerifyReadsFacts DEF VerifyOK, Verified
<1> QED
  BY <1>1, <1>2, <1>4, <1>5, <1>6, NoAnswerYet DEF QueriesInv, PhaseOK, ReadingOK

LEMMA ClearReturnInv ==
  ASSUME QueriesInv, ClearReturn
  PROVE  QueriesInv'
<1>0. QueryTypes /\ PhaseOK /\ VerifyOK
  BY DEF QueriesInv
<1>1. /\ \/ call.phase = "send" /\ targets = {} /\ call.err
         \/ call.phase = "verify" /\ ReadingDone
      /\ answer'.ok = (~call.err /\ ~call.still)
      /\ call' = [call EXCEPT !.phase = "done"]
      /\ UNCHANGED <<entry, up, healthy, start, elapsed, touched, trouble, todo, got, targets>>
  BY DEF ClearReturn, envVars, NoAnswer
<1>2. call.op = "clear" /\ targets = {}
  BY <1>0, <1>1 DEF PhaseOK
<1>3. call' \in Calls /\ call'.op = "clear" /\ call'.phase = "done"
  BY <1>0, <1>1, <1>2 DEF QueryTypes, Calls
<1>4. QueryTypes'
  BY <1>0, <1>1, <1>3 DEF QueryTypes
<1>5. NothingMissed' /\ NoFalseAlarm' /\ LookupsTruthful'
  BY <1>3 DEF NothingMissed, NoFalseAlarm, LookupsTruthful, Answered
<1>6. ClearedIsGone'
  <2> SUFFICES ASSUME answer'.ok, NEW c \in Cells, c[1] \notin trouble, c \notin touched
               PROVE  ~Present(entry[c])
    BY <1>1 DEF ClearedIsGone
  <2>1. call.phase = "verify" /\ ReadingDone /\ ~call.still
    BY <1>1
  <2>2. ToSet(todo[First]) = {}
    BY <2>1, FirstIsBackend DEF ReadingDone, ToSet
  <2> QED
    BY <1>0, <2>1, <2>2 DEF VerifyOK, Verified
<1> QED
  BY <1>1, <1>2, <1>3, <1>4, <1>5, <1>6 DEF QueriesInv, PhaseOK, ReadingOK, VerifyOK

(***************************************************************************)
(* Queries: the answers                                                    *)
(***************************************************************************)

\* The least of some numbers.
LEMMA Least ==
  ASSUME NEW S, S \subseteq Nat, S # {}
  PROVE  \E x \in S : \A y \in S : x <= y
<1>1. PICK x \in S : \A y \in S : ~(<<y, x>> \in OpToRel(<, Nat))
  BY NatLessThanWellFounded, WFMin
<1>2. ASSUME NEW y \in S PROVE x <= y
  <2>1. x \in Nat /\ y \in Nat
    OBVIOUS
  <2>2. ASSUME y < x PROVE FALSE
    <3> <<y, x>> \in {ss \in Nat \X Nat : ss[1] < ss[2]}
      BY <2>1, <2>2
    <3> QED
      BY <1>1 DEF OpToRel
  <2> QED
    BY <2>1, <2>2
<1> QED
  BY <1>2

LEMMA LeastOf ==
  ASSUME NEW S, S \subseteq Nat, S # {}
  PROVE  Min(S) \in S /\ \A y \in S : Min(S) <= y
<1>1. \E x \in S : \A y \in S : x <= y
  BY Least
<1>2. Min(S) = CHOOSE x \in S : \A y \in S : x <= y
  BY DEF Min
<1> QED
  BY <1>1, <1>2, Zenon

\* What was read of an entry in the last n ticks says of the entry.
LEMMA WhatWasRead ==
  ASSUME NEW e \in CellValues, NEW n \in Nat, NEW r, ReadOf(e, n, r)
  PROVE  /\ r \in CellValues
         /\ e.exp > n => Present(r)
         /\ Present(r) => /\ Present(e) /\ r.gpc0 = e.gpc0
                          /\ r.exp <= e.exp /\ e.exp <= r.exp + n
         /\ ~Present(r) => ~Present(Aged(e, n))
         /\ r.gpc0 = 1 => e.gpc0 = 1
<1>1. PICK k \in 0 .. n : r = Aged(e, k)
  BY DEF ReadOf
<1>2. /\ r \in CellValues
      /\ Present(r) <=> e.exp > k
      /\ r.gpc0 = 1 => e.gpc0 = 1
      /\ e.exp > k => r.gpc0 = e.gpc0 /\ r.exp = e.exp - k
  BY <1>1, AgedFacts
<1>3. /\ e.exp \in Nat /\ (Present(e) <=> e.exp > 0)
      /\ Present(Aged(e, n)) <=> e.exp > n
  BY CellFacts, AgedFacts DEF Present
<1> DEFINE x == e.exp
           y == r.exp
<1>4. x \in Nat /\ (x > k => y = x - k)
  BY <1>2, <1>3
<1> HIDE DEF x, y
<1>5. x > n => x > k
  BY <1>4
<1>6. x > k => y <= x /\ x <= y + n /\ x > 0
  BY <1>4
<1>7. ~(x > k) => ~(x > n)
  BY <1>4
<1> QED
  BY <1>2, <1>3, <1>5, <1>6, <1>7 DEF x, y

\* What is known when all is read.
LEMMA AllRead ==
  ASSUME QueriesInv, call.phase = "read", ReadingDone
  PROVE  /\ \A c \in Cells : Asks(call.op, c) =>
              c \in touched \/ ReadOf(start[c], elapsed, got[c])
              \/ Excused(call, todo, got, trouble, c)
         /\ HistoryTrue(entry, start, elapsed, touched)
         /\ ReadsTrue(got, start, elapsed, touched)
         /\ SeenTrue(call, got, start, touched)
         /\ ErrorsTrue(call, trouble)
         /\ elapsed \in Nat
         /\ \A c \in Cells : start[c] \in CellValues /\ got[c] \in CellValues
<1>1. \A c \in Cells : ToSet(todo[ReaderOf(call.op, c)]) = {}
  <2>1. \A c \in Cells : ReaderOf(call.op, c) \in Backends
    BY Grid, FirstIsBackend DEF ReaderOf
  <2> QED
    BY <2>1 DEF ReadingDone, ToSet
<1> QED
  BY <1>1 DEF QueriesInv, QueryTypes, ReadingOK, AllCovered

\* A difference within d.
LEMMA Within ==
  ASSUME NEW n \in Int, NEW d \in Nat
  PROVE  Abs(n) <= d <=> -d <= n /\ n <= d
BY DEF Abs

\* The first backend that has an entry is compared with the others.
LEMMA ComparedWithFirst ==
  ASSUME NEW t \in Tables, PresentIn(t) = Backends, NEW b \in Backends, b # Min(Backends)
  PROVE  <<Min(Backends), b>> \in Compared(t) /\ Min(Backends) \in Backends
<1>1. Backends \subseteq Nat /\ Backends # {}
  BY FirstIsBackend, QueriesAssumption DEF Backends, ToSet
<1>2. Min(Backends) \in Backends /\ \A y \in Backends : Min(Backends) <= y
  BY <1>1, LeastOf
<1> DEFINE f == Min(Backends)
<1>3. f \in Nat /\ b \in Nat /\ f <= b /\ f # b
  BY <1>1, <1>2
<1> HIDE DEF f
<1>4. f < b
  BY <1>3
<1> QED
  BY <1>2, <1>4 DEF Compared, f

\* Without a discrepancy in a table, what was read of it agrees.
LEMMA NoDiscrepancy ==
  ASSUME QueryTypes, NEW t \in Tables, Discrepancies(t) = {},
         NEW a \in Backends, Present(got[<<a, t>>])
  PROVE  \A b \in Backends :
           /\ Present(got[<<b, t>>]) /\ got[<<b, t>>].gpc0 = got[<<a, t>>].gpc0
           /\ got[<<b, t>>].exp <= got[<<a, t>>].exp + 2 * Tolerance
           /\ got[<<a, t>>].exp <= got[<<b, t>>].exp + 2 * Tolerance
<1> DEFINE f == Min(Backends)
           g == [b \in Backends |-> got[<<b, t>>]]
<1>1. PresentIn(t) = Backends
  <2>1. a \in PresentIn(t)
    BY DEF PresentIn
  <2>2. PresentIn(t) \notin {{}, Backends} => <<"Presence Mismatch", t>> \in Discrepancies(t)
    BY DEF Discrepancies
  <2> QED
    BY <2>1, <2>2
<1>2. \A b \in Backends : Present(g[b]) /\ g[b].exp \in Nat
  <2>1. \A b \in Backends : got[<<b, t>>] \in CellValues
    BY Grid DEF QueryTypes
  <2> QED
    BY <1>1, <2>1, CellFacts DEF PresentIn
<1>3. f \in Backends
  <2>1. Backends \subseteq Nat /\ Backends # {}
    BY FirstIsBackend, QueriesAssumption DEF Backends, ToSet
  <2> QED
    BY <2>1, LeastOf
<1>4. ASSUME NEW b \in Backends, b # f
      PROVE  g[f].gpc0 = g[b].gpc0 /\ ~EndsDiffer(g[f], g[b])
  <2>1. <<f, b>> \in Compared(t)
    BY <1>1, <1>4, ComparedWithFirst
  <2>2. g[f] = got[<<f, t>>] /\ g[b] = got[<<b, t>>]
    BY <1>3
  <2> HIDE DEF f, g
  <2> DEFINE p == <<f, b>>
  <2>3. p[1] = f /\ p[2] = b /\ p \in Compared(t)
    BY <2>1
  <2> HIDE DEF p
  <2>4. got[<<p[1], t>>].gpc0 # got[<<p[2], t>>].gpc0
        => <<"Gpc0 Mismatch", t, p>> \in Discrepancies(t)
    BY <2>3 DEF Discrepancies
  <2>5. EndsDiffer(got[<<p[1], t>>], got[<<p[2], t>>])
        => <<"Expiration Mismatch", t, p>> \in Discrepancies(t)
    BY <2>3 DEF Discrepancies
  <2> QED
    BY <2>2, <2>3, <2>4, <2>5
<1> HIDE DEF f, g
<1>5. ASSUME NEW b \in Backends
      PROVE  /\ g[b].gpc0 = g[f].gpc0
             /\ g[b].exp <= g[f].exp + Tolerance /\ g[f].exp <= g[b].exp + Tolerance
  <2>1. g[b].exp \in Nat /\ g[f].exp \in Nat /\ Tolerance \in Nat
    BY <1>2, <1>3, QueriesAssumption
  <2>2. CASE b = f
    BY <2>1, <2>2
  <2>3. CASE b # f
    <3>1. ~(Abs(g[f].exp - g[b].exp) > Tolerance)
      BY <1>4, <2>3 DEF EndsDiffer
    <3>2. g[f].exp - g[b].exp \in Int
      BY <2>1
    <3>3. Abs(g[f].exp - g[b].exp) \in Int
      BY <3>2 DEF Abs
    <3>4. Abs(g[f].exp - g[b].exp) <= Tolerance
      BY <2>1, <3>1, <3>3
    <3>5. -Tolerance <= g[f].exp - g[b].exp /\ g[f].exp - g[b].exp <= Tolerance
      BY <2>1, <3>2, <3>4, Within
    <3> QED
      BY <1>4, <2>1, <2>3, <3>5
  <2> QED
    BY <2>2, <2>3
<1>6. ASSUME NEW b \in Backends
      PROVE  /\ Present(g[b]) /\ g[b].gpc0 = g[a].gpc0
             /\ g[b].exp <= g[a].exp + 2 * Tolerance
             /\ g[a].exp <= g[b].exp + 2 * Tolerance
  <2>1. g[b].exp \in Nat /\ g[f].exp \in Nat /\ g[a].exp \in Nat /\ Tolerance \in Nat
    BY <1>2, <1>3, QueriesAssumption
  <2>2. /\ g[b].exp <= g[f].exp + Tolerance /\ g[f].exp <= g[b].exp + Tolerance
        /\ g[a].exp <= g[f].exp + Tolerance /\ g[f].exp <= g[a].exp + Tolerance
    BY <1>5
  <2> QED
    BY <1>2, <1>5, <2>1, <2>2
<1> QED
  BY <1>6 DEF g

\* Entries that were the same everywhere, and were read soon, show no discrepancy.
LEMMA NothingToReport ==
  ASSUME NEW t \in Tables, NEW e \in CellValues, NEW n \in Nat, n <= Tolerance,
         Present(e) => e.exp > n,
         \A b \in Backends : ReadOf(e, n, got[<<b, t>>])
  PROVE  Discrepancies(t) = {}
<1> DEFINE g == [b \in Backends |-> got[<<b, t>>]]
<1>1. \A b \in Backends :
        /\ g[b] \in CellValues
        /\ e.exp > n => Present(g[b])
        /\ Present(g[b]) => /\ Present(e) /\ g[b].gpc0 = e.gpc0
                            /\ g[b].exp <= e.exp /\ e.exp <= g[b].exp + n
  BY WhatWasRead
<1>2. PresentIn(t) \in {{}, Backends}
  <2>1. CASE Present(e)
    BY <1>1, <2>1 DEF PresentIn
  <2>2. CASE ~Present(e)
    BY <1>1, <2>2 DEF PresentIn
  <2> QED
    BY <2>1, <2>2
<1>3. ASSUME NEW p \in Compared(t)
      PROVE  /\ got[<<p[1], t>>].gpc0 = got[<<p[2], t>>].gpc0
             /\ ~EndsDiffer(got[<<p[1], t>>], got[<<p[2], t>>])
  <2>1. p[1] \in PresentIn(t) /\ p[2] \in PresentIn(t)
    BY DEF Compared
  <2>2. /\ p[1] \in Backends /\ Present(g[p[1]]) /\ g[p[1]] = got[<<p[1], t>>]
        /\ p[2] \in Backends /\ Present(g[p[2]]) /\ g[p[2]] = got[<<p[2], t>>]
    BY <2>1 DEF PresentIn
  <2> HIDE DEF g
  <2> DEFINE x == g[p[1]]
             y == g[p[2]]
  <2>3. /\ x.exp \in Nat /\ y.exp \in Nat /\ e.exp \in Nat /\ Tolerance \in Nat
        /\ x.gpc0 = e.gpc0 /\ y.gpc0 = e.gpc0
        /\ x.exp <= e.exp /\ e.exp <= x.exp + n
        /\ y.exp <= e.exp /\ e.exp <= y.exp + n
    BY <1>1, <2>2, CellFacts, QueriesAssumption
  <2> HIDE DEF x, y
  <2>4. x.exp - y.exp \in Int /\ -Tolerance <= x.exp - y.exp /\ x.exp - y.exp <= Tolerance
    BY <2>3
  <2>5. Abs(x.exp - y.exp) <= Tolerance /\ Abs(x.exp - y.exp) \in Int
    BY <2>3, <2>4, Within DEF Abs
  <2>6. ~EndsDiffer(x, y)
    BY <2>3, <2>5 DEF EndsDiffer
  <2> QED
    BY <2>2, <2>3, <2>6 DEF x, y
<1> QED
  BY <1>2, <1>3 DEF Discrepancies

\* CompareHAProxyBackends returns.
LEMMA CompareAnswer ==
  ASSUME QueriesInv, call.phase = "read", ReadingDone, call.op = "compare",
         answer' = CompareHAProxyBackends, call'.op = call.op,
         UNCHANGED <<start, elapsed, touched>>
  PROVE  NothingMissed' /\ NoFalseAlarm'
<1>1. CASE call.err
  <2>1. answer'.ok = FALSE /\ answer'.report = {}
    BY <1>1 DEF CompareHAProxyBackends, NoAnswer
  <2> QED
    BY <2>1 DEF NothingMissed, NoFalseAlarm
<1>2. CASE ~call.err
  <2>1. answer'.report = UNION {Discrepancies(t) : t \in Tables}
    BY <1>2 DEF CompareHAProxyBackends, NoAnswer
  <2>2. /\ \A c \in Cells : c \in touched \/ ReadOf(start[c], elapsed, got[c])
        /\ elapsed \in Nat /\ QueryTypes
        /\ \A c \in Cells : start[c] \in CellValues /\ got[c] \in CellValues
    BY <1>2, AllRead DEF Asks, Excused, QueriesInv
  <2>3. NothingMissed'
    <3> SUFFICES ASSUME answer'.report = {}, touched = {},
                        NEW t \in Tables, NEW a \in Backends, NEW b \in Backends,
                        start[<<a, t>>].exp > elapsed
                 PROVE  /\ Present(start[<<b, t>>])
                        /\ start[<<a, t>>].gpc0 = start[<<b, t>>].gpc0
                        /\ Abs(start[<<a, t>>].exp - start[<<b, t>>].exp)
                             <= 2 * Tolerance + elapsed
      BY DEF NothingMissed, Steady
    <3> DEFINE x == start[<<a, t>>]
               y == start[<<b, t>>]
               v == got[<<a, t>>]
               w == got[<<b, t>>]
    <3>1. Discrepancies(t) = {}
      BY <2>1
    <3>2. <<a, t>> \in Cells /\ <<b, t>> \in Cells
      BY Grid
    <3>3. ReadOf(x, elapsed, v) /\ ReadOf(y, elapsed, w) /\ x \in CellValues /\ y \in CellValues
          /\ v \in CellValues /\ w \in CellValues
      BY <2>2, <3>2
    <3>4. Present(v) /\ v.gpc0 = x.gpc0 /\ v.exp <= x.exp /\ x.exp <= v.exp + elapsed
      BY <2>2, <3>3, WhatWasRead
    <3>5. /\ Present(w) /\ w.gpc0 = v.gpc0
          /\ w.exp <= v.exp + 2 * Tolerance /\ v.exp <= w.exp + 2 * Tolerance
      BY <2>2, <3>1, <3>4, NoDiscrepancy
    <3>6. Present(y) /\ w.gpc0 = y.gpc0 /\ w.exp <= y.exp /\ y.exp <= w.exp + elapsed
      BY <2>2, <3>3, <3>5, WhatWasRead
    <3>7. /\ x.exp \in Nat /\ y.exp \in Nat /\ v.exp \in Nat /\ w.exp \in Nat
          /\ Tolerance \in Nat /\ elapsed \in Nat
      BY <2>2, <3>3, CellFacts, QueriesAssumption
    <3> HIDE DEF x, y, v, w
    <3>8. /\ x.exp - y.exp \in Int /\ 2 * Tolerance + elapsed \in Nat
          /\ -(2 * Tolerance + elapsed) <= x.exp - y.exp
          /\ x.exp - y.exp <= 2 * Tolerance + elapsed
      BY <3>4, <3>5, <3>6, <3>7
    <3>9. Abs(x.exp - y.exp) <= 2 * Tolerance + elapsed
      BY <3>8, Within
    <3> QED
      BY <3>4, <3>5, <3>6, <3>9 DEF x, y
  <2>4. NoFalseAlarm'
    <3> SUFFICES ASSUME touched = {}, elapsed <= Tolerance,
                        \A t \in Tables : \A a, b \in Backends :
                          start[<<a, t>>] = start[<<b, t>>],
                        \A c \in Cells : Present(start[c]) => start[c].exp > elapsed
                 PROVE  answer'.report = {}
      BY DEF NoFalseAlarm
    <3>1. ASSUME NEW t \in Tables PROVE Discrepancies(t) = {}
      <4> DEFINE e == start[<<First, t>>]
      <4>1. <<First, t>> \in Cells /\ \A b \in Backends : <<b, t>> \in Cells
        BY Grid, FirstIsBackend
      <4>2. e \in CellValues /\ (Present(e) => e.exp > elapsed)
        BY <2>2, <4>1
      <4>3. \A b \in Backends : start[<<b, t>>] = e
        BY FirstIsBackend
      <4>4. \A b \in Backends : ReadOf(e, elapsed, got[<<b, t>>])
        BY <2>2, <4>1, <4>3
      <4> HIDE DEF e
      <4> QED
        BY <2>2, <4>2, <4>4, NothingToReport
    <3> QED
      BY <2>1, <3>1
  <2> QED
    BY <2>3, <2>4
<1> QED
  BY <1>1, <1>2

\* GetCurrentState and DumpBackends return.
LEMMA MergedAnswer ==
  ASSUME QueriesInv, call.phase = "read", ReadingDone, call.op \in {"state", "dump"},
         answer' = IF call.op = "state" THEN GetCurrentState ELSE DumpBackends,
         call'.op = call.op, UNCHANGED <<start, elapsed, touched, trouble>>
  PROVE  LookupsTruthful'
<1>1. /\ \A c \in Cells : \/ c \in touched \/ ReadOf(start[c], elapsed, got[c])
                           \/ Excused(call, todo, got, trouble, c)
      /\ SeenTrue(call, got, start, touched) /\ elapsed \in Nat
      /\ \A c \in Cells : start[c] \in CellValues
  BY AllRead DEF Asks
<1>2. ASSUME NEW c \in Cells, c \notin touched, start[c].exp > elapsed,
             ~Excused(call, todo, got, trouble, c)
      PROVE  Present(got[c]) /\ got[c].gpc0 = start[c].gpc0
  BY <1>1, <1>2, WhatWasRead
<1>3. CASE call.op = "state"
  <2>1. answer'.value = call.seen
    BY <1>3 DEF GetCurrentState, NoAnswer
  <2>2. ASSUME NEW c \in Cells, c \notin touched, start[c].exp > elapsed,
               c[1] \notin trouble, start[c].gpc0 = 1
        PROVE  call.seen = 1
    <3>1. ~Excused(call, todo, got, trouble, c)
      BY <1>3, <2>2 DEF Excused, ReaderOf, Concurrent
    <3> QED
      BY <1>1, <1>2, <1>3, <2>2, <3>1 DEF SeenTrue
  <2>3. call.seen = 1 => \E c \in Cells : c \in touched \/ start[c].gpc0 = 1
    BY <1>1 DEF SeenTrue
  <2> QED
    BY <1>3, <2>1, <2>2, <2>3 DEF LookupsTruthful, Answered, Steady
<1>4. CASE call.op = "dump"
  <2>1. IF call.err THEN answer'.ok = FALSE ELSE answer'.value = call.seen
    BY <1>4 DEF DumpBackends, NoAnswer
  <2>2. ASSUME NEW c \in Cells, c \notin touched, start[c].exp > elapsed, ~call.err
        PROVE  call.seen # -1
    <3>1. ~Excused(call, todo, got, trouble, c)
      BY <1>4, <2>2 DEF Excused
    <3> QED
      BY <1>1, <1>2, <1>4, <2>2, <3>1 DEF SeenTrue
  <2>3. call.seen = 1 => \E c \in Cells : c \in touched \/ start[c].gpc0 = 1
    BY <1>1 DEF SeenTrue
  <2> QED
    BY <1>4, <2>1, <2>2, <2>3 DEF LookupsTruthful, Answered, Steady
<1> QED
  BY <1>3, <1>4

\* IsIPBlocked returns.
LEMMA BlockedAnswer ==
  ASSUME QueriesInv, call.phase = "read", ReadingDone, call.op = "blocked",
         answer' = IsIPBlocked, call'.op = call.op, UNCHANGED <<start, elapsed, touched, trouble>>
  PROVE  LookupsTruthful'
<1>1. /\ \A t \in Tables : \/ <<First, t>> \in touched
                            \/ ReadOf(start[<<First, t>>], elapsed, got[<<First, t>>])
                            \/ Excused(call, todo, got, trouble, <<First, t>>)
      /\ ReadsTrue(got, start, elapsed, touched) /\ elapsed \in Nat
      /\ \A t \in Tables : start[<<First, t>>] \in CellValues
  BY AllRead, Grid, FirstIsBackend DEF Asks
<1> DEFINE blocked == \E t \in Tables : got[<<First, t>>].gpc0 = 1
<1>2. IF call.err THEN answer'.ok = FALSE ELSE answer'.value = (IF blocked THEN 1 ELSE 0)
  BY DEF IsIPBlocked, NoAnswer
<1>3. ASSUME NEW t \in Tables, <<First, t>> \notin touched, First \notin trouble,
             start[<<First, t>>].exp > elapsed, start[<<First, t>>].gpc0 = 1
      PROVE  blocked
  <2>1. CASE ReadOf(start[<<First, t>>], elapsed, got[<<First, t>>])
    <3>1. Present(got[<<First, t>>]) /\ got[<<First, t>>].gpc0 = start[<<First, t>>].gpc0
      BY <1>1, <1>3, <2>1, WhatWasRead
    <3> QED
      BY <1>3, <3>1
  <2>2. CASE Excused(call, todo, got, trouble, <<First, t>>)
    BY <1>3, <2>2 DEF Excused, ReaderOf, Concurrent
  <2> QED
    BY <1>1, <1>3, <2>1, <2>2
<1>4. ASSUME blocked
      PROVE  \E t \in Tables : <<First, t>> \in touched \/ start[<<First, t>>].gpc0 = 1
  <2>1. PICK t \in Tables : got[<<First, t>>].gpc0 = 1
    BY <1>4
  <2>2. <<First, t>> \in Cells
    BY Grid, FirstIsBackend
  <2>3. <<First, t>> \in touched \/ ReadOf(start[<<First, t>>], elapsed, got[<<First, t>>])
    BY <1>1, <2>1, <2>2, AbsentFacts DEF ReadsTrue
  <2> QED
    BY <1>1, <2>1, <2>3, WhatWasRead
<1> HIDE DEF blocked
<1>5. answer'.ok /\ (\E t \in Tables : Steady(<<First, t>>)' /\ start[<<First, t>>].gpc0 = 1)
        /\ First \notin trouble => answer'.value = 1
  BY <1>2, <1>3 DEF Steady
<1>6. answer'.ok /\ answer'.value = 1 => blocked
  BY <1>2
<1> QED
  BY <1>4, <1>5, <1>6 DEF LookupsTruthful, Answered

\* GetIPDetails returns, or ClearIP because there is nothing to clear.
LEMMA DetailsAnswer ==
  ASSUME QueriesInv, call.phase = "read", ReadingDone, call.op \in {"details", "clear"},
         answer' = GetIPDetails, call'.op = call.op, call.op = "clear" => GetIPDetails.found = {},
         UNCHANGED <<entry, start, elapsed, touched, trouble>>
  PROVE  LookupsTruthful' /\ ClearedIsGone'
<1>1. /\ \A c \in Cells : \/ c \in touched \/ ReadOf(start[c], elapsed, got[c])
                           \/ Excused(call, todo, got, trouble, c)
      /\ HistoryTrue(entry, start, elapsed, touched) /\ ErrorsTrue(call, trouble)
      /\ elapsed \in Nat /\ \A c \in Cells : start[c] \in CellValues
  BY AllRead DEF Asks
<1>2. First \notin trouble => answer'.found = {c \in Cells : Present(got[c])}
  BY <1>1 DEF GetIPDetails, ErrorsTrue, NoAnswer
<1>3. ASSUME First \notin trouble, NEW c \in Cells, c \notin touched, c[1] \notin trouble
      PROVE  ReadOf(start[c], elapsed, got[c])
  BY <1>1, <1>3 DEF Excused, ReaderOf, Concurrent
<1>4. LookupsTruthful'
  <2>1. ASSUME First \notin trouble, NEW c \in Cells, c \notin touched, c[1] \notin trouble,
               start[c].exp > elapsed
        PROVE  c \in answer'.found
    <3>1. Present(got[c])
      BY <1>1, <1>3, <2>1, WhatWasRead
    <3> QED
      BY <1>2, <2>1, <3>1
  <2> QED
    BY <2>1 DEF LookupsTruthful, Answered, Steady
<1>5. ClearedIsGone'
  <2> SUFFICES ASSUME call.op = "clear", First \notin trouble, NEW c \in Cells,
                      c[1] \notin trouble, c \notin touched
               PROVE  ~Present(entry[c])
    BY DEF ClearedIsGone, Answered
  <2>1. ~Present(got[c])
    BY <1>2
  <2>2. ~Present(Aged(start[c], elapsed))
    BY <1>1, <1>3, <2>1, WhatWasRead
  <2> QED
    BY <1>1, <2>2 DEF HistoryTrue
<1> QED
  BY <1>4, <1>5

LEMMA ReturnInv ==
  ASSUME QueriesInv, Return
  PROVE  QueriesInv'
<1>0. QueryTypes /\ PhaseOK
  BY DEF QueriesInv
<1>1. /\ call.phase = "read" /\ ReadingDone /\ call' = [call EXCEPT !.phase = "done"]
      /\ call.op = "clear" => GetIPDetails.found = {}
      /\ UNCHANGED <<entry, up, healthy, start, elapsed, touched, trouble, todo, got, targets>>
  BY DEF Return, envVars
<1>2. answer' = CASE call.op = "compare" -> CompareHAProxyBackends
                  [] call.op = "dump" -> DumpBackends
                  [] call.op = "state" -> GetCurrentState
                  [] call.op = "blocked" -> IsIPBlocked
                  [] OTHER -> GetIPDetails
  BY DEF Return
<1>3. call' \in Calls /\ call'.op = call.op /\ call'.phase = "done"
  BY <1>0, <1>1 DEF QueryTypes, Calls
<1>4. QueryTypes'
  BY <1>0, <1>1, <1>3 DEF QueryTypes
<1>5. call.op \in {"compare", "dump", "state", "blocked", "details", "clear"}
  BY <1>0 DEF QueryTypes, Calls, Ops
<1>6. PhaseOK' /\ ReadingOK' /\ VerifyOK'
  BY <1>0, <1>1, <1>3 DEF PhaseOK, ReadingOK, VerifyOK
<1>7. call.op # "compare" => NothingMissed' /\ NoFalseAlarm'
  BY <1>3 DEF NothingMissed, NoFalseAlarm, Answered
<1>8. call.op # "clear" => ClearedIsGone'
  BY <1>3 DEF ClearedIsGone, Answered
<1>9. call.op \in {"compare", "clear"} => LookupsTruthful'
  BY <1>3 DEF LookupsTruthful, Answered
<1>10. CASE call.op = "compare"
  <2>1. answer' = CompareHAProxyBackends
    BY <1>2, <1>10
  <2>2. NothingMissed' /\ NoFalseAlarm'
    BY <1>1, <1>3, <1>10, <2>1, CompareAnswer
  <2> QED
    BY <1>4, <1>6, <1>8, <1>9, <1>10, <2>2 DEF QueriesInv
<1>11. CASE call.op \in {"state", "dump"}
  <2>1. answer' = IF call.op = "state" THEN GetCurrentState ELSE DumpBackends
    BY <1>2, <1>11
  <2>2. LookupsTruthful'
    BY <1>1, <1>3, <1>11, <2>1, MergedAnswer
  <2> QED
    BY <1>4, <1>6, <1>7, <1>8, <1>11, <2>2 DEF QueriesInv
<1>12. CASE call.op = "blocked"
  <2>1. answer' = IsIPBlocked
    BY <1>2, <1>12
  <2>2. LookupsTruthful'
    BY <1>1, <1>3, <1>12, <2>1, BlockedAnswer
  <2> QED
    BY <1>4, <1>6, <1>7, <1>8, <1>12, <2>2 DEF QueriesInv
<1>13. CASE call.op \in {"details", "clear"}
  <2>1. answer' = GetIPDetails
    BY <1>2, <1>13
  <2>2. LookupsTruthful' /\ ClearedIsGone'
    BY <1>1, <1>3, <1>13, <2>1, DetailsAnswer
  <2> QED
    BY <1>4, <1>6, <1>7, <1>13, <2>2 DEF QueriesInv
<1> QED
  BY <1>5, <1>10, <1>11, <1>12, <1>13

LEMMA QueriesStep ==
  ASSUME QueriesInv, [QueriesNext]_queryVars
  PROVE  QueriesInv'
<1>1. CASE Environment
  BY <1>1, EnvironmentInv
<1>2. CASE Caller
  <2>1. ASSUME NEW th \in Backends, Read(th) \/ ReadFails(th) PROVE QueriesInv'
    BY <2>1, ReadInv, ReadFailsInv
  <2>2. ASSUME NEW b \in Backends, ClearSend(b) \/ ClearSendFails(b) PROVE QueriesInv'
    BY <2>2, ClearSendInv
  <2> QED
    BY <1>2, <2>1, <2>2, ReturnInv, ClearStartInv, VerifyInv, ClearReturnInv DEF Caller
<1>3. CASE UNCHANGED queryVars
  <2>1. QueryTypes'
    BY <1>3 DEF QueriesInv, QueryTypes, queryVars
  <2> QED
    BY <1>3, <2>1, QuietInv DEF queryVars
<1> QED
  BY <1>1, <1>2, <1>3 DEF QueriesNext

LEMMA QueriesInvariance == QueriesSpec => []QueriesInv
<1>1. QueriesInit => QueriesInv
  BY QueriesInitInv
<1>2. QueriesInv /\ [QueriesNext]_queryVars => QueriesInv'
  BY QueriesStep
<1> QED
  BY <1>1, <1>2, PTL DEF QueriesSpec

(***************************************************************************)
(* Queries: the theorems                                                   *)
(***************************************************************************)

\* CompareHAProxyBackends, which reads each backend at another time, misses no
\* difference of entries that outlive the comparison beyond twice the tolerance
\* and the time it takes, for any backends, tables, tolerance and failures.
THEOREM ComparisonMissesNothing == QueriesSpec => []NothingMissed
<1>1. QueriesInv => NothingMissed
  BY DEF QueriesInv
<1> QED
  BY <1>1, QueriesInvariance, PTL

\* CompareHAProxyBackends reports no discrepancy between backends that hold the
\* same, however the reads are spread over the time that the tolerance allows.
THEOREM ComparisonIsQuiet == QueriesSpec => []NoFalseAlarm
<1>1. QueriesInv => NoFalseAlarm
  BY DEF QueriesInv
<1> QED
  BY <1>1, QueriesInvariance, PTL

\* ClearIP without an error has emptied all tables of the reachable backends, but
\* for what others wrote after the verification.
THEOREM ClearedEntriesAreGone == QueriesSpec => []ClearedIsGone
<1>1. QueriesInv => ClearedIsGone
  BY DEF QueriesInv
<1> QED
  BY <1>1, QueriesInvariance, PTL

\* GetCurrentState, IsIPBlocked, GetIPDetails and DumpBackends tell the truth about
\* the entries nobody changes while they read.
THEOREM LookupsAreTruthful == QueriesSpec => []LookupsTruthful
<1>1. QueriesInv => LookupsTruthful
  BY DEF QueriesInv
<1> QED
  BY <1>1, QueriesInvariance, PTL
=============================================================================
