------------------------------- MODULE Checker -------------------------------
(***************************************************************************)
(* The detector itself (internal/checker/checker.go, internal/store): log  *)
(* entries of many tailers are checked one at a time, under ActivityMutex, *)
(* against behavioural chains; the progress of every actor through every   *)
(* chain is kept in the activity store; entries that arrive a little late  *)
(* wait in a buffer that a goroutine drains.                               *)
(*                                                                         *)
(* Time has two scales that meet in the worker: the timestamps of the log  *)
(* entries (ts) and the clock of the process (now).  A chain is a sequence *)
(* of steps; what a step matches on is a set of kinds of request.  0 is    *)
(* Go's zero time and a duration of 0 is a rule that is not configured.    *)
(***************************************************************************)
EXTENDS Integers, Sequences, FiniteSets, SequencesExt

CONSTANTS
  IPs, UAs, VHosts,   \* NoVHost is one of VHosts
  NoVHost,
  GoodUAs,            \* what the good_actors rules match
  Kinds,              \* kinds of request, as the steps tell them apart
  Chains,             \* the sequence of all configured chains
  ChainsOf,           \* per vhost, the indices of the chains that apply, in order
  Tolerance,          \* parser.out_of_order_tolerance
  IdleTimeout,        \* checker.actor_state_idle_timeout
  BadActorDuration,   \* bad_actors.block_duration
  Threshold,          \* bad_actors.threshold; every block has weight 1
  MaxTs,              \* bound of the model: timestamps of the log
  MaxNow,             \* bound of the model: clock of the process
  MaxEntries          \* bound of the model: log entries

NoUA == "none"
ChainIds == 1 .. Len(Chains)
Actors == [ip : IPs, ua : UAs \cup {NoUA}, vhost : VHosts]
Entries == [id : 1 .. MaxEntries, ip : IPs, ua : UAs, vhost : VHosts,
            ts : 1 .. MaxTs, kind : Kinds]

Steps == [kinds : SUBSET Kinds, max : Nat, min : Nat, since : Nat]
BehavioralChain == [key : {"ip", "ip_ua"}, action : {"block", "log", "challenge"},
                    dur : Nat, stop : BOOLEAN, steps : Seq(Steps)]

\* An out-of-order tolerance of 0 buffers nothing.
ASSUME CheckerAssumption ==
  /\ NoVHost \in VHosts
  /\ NoUA \notin UAs
  /\ GoodUAs \subseteq UAs
  /\ Chains \in Seq(BehavioralChain) /\ Chains # <<>>
  /\ \A c \in ChainIds : Chains[c].steps # <<>>
  /\ ChainsOf \in [VHosts -> Seq(ChainIds)]
  /\ Tolerance \in Nat /\ BadActorDuration \in Nat
  /\ MaxTs \in Nat

VARIABLES
  store,      \* ActivityStore: an actor it does not hold has the zero activity
  buffer,     \* EntryBuffer
  hand,       \* entries the worker took out of the buffer and has not processed
  bad,        \* the bad_actors table
  scores,     \* the scores table
  now,        \* the clock
  arrived,    \* history: entries that CheckChains was called with
  skipped,    \* history: those it returned on without processing them
  checked,    \* history: the entries that went through the chains, in order
  completed,  \* history: chains completed: chain, actor and position in checked
  blocks      \* history: blocks issued: actor, position in checked, time and end

checkerVars == <<store, buffer, hand, bad, scores, now, arrived, skipped,
                 checked, completed, blocks>>

ZeroActivity == [last |-> 0, blocked |-> FALSE, until |-> 0, skip |-> "none",
                 progress |-> [c \in ChainIds |-> [step |-> 0, at |-> 0]]]

CheckerInit ==
  /\ store = [a \in Actors |-> ZeroActivity]
  /\ buffer = <<>>
  /\ hand = <<>>
  /\ bad = {}
  /\ scores = [ip \in IPs |-> 0]
  /\ now = 1
  /\ arrived = 0
  /\ skipped = {}
  /\ checked = <<>>
  /\ completed = {}
  /\ blocks = {}

(***************************************************************************)
(* One entry against one chain                                             *)
(***************************************************************************)

BaseActor(e) == [ip |-> e.ip, ua |-> NoUA, vhost |-> e.vhost]
IPActor(e) == [ip |-> e.ip, ua |-> NoUA, vhost |-> NoVHost]

\* GetActor: what the chain's match_key tells apart.
GetActor(c, e) ==
  [BaseActor(e) EXCEPT !.ua = IF Chains[c].key = "ip_ua" THEN e.ua ELSE NoUA]

\* PreCheckActivity: a good actor is skipped, as a blocked one is until its block
\* is over, which clears it; a request skipped by a block counts as the last one seen.
PreCheckActivity(activity, e) ==
  IF activity.skip = "good" THEN [skip |-> TRUE, activity |-> activity]
  ELSE IF ~activity.blocked THEN [skip |-> FALSE, activity |-> activity]
  ELSE IF now > activity.until
  THEN [skip |-> FALSE, activity |->
          [activity EXCEPT !.blocked = FALSE, !.skip = "none", !.until = 0]]
  ELSE [skip |-> TRUE, activity |->
          [activity EXCEPT !.last = IF e.ts > @ THEN e.ts ELSE @]]

\* checkInterStepTimeRules, for the second and later steps.
TimeRuleFails(step, gap) ==
  \/ step.max > 0 /\ gap > step.max
  \/ step.min > 0 /\ gap < step.min

\* checkFirstStepTimeRule: min_time_since_last_hit.
FirstStepPasses(step, last, e) ==
  step.since > 0 /\ last # 0 => e.ts - last > step.since

\* matchStepFields.
MatchStepFields(step, e) == e.kind \in step.kinds

\* Faulty variant: a violated time rule is logged, and the actor stays where it is.
StepAfterNoReset(c, e, activity) ==
  LET p == activity.progress[c]
      match == MatchStepFields(Chains[c].steps[p.step + 1], e)
  IN  [step |-> IF match THEN p.step + 1 ELSE p.step, at |-> IF match THEN e.ts ELSE p.at]

\* The loop of ProcessChainForEntry: a violated time rule sends the actor back to
\* step 0, which is tried at once on the same entry.  The result is the number of
\* steps passed after the entry.
StepAfter(c, e, activity) ==
  LET steps == Chains[c].steps
      p == activity.progress[c]
      from == IF p.step > 0 /\ TimeRuleFails(steps[p.step + 1], e.ts - p.at)
              THEN 0 ELSE p.step
      match == /\ from = 0 => FirstStepPasses(steps[1], activity.last, e)
               /\ MatchStepFields(steps[from + 1], e)
  IN  [step |-> IF match THEN from + 1 ELSE from,
       at |-> IF match THEN e.ts ELSE IF from = 0 THEN 0 ELSE p.at]

\* checkChainsInternal at work under the mutex: the tables it writes, the histories,
\* and for the entry at hand its position in checked, the activities that took part
\* and whether a chain stopped the others.
Work(s) ==
  [store |-> s, bad |-> bad, scores |-> scores, completed |-> completed,
   blocks |-> blocks, n |-> Len(checked), touched |-> {}, stop |-> FALSE]

Blocking(activity, until) ==
  [activity EXCEPT !.blocked = TRUE, !.skip = "blocked", !.until = until]

\* ProcessChainForEntry and handleChainCompletion for the actor's activity: a
\* completed chain leaves no progress, and a block marks both the actor and the
\* actor of the bare IP, and counts for the IP's score (executeBlock).
ProcessChainForEntry(w, c, e, activity) ==
  LET a == GetActor(c, e)
      next == StepAfter(c, e, activity)
      done == next.step = Len(Chains[c].steps)
      blocking == done /\ Chains[c].action = "block"
      until == now + Chains[c].dur
      left == [activity EXCEPT !.progress[c] = IF done THEN [step |-> 0, at |-> 0] ELSE next]
      s == [w.store EXCEPT ![a] = left]
      score == w.scores[e.ip] + 1
      moved == [w EXCEPT
        !.store = s,
        !.touched = @ \cup {a},
        !.stop = done /\ Chains[c].stop /\ Chains[c].action # "log",
        !.completed = IF done THEN @ \cup {[chain |-> c, actor |-> a, n |-> w.n]} ELSE @]
  IN  IF ~blocking THEN moved
      ELSE [moved EXCEPT
        !.store = [b \in Actors |-> IF b \in {a, IPActor(e)} THEN Blocking(s[b], until) ELSE s[b]],
        !.scores[e.ip] = score,
        !.bad = IF score >= Threshold THEN @ \cup {e.ip} ELSE @,
        !.blocks = @ \cup {[actor |-> a, n |-> w.n, from |-> now, until |-> until]}]

\* Faulty variant: the chains run whatever the pre-check says.
TryChainAnyway(w, c, e) == ProcessChainForEntry(w, c, e, w.store[GetActor(c, e)])

\* One iteration of the loop over the chains.
TryChain(w, c, e) ==
  LET a == GetActor(c, e)
      check == PreCheckActivity(w.store[a], e)
  IN  IF w.stop THEN w
      ELSE IF check.skip THEN [w EXCEPT !.store[a] = check.activity]
      ELSE ProcessChainForEntry(w, c, e, check.activity)

(***************************************************************************)
(* checkChainsInternal                                                     *)
(***************************************************************************)

\* The loop over the chains of the entry's vhost.
TryChains(w, e) ==
  LET chains == ChainsOf[e.vhost]
      run[i \in 0 .. Len(chains)] == IF i = 0 THEN w ELSE TryChain(run[i - 1], chains[i], e)
  IN  run[Len(chains)]

\* Every activity that took part then has the entry as its last request, even if it
\* is older than the one before.
CheckChain(w, e) ==
  LET done == TryChains([w EXCEPT !.n = @ + 1, !.touched = {}, !.stop = FALSE], e)
  IN  [done EXCEPT !.store = [a \in Actors |->
         IF a \in done.touched THEN [done.store[a] EXCEPT !.last = e.ts] ELSE done.store[a]]]

\* checkChainsInternal on each entry in turn.
CheckEntries(w, entries) ==
  LET run[i \in 0 .. Len(entries)] == IF i = 0 THEN w ELSE CheckChain(run[i - 1], entries[i])
  IN  run[Len(entries)]

CheckAll(s, entries) ==
  \E w \in {CheckEntries(Work(s), entries)} :
    /\ store' = w.store
    /\ completed' = w.completed
    /\ blocks' = w.blocks
    /\ scores' = w.scores
    /\ bad' = w.bad
    /\ checked' = checked \o entries

(***************************************************************************)
(* CheckChains                                                             *)
(***************************************************************************)

IsGoodActor(e) == e.ua \in GoodUAs

\* The entry's base actor after the checks against good and bad actors.
Greeted(e) ==
  LET activity == store[BaseActor(e)] IN
  IF IsGoodActor(e)
  THEN IF activity.skip = "good" THEN activity
       ELSE [activity EXCEPT !.skip = "good", !.blocked = FALSE, !.until = 0]
  ELSE IF e.ip \in bad /\ ~activity.blocked
  THEN Blocking(activity, now + BadActorDuration)
  ELSE activity

\* A good actor ends the blocks of its base actor: another client of the same address
\* and vhost that is blocked starts afresh.
Forgiven(b, e) ==
  IF IsGoodActor(e) /\ b.actor = BaseActor(e) /\ b.until >= now
  THEN [b EXCEPT !.until = now - 1] ELSE b

Skip(e, activity) ==
  /\ store' = [store EXCEPT ![BaseActor(e)] = activity]
  /\ skipped' = skipped \cup {e.id}
  /\ blocks' = {Forgiven(b, e) : b \in blocks}
  /\ UNCHANGED <<buffer, hand, bad, scores, checked, completed>>

ShouldBufferOutOfOrder(last, e) ==
  last # 0 /\ e.ts < last /\ last - e.ts <= Tolerance

\* Faulty variant: the buffer is in the order of arrival.
AppendToBuffer(b, e) == Append(b, e)

\* sort.Search: the place of the first entry that is newer than t.
Search(b, t) == Min({i \in 1 .. Len(b) + 1 : i <= Len(b) => b[i].ts > t})

\* AddToOooBuffer: before the first entry that is newer.
AddToOooBuffer(b, e) ==
  LET i == Search(b, e.ts) IN SubSeq(b, 1, i - 1) \o <<e>> \o SubSeq(b, i, Len(b))

\* CheckChains, all of it under ActivityMutex.
CheckChains(e) ==
  LET check == PreCheckActivity(Greeted(e), e)
      s == [store EXCEPT ![BaseActor(e)] = check.activity] IN
  /\ arrived < MaxEntries
  /\ e.id = arrived + 1
  /\ e.ts <= now
  /\ arrived' = arrived + 1
  /\ IF ~IsGoodActor(e) /\ e.ip \in bad
     THEN Skip(e, Greeted(e))
     ELSE IF check.skip
     THEN Skip(e, check.activity)
     ELSE /\ UNCHANGED <<hand, skipped>>
          /\ IF ShouldBufferOutOfOrder(s[IPActor(e)].last, e)
             THEN /\ buffer' = AddToOooBuffer(buffer, e)
                  /\ store' = s
                  /\ UNCHANGED <<bad, scores, checked, completed, blocks>>
             ELSE /\ CheckAll(s, <<e>>)
                  /\ UNCHANGED buffer
  /\ UNCHANGED now

(***************************************************************************)
(* EntryBufferWorker                                                       *)
(***************************************************************************)

\* NextOooCandidate, as long as it finds one: the front of the buffer that is behind
\* the horizon.  The sort before it leaves a buffer that is in order as it is.
Ready == SubSeq(buffer, 1, Search(buffer, now - Tolerance - 1) - 1)

\* Faulty variant: the entries are copied out of the buffer and stay in it.
DequeueCopies ==
  /\ hand = <<>>
  /\ Ready # <<>>
  /\ hand' = Ready
  /\ UNCHANGED <<store, buffer, bad, scores, now, arrived, skipped, checked,
                 completed, blocks>>

\* Faulty variant: the horizon follows the log, not the clock.
DequeueBehindLog ==
  LET last == checked[Len(checked)].ts
      ready == SubSeq(buffer, 1, Search(buffer, last - Tolerance - 1) - 1) IN
  /\ hand = <<>>
  /\ checked # <<>>
  /\ ready # <<>>
  /\ hand' = ready
  /\ buffer' = SubSeq(buffer, Len(ready) + 1, Len(buffer))
  /\ UNCHANGED <<store, bad, scores, now, arrived, skipped, checked, completed,
                 blocks>>

\* On a tick or a signal the entries behind the horizon leave the buffer ...
WorkerDequeue ==
  /\ hand = <<>>
  /\ Ready # <<>>
  /\ hand' = Ready
  /\ buffer' = SubSeq(buffer, Len(Ready) + 1, Len(buffer))
  /\ UNCHANGED <<store, bad, scores, now, arrived, skipped, checked, completed,
                 blocks>>

\* ... and after the mutex was released and taken again, are processed
\* (FlushGivenEntries), whatever was decided about their actors meanwhile.
WorkerFlush ==
  /\ hand # <<>>
  /\ CheckAll(store, hand)
  /\ hand' = <<>>
  /\ UNCHANGED <<buffer, now, arrived, skipped>>

\* FlushEntryBuffer takes everything, whatever the horizon.  A tailer calls it each
\* time it reaches the end of its file, and may do so while the worker holds entries
\* in hand.
FlushEntryBuffer ==
  /\ buffer # <<>>
  /\ CheckAll(store, buffer)
  /\ buffer' = <<>>
  /\ UNCHANGED <<hand, now, arrived, skipped>>

(***************************************************************************)
(* Clean-up, the API and time                                              *)
(***************************************************************************)

\* The largest min_time_since_last_hit of a first step: older activities tell its
\* time rule nothing.
MaxTimeSinceLastHit ==
  LET since == {Chains[c].steps[1].since : c \in ChainIds} IN
  CHOOSE d \in since : \A e \in since : e <= d

\* Whether CleanUpIdleActors drops an activity: not blocked (even if the block is
\* over), no chain that moved lately, and idle or of no use.  One without a request
\* processed, such as that of a good actor, is idle at once: its last request is the
\* zero time.
Idle(activity) ==
  LET gap == now - activity.last IN
  /\ ~activity.blocked
  /\ \A c \in ChainIds : activity.progress[c].step > 0 =>
       now - activity.progress[c].at >= IdleTimeout
  /\ \/ activity.last = 0
     \/ gap > IdleTimeout
     \/ MaxTimeSinceLastHit > 0 /\ gap > MaxTimeSinceLastHit

CleanUpIdleActors ==
  /\ \E a \in Actors : store[a] # ZeroActivity /\ Idle(store[a])
  /\ store' = [a \in Actors |-> IF Idle(store[a]) THEN ZeroActivity ELSE store[a]]
  /\ UNCHANGED <<buffer, hand, bad, scores, now, arrived, skipped, checked,
                 completed, blocks>>

\* An unblock through the API: RemoveFromPersistence and clearIPFromActivityStore.
\* The history of blocks starts afresh.
ClearIP(ip) ==
  /\ bad' = bad \ {ip}
  /\ scores' = [scores EXCEPT ![ip] = 0]
  /\ store' = [a \in Actors |-> IF a.ip = ip THEN ZeroActivity ELSE store[a]]
  /\ blocks' = {b \in blocks : b.actor.ip # ip}
  /\ UNCHANGED <<buffer, hand, now, arrived, skipped, checked, completed>>

Tick ==
  /\ now < MaxNow
  /\ now' = now + 1
  /\ UNCHANGED <<store, buffer, hand, bad, scores, arrived, skipped, checked,
                 completed, blocks>>

CheckerNext ==
  \/ \E e \in Entries : CheckChains(e)
  \/ WorkerDequeue
  \/ WorkerFlush
  \/ FlushEntryBuffer
  \/ CleanUpIdleActors
  \/ \E ip \in IPs : ClearIP(ip)
  \/ Tick

CheckerSpec == CheckerInit /\ [][CheckerNext]_checkerVars

\* WorkerFlush is the only action that empties the worker's hand, and is enabled as
\* long as there is something in it.
HandEmptied == hand' = <<>>

\* The worker's ticker and the clock never stop, and the worker gets ActivityMutex
\* again for the entries in its hand: weak fairness of WorkerFlush, stated of its effect
\* on hand.  Nothing is assumed of the tailers, whose flush at end of file may never
\* come.
CheckerFairSpec ==
  /\ CheckerSpec
  /\ WF_checkerVars(Tick)
  /\ WF_checkerVars(WorkerDequeue)
  /\ WF_hand(HandEmptied)

(***************************************************************************)
(* Properties                                                              *)
(***************************************************************************)

Ids(entries) == {entries[i].id : i \in 1 .. Len(entries)}

\* Every activity and history has its type, and the buffer is in the order of the
\* timestamps, which NextOooCandidate relies on when it looks at the front only.
CheckerTypeOK ==
  /\ \A a \in Actors :
       /\ store[a].last \in 0 .. MaxTs
       /\ store[a].skip \in {"none", "good", "blocked"}
       /\ \A c \in ChainIds : store[a].progress[c].step \in 0 .. Len(Chains[c].steps) - 1
  /\ buffer \in Seq(Entries) /\ hand \in Seq(Entries) /\ checked \in Seq(Entries)
  /\ \A i \in 1 .. Len(buffer) - 1 : buffer[i].ts <= buffer[i + 1].ts

\* Late entries are neither lost nor processed twice, although the worker takes them
\* out of the buffer in one critical section and processes them in another, with
\* tailers adding to and flushing the buffer in between: every entry that arrived
\* was skipped, waits in one place, or went through the chains, and only once.
EveryEntryOnce ==
  /\ skipped \cup Ids(buffer) \cup Ids(hand) \cup Ids(checked) = 1 .. arrived
  /\ Cardinality(skipped) + Len(buffer) + Len(hand) + Len(checked) = arrived

\* No vhost has the chain twice, as it has if the chain names a website twice.
ListedOnce(c) ==
  \A v \in VHosts : \A i, j \in 1 .. Len(ChainsOf[v]) :
    ChainsOf[v][i] = c /\ ChainsOf[v][j] = c => i = j

\* The entries at the positions f of log are what chain c asks for, up to the k-th
\* step: one actor, matching requests, delays within the rules.
Witness(log, c, a, k, f) ==
  /\ \A i \in 1 .. k : /\ GetActor(c, log[f[i]]) = a
                       /\ MatchStepFields(Chains[c].steps[i], log[f[i]])
  /\ \A i \in 1 .. k - 1 :
       /\ f[i] <= f[i + 1]
       /\ ListedOnce(c) => f[i] # f[i + 1]
       /\ ~TimeRuleFails(Chains[c].steps[i + 1], log[f[i + 1]].ts - log[f[i]].ts)

\* A chain completes only for an actor that really did it: for every completion
\* there are requests of that one actor, in the order they were processed and ending
\* with the completing one, that match the steps and keep every delay; resets,
\* expiries, clean-ups and late entries notwithstanding.  There is one request for
\* each step unless a vhost has the chain twice: then it is tried twice on one request.
CompletionsJustified ==
  \A x \in completed :
    LET k == Len(Chains[x.chain].steps) IN
    \E f \in [1 .. k -> 1 .. x.n] :
      f[k] = x.n /\ Witness(checked, x.chain, x.actor, k, f)

BareIP(a) == a.ua = NoUA /\ a.vhost = NoVHost

\* An actor is not blocked again while its block lasts, even by entries that were
\* waiting in the buffer when it was blocked.  Only the actor of a bare IP may be: a
\* block of another actor of the IP marks it too, with an end that may be earlier, and
\* is over by then.
NotBlockedTwice ==
  \A x, y \in blocks :
    x.actor = y.actor /\ x.n < y.n /\ y.from <= x.until =>
      /\ BareIP(x.actor)
      /\ \E z \in blocks : /\ z.actor # x.actor /\ z.actor.ip = x.actor.ip
                           /\ x.n <= z.n /\ z.n <= y.n
                           /\ z.until < y.from

\* A late entry does not wait for ever: the worker's ticker finds it behind the
\* horizon even if no newer entry and no end of file ever causes a flush.
LateEntriesProcessed ==
  \A i \in 1 .. MaxEntries : i \in Ids(buffer) ~> i \in Ids(checked)
=============================================================================
