---------------------------- MODULE BadActorSync ----------------------------
(***************************************************************************)
(* How the bad actors of a cluster spread (internal/cluster/syncloop.go,   *)
(* internal/server/handlers_statesync.go, ApplyBadActorFromPeer).  The     *)
(* leader asks every follower for those promoted since its last collection *)
(* and takes them over, with the time of their promotion; the followers    *)
(* get them with the answers of StateSync, as far as they were promoted    *)
(* since the follower's watermark.  A follower without a watermark gets    *)
(* all of them, possibly from the file on the leader's disk.               *)
(*                                                                         *)
(* The clocks agree and count seconds.  Removals by hand are left out.     *)
(***************************************************************************)
EXTENDS Naturals, FiniteSets

CONSTANTS
  Leader, Followers,  \* cluster.nodes, numbered in their order, the leader first
  IPs,
  Modes,              \* values of state_sync.incremental
  MaxNow,             \* bound of the model: the clock
  MaxEvents,          \* bound of the model: promotions, failed requests and applications,
                      \* stops of a node
  MaxRounds           \* bound of the model: rounds of followers under way at once

Nodes == {Leader} \cup Followers

ASSUME BadActorSyncAssumption ==
  /\ Followers \subseteq Nat /\ Leader \in Nat
  /\ \A f \in Followers : Leader < f
  /\ Modes \subseteq BOOLEAN
  /\ MaxNow \in Nat \ {0} /\ MaxEvents \in Nat /\ MaxRounds \in Nat

VARIABLES
  now,          \* the clock, in seconds
  incremental,  \* state_sync.incremental
  bad,          \* table bad_actors of each node: promoted_at, 0 without a record
  up,           \* nodes whose API answers
  last,         \* lastSyncTime of each node, its watermark, 0 for none
  rounds,       \* per follower, the synchronisation it is in
  collection,   \* the leader's collection; missed is history: the bad actors it did not get,
                \* as <<the follower with the record, the IP>>
  cache,        \* the file with the last answer to a request for everything
  events,       \* promotions and faults so far, for the bound
  learned,      \* history: per IP, when the leader got its record
  passed        \* history: bad actors that the watermark of a node has passed over while it
                \* lacked them, as <<the node, the node with the record, the IP>>

vars == <<now, incremental, bad, up, last, rounds, collection, cache, events, learned, passed>>

NoBad == [ip \in IPs |-> 0]

\* MergedStateResponse; read is history: when the table was read.
NoAnswer == [bad |-> NoBad, ts |-> 0, read |-> 0]
NoRound == [phase |-> "idle", since |-> 0, answer |-> NoAnswer]
NoCollection == [on |-> FALSE, started |-> 0, todo |-> {}, missed |-> {}]

\* The followers were started before the leader: nobody has a watermark.
BadActorSyncInit ==
  /\ now = 1
  /\ incremental \in Modes
  /\ bad = [n \in Nodes |-> NoBad]
  /\ up = Nodes
  /\ last = [n \in Nodes |-> 0]
  /\ rounds = [f \in Followers |-> NoRound]
  /\ collection = NoCollection
  /\ cache = NoAnswer
  /\ events = 0
  /\ learned = NoBad
  /\ passed = {}

\* A record in bad_actors, with the time of the promotion.
SetBad(n, S, promoted) ==
  /\ bad' = [bad EXCEPT ![n] = [ip \in IPs |-> IF ip \in S THEN promoted[ip] ELSE @[ip]]]
  /\ learned' = [ip \in IPs |-> IF n = Leader /\ ip \in S THEN now ELSE learned[ip]]

\* Requests are for later promotions than the watermark: a watermark that covers the
\* promotion when n gets the record passes over it, if its node lacks the record.
TooLate(n, S, promoted) ==
  {t \in (IF n = Leader THEN Followers ELSE {Leader}) \X {n} \X S :
     bad[t[1]][t[3]] = 0 /\ last[t[1]] >= promoted[t[3]]}

Event ==
  /\ events < MaxEvents
  /\ events' = events + 1

\* PromoteToBadActor by the checker of a node.
Promote(n, ip) ==
  /\ n \in up
  /\ bad[n][ip] = 0
  /\ Event
  /\ SetBad(n, {ip}, [i \in IPs |-> now])
  /\ passed' = passed \cup TooLate(n, {ip}, [i \in IPs |-> now])
  /\ UNCHANGED <<now, incremental, up, last, rounds, collection, cache>>

\* ApplyBadActorFromPeer skips those that are known.  The block that follows is a decision
\* of StateSync; its command and row are in Enforcement and Persistence.
New(n, received) == {ip \in IPs : received[ip] # 0 /\ bad[n][ip] = 0}

\* An error of the database is logged, and its bad actor, one of lost, is left out.
ApplyBadActors(n, received, lost) ==
  /\ lost \subseteq New(n, received)
  /\ SetBad(n, New(n, received) \ lost, received)
  /\ IF lost = {} THEN UNCHANGED events ELSE Event

\* GetAllBadActors and GetBadActorsPromotedSince.
PromotedSince(n, since) == [ip \in IPs |-> IF bad[n][ip] > since THEN bad[n][ip] ELSE 0]

(***************************************************************************)
(* A follower's round                                                      *)
(***************************************************************************)

\* The leader has collected the rows and reads its bad actors ...
Read(f, since) ==
  rounds' = [rounds EXCEPT ![f] =
    [phase |-> "read", since |-> since,
     answer |-> [NoAnswer EXCEPT !.bad = PromotedSince(Leader, since), !.read = now]]]

\* ... or it serves the file, if its rows changed little since (CacheServes in StateSync).
FromCache(f) ==
  /\ cache.ts # 0
  /\ rounds' = [rounds EXCEPT ![f] = [phase |-> "apply", since |-> 0, answer |-> cache]]

Since(f) == IF incremental THEN last[f] ELSE 0

\* fetchAndMergeFromLeader; the watermark of a follower that starts is 0.
Request(f) ==
  /\ rounds[f].phase = "idle"
  /\ Cardinality({g \in Followers : rounds[g].phase # "idle"}) < MaxRounds
  /\ Read(f, Since(f)) \/ (Since(f) = 0 /\ FromCache(f))
  /\ UNCHANGED <<now, incremental, bad, up, last, collection, cache, events, learned, passed>>

\* The timestamp is taken; an answer to a request for everything becomes the file.
Respond(f) ==
  LET answer == [rounds[f].answer EXCEPT !.ts = now] IN
  /\ rounds[f].phase = "read"
  /\ rounds' = [rounds EXCEPT ![f].phase = "apply", ![f].answer = answer]
  /\ cache' = IF rounds[f].since = 0 THEN answer ELSE cache
  /\ UNCHANGED <<now, incremental, bad, up, last, collection, events, learned, passed>>

\* The request fails or times out; a follower that starts goes on with what it has.
RoundFails(f) ==
  /\ rounds[f].phase = "read"
  /\ Event
  /\ up' = up \cup {f}
  /\ rounds' = [rounds EXCEPT ![f] = NoRound]
  /\ UNCHANGED <<now, incremental, bad, last, collection, cache, learned, passed>>

\* Faulty variant: the follower's own clock.
WatermarkOwnClock(a) == now

\* responseTimestamp, "not current time".
Watermark(a) == a.ts

\* What f and an answer to it lack although the answer is dated after the promotion; one with
\* everything settles what was passed over before.
PassedByAnswer(f, since, a) ==
  (IF since = 0 THEN passed \ ({f} \X {Leader} \X IPs) ELSE passed) \cup
  {t \in {f} \X {Leader} \X IPs :
     /\ bad[Leader][t[3]] \in 1 .. a.ts /\ learned[t[3]] >= a.read
     /\ bad[f][t[3]] = 0 /\ a.bad[t[3]] = 0}

\* The bad actors are applied, the watermark moves whether that succeeds or not, and a
\* follower that starts is up.
FollowerApply(f, lost) ==
  LET a == rounds[f].answer IN
  /\ rounds[f].phase = "apply"
  /\ ApplyBadActors(f, a.bad, lost)
  /\ last' = [last EXCEPT ![f] = Watermark(a)]
  /\ passed' = PassedByAnswer(f, rounds[f].since, a) \cup {f} \X {Leader} \X lost
  /\ up' = up \cup {f}
  /\ rounds' = [rounds EXCEPT ![f] = NoRound]
  /\ UNCHANGED <<now, incremental, collection, cache>>

(***************************************************************************)
(* The leader's collection (collectAndCacheMergedState)                    *)
(***************************************************************************)

LeaderStart ==
  /\ ~collection.on
  /\ collection' = [on |-> TRUE, started |-> now, todo |-> Followers, missed |-> {}]
  /\ UNCHANGED <<now, incremental, bad, up, last, rounds, cache, events, learned, passed>>

LeaderSince == IF incremental THEN last[Leader] ELSE 0

\* Nodes are asked in the order of cluster.nodes.
First(n, S) == n \in S /\ \A m \in S : n <= m

\* fetchNodeState, the promotions of n since the watermark.
Fetched(n) == PromotedSince(n, LeaderSince)

\* BadActorApplyFunc; the node counts as reached although a bad actor of it could not be
\* applied.
LeaderFetch(n, lost) ==
  /\ First(n, collection.todo)
  /\ n \in up
  /\ ApplyBadActors(Leader, Fetched(n), lost)
  /\ passed' = passed \cup TooLate(Leader, New(Leader, Fetched(n)) \ lost, Fetched(n))
  /\ collection' = [collection EXCEPT !.todo = @ \ {n}, !.missed = @ \cup {n} \X lost]
  /\ UNCHANGED <<now, incremental, up, last, rounds, cache>>

\* The node is down, or the request fails: it is left out.
LeaderFetchFails(n) ==
  /\ First(n, collection.todo)
  /\ IF n \in up THEN Event ELSE UNCHANGED events
  /\ collection' = [collection EXCEPT !.todo = @ \ {n},
                                      !.missed = @ \cup {n} \X New(Leader, Fetched(n))]
  /\ UNCHANGED <<now, incremental, bad, up, last, rounds, cache, learned, passed>>

\* Faulty variant: the time at the end.
LeaderWatermarkAtEnd == now

\* The time at which the collection started.
LeaderWatermark == collection.started

\* What the leader lacks and has not been sent: the promotions in the second in which it started
\* are uncertain, and those of a node that was not reached, or that could not be applied,
\* are missing.
PassedByCollection(since, c) ==
  (IF since = 0 THEN passed \ ({Leader} \X Followers \X IPs) ELSE passed) \cup
  {t \in {Leader} \X Followers \X IPs :
     /\ bad[Leader][t[3]] = 0
     /\ bad[t[2]][t[3]] \in
          (IF <<t[2], t[3]>> \in c.missed THEN since + 1 ELSE c.started) .. c.started}

LeaderDone ==
  /\ collection.on
  /\ collection.todo = {}
  /\ last' = [last EXCEPT ![Leader] = LeaderWatermark]
  /\ passed' = PassedByCollection(LeaderSince, collection)
  /\ collection' = NoCollection
  /\ UNCHANGED <<now, incremental, bad, up, rounds, cache, events, learned>>

(***************************************************************************)
(* Stops, restarts and time                                                *)
(***************************************************************************)

\* A follower stops, with its database as it is; it will start with a request for all.
Stop(f) ==
  /\ f \in up \/ rounds[f].phase # "idle"
  /\ Event
  /\ up' = up \ {f}
  /\ last' = [last EXCEPT ![f] = 0]
  /\ rounds' = [rounds EXCEPT ![f] = NoRound]
  /\ UNCHANGED <<now, incremental, bad, collection, cache, learned, passed>>

\* The leader restarts: requests fail, and InitMergedStateCache removes the file.
LeaderRestart ==
  LET cut == {f \in Followers : rounds[f].phase = "read"} IN
  /\ Event
  /\ rounds' = [f \in Followers |-> IF f \in cut THEN NoRound ELSE rounds[f]]
  /\ up' = up \cup cut
  /\ last' = [last EXCEPT ![Leader] = 0]
  /\ collection' = NoCollection
  /\ cache' = NoAnswer
  /\ UNCHANGED <<now, incremental, bad, learned, passed>>

Tick ==
  /\ now < MaxNow
  /\ now' = now + 1
  /\ UNCHANGED <<incremental, bad, up, last, rounds, collection, cache, events, learned,
                 passed>>

BadActorSyncNext ==
  \/ \E n \in Nodes, ip \in IPs : Promote(n, ip)
  \/ \E f \in Followers :
       Request(f) \/ Respond(f) \/ RoundFails(f) \/ Stop(f)
  \/ \E f \in Followers, lost \in SUBSET IPs : FollowerApply(f, lost)
  \/ LeaderStart
  \/ \E n \in Followers, lost \in SUBSET IPs : LeaderFetch(n, lost)
  \/ \E n \in Followers : LeaderFetchFails(n)
  \/ LeaderDone
  \/ LeaderRestart
  \/ Tick

BadActorSyncSpec == BadActorSyncInit /\ [][BadActorSyncNext]_vars

(***************************************************************************)
(* Properties                                                              *)
(***************************************************************************)

Times == 0 .. MaxNow
Answers == [bad : [IPs -> Times], ts : Times, read : Times]
Rounds == [phase : {"idle", "read", "apply"}, since : Times, answer : Answers]

\* Every variable has its type; a node that starts has no watermark, and an answer that is
\* to be applied is dated between the reading of the table and now.
BadActorSyncTypeOK ==
  /\ now \in Times /\ incremental \in BOOLEAN
  /\ bad \in [Nodes -> [IPs -> Times]]
  /\ up \subseteq Nodes /\ Leader \in up
  /\ last \in [Nodes -> Times]
  /\ rounds \in [Followers -> Rounds]
  /\ collection \in [on : BOOLEAN, started : Times, todo : SUBSET Followers,
                     missed : SUBSET (Followers \X IPs)]
  /\ cache \in Answers
  /\ \A f \in Followers :
       /\ f \notin up => last[f] = 0
       /\ rounds[f].phase = "apply" => rounds[f].answer.ts \in rounds[f].answer.read .. now

\* A bad actor of a follower is known to the leader once the leader's watermark covers the
\* promotion, unless the node was not reached, the leader failed to record it, or it was
\* promoted in the second in which the collection started.
LeaderKnows ==
  \A f \in Followers, ip \in IPs :
    /\ bad[f][ip] \in 1 .. last[Leader]
    /\ <<Leader, f, ip>> \notin passed
    => bad[Leader][ip] # 0

\* A bad actor of the leader is known to a follower once the follower's watermark covers
\* the promotion, unless the follower failed to record it, or the leader learned of it too
\* late: an answer to the follower that covers the promotion was read before.
FollowerKnows ==
  \A f \in Followers, ip \in IPs :
    /\ bad[Leader][ip] \in 1 .. last[f]
    /\ <<f, Leader, ip>> \notin passed
    => bad[f][ip] # 0
=============================================================================
