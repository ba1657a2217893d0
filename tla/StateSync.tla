------------------------------ MODULE StateSync ------------------------------
(***************************************************************************)
(* How the nodes of a cluster learn of each other's blocks                 *)
(* (internal/cluster/syncloop.go, internal/server/handlers_statesync.go,   *)
(* fetchInitialStateFromCluster).  A follower asks the leader for what     *)
(* changed since its watermark, the timestamp of the last response; the    *)
(* leader then asks every node for what changed since and merges the       *)
(* answers.  A request without a watermark is for everything, and is       *)
(* answered from a file on disk unless the leader's rows changed since the *)
(* file was written.                                                       *)
(*                                                                         *)
(* The clocks agree and count seconds, which is what the database and the  *)
(* watermark keep: many steps fall into one second.  Removals by hand are  *)
(* left out, and so are the merged rows that collectAndCacheMergedState    *)
(* caches, which no program code reads.  Bad actors travel with the same   *)
(* answers, see BadActorSync; the block that a node writes when it learns  *)
(* of one is a decision of that node here.                                 *)
(***************************************************************************)
EXTENDS Naturals, FiniteSets

CONSTANTS
  Leader, Followers,  \* cluster.nodes, numbered in their order, the leader first
  IPs,
  Durations,          \* block_duration of chains and bad actors
  Modes,              \* values of state_sync.incremental
  MaxNow,             \* bound of the model: the clock
  MaxDecisions,       \* bound of the model: decisions about IPs
  MaxFaults,          \* bound of the model: failed requests and stops of a node
  MaxRounds           \* bound of the model: rounds of followers under way at once

Nodes == {Leader} \cup Followers

ASSUME StateSyncAssumption ==
  /\ Followers \subseteq Nat /\ Leader \in Nat
  /\ \A f \in Followers : Leader < f
  /\ Durations \subseteq Nat \ {0}
  /\ Modes \subseteq BOOLEAN
  /\ MaxNow \in Nat \ {0} /\ MaxDecisions \in Nat /\ MaxFaults \in Nat /\ MaxRounds \in Nat

VARIABLES
  now,          \* the clock, in seconds
  incremental,  \* state_sync.incremental
  rows,         \* table ips of each node: state, expire_time, modified_at
  up,           \* nodes whose API answers
  last,         \* lastSyncTime of each follower, its watermark, 0 for none
  rounds,       \* per follower, the synchronisation it is in
  cache,        \* the file with the last answer to a request for everything
  counts,       \* decisions and faults so far, for the bounds
  own,          \* history: per node and IP, the last row that the node itself decided
  ends,         \* history: per IP, the ends of the blocks that were decided
  holes         \* history: per follower and node, the seconds its watermark passed over

vars == <<now, incremental, rows, up, last, rounds, cache, counts, own, ends, holes>>
history == <<own, ends, holes>>

NoRow == [state |-> "none", expire |-> 0, mod |-> 0]
NoRows == [ip \in IPs |-> NoRow]

\* MergedStateResponse; asked is history: when the request came.
NoAnswer == [merged |-> NoRows, ts |-> 0, failed |-> {}, asked |-> 0]
NoRound == [phase |-> "idle", since |-> 0, todo |-> {}, answer |-> NoAnswer]
NoCache == [answer |-> NoAnswer, time |-> 0]
NoHoles == [n \in Nodes |-> {}]

\* The followers were started before the leader: nobody has a watermark.
StateSyncInit ==
  /\ now = 1
  /\ incremental \in Modes
  /\ rows = [n \in Nodes |-> NoRows]
  /\ up = Nodes
  /\ last = [f \in Followers |-> 0]
  /\ rounds = [f \in Followers |-> NoRound]
  /\ cache = NoCache
  /\ counts = [decisions |-> 0, faults |-> 0]
  /\ own = [n \in Nodes |-> NoRows]
  /\ ends = [ip \in IPs |-> {}]
  /\ holes = [f \in Followers |-> NoHoles]

(***************************************************************************)
(* Decisions of a node                                                     *)
(***************************************************************************)

\* UpsertIPState and BlockIPBatch: the row replaces the old one.
Decide(n, ip, row) ==
  /\ n \in up
  /\ counts.decisions < MaxDecisions
  /\ counts' = [counts EXCEPT !.decisions = @ + 1]
  /\ rows' = [rows EXCEPT ![n][ip] = row]
  /\ own' = [own EXCEPT ![n][ip] = row]
  /\ UNCHANGED <<now, incremental, up, last, rounds, cache, holes>>

DecideBlock(n, ip, d) ==
  /\ Decide(n, ip, [state |-> "blocked", expire |-> now + d, mod |-> now])
  /\ ends' = [ends EXCEPT ![ip] = @ \cup {now + d}]

\* unblockNewlyWhitelistedIPs: expire_time is the time of the decision.
DecideUnblock(n, ip) ==
  /\ rows[n][ip].state = "blocked" /\ rows[n][ip].expire > now
  /\ Decide(n, ip, [state |-> "unblocked", expire |-> now, mod |-> now])
  /\ UNCHANGED ends

(***************************************************************************)
(* A follower's round: the request and the leader's answer                 *)
(***************************************************************************)

\* What a node sends: rows modified later than since; expired blocks are left out by the
\* leader, and by a follower that is asked for everything.
Sent(n, since) ==
  [ip \in IPs |->
     LET row == rows[n][ip]
         expired == row.state = "blocked" /\ row.expire < now IN
     IF row.mod <= since \/ (expired /\ (n = Leader \/ since = 0)) THEN NoRow ELSE row]

\* clusterMergedStateHandler: the file serves while at most a tenth of the leader's rows
\* changed after it was written.
CacheServes ==
  LET known == {ip \in IPs : rows[Leader][ip].state # "none"}
      changed == {ip \in known : rows[Leader][ip].mod > cache.time} IN
  cache.time # 0 /\ Cardinality(changed) <= Cardinality(known) \div 10

\* The answer is the file's.
FromCache == [NoRound EXCEPT !.phase = "apply", !.answer = cache.answer]

\* The answer is collected, from the leader itself first.
Fresh(since) ==
  [NoRound EXCEPT !.phase = "collect", !.since = since, !.todo = Followers,
                  !.answer.merged = Sent(Leader, since), !.answer.asked = now]

Request(f, since) ==
  /\ rounds[f].phase = "idle"
  /\ Cardinality({g \in Followers : rounds[g].phase # "idle"}) < MaxRounds
  /\ rounds' = [rounds EXCEPT ![f] =
       IF since = 0 /\ CacheServes THEN FromCache ELSE Fresh(since)]
  /\ UNCHANGED <<now, incremental, rows, up, last, cache, counts, history>>

\* fetchAndMergeFromLeader.
SyncRequest(f) == f \in up /\ Request(f, IF incremental THEN last[f] ELSE 0)

\* restorePersistenceState of a follower that starts: everything is asked for, before its
\* own API answers.
InitialRequest(f) == f \notin up /\ Request(f, 0)

\* Faulty variant: the state of the row modified later, with the later end.
MergeLatest(existing, row) ==
  IF existing.state = "none" THEN row
  ELSE IF row.state = "none" THEN existing
  ELSE [state |-> IF row.mod > existing.mod THEN row.state ELSE existing.state,
        expire |-> IF row.expire > existing.expire THEN row.expire ELSE existing.expire,
        mod |-> IF row.mod > existing.mod THEN row.mod ELSE existing.mod]

\* Of two rows the later end, with its state, and the later modification.
Merge(existing, row) ==
  IF existing.state = "none" THEN row
  ELSE IF row.state = "none" THEN existing
  ELSE [state |-> IF row.expire > existing.expire THEN row.state ELSE existing.state,
        expire |-> IF row.expire > existing.expire THEN row.expire ELSE existing.expire,
        mod |-> IF row.mod > existing.mod THEN row.mod ELSE existing.mod]

\* Nodes are asked in the order of cluster.nodes.
First(n, S) == n \in S /\ \A m \in S : n <= m

\* collectAndMergeStates goes through the other nodes, the one that asks included.
Collect(f, n) ==
  LET r == rounds[f]
      sent == Sent(n, r.since) IN
  /\ r.phase = "collect"
  /\ First(n, r.todo)
  /\ n \in up
  /\ rounds' = [rounds EXCEPT ![f] =
       [r EXCEPT !.todo = @ \ {n},
                 !.answer.merged = [ip \in IPs |-> Merge(@[ip], sent[ip])]]]
  /\ UNCHANGED <<now, incremental, rows, up, last, cache, counts, history>>

Fault ==
  /\ counts.faults < MaxFaults
  /\ counts' = [counts EXCEPT !.faults = @ + 1]

\* The node is listed as failed and left out: it is down, or the request fails.
CollectFails(f, n) ==
  LET r == rounds[f] IN
  /\ r.phase = "collect"
  /\ First(n, r.todo)
  /\ IF n \in up THEN Fault ELSE UNCHANGED counts
  /\ rounds' = [rounds EXCEPT ![f].todo = @ \ {n}, ![f].answer.failed = @ \cup {n}]
  /\ UNCHANGED <<now, incremental, rows, up, last, cache, history>>

\* The timestamp of the answer is taken after the collection.
Respond(f) ==
  LET r == rounds[f] IN
  /\ r.phase = "collect"
  /\ r.todo = {}
  /\ rounds' = [rounds EXCEPT ![f] =
       [r EXCEPT !.phase = IF r.since = 0 THEN "store" ELSE "apply", !.answer.ts = now]]
  /\ UNCHANGED <<now, incremental, rows, up, last, cache, counts, history>>

\* storeStreaming: an answer to a request for everything replaces the file and is served
\* from it.
Store(f) ==
  /\ rounds[f].phase = "store"
  /\ cache' = [answer |-> rounds[f].answer, time |-> now]
  /\ rounds' = [rounds EXCEPT ![f].phase = "apply"]
  /\ UNCHANGED <<now, incremental, rows, up, last, counts, history>>

\* The request fails or times out; a follower that starts goes on with what it has.
RoundFails(f) ==
  /\ rounds[f].phase \in {"collect", "store"}
  /\ Fault
  /\ up' = up \cup {f}
  /\ rounds' = [rounds EXCEPT ![f] = NoRound]
  /\ UNCHANGED <<now, incremental, rows, last, cache, history>>

(***************************************************************************)
(* A follower's round: what it does with the answer                        *)
(***************************************************************************)

\* The upsert of fetchAndMergeFromLeader.
Upsert(old, row) ==
  [state |-> row.state,
   expire |-> IF row.expire > old.expire THEN row.expire ELSE old.expire,
   mod |-> IF row.mod > old.mod THEN row.mod ELSE old.mod]

\* A request names a second and is answered with what is later.  What a node decided
\* while the answer was collected, up to the answer's timestamp, may never be sent; nor is
\* anything since the watermark before, by a node that was not reached.
Missed(n, failed, since, a) == IF n \in failed THEN since + 1 .. a.ts ELSE a.asked .. a.ts

\* Faulty variant: the follower's own clock.
WatermarkOwnClock(a) == now

\* responseTimestamp, "not current time".
Watermark(a) == a.ts

\* The round ends.  An answer with everything settles what was passed over before.
EndRound(f, failed) ==
  LET since == rounds[f].since
      a == rounds[f].answer IN
  /\ last' = [last EXCEPT ![f] = Watermark(a)]
  /\ holes' = [holes EXCEPT ![f] = [n \in Nodes |->
       (IF since = 0 THEN {} ELSE @[n]) \cup Missed(n, failed, since, a)]]
  /\ rounds' = [rounds EXCEPT ![f] = NoRound]

\* The rows for S that have not expired are committed.
MergeRows(f, S) ==
  LET merged == rounds[f].answer.merged IN
  rows' = [rows EXCEPT ![f] = [ip \in IPs |->
    IF ip \in S /\ merged[ip].expire > now THEN Upsert(@[ip], merged[ip]) ELSE @[ip]]]

\* The watermark moves, then the rows are merged under dbMutex.
FollowerMerge(f) ==
  /\ rounds[f].phase = "apply"
  /\ f \in up
  /\ MergeRows(f, IPs)
  /\ EndRound(f, rounds[f].answer.failed)
  /\ UNCHANGED <<now, incremental, up, cache, counts, own, ends>>

\* A transaction cannot be opened or committed: the batches before it stay, and the
\* watermark has moved already.
FollowerMergeFails(f) ==
  /\ rounds[f].phase = "apply"
  /\ f \in up
  /\ Fault
  /\ \E S \in (SUBSET IPs) \ {IPs} : MergeRows(f, S)
  /\ EndRound(f, Nodes)
  /\ UNCHANGED <<now, incremental, up, cache, own, ends>>

\* fetchInitialStateFromCluster: the rows of the answer replace those of the follower, its
\* own decisions included; then its API and its loop start, with the answer's watermark.
FollowerJoin(f) ==
  LET a == rounds[f].answer
      received == {ip \in IPs : a.merged[ip].state # "none"} IN
  /\ rounds[f].phase = "apply"
  /\ f \notin up
  /\ up' = up \cup {f}
  /\ rows' = [rows EXCEPT ![f] =
       [ip \in IPs |-> IF ip \in received THEN a.merged[ip] ELSE @[ip]]]
  /\ own' = [own EXCEPT ![f] = [ip \in IPs |-> IF ip \in received THEN NoRow ELSE @[ip]]]
  /\ EndRound(f, a.failed)
  /\ UNCHANGED <<now, incremental, cache, counts, ends>>

(***************************************************************************)
(* Stops, restarts and time                                                *)
(***************************************************************************)

\* A follower stops, with its database as it is; it will start with InitialRequest.
Stop(f) ==
  /\ f \in up \/ rounds[f].phase # "idle"
  /\ Fault
  /\ up' = up \ {f}
  /\ last' = [last EXCEPT ![f] = 0]
  /\ rounds' = [rounds EXCEPT ![f] = NoRound]
  /\ holes' = [holes EXCEPT ![f] = NoHoles]
  /\ UNCHANGED <<now, incremental, rows, cache, own, ends>>

\* The leader restarts: requests fail, and InitMergedStateCache removes the file.
LeaderRestart ==
  LET cut == {f \in Followers : rounds[f].phase \in {"collect", "store"}} IN
  /\ Fault
  /\ rounds' = [f \in Followers |-> IF f \in cut THEN NoRound ELSE rounds[f]]
  /\ up' = up \cup cut
  /\ cache' = NoCache
  /\ UNCHANGED <<now, incremental, rows, last, history>>

Tick ==
  /\ now < MaxNow
  /\ now' = now + 1
  /\ UNCHANGED <<incremental, rows, up, last, rounds, cache, counts, history>>

StateSyncNext ==
  \/ \E n \in Nodes, ip \in IPs :
       (\E d \in Durations : DecideBlock(n, ip, d)) \/ DecideUnblock(n, ip)
  \/ \E f \in Followers :
       \/ SyncRequest(f) \/ InitialRequest(f) \/ Respond(f) \/ Store(f) \/ RoundFails(f)
       \/ \E n \in Followers : Collect(f, n) \/ CollectFails(f, n)
       \/ FollowerMerge(f) \/ FollowerMergeFails(f) \/ FollowerJoin(f)
       \/ Stop(f)
  \/ LeaderRestart
  \/ Tick

StateSyncSpec == StateSyncInit /\ [][StateSyncNext]_vars

(***************************************************************************)
(* Properties                                                              *)
(***************************************************************************)

Times == 0 .. MaxNow
Rows == [state : {"none", "blocked", "unblocked"}, expire : Nat, mod : Times]
Answers == [merged : [IPs -> Rows], ts : Times, failed : SUBSET Followers, asked : Times]
Rounds == [phase : {"idle", "collect", "store", "apply"}, since : Times,
           todo : SUBSET Followers, answer : Answers]

\* Every variable has its type; a follower that starts has no watermark, and an answer
\* that it is to apply is dated between the request and now.
StateSyncTypeOK ==
  /\ now \in Times /\ incremental \in BOOLEAN
  /\ rows \in [Nodes -> [IPs -> Rows]] /\ own \in [Nodes -> [IPs -> Rows]]
  /\ up \subseteq Nodes /\ Leader \in up
  /\ last \in [Followers -> Times]
  /\ rounds \in [Followers -> Rounds]
  /\ cache \in [answer : Answers, time : Times]
  /\ \A f \in Followers :
       /\ f \notin up => last[f] = 0
       /\ rounds[f].phase \in {"store", "apply"} =>
            rounds[f].answer.ts \in rounds[f].answer.asked .. now

\* A follower has every block that another node decided up to the follower's watermark
\* and that still runs, for at least as long, unless the follower has decided about the
\* IP itself since, or the decision fell into a hole: the node was not reached by that
\* round, or its decision was made while the round's answer was collected.
SyncedUpTo ==
  \A f \in Followers, n \in Nodes, ip \in IPs :
    LET d == own[n][ip] IN
    /\ n # f
    /\ d.state = "blocked"
    /\ d.expire > now
    /\ d.mod <= last[f]
    /\ d.mod \notin holes[f][n]
    /\ own[f][ip].mod < d.mod
    => rows[f][ip].state = "blocked" /\ rows[f][ip].expire >= d.expire

\* State and end of a row are chosen by different rules, on the leader and in the upsert:
\* together they are still those of a decision.  No unblocking becomes a block, or lasts.
NothingInvented ==
  \A n \in Nodes, ip \in IPs :
    LET row == rows[n][ip] IN
    /\ row.state = "blocked" => row.expire \in ends[ip]
    /\ row.state = "unblocked" => row.expire <= now

=============================================================================
