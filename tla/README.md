# Formal models of bot-detector

bot-detector follows web-server log files, recognises actors whose requests complete a
*behavioural chain*, and blocks their IPs in the stick tables of one or more HAProxy
instances. It keeps its decisions in SQLite, restores them after a restart, repairs
HAProxy instances that restarted, and can run as a cluster of a leader and followers.

This directory holds TLA+ models of the parts of the program that carry that behaviour,
configurations that check them with TLC, and proofs that TLAPS checks. `PROJECT.json`
lists the runs, the source lines each definition stands for, the hazards the properties
are aimed at, and the theorems.

Check a run with `tlc -config MCTailer.cfg MCTailer`, a proof with
`tlapm LogPathProofs.tla`.

## Inventory

| Component | State | Operations | Module |
|---|---|---|---|
| Command queue (`internal/blocker/blocker.go`, `worker.go`) | the `CommandQueue` channel, `stopCh`, the worker | Block, Unblock, worker tick, Shutdown, Stop; the background restore sends on the same channel | `RateLimitedBlocker`, `LossyFifo` |
| HAProxy backends (`internal/blocker/haproxy.go`) | `backendHealth`; outside the process: tables, uptime, reachability | Block, Unblock, fan-out with retries, health check, resync | `HAProxyBlocker` |
| Reading the backends (`haproxy.go`) | none of its own | CompareHAProxyBackends, DumpBackends, GetCurrentState, GetIPDetails, IsIPBlocked, ClearIP | `BackendQueries` |
| From decision to backend (checker, reloader, peer, API) | rows of `ips`, commands not yet handed over | executeBlock, promotion, unblocking of good actors, ApplyBadActorFromPeer, unblockIP | `Enforcement` |
| Detector (`internal/checker`, `internal/store`) | `ActivityStore`, `EntryBuffer`, bad actors and scores | CheckChains, out-of-order buffer and its worker, chains, scoring, idle clean-up | `Checker` |
| Database (`internal/persistence`, `cmd/bot-detector/main.go`) | tables `ips`, `ip_scores`, `bad_actors` | the writers' statements, runCleanup, restorePersistenceState | `Persistence` |
| Log tailer (`internal/processor/modes.go`) | open file, offset, `firstRun` | NewTailer, ReadLine, checkForRotation, LiveLogTailer | `Tailer` |
| Website tailers and signals (`multi_log.go`, `multi_website_manager.go`, `start` in `main.go`) | `LogPath`, the map of tailers, the wait group, `SignalCh`, `stopCh` | Start, UpdateWebsites, liveLogTailerWithPath, Wait, the receivers of a signal | `TailerManager` |
| State synchronisation (`internal/cluster/syncloop.go`, `internal/server/handlers_statesync.go`, `fetchInitialStateFromCluster`) | `lastSyncTime`, the file with the merged state, tables `ips` and `bad_actors` of every node | collection and merge on the leader, fetch and upsert on followers, start of a follower, the leader's own collection | `StateSync` (rows), `BadActorSync` |
| Configuration distribution and reload (`follower.go`, `handlers_archive.go`, `configmanager.go`) | files on disk, ETag, `LastModTime`, checksums of dependencies, the configuration in force | poll, extract, Bootstrap, the watcher, the reload signal, ReloadConfiguration | `ConfigReload` (websites: `TailerManager`; unblocking of new good actors: `Enforcement`, `Persistence`) |
| HTTP API (`internal/server`) | none of its own | unblock, clear, removal by reason, removal of bad actors, look-up of an IP, with forwarding to the leader and broadcast to followers | `ClusterApi` (unblockIP against the queue and the database: `Enforcement`, `Persistence`) |
| Cluster metrics, migrations, challenger | counters; schema version; a Redis key per IP | aggregation; migrations; set and delete with TTL | not modelled |
| Configuration and log parsing, dry run, metrics, logging, command line | | text processing and reports | not modelled |

How the parts interact. A tailer calls `CheckChains` for each line, under
`ActivityMutex`. A completed chain writes the row and the score under `PersistenceMutex`
and then, with the mutex released, puts a command into the queue. One worker takes a
command per tick and runs it on every backend believed healthy. The health check runs on
its own, and starts a resync goroutine that reads the database and sends commands to one
backend past the queue. The reloader, peers and the API make decisions concurrently with
the checker. The clean-up deletes rows without `PersistenceMutex`. At startup the restore
compares the database with the backends and feeds the queue in the background. In a
cluster the followers ask the leader for the merged state of all nodes, and the leader asks
the followers for their bad actors, each in a loop of its own. A request that takes a
decision back goes to the leader, which works on HAProxy and its own tables and then sends
every follower a request of its own. Three goroutines may reload the configuration: the
watcher, the receiver of reload signals, and on a follower the one the poller wakes up; the
reload hands the new websites to the manager of the tailers. Four goroutines and more
receive from the channel of the signals that end the process.

What is hard about it, and therefore what the properties are about:

* *Interleaving.* A row and the command that carries it are separate steps of four
  concurrent decision makers and of any number of resyncs.
* *Failure.* A backend may be unreachable, restart with empty tables, or apply a command
  whose answer is lost; the detector itself may be killed between any two statements.
* *Ordering.* Log lines arrive out of order from several files and are set aside;
  commands about one IP must not overtake each other.
* *Bounds and waits.* The queue is full and drops; the restore must leave it half free;
  Shutdown polls it; a late entry must not wait for ever.
* *Watermarks.* Nodes ask each other for what changed since a second, while the others
  keep deciding, answer one after the other, fail to answer, or restart.
* *Reading what moves.* Backends, nodes and files are read one after the other, and
  conclusions are drawn from all of them together: a comparison, a verification, a cluster
  status, a configuration with its dependencies.
* *Reloading.* Files are replaced one by one while three reloaders read them; a check for
  changes must neither miss the last one nor find one for ever.
* *Rotation.* The log file is renamed, recreated, truncated and appended to between any
  two system calls of the tailer.

## The modules

Definitions keep the names of the functions they model; `PROJECT.json` gives the lines.
Operators introduced as "Faulty variant" are not part of any specification. Each is the
mutation of the definition below it that a property is tested with.

**RateLimitedBlocker.** `queue` is the channel, `inflight` the command the worker is
running, `shutdown` where the caller of Shutdown is. `Enqueue`/`Drop` are the two cases of
the select in Block and Unblock; `RestoreYield`/`RestoreSend` the loop of the restore
goroutine; `WorkerTake`/`WorkerFinish`/`WorkerStop` the worker; `ShutdownCall`,
`ShutdownDrained`, `StopClose`, `StopReturn` the shutdown. The configuration never yields a
rate of 0 or less, so the worker's early return for one is left out. `accepted`,
`executed` and `mark` are histories. **LossyFifo** is the abstract specification: a
bounded channel that delivers every accepted command at most once and in order.

**HAProxyBlocker.** `left[b][ip][t]` is the remaining life of an entry with gpc0 = 1, so
a block, its expiry and the loss of a table are one number; `link` and `uptime` describe
the instance, all three outside the code. `calls` is one call of
`executeCommandsConcurrently` per thread: `CallStart` reads the health of the backends,
`Deliver` and `DeliverFails` are its goroutines in any order. The health check is two
steps, `HealthProbe` and `HealthRecord`, because a command may fall between the answer and
its record. A resync is `ResyncQuery`, or `ResyncQueryFails` when the database cannot be read,
then one command at a time. An answer that is an error has no action of its own: it is a backend
cut for that one command (`Cut`, `DeliverFails`, `Restore`).

**Enforcement** composes the queue and the backends with the decision makers. Each maker
is a small program counter in `pcs`: the checker writes and then queues; a promotion
queues the long block and then writes it; the reloader works through a list it made
earlier; a peer's bad actor is queued before it is written; the API calls the backends
directly and deletes the row only when that succeeded. `holes` records for which IPs two
decisions overlapped, a command was dropped, table discovery failed, and so on: it is the
complete list of reasons the model admits for HAProxy and the database to disagree. A resync
that could not read the database leaves "unread" there, the exception of `Recovers`; for
`Agreement` the backend has missed everything.

**Checker.** `CheckChains` is one action, as it runs under one mutex: good-actor and
bad-actor checks, the pre-check of the actor, buffering of a late entry, or the loop over
the chains of the entry's vhost (`TryChains`, one `TryChain` after the other). `WorkerDequeue` and `WorkerFlush`
are two actions because the worker releases the mutex between them. `FlushEntryBuffer` is
the tailer's flush at end of file. Field matchers are abstracted to sets of kinds of
request; delays, resets and the retry of step 0 on the same entry are kept.

**Persistence.** One action per SQL statement or transaction; `Locked` is
`PersistenceMutex`. `CleanupStatement` runs the seven statements of `runCleanup` on the
modelled tables in their order, at any time. `Crash` keeps the tables and loses the rest;
`Restart` computes what `restorePersistenceState` sends, from the rows, the bad actors and
what any backend knows. Commands on backends do not fail here, which is the subject of
`Enforcement`. A tick of the clock is long against the statements under the mutex.

**Tailer.** Files are inodes holding numbered *pieces* (a line or a half of one). The
server writes, logrotate renames or truncates, the file is created again, the server
reopens. `Open`, `ReadLine`, `EndOfFile`, `Check` are LiveLogTailer's loop, with the look
at the path as a step of its own. A read that fails ends the loop, and a look that fails for
another reason than a missing file (`CheckFails`) counts as a rotation: both start the file
again. `excused` is the set of pieces the tailer cannot be
expected to see, each with its reason in a comment.

**StateSync.** `rows` is the table `ips` of each node, `rounds[f]` the request of follower
f: `Request` (with the leader's own rows), `Collect` or `CollectFails` for one node after
the other, `Respond` with the timestamp, `Store` for the file; then `FollowerMerge`, or
`FollowerJoin` for a follower that starts. A request for everything may be answered from
the file (`CacheServes`). Histories: `own`, the last decision of each node, `ends`, all
ends of blocks decided, and `holes`, the seconds that a watermark covers although the node
was not, or not any more, asked about them.

**BadActorSync.** The same rounds for the table `bad_actors`, together with the leader's
collection (`LeaderStart`, `LeaderFetch`, `LeaderDone`), which `StateSync` does not need:
the rows that it merges are read by no program code. The two are separate modules because
their state is: an answer carries both tables, and neither influences the other's path.
(The block that comes with a bad actor is a decision of the receiving node in `StateSync`.)
A bad actor that cannot be recorded (`lost` in `ApplyBadActors`) is left out and the watermark
moves all the same. `passed` records which bad actors a watermark has passed over.

**BackendQueries.** One call about one IP, from its start to its answer, against backends
that change. `todo[b]` holds the reads that the goroutine of backend b has before it; the
calls that read one backend after the other use the goroutine of the first alone. `Read`
and `ReadFails` keep what each operation does with an answer and with an error (stop at the
first block, ignore the table, give the backend up), and one operator per operation computes
the answer from what was read. ClearIP goes on with `ClearStart`, `ClearSend`, and
verification until the IP is gone or the retries are. Histories: the cells at the start, the
time since, who wrote, which backends were in trouble.

**ClusterApi.** Every handler, and every request between nodes, is a job with a program
counter, so that decisions (`Decide`), commands in a queue (`BlockRuns`) and records that
travel between nodes (`Receive`, `ApplyRow`, `ApplyBadActor`) fall between its steps: HAProxy,
RemoveFromPersistence, the activity store, then the followers. Lists go through `Collect` or
`Remove` and `NextIP`; a look-up and the GET form of unblock through `Query`. Each step has
the variant in which it fails; RemoveFromPersistence, which ignores or reports the error of any
of its statements, has two (`PersistFails`, `PersistHalf`). `owed` is what requests promised, with the number of the
request, and nothing has taken back since; `late` the nodes whose answers a request gave up;
`loose` the IPs whose removal overlapped with a block.

**ConfigReload.** A node is a leader with an editor or a follower with a poller. `thread[t]`
is a call of ReloadConfiguration (or the load at the start) by reloader t: `StatMain`,
`ReadMain`, `ReadStatus`, `ReadContent`, `Swap` are its accesses to the files in their order.
`WatchClone` and `WatchCheck` are the watcher's tick, which notes new checksums in the
configuration in force before it reloads. `Poll`, `Extract`, `ExtractFails`, `Extracted` are
the poller, file by file; `Crash` and `Start` come at any moment, `Bootstrapped` when there is
no configuration. What a leader serves is an archive that such a node can have in force
(`Archive`), which `CurrentIsInForce` checks.

**TailerManager.** The main goroutine from where signals are caught, the manager, one record
per tailer, and two reloaders. UpdateWebsites holds `m.mu` from `UpdateBegin` to the last
website, one per step, while tailers end. A tailer starts in two steps, `SetPath` and
`ReadPath`, because the two locks are separate. `Receive(g)` is any goroutine that receives
from `SignalCh`; only the closer closes it afterwards. A wait group that is used again when
Wait wakes up is the outcome "panic".

## Runs

| Run | Shows | Bounds |
|---|---|---|
| `rate_limited_blocker` | Commands run once and in order (`RunOnceInOrder`), the queue implements the abstract channel (`ImplementsChannel`), Shutdown loses nothing accepted before it (`ShutdownDrains`), is quiet after it (`QuietAfterShutdown`) and returns (`ShutdownReturns`), the restore leaves room (`RestoreLeavesRoom`) | queue of 3, 2 live submissions, 3 commands to restore: the queue fills, drops, and the restore meets both its waits |
| `enforcement` | At rest a healthy backend agrees with the database, except for the causes in `holes` (`Agreement`) | 2 backends, all four makers, 2 decisions, 1 failure, no clock (the theorem has one). The queue's histories are left out of the fingerprint, and a state in which every IP has a hole is not explored further |
| `resync` | With expiry: a backend that failed, or whose restart was seen, is taken back and gets all it missed, if the resync can read the database (`Recovers`); everything comes to rest (`ComesToRest`) | 1 backend, 1 decision, 2 failures, 1 tick |
| `checker` | No entry is lost or processed twice (`EveryEntryOnce`), every completed chain is justified by requests of that actor within the delays (`CompletionsJustified`), no actor is blocked again within a block that nothing took back (`NotBlockedTwice`), late entries are processed (`LateEntriesProcessed`) | 3 entries over 4 timestamps, tolerance 2, 1 IP, 2 clients, with and without a vhost, 2 chains: two late entries may wait at once, and one may be too late to wait |
| `persistence` | Across crashes, clean-ups and backend restarts the backends follow the database (`ReplicaFollows`), a promotion is earned since the last removal (`PromotionEarned`), a bad actor is kept while its block lasts (`RecordKept`) | 1 IP, 2 backends, 3 decisions, 1 clean-up, 1 crash, 3 ticks |
| `tailer` | Lines are processed once, in order (`InOrderOnce`), without gaps (`NoGaps`) and eventually (`LinesArrive`), whatever the renames and truncations, except what is written below the old offset after a truncation | 3 writes, 2 rotations, 1 error |
| `state_sync` | A follower has every running block that another node decided up to the watermark, outside the holes (`SyncedUpTo`); no row mixes the state of one decision with the end of another (`NothingInvented`) | leader and 2 followers, 1 IP, 3 seconds, 2 decisions, 1 fault, 1 round at a time, both modes |
| `bad_actor_sync` | Watermarks of the leader (`LeaderKnows`) and of followers (`FollowerKnows`) cover only what was received, or is in `passed` | the same nodes, 3 seconds, promotions and faults 2 together (a fault is a request that fails, bad actors that cannot be recorded, a stop or a restart), 1 round at a time |
| `backend_queries` | A comparison misses no lasting difference (`NothingMissed`) and makes none up (`NoFalseAlarm`) beyond the tolerance and its own duration; a ClearIP that succeeds has cleared (`ClearedIsGone`); look-ups are right about entries nobody changed (`LookupsTruthful`) | 3 backends, 2 tables, lives up to 3, tolerance 1, 2 retries, 2 events (ticks, writes, failures), 40 contents of the tables |
| `cluster_api` | What a request promised is gone when all it caused has ended (`PromisesKept`), no block is left without a record (`BlockHasRecord`), the GET form of unblock does not show what it removed (`ReadYourUnblock`), with the exceptions named at each | leader and 2 followers, 2 IPs, 1 request of each of the 7 kinds, 1 decision or synchronisation, 1 failure; or 2 requests side by side about 1 IP. A bad actor with a null history and an actor that is not blocked are left out where two followers know of an IP |
| `config_reload` | What `LastModTime` and the checksums vouch for is in force (`CurrentIsInForce`); the last good configuration comes in force (`Converges`); reloading ends (`Settles`) | 3 versions of each file (one that does not load, one without the dependency), 2 edits, 1 newly served archive, 1 crash or failed write, 1 reload signal; leaders with both ways to reload, followers with either |
| `tailer_manager` | Tailers match the websites (`TailersMatch`), the process goes on while a website is kept (`StaysUp`), a tailer's path and website stay together (`CapturedTogether`), enough signals end the process (`SignalStops`) | no, one or two websites, one of which changes its path; 3 tailers; reloads and signals 2 together; 3 receivers. `--exit-on-eof` is on exactly when it starts with two websites |

Why the bounds suffice. Rows, chains' actors and commands of different IPs do not
interact, except by sharing the queue's capacity, so one IP is enough wherever the
property is about one. Two backends are needed where they may differ (the fan-out, the
merge of GetCurrentState), one where the question is whether a backend recovers. Three
decisions reach a promotion (two blocks) and a decision that undoes it. Two failures allow
a backend to fail again during its resync. Three entries are the first number with which
one is early, one late and one between them, and complete a chain of two steps after a
reset. Three seconds are one for a round that sets a watermark, one for a decision, and
one for the round that must send it; two followers are the first number with which a bad
actor travels from one to the other. Followers take turns (`MaxRounds`), so that two
answers are not collected at once; a round still overlaps with every decision, fault and
collection of the leader. Three backends are the first number with which two are each
compared with a third and not with each other. Two IPs are needed where a request is for a
list, the second with fewer contents. Two edits are one during a reload and one after it,
also of different files. Two websites with a change of path let one tailer be kept, one be
restarted and one be removed, and one list replace all of another. The MC modules leave out
initial states for size where the ones that are left behave alike, and say which.

Each property is violated by a plausible error in the code it is about (`mutants`
in `PROJECT.json`), within these bounds.

`CHECK_DEADLOCK FALSE` is used where the bounded inputs run out. `rate_limited_blocker`
is checked for deadlock: only a process whose Shutdown has returned may stop; the
synchronisation runs are as well, since the loops never end.

The type invariants of modules other than `RateLimitedBlocker`, `Checker` and `Persistence`
(where a real error breaks them) are not checked by a run of their own; they are there for
the proofs, and each is a part of its module's inductive invariant.

## Fairness

* `RLBFairSpec`: the worker's ticker does not stop, a call on the wrapped blocker returns
  (deadlines, bounded retries), and Shutdown's goroutine is scheduled. `WorkerStop` has
  strong fairness: Go chooses at random between a closed `stopCh` and a tick.
* `EnfFairSpec`: goroutines with work to do are scheduled and calls on backends end. The
  health check visits every address in each round, hence strong fairness for each backend.
  Nothing is assumed about failures and their repair: `Recovers` speaks of a backend that
  stays reachable.
* `CheckerFairSpec`: the clock and the worker's ticker go on, and the worker gets the
  mutex again for what it has taken. No fairness for the tailers' flush at end of file.
* `ReloadFairness`: the watcher's and the poller's tickers fire, goroutines that can go on
  do, extraction ends, and a process that ended is started again. None for edits, reload
  signals, newly served archives, crashes or failing writes.
* `ManagerFairness`: the scheduler runs some goroutine that can run. One weak fairness for all
  of them is enough, since none spins. With `--exit-on-eof` off, a tailer ends only when told.
* `TailerFairSpec`: the tailer's loop runs and its sleeps end. None for logrotate or the
  server.

## Proofs

Every safety and action property that a run checks is a theorem of the module's specification.
Eight modules hold the proofs:

| Proofs | About |
|---|---|
| `BlockerProofs` | `RateLimitedBlocker`, `BackendQueries` |
| `EnforcementProofs` | `Enforcement`, with `RateLimitedBlocker` and `HAProxyBlocker` in it |
| `LogPathProofs` | `Tailer`, `Checker` |
| `PersistenceProofs` | `Persistence` |
| `StateSyncProofs` | `StateSync` |
| `DistributionProofs` | `ConfigReload`, `BadActorSync` |
| `ClusterApiProofs` | `ClusterApi` |
| `TailerManagerProofs` | `TailerManager` |

They hold for every value of the constants that satisfies the module's `ASSUME`,
so for every number of nodes, IPs, chains, requests, rotations, reloads, failures and restarts:
the bounds of the runs (`MaxNow`, `MaxRequests`, ...) are constants like the others. What the
assumptions ask for:

* numbers are numbers, the leader comes before its followers, a clock has at least one second,
  and `TailerManager` takes names and paths of websites to be strings;
* `HAProxyBlocker` and `Persistence`: there is a longest table, and no chain blocks for longer
  (the parser chooses that table when none fits); in `Persistence` there are finitely many IPs;
* `Enforcement`: its constants of the queue are the commands the makers can send, no restore runs
  beside it, and every decision has room for two submissions (a promotion sends two);
* `BackendQueries`: at least two backends, no address and no table listed twice, and what stands
  for the question for table names is no table;
* `Checker`: there is a chain, chains have steps, a vhost lists chains that exist, and what stands
  for "no user agent" is no user agent.

Nearly all the properties that the runs check had to be strengthened: they speak of the end (a
quiet cluster, an answer, a processed line) and say nothing about what is on its way. Each
inductive invariant was checked with TLC on small instances before it was proved.

**BlockerProofs**, the queue. `RLBTypeOK`, with the bound on the queue (`TypeCorrect`), and
`accepted = executed \o inflight \o queue` (`RunsOnceInOrder`) are inductive together.
`ShutdownDrains` says nothing until Shutdown has returned; `ShutdownProgress` adds that, from
the moment the queue was seen empty, everything up to the mark has run *or is running*, that the
worker leaves only between two commands, and that Shutdown ends only after the worker. The action
property `QuietAfterShutdown` follows from the same invariant. `QueueImplementsChannel` is the
refinement of `LossyFifo`: every step is a step of it or leaves `inflight \o queue` and
`executed` unchanged. `RestoreYieldsToTraffic` needs `RoomOK`: between the look at the queue and
the send, the restored commands in it do not become more. It counts them as a set of positions,
so that the library's theorems on cardinality apply.

**BlockerProofs**, the queries. `ComparisonMissesNothing`, `ComparisonIsQuiet`,
`ClearedEntriesAreGone`, `LookupsAreTruthful`. While a call reads (`ReadingOK`): an entry nobody
wrote has only aged, and what was read of it was true of some moment since the start
(`HistoryTrue`, `ReadsTrue`); every cell is still on somebody's list, was read, or there is a
reason why not (`AllCovered`, `Excused`); what was merged, and an error, has its cause
(`SeenTrue`, `ErrorsTrue`). While ClearIP verifies (`VerifyOK`), a cell passed is empty unless it
was written since, its backend was in trouble, or the attempt has failed. Each answer is drawn
when all lists are empty.

**EnforcementProofs.** `DatabaseIsEnforced`: when nobody is at work, a healthy backend does what
the database says of every IP without a hole. `EnforcementInv` speaks of the row that *counts*
(`Row`): the one there is, or the one that the API or a peer's bad actor is about to leave behind,
since both act on the backends first. Commands are in three places, one behind the other: the
worker's call as far as it has still to reach the backend, the queue, the hands of the makers.
Whatever contradicts the row has a command behind it that serves the row (`EndsWell`), and no
resync works against it (`ResyncsAgree`). Unless the backend is `Behind` (held for unhealthy,
missed a command, or with a resync that has yet to read the database), it does what the row says
or something on its way will make it (`WillReflect`). Nothing of this holds for an IP with a hole;
on one without, a maker is alone (`AllAlone`). The proof has one lemma per action, each of which
says what it does to these three places, the row, the resyncs and the entries; a set of lemmas
about the relation between them (a command is appended, taken, delivered; an entry ages) does
the rest.

**StateSyncProofs.** `FollowersAreSynced` and `NothingIsInvented`. The invariant follows a block
on its way: it is in the table of the node that decided it (`OwnKept`, also a theorem,
`OwnBlocksStay`); an answer, under way or in the file, has every running block that the nodes
reached so far decided between the watermark and the question (`AnswersHold`); the round was asked
for with the watermark that the follower still has (`RoundsOrdered`). What is decided later, up to
the timestamp, is in `holes`. `RowsGood` is `NothingInvented` for tables, answers and file alike.

**DistributionProofs**, bad actors. `LeaderMissesNone`, `FollowerMissesNone`. The same for the two
loops: `AnswersHold` for what the leader had when it read its table, `CollectionHolds` for the
followers that the leader's collection has reached, `Dated` for the order of all times.
`SpreadsToAll` combines the two: a bad actor that nobody passed over goes from any follower to any
other.

**DistributionProofs**, the configuration. `CurrentConfigIsInForce`. What is in force, and what
each of three reloaders has in hand from the moment it has read config.yaml, loads and is that of
the file if its modification time says so (`ForceOK`, `LoadsOK`), at every step of the poller's
extraction.

**PersistenceProofs.** `MutexExcludes`, `PromotionsAreEarned`, `RecordsAreKept`. The writers are
at places of their own and the mutex keeps promotions and removals apart (`PlacesOK`); a score
never counts a block that was taken back (`CreditOK`); while an IP is being promoted its block is
in force, which is what keeps the unlocked clean-up away from it (`PromotingOK`).
`ReplicaIsFollowed` rests on these and on `ReplicaInv`: if no writer is between its row and its
command, the queue and the commands to restore *end* with one that does what the row says, or the
backends do so and nothing comes that undoes it (`Holds`, `Ends`, `Freed`); a writer in between
owes the other half (`CheckerClaim`, `ReloadClaim`, `PeerClaim`) and is alone on its IP. At a
restart every row that no backend knows of gets a command, from a table that lasts at least as long
as the row (`BestFitFacts`). Nothing is said of an IP in `doubt`.

**LogPathProofs**, the tailer. `LinesComeInOrder`, `NoLineIsSkipped`. Pieces are numbered in the
order they are written; the numbers grow within a file and from file to file (`FilesOK`),
everything processed is older than everything ahead of the tailer (`FreshOK`), every piece is
processed, excepted or ahead (`CoverOK`), and what a tailer leaves behind when it changes files is
excepted (`LeftOK`).

**LogPathProofs**, the checker. `ActivitiesAreTyped`, `EntriesAreChecked`, `CompletionsAreEarned`,
`BlocksAreNotRepeated`. Whoever has passed k steps of a chain was led there by k requests in the
log (`ProgressOK`, with the last one's time); a completion lengthens that list by the entry at hand.
The entry at hand is in the log before any chain is tried on it, so that "f[i] # f[i + 1]" needs
`UntriedOK`: a chain not yet tried on it was led by what came before. A block is known to the
activity of its actor as long as it lasts, or another block of the IP has overtaken it
(`BlocksOK`). `EntryInv` is the same for the state that checkChainsInternal hands from chain to
chain and from entry to entry; its loops are recursive functions, followed by ordinary induction
over the number of rounds.

**TailerManagerProofs.** `NoTailerIsLost`, `ProcessStaysUp`, and the action property
`CapturedTogether` (`PairsAreCaptured`). Whoever goes through a list holds `m.mu` (`PlacesOK`); the
map has every tailer that was not told to stop (`MapOK`); what a reload has gone through is done
(`LoopOK`); reloads that do not overlap work on the websites in force (`ReloadsOK`, `MatchOK`).

**ClusterApiProofs.** `PromisesAreKept`, `BlocksHaveRecords`, `UnblockIsShown`. The invariant has
five parts besides the types. `PlacesOK`: at each place of each kind of handler, what the job is
about. `RequestsOK`: until a request leaves its first place it has one job, later at most one of
its own per node. `RecordsOK`: an IP that is blocked or about to be has a row, and one whose rows
a job is about to remove is not blocked any more. `AnswersOK`: while GET /ip/{ip}/unblock waits
and asks, a node that owes it the IP does not hold it for blocked, or is still awaited.
`PromisesOK`: whatever is owed and not yet so *is the business of a job of the same request*
(`WillUnblock`, `WillRemove`, `WillReach`), which is in the handler, in its list, in a list that
will still find it, or with the job that will tell the follower. The step from one state to the
next is one lemma per handler: the job hands its business over to the jobs that replace it
(`HandsOver`), and every other job of that request would still find what it would have found
(`Stays`). When all jobs are gone, all business is done.

What the proofs changed. Some statements and histories were wrong beyond the bounds of the runs,
not the code's behaviour as modelled:

* `PeerWrite` left `origin` of an IP at "here" when a bad actor of a peer was written after
  promotion, expiry and clean-up, and `RecordKept` was then false.
* With two requests side by side a claim of one was kept by nobody when the other removed its
  records just before the list was made. Claims and jobs therefore carry the number of their
  request, a request waits for its own broadcast only, `Overlooked` is an exception of
  `PromisesKept`, and `cluster_api` has two requests side by side.
* `NotBlockedTwice` was false with more entries: a good actor's request takes the block of its base
  actor away, the idle clean-up then forgets the good actor, and another client of the address
  completes the chain again. The history of blocks now ends such a block (`Forgiven`).
* A chain that names a website twice is listed twice for it and is tried twice on each request:
  one request then stands for two steps. `CompletionsJustified` asks for one request per step only
  of a chain listed once (`ListedOnce`).
* `Merged` of `BackendQueries` had two arms of a CASE open at once, and what it meant rested on
  the one that TLC takes.
* That there is a longest table was true of the runs and assumed nowhere; `PersistenceAssumption`
  and `HAProxyAssumption` now say it. There is always one, since the code has a list of tables.

Only model-checked is liveness, which the prover does not do: `ShutdownReturns`, `Recovers`,
`ComesToRest`, `LateEntriesProcessed`, `LinesArrive`, `Converges`, `Settles`, `SignalStops`.

## Where the code and its documentation differ

Each of these is in the model as the code has it; the exceptions that the properties name are
about them.

Enforcement and persistence:

* README.md says a command is attempted on the other instances when one is unavailable.
  Unblock asks the first address for the table names (haproxy.go:240) and sends nothing to any
  instance when that one does not answer; ClearIP then reports success.
* docs/BAD_ACTORS.md says that good actors always take priority. The restore of bad actors
  (main.go:467) does not look at good actors. It calls the bad-actor status permanent, while
  `CleanupStaleBadActors` removes it.
* docs/Persistence.md says that all database writes are protected by a mutex, which
  `runCleanup` does not take. It says the full state is restored after a restart of HAProxy; a
  block that any one backend still has is sent to none. docs/HaproxySetup.md says that no
  blocks are lost during a downtime; a restart of HAProxy before the first recorded uptime, or
  one that no probe falls into and whose new uptime is not smaller, goes unnoticed.
* CompareHAProxyBackends compares each backend with the first that has the entry: two others
  may be twice the tolerance apart. DumpBackends shows the last gpc0 it read, so that an
  unblocked entry of one table may hide a blocked one of another.

Tailers and signals:

* README.md says that a truncated file is detected. The sizes compared (modes.go:219) are
  those of one inode, and the reader stays at its old offset.
* Comments in multi_log.go say that passing the path avoids races, since LiveLogTailer reads it
  immediately. It takes the lock a second time to do so: two tailers that start together may
  both follow the file, and the website, of the one that set it last.
* A reload that replaces all websites there were may let the wait group reach zero before the
  new tailer is added: the process then shuts down, or panics because the wait group is used
  again. The same holds for a reload without websites under `--log-path`.
* Two reloads side by side may hand the older list to the manager last, and tailers and
  `p.Websites` differ until the next one. A reload between the look at the mode and the
  manager's creation is overwritten by the single website of `--log-path`.
* README.md and docs/MultiWebsite.md say that SIGTERM ends the process. Server, poller,
  collector and synchronisation receive from the same channel: a signal that one of them takes
  ends only that one.

Cluster:

* docs/BAD_ACTORS.md says that a surviving node already knows all bad actors of a failed one.
  A bad actor keeps its promotion time when the leader takes it over, and followers ask for
  promotions after their watermark (sqlite.go:715). In a cluster of three or more nodes, a
  follower that synchronised between the promotion on another follower and the leader's
  collection is never sent the record, unless it restarts.
* A follower that starts replaces its own rows by the merged ones, which were collected without
  it. With `incremental: false` a follower is served the same file as long as the leader's own
  rows do not change. A node that missed a round is not asked for that time again.
* A bad actor that a node receives and cannot record is only logged (syncloop.go:279, 382). The
  watermark moves past it, so that incremental requests never bring it again.
* docs/API.md:222 says that the leader, with `&unblock`, broadcasts the unblock after the
  removal. The request for the removal carries `&unblock`, is sent first, and each follower
  unblocks the bad actors that it removed itself; unblockIP broadcasts nothing, although its
  comment (handlers_ip.go:1523) says so. A follower's row of an IP that is a bad actor of the
  leader alone stays.
* docs/API.md:757 says that each node clears the IP from its HAProxy tables. Followers remove it
  from the database and the activity store only (handlers_ip.go:1406); the
  comments there (1423, 1455) take the HAProxy instances as shared.
* docs/API.md:949 says that the commands of an unblock by reason go through the rate-limited
  queue. unblockIP calls UnblockDirect, which does not use it (handlers_ip.go:1543).
* Requests to followers are not retried, and carry no time: one that arrives after a new
  decision removes that decision's row while HAProxy keeps the block.
* With a vhost, the test whether an entry is late looks at the actor without one.

Configuration:

* A dependency that config.yaml no longer names, and that changes, makes every tick of the
  watcher reload.
* The archive holds files and no deletions: a dependency that was deleted on the leader stays
  on followers. A follower that was stopped with config.yaml cut off does not start again,
  since Bootstrap is only for a file that is absent.
* A change of a dependency is noted before the reload that is to bring it in force; when that
  fails, or reads checksum and content on different sides of a write, it waits for the next
  change. With `--reload-on hup` a signal's reload may replace what the poller's loaded later.
* The server sends Last-Modified and does not look at If-Modified-Since.

## Assumptions and omissions

HAProxy executes all commands of a batch, and the first line of its answer tells an error. The clocks of a cluster agree, and the leader is
the first of `cluster.nodes`, which is how followers find it. Persistence and bad actors are enabled, every
block has weight 1, and there is no dry run. In `Enforcement` and `Persistence` a chain's
duration is at most that of the longest table. An error of `IsBadActor` in
ApplyBadActorFromPeer, which lets a bad actor that is known be applied again, is left out. Scores that a failing removal of a bad actor leaves behind are in no module. Metrics and logging have no influence on
the modelled state. In `ClusterApi` no block expires; in `ConfigReload` every
write of config.yaml has a later modification time.

Not modelled, and why:

* parsing of configuration and log lines, command line, `botctl`: text processing. What others
  use of it is modelled there (which files load, the longest time rule, the fallback table);
* the dry run and the reports of the API: they read once and print;
* metrics, their aggregation on the leader, logging: nothing is decided on them;
* migrations: a transaction each, before anything else runs; their difficulty is SQL;
* the challenger: a key with a lifetime per IP on each Redis, without state of its own;
* tables of events and reasons: nothing is decided on them. An orphaned reason may be deleted
  (sqlite.go:1183) between GetOrCreateReasonID and the insert of the row that uses its id,
  which then shows no reason;
* the `NeedsResync` flag, which is set and never read, MultiWebsiteTailerManager.Stop, which
  has no caller, and the back-up directory of the poller, which nobody reads.

## What is left

1. `Enforcement` uses the queue's actions as they are. That its steps, seen through the queue's
   variables, are steps of `RateLimitedBlocker` would carry the theorems about Shutdown over to
   the composition.
2. `Agreement` says that a difference ends, not when. A bound on how long it lasts would need a
   clock for the worker's rate and the health check's interval.
3. The safety parts of the liveness arguments (what shrinks with every step of a drain, a round
   or a reload) can be stated as action properties and proved.
