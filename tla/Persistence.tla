----------------------------- MODULE Persistence -----------------------------
(***************************************************************************)
(* The SQLite database (internal/persistence/sqlite.go) under its writers, *)
(* the periodic clean-up, and a crash of the process at any statement,     *)
(* followed by restorePersistenceState (cmd/bot-detector/main.go).         *)
(*                                                                         *)
(* Writers hold PersistenceMutex over their statements; the clean-up does  *)
(* not take it, so its statements fall anywhere between theirs.  A         *)
(* statement is atomic and survives the crash; what is in memory (tasks,   *)
(* queue, commands still to be restored) does not.  The effect of HAProxy  *)
(* is until[b][ip]: the end of the longest of the IP's entries with        *)
(* gpc0 > 0 on backend b.  Commands on backends do not fail here: that is  *)
(* the subject of Enforcement.                                             *)
(***************************************************************************)
EXTENDS Integers, Sequences, FiniteSets, SequencesExt

CONSTANTS
  IPs, Backends,
  Durations,         \* block_duration of the chains
  BadActorDuration,  \* bad_actors.block_duration
  TableDurations,    \* the keys of duration_tables
  DefaultDuration,   \* blockers.default_duration
  Threshold,         \* bad_actors.threshold; every block has weight 1
  Retention,         \* persistence.retention_period
  MaxAge, MinScore,  \* bad_actors.score_max_age, score_min_cleanup
  MaxNow,            \* bound of the model: ticks of the clock
  MaxDecisions,      \* bound of the model: decisions about IPs
  MaxCleanups,       \* bound of the model: rounds of the clean-up
  MaxCrashes         \* bound of the model: crashes of the process

Longest == CHOOSE d \in TableDurations : \A e \in TableDurations : e <= d

ASSUME PersistenceAssumption ==
  /\ Durations \cup TableDurations \cup {BadActorDuration, DefaultDuration} \subseteq Nat \ {0}
  /\ IsFiniteSet(IPs)
  /\ \E d \in TableDurations : \A e \in TableDurations : e <= d
  /\ \A d \in Durations \cup {BadActorDuration} : d <= Longest
  /\ Threshold \in Nat \ {0}

VARIABLES
  up,        \* the process runs
  row,       \* table ips: state and expire_time
  score,     \* table ip_scores: score (0: no row) and last_block_time
  bad,       \* table bad_actors
  good,      \* IPs that the configured good_actors match
  tasks,     \* per writer, the statement or command it is at
  cleaner,   \* the clean-up: its next statement and the time it started
  queue,     \* commands on their way to the backends
  restoring, \* commands the restore goroutine has not put into the queue yet
  until,     \* external: end of the block of each IP on each backend
  now,       \* the clock
  counts,    \* decisions, clean-ups and crashes so far, for the bounds
  credit,    \* history: blocks of an IP since it was last removed by hand
  origin,    \* history: who promoted an IP, here or a peer, and nobody undid it; or the
             \* peer whose row came when the record was gone
  doubt      \* history: <<ip, cause>> why HAProxy and the database may differ

memory == <<tasks, queue, restoring>>
tables == <<row, score, bad>>
vars == <<up, row, score, bad, good, tasks, cleaner, queue, restoring, until, now,
          counts, credit, origin, doubt>>

Writers == {"checker", "peer", "reload", "api"}
AnyIP == CHOOSE ip \in IPs : TRUE
NoTask == [phase |-> "idle", ip |-> AnyIP, dur |-> 0, at |-> 0]
NoCleanup == [at |-> 0, started |-> 0]
Block(ip, d) == [kind |-> "block", ip |-> ip, dur |-> d]
Unblock(ip) == [kind |-> "unblock", ip |-> ip, dur |-> 0]
NoRow == [state |-> "none", expire |-> 0, by |-> "none"]
BlockedRow(t, by) == [state |-> "blocked", expire |-> t, by |-> by]
UnblockedRow == [state |-> "unblocked", expire |-> now, by |-> "good-actor"]

PersistenceInit ==
  /\ up = TRUE
  /\ row = [ip \in IPs |-> NoRow]
  /\ score = [ip \in IPs |-> [n |-> 0, at |-> 0]]
  /\ bad = {}
  /\ good = {}
  /\ tasks = [w \in Writers |-> NoTask]
  /\ cleaner = NoCleanup
  /\ queue = <<>>
  /\ restoring = <<>>
  /\ until = [b \in Backends |-> [ip \in IPs |-> 0]]
  /\ now = 1
  /\ counts = [decisions |-> 0, cleanups |-> 0, crashes |-> 0]
  /\ credit = [ip \in IPs |-> 0]
  /\ origin = [ip \in IPs |-> "none"]
  /\ doubt = {}

(***************************************************************************)
(* Decisions, and the mutex                                                *)
(***************************************************************************)

\* Faulty variant: removals do not take the mutex.
LockedByChecker == tasks["checker"].phase \in {"promote", "command", "long"}

\* PersistenceMutex is held between the statements of executeBlock's promotion and
\* of RemoveFromPersistence.
Locked == \E w \in Writers : tasks[w].phase \in {"promote", "command", "long", "score", "row"}

Commands(s) == {s[i].ip : i \in 1 .. Len(s)}

\* Someone else has a decision about the IP under way.
Busy(w, ip) ==
  \/ \E v \in Writers \ {w} : tasks[v].phase # "idle" /\ tasks[v].ip = ip
  \/ ip \in Commands(restoring)

\* A writer begins: its first statement leaves it at phase, and the IP in doubt if
\* another decision is under way.
Begin(w, phase, ip, d) ==
  /\ up
  /\ ~Locked
  /\ tasks[w].phase = "idle"
  /\ counts.decisions < MaxDecisions
  /\ counts' = [counts EXCEPT !.decisions = @ + 1]
  /\ tasks' = [tasks EXCEPT ![w] = [phase |-> phase, ip |-> ip, dur |-> d, at |-> now]]
  /\ doubt' = IF Busy(w, ip) \/ (w = "api" /\ ip \in Commands(queue))
              THEN doubt \cup {<<ip, "overlap">>} ELSE doubt

Goto(w, phase) == tasks' = [tasks EXCEPT ![w].phase = phase]
Finish(w) == tasks' = [tasks EXCEPT ![w] = NoTask]

(***************************************************************************)
(* The checker: executeBlock and the unblocking of good actors             *)
(***************************************************************************)

\* BlockIPBatch: one transaction for the row and the score.  An entry that waited in
\* the out-of-order buffer is not checked again against good and bad actors, so the
\* IP may have become either meanwhile.
CheckerBlock(ip, d) ==
  LET n == score[ip].n + 1 IN
  /\ Begin("checker", IF n >= Threshold /\ ip \notin bad THEN "promote" ELSE "queue", ip, d)
  /\ row' = [row EXCEPT ![ip] = BlockedRow(now + d, "chain")]
  /\ score' = [score EXCEPT ![ip] = [n |-> n, at |-> now]]
  /\ credit' = [credit EXCEPT ![ip] = @ + 1]
  /\ UNCHANGED <<up, bad, good, cleaner, queue, restoring, until, now, origin>>

\* PromoteToBadActor.
CheckerPromote ==
  LET t == tasks["checker"] IN
  /\ t.phase = "promote"
  /\ bad' = bad \cup {t.ip}
  /\ origin' = [origin EXCEPT ![t.ip] = "here"]
  /\ Goto("checker", "command")
  /\ UNCHANGED <<up, row, score, good, cleaner, queue, restoring, until, now, counts,
                 credit, doubt>>

\* The long block goes to the queue ...
CheckerCommand ==
  LET t == tasks["checker"] IN
  /\ t.phase = "command"
  /\ queue' = Append(queue, Block(t.ip, BadActorDuration))
  /\ Goto("checker", "long")
  /\ UNCHANGED <<up, tables, good, cleaner, restoring, until, now, counts, credit,
                 origin, doubt>>

\* ... and then into the row, after which the mutex is released.
CheckerLong ==
  LET t == tasks["checker"] IN
  /\ t.phase = "long"
  /\ row' = [row EXCEPT ![t.ip] = BlockedRow(t.at + BadActorDuration, "bad-actor")]
  /\ Goto("checker", "queue")
  /\ UNCHANGED <<up, score, bad, good, cleaner, queue, restoring, until, now, counts,
                 credit, origin, doubt>>

\* CheckChains on an entry of a good actor, with unblock_on_good_actor: the rule may
\* match the IP or only this user agent.
CheckerUnblock(ip) ==
  /\ Begin("checker", "queue", ip, 0)
  /\ row' = [row EXCEPT ![ip] = UnblockedRow]
  /\ origin' = [origin EXCEPT ![ip] = "none"]
  /\ UNCHANGED <<up, score, bad, good, cleaner, queue, restoring, until, now, credit>>

\* The command of a writer: the last step of the checker and the reloader, and before
\* the row of a bad actor learned from a peer.  A duration of 0 is an unblock.
QueueLast(w) ==
  LET t == tasks[w] IN
  /\ t.phase = "queue"
  /\ queue' = Append(queue, IF t.dur > 0 THEN Block(t.ip, t.dur) ELSE Unblock(t.ip))
  /\ IF w = "peer" THEN Goto(w, "write") ELSE Finish(w)
  /\ UNCHANGED <<up, tables, good, cleaner, restoring, until, now, counts, credit,
                 origin, doubt>>

(***************************************************************************)
(* The reloader, the peer and the API                                      *)
(***************************************************************************)

\* A reload that adds the IP to good_actors: the new configuration is in force ...
ReloadGood(ip) ==
  /\ ip \notin good
  /\ Begin("reload", "list", ip, 0)
  /\ good' = good \cup {ip}
  /\ UNCHANGED <<up, tables, cleaner, queue, restoring, until, now, credit, origin>>

\* ... unblockNewlyWhitelistedIPs lists the blocked IPs ...
ReloadList ==
  LET ip == tasks["reload"].ip IN
  /\ tasks["reload"].phase = "list"
  /\ IF row[ip].state = "blocked" /\ row[ip].expire > now
     THEN Goto("reload", "mark") ELSE Finish("reload")
  /\ UNCHANGED <<up, tables, good, cleaner, queue, restoring, until, now, counts, credit,
                 origin, doubt>>

\* ... and marks those that match, whatever became of them since.
ReloadMark ==
  LET ip == tasks["reload"].ip IN
  /\ tasks["reload"].phase = "mark"
  /\ ~Locked
  /\ row' = [row EXCEPT ![ip] = UnblockedRow]
  /\ origin' = [origin EXCEPT ![ip] = "none"]
  /\ Goto("reload", "queue")
  /\ UNCHANGED <<up, score, bad, good, cleaner, queue, restoring, until, now, counts,
                 credit, doubt>>

\* ApplyBadActorFromPeer: the record, then the command, then the row, with the mutex
\* free in between.
PeerPromote(ip) ==
  /\ ip \notin bad
  /\ Begin("peer", "queue", ip, BadActorDuration)
  /\ bad' = bad \cup {ip}
  /\ origin' = [origin EXCEPT ![ip] = "peer"]
  /\ UNCHANGED <<up, row, score, good, cleaner, queue, restoring, until, now, credit>>

PeerWrite ==
  LET ip == tasks["peer"].ip IN
  /\ tasks["peer"].phase = "write"
  /\ ~Locked
  /\ row' = [row EXCEPT ![ip] = BlockedRow(now + BadActorDuration, "bad-actor")]
  /\ origin' = [origin EXCEPT ![ip] = IF ip \in bad THEN @ ELSE "peer"]
  /\ Finish("peer")
  /\ UNCHANGED <<up, score, bad, good, cleaner, queue, restoring, until, now, counts,
                 credit, doubt>>

\* unblockIP: the backends at once, without the queue ...
ApiUnblock(ip) ==
  /\ Begin("api", "bad", ip, 0)
  /\ until' = [b \in Backends |-> [until[b] EXCEPT ![ip] = 0]]
  /\ UNCHANGED <<up, tables, good, cleaner, queue, restoring, now, credit, origin>>

\* ... then RemoveFromPersistence, statement by statement.
ApiRemoveBad ==
  LET ip == tasks["api"].ip IN
  /\ tasks["api"].phase = "bad"
  /\ ~Locked
  /\ bad' = bad \ {ip}
  /\ origin' = [origin EXCEPT ![ip] = "none"]
  /\ Goto("api", "score")
  /\ UNCHANGED <<up, row, score, good, cleaner, queue, restoring, until, now, counts,
                 credit, doubt>>

\* Faulty variant: the score outlives the removal.
ApiKeepScore ==
  LET ip == tasks["api"].ip IN
  /\ tasks["api"].phase = "score"
  /\ credit' = [credit EXCEPT ![ip] = 0]
  /\ Goto("api", "row")
  /\ UNCHANGED <<up, row, bad, score, good, cleaner, queue, restoring, until, now,
                 counts, origin, doubt>>

ApiRemoveScore ==
  LET ip == tasks["api"].ip IN
  /\ tasks["api"].phase = "score"
  /\ score' = [score EXCEPT ![ip] = [n |-> 0, at |-> 0]]
  /\ credit' = [credit EXCEPT ![ip] = 0]
  /\ Goto("api", "row")
  /\ UNCHANGED <<up, row, bad, good, cleaner, queue, restoring, until, now, counts,
                 origin, doubt>>

ApiRemoveRow ==
  LET ip == tasks["api"].ip IN
  /\ tasks["api"].phase = "row"
  /\ row' = [row EXCEPT ![ip] = NoRow]
  /\ Finish("api")
  /\ UNCHANGED <<up, score, bad, good, cleaner, queue, restoring, until, now, counts,
                 credit, origin, doubt>>

(***************************************************************************)
(* runCleanup, without the mutex                                           *)
(***************************************************************************)

CleanupStart ==
  /\ up
  /\ cleaner = NoCleanup
  /\ counts.cleanups < MaxCleanups
  /\ counts' = [counts EXCEPT !.cleanups = @ + 1]
  /\ cleaner' = [at |-> 1, started |-> now]
  /\ UNCHANGED <<up, tables, good, memory, until, now, credit, origin, doubt>>

\* The conditions of CleanupExpiredBlocks and CleanupOldUnblocked, with the time at
\* which the clean-up started.
ExpiredBlocks == {ip \in IPs : row[ip].state = "blocked" /\ row[ip].expire < cleaner.started}
OldUnblocked ==
  {ip \in IPs : row[ip].state = "unblocked" /\ row[ip].expire < cleaner.started - Retention}

BlockedIPs == {ip \in IPs : row[ip].state = "blocked"}

\* Faulty variant: only the row of the long block keeps the record, and the clean-up may
\* run before that row is written.
StaleByReason == {ip \in bad : ip \notin BlockedIPs \/ row[ip].by # "bad-actor"}

StaleBadActors == bad \ BlockedIPs

LowScores == {ip \in IPs : score[ip].n < MinScore /\ score[ip].at < now - MaxAge}
OrphanedScores == {ip \in IPs : row[ip].state = "none"}
StaleScores == {ip \in IPs \ BlockedIPs : score[ip].at < now - Retention}

DropRows(S) ==
  /\ row' = [ip \in IPs |-> IF ip \in S THEN NoRow ELSE row[ip]]
  /\ UNCHANGED <<score, bad>>

DropScores(S) ==
  /\ score' = [ip \in IPs |-> IF ip \in S THEN [n |-> 0, at |-> 0] ELSE score[ip]]
  /\ UNCHANGED <<row, bad>>

\* The statements of runCleanup in their order; those on events and reasons are left
\* out.  Each sees the tables as they are when it runs.
CleanupStatement ==
  /\ cleaner.at # 0
  /\ \/ cleaner.at = 1 /\ DropRows(ExpiredBlocks)
     \/ cleaner.at = 2 /\ DropRows(OldUnblocked)
     \/ cleaner.at = 3 /\ DropScores(LowScores)
     \/ cleaner.at = 4 /\ bad' = bad \ StaleBadActors /\ UNCHANGED <<row, score>>
     \/ cleaner.at = 5 /\ DropScores(OrphanedScores)
     \/ cleaner.at = 6 /\ DropScores(StaleScores)
     \/ cleaner.at = 7 /\ DropScores(bad)
  /\ cleaner' = IF cleaner.at = 7 THEN NoCleanup ELSE [cleaner EXCEPT !.at = @ + 1]
  /\ UNCHANGED <<up, good, memory, until, now, counts, credit, origin, doubt>>

(***************************************************************************)
(* The queue, the backends and time                                        *)
(***************************************************************************)

\* Block puts the IP into the table of exactly this duration, else the fallback.
LifetimeOf(d) == IF d \in TableDurations THEN d ELSE Longest

Later(s, t) == IF s >= t THEN s ELSE t

RunCommand ==
  LET cmd == Head(queue)
      end(t) == IF cmd.kind = "unblock" THEN 0 ELSE Later(t, now + LifetimeOf(cmd.dur)) IN
  /\ up
  /\ queue # <<>>
  /\ queue' = Tail(queue)
  /\ until' = [b \in Backends |-> [until[b] EXCEPT ![cmd.ip] = end(@)]]
  /\ UNCHANGED <<up, tables, good, tasks, cleaner, restoring, now, counts, credit,
                 origin, doubt>>

\* The restore goroutine.
RestoreFeed ==
  /\ restoring # <<>>
  /\ queue' = Append(queue, Head(restoring))
  /\ restoring' = Tail(restoring)
  /\ UNCHANGED <<up, tables, good, tasks, cleaner, until, now, counts, credit, origin,
                 doubt>>

\* A tick is long against the statements under the mutex and the wait for it.
Tick ==
  /\ now < MaxNow
  /\ ~Locked /\ tasks["peer"].phase # "write"
  /\ now' = now + 1
  /\ UNCHANGED <<up, tables, good, memory, cleaner, until, counts, credit, origin, doubt>>

(***************************************************************************)
(* Crash and restart                                                       *)
(***************************************************************************)

Crash ==
  /\ up
  /\ counts.crashes < MaxCrashes
  /\ counts' = [counts EXCEPT !.crashes = @ + 1]
  /\ up' = FALSE
  /\ tasks' = [w \in Writers |-> NoTask]
  /\ queue' = <<>>
  /\ restoring' = <<>>
  /\ cleaner' = NoCleanup
  /\ UNCHANGED <<tables, good, until, now, credit, origin, doubt>>

\* A backend restarts while the process is down.
BackendRestart(b) ==
  /\ ~up
  /\ until' = [until EXCEPT ![b] = [ip \in IPs |-> 0]]
  /\ UNCHANGED <<up, tables, good, memory, cleaner, now, counts, credit, origin, doubt>>

\* GetCurrentState: the largest gpc0 of any table of any backend.
KnownBlocked(ip) == \E b \in Backends : until[b][ip] > now

\* Faulty variant: the shortest table, whatever the remaining time.
ShortestFit(remaining) == CHOOSE d \in TableDurations : \A e \in TableDurations : d <= e

\* The smallest table that holds the remaining time.
BestFit(remaining) ==
  LET fits == {d \in TableDurations : remaining <= d} IN
  IF fits = {} THEN DefaultDuration
  ELSE CHOOSE d \in fits : \A e \in fits : d <= e

\* What restorePersistenceState sends: rows whose IP is no good actor and that HAProxy
\* does not already agree with, then bad actors, each kind in any order: the rows come out
\* of a map.  An unblocked IP is only left out if a backend has an entry for it with
\* gpc0 = 0, and absent are the IPs without one.
RestoreRows(absent) ==
  LET live(ip) == row[ip].state = "blocked" /\ row[ip].expire > now
      blocks == {ip \in IPs \ good : live(ip) /\ ~KnownBlocked(ip)}
      unblocks == {ip \in IPs \ good : /\ row[ip].state = "unblocked"
                                       /\ KnownBlocked(ip) \/ ip \in absent}
  IN  {Block(ip, BestFit(row[ip].expire - now)) : ip \in blocks}
        \cup {Unblock(ip) : ip \in unblocks}
RestoreRecords == {Block(ip, BadActorDuration) : ip \in {i \in bad : ~KnownBlocked(i)}}

\* IPs whose block HAProxy is trusted with although it ends too early on a backend, and
\* those on which the row and the record of a bad actor do not agree.
Trusted ==
  {ip \in IPs : /\ row[ip].state = "blocked" /\ row[ip].expire > now
                /\ KnownBlocked(ip)
                /\ \E b \in Backends : until[b][ip] < row[ip].expire}
Contested == {ip \in bad : row[ip].state = "unblocked"} \cup good

Restart ==
  /\ ~up
  /\ up' = TRUE
  /\ \E absent \in SUBSET IPs :
       \E rows \in SetToSeqs(RestoreRows(absent)), records \in SetToSeqs(RestoreRecords) :
         restoring' = rows \o records
  /\ doubt' = (Trusted \X {"trusted"}) \cup (Contested \X {"contested"})
  /\ UNCHANGED <<tables, good, tasks, queue, cleaner, until, now, counts, credit, origin>>

(***************************************************************************)
(* Specification                                                           *)
(***************************************************************************)

PersistenceNext ==
  \/ \E ip \in IPs :
       \/ \E d \in Durations : CheckerBlock(ip, d)
       \/ CheckerUnblock(ip)
       \/ ReloadGood(ip)
       \/ PeerPromote(ip)
       \/ ApiUnblock(ip)
  \/ CheckerPromote \/ CheckerCommand \/ CheckerLong
  \/ \E w \in Writers : QueueLast(w)
  \/ ReloadList \/ ReloadMark
  \/ PeerWrite
  \/ ApiRemoveBad \/ ApiRemoveScore \/ ApiRemoveRow
  \/ CleanupStart \/ CleanupStatement
  \/ RunCommand \/ RestoreFeed
  \/ Tick
  \/ Crash
  \/ \E b \in Backends : BackendRestart(b)
  \/ Restart

PersistenceSpec == PersistenceInit /\ [][PersistenceNext]_vars

(***************************************************************************)
(* Properties                                                              *)
(***************************************************************************)

\* Every table and every task holds a value of its type, and a writer that is between
\* two statements under PersistenceMutex is the only one.
PersistenceTypeOK ==
  /\ \A ip \in IPs : /\ row[ip].state \in {"none", "blocked", "unblocked"}
                     /\ row[ip].expire \in Nat
                     /\ score[ip].n \in Nat
  /\ bad \subseteq IPs /\ good \subseteq IPs
  /\ \A w, v \in Writers :
       /\ tasks[w].phase \in {"promote", "command", "long", "score", "row"}
       /\ tasks[v].phase \in {"promote", "command", "long", "score", "row"}
       => w = v

Causes == {"overlap", "trusted", "contested"}

AtRest ==
  /\ up
  /\ \A w \in Writers : tasks[w].phase = "idle"
  /\ queue = <<>> /\ restoring = <<>>

\* The database is the truth and the backends are its replica, across crashes at any
\* statement, clean-ups at any time and backends that restart meanwhile: at rest every
\* backend blocks an IP at least until its row expires, and an IP whose row says
\* unblocked is not blocked, unless the IP is in doubt.  A restart clears all doubts
\* but those about blocks that restorePersistenceState did not send again because one
\* backend still knew of them.
ReplicaFollows ==
  AtRest =>
    \A b \in Backends, ip \in {i \in IPs : \A c \in Causes : <<i, c>> \notin doubt} :
      /\ row[ip].state = "blocked" /\ row[ip].expire > now => until[b][ip] >= row[ip].expire
      /\ row[ip].state = "unblocked" => until[b][ip] <= now

\* An IP removed by hand starts afresh: whatever falls between the statements of a
\* removal, a crash or a clean-up, this node promotes an IP only for as many blocks,
\* since the last removal, as the threshold asks for.
PromotionEarned ==
  tasks["checker"].phase = "promote" => credit[tasks["checker"].ip] >= Threshold

\* A bad actor promoted here stays one as long as the block that came with it is in
\* force, wherever the clean-up's statements fall between those of the promotion, and
\* although the clean-up drops its score.  (One learned from a peer may be forgotten:
\* the clean-up can run between the record and the row of ApplyBadActorFromPeer, which
\* is then written without a record.)
RecordKept ==
  \A ip \in IPs :
    /\ row[ip].state = "blocked" /\ row[ip].by = "bad-actor" /\ row[ip].expire > now
    /\ origin[ip] = "here"
    => ip \in bad
=============================================================================
