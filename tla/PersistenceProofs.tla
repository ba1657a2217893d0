-------------------------- MODULE PersistenceProofs --------------------------
(***************************************************************************)
(* Machine-checked facts about the database, its writers and the clean-up, *)
(* for any IPs, durations and thresholds and any number of decisions,      *)
(* clean-ups and crashes.                                                  *)
(***************************************************************************)
EXTENDS Persistence, FiniteSetTheorems, TLAPS

(***************************************************************************)
(* The inductive invariant                                                 *)
(***************************************************************************)

Rows == [state : {"none", "blocked", "unblocked"}, expire : Nat,
         by : {"none", "chain", "bad-actor", "good-actor"}]
Scores == [n : Nat, at : Nat]
Phases == {"idle", "promote", "command", "long", "queue", "list", "mark", "write", "bad",
           "score", "row"}
Tasks == [phase : Phases, ip : IPs \cup {AnyIP}, dur : Nat, at : Nat]
Cleaners == [at : 0 .. 7, started : Nat]

\* Every table, task and history that the argument is about has its type, and a clean-up
\* did not start in the future.
TypeOK ==
  /\ row \in [IPs -> Rows] /\ score \in [IPs -> Scores]
  /\ bad \subseteq IPs /\ good \subseteq IPs
  /\ tasks \in [Writers -> Tasks]
  /\ credit \in [IPs -> Nat] /\ origin \in [IPs -> {"none", "here", "peer"}]
  /\ now \in Nat
  /\ cleaner \in Cleaners /\ cleaner.started <= now

Promoting == {"promote", "command", "long"}
Removing == {"score", "row"}

\* Each writer is at statements of its own, and PersistenceMutex keeps promotions and
\* removals apart.
PlacesOK ==
  /\ \A w \in Writers : tasks[w].phase # "idle" => tasks[w].ip \in IPs
  /\ tasks["checker"].phase \in {"idle", "queue"} \cup Promoting
  /\ tasks["peer"].phase \in {"idle", "queue", "write"}
  /\ tasks["reload"].phase \in {"idle", "list", "mark", "queue"}
  /\ tasks["api"].phase \in {"idle", "bad"} \cup Removing
  /\ tasks["checker"].phase \in Promoting => tasks["api"].phase \notin Removing

\* A score never counts a block that was taken back.
CreditOK == \A ip \in IPs : score[ip].n <= credit[ip]

\* While an IP is promoted its block is in force, so that the clean-up finds the row, and
\* the record once it is written.
PromotingOK ==
  LET t == tasks["checker"] IN
  /\ t.phase \in Promoting => row[t.ip].state = "blocked" /\ row[t.ip].expire > now
  /\ t.phase \in {"command", "long"} => t.ip \in bad

DatabaseInv ==
  TypeOK /\ PlacesOK /\ CreditOK /\ PromotingOK /\ PromotionEarned /\ RecordKept

\* A table holds an entry at least as long as a block lasts that does not outlast all tables.
LEMMA LifetimeFacts ==
  /\ Longest \in TableDurations /\ Longest \in Nat /\ \A e \in TableDurations : e <= Longest
  /\ \A d \in Nat : LifetimeOf(d) \in Nat /\ (d <= Longest => LifetimeOf(d) >= d)
  /\ BadActorDuration \in Nat /\ BadActorDuration > 0 /\ BadActorDuration <= Longest
  /\ \A d \in Durations : d \in Nat /\ d > 0 /\ d <= Longest
<1>1. Longest \in TableDurations /\ \A e \in TableDurations : e <= Longest
  BY PersistenceAssumption DEF Longest
<1>2. TableDurations \subseteq Nat /\ Longest \in Nat
  BY <1>1, PersistenceAssumption
<1> QED
  BY <1>1, <1>2, PersistenceAssumption DEF LifetimeOf

(***************************************************************************)
(* Rows and tasks                                                          *)
(***************************************************************************)

\* The rows that writers write are rows.
LEMMA RowFacts ==
  /\ NoRow \in Rows /\ NoRow.state = "none"
  /\ \A t \in Nat, by \in {"chain", "bad-actor"} :
       /\ BlockedRow(t, by) \in Rows /\ BlockedRow(t, by).state = "blocked"
       /\ BlockedRow(t, by).expire = t /\ BlockedRow(t, by).by = by
  /\ now \in Nat => UnblockedRow \in Rows /\ UnblockedRow.state = "unblocked"
BY DEF Rows, NoRow, BlockedRow, UnblockedRow

\* A writer without a task.
LEMMA NoTaskFacts == NoTask \in Tasks /\ NoTask.phase = "idle"
BY DEF NoTask, Tasks, Phases

\* PersistenceMutex is free when neither a promotion nor a removal is under way.
LEMMA LockFacts ==
  ASSUME PlacesOK, ~Locked
  PROVE  tasks["checker"].phase \notin Promoting /\ tasks["api"].phase \notin Removing
BY DEF Locked, Promoting, Removing, Writers

\* A writer moves on.
LEMMA GotoFacts ==
  ASSUME TypeOK, NEW w \in Writers, NEW p \in Phases, Goto(w, p)
  PROVE  /\ tasks' \in [Writers -> Tasks]
         /\ tasks'[w].phase = p /\ tasks'[w].ip = tasks[w].ip
         /\ \A v \in Writers \ {w} : tasks'[v] = tasks[v]
<1> DEFINE t == [tasks[w] EXCEPT !.phase = p]
<1>1. tasks[w] \in Tasks /\ tasks \in [Writers -> Tasks]
  BY DEF TypeOK
<1>2. t \in Tasks /\ t.phase = p /\ t.ip = tasks[w].ip
  BY <1>1 DEF Tasks
<1>3. tasks' = [tasks EXCEPT ![w] = t]
  BY DEF Goto
<1> HIDE DEF t
<1> QED
  BY <1>1, <1>2, <1>3

\* A writer is done.
LEMMA FinishFacts ==
  ASSUME TypeOK, NEW w \in Writers, Finish(w)
  PROVE  /\ tasks' \in [Writers -> Tasks] /\ tasks'[w].phase = "idle"
         /\ \A v \in Writers \ {w} : tasks'[v] = tasks[v]
BY NoTaskFacts DEF TypeOK, Finish

\* A writer begins, with PersistenceMutex free.
LEMMA BeginFacts ==
  ASSUME TypeOK, PlacesOK, NEW w \in Writers, NEW p \in Phases, NEW ip \in IPs, NEW d \in Nat,
         Begin(w, p, ip, d)
  PROVE  /\ tasks' \in [Writers -> Tasks] /\ tasks[w].phase = "idle"
         /\ tasks'[w].phase = p /\ tasks'[w].ip = ip
         /\ \A v \in Writers \ {w} : tasks'[v] = tasks[v]
         /\ tasks["checker"].phase \notin Promoting /\ tasks["api"].phase \notin Removing
<1> DEFINE t == [phase |-> p, ip |-> ip, dur |-> d, at |-> now]
<1>1. tasks \in [Writers -> Tasks] /\ now \in Nat
  BY DEF TypeOK
<1>2. t \in Tasks /\ t.phase = p /\ t.ip = ip
  BY <1>1 DEF Tasks
<1>3. tasks' = [tasks EXCEPT ![w] = t] /\ ~Locked /\ tasks[w].phase = "idle"
  BY DEF Begin
<1> HIDE DEF t
<1> QED
  BY <1>1, <1>2, <1>3, LockFacts

\* The invariant holds when the database is new.
LEMMA InitHolds == PersistenceInit => DatabaseInv
<1> SUFFICES ASSUME PersistenceInit
             PROVE  DatabaseInv
  OBVIOUS
<1>1. TypeOK
  <2>1. row \in [IPs -> Rows] /\ tasks \in [Writers -> Tasks]
    BY RowFacts, NoTaskFacts DEF PersistenceInit
  <2>2. score \in [IPs -> Scores] /\ cleaner \in Cleaners /\ cleaner.started <= now
    BY DEF PersistenceInit, Scores, Cleaners, NoCleanup
  <2> QED
    BY <2>1, <2>2 DEF PersistenceInit, TypeOK
<1>2. \A w \in Writers : tasks[w].phase = "idle"
  BY NoTaskFacts DEF PersistenceInit
<1>3. PlacesOK /\ PromotingOK /\ PromotionEarned
  BY <1>2 DEF PlacesOK, PromotingOK, PromotionEarned, Writers, Promoting
<1>4. CreditOK
  BY DEF PersistenceInit, CreditOK
<1>5. RecordKept
  BY DEF PersistenceInit, RecordKept
<1> QED
  BY <1>1, <1>3, <1>4, <1>5 DEF DatabaseInv

(***************************************************************************)
(* Steps that leave the tables alone                                       *)
(***************************************************************************)

\* Whoever moves without a write keeps the invariant, if the checker does not begin a
\* promotion that way and goes through it in order.
LEMMA OnlyTasks ==
  ASSUME DatabaseInv, UNCHANGED <<row, score, bad, credit, origin, now>>,
         good' \subseteq IPs, tasks' \in [Writers -> Tasks],
         cleaner' \in Cleaners, cleaner'.started <= now, PlacesOK',
         \/ tasks'["checker"] = tasks["checker"]
         \/ tasks'["checker"].phase \notin Promoting
         \/ /\ tasks["checker"].phase = "command" /\ tasks'["checker"].phase = "long"
            /\ tasks'["checker"].ip = tasks["checker"].ip
  PROVE  DatabaseInv'
<1>1. TypeOK' /\ CreditOK' /\ RecordKept'
  BY DEF DatabaseInv, TypeOK, CreditOK, RecordKept
<1>2. PromotingOK'
  BY DEF DatabaseInv, PromotingOK, Promoting
<1>3. PromotionEarned'
  BY DEF DatabaseInv, PromotionEarned, Promoting
<1> QED
  BY <1>1, <1>2, <1>3 DEF DatabaseInv

\* The commands, ReloadGood, ReloadList and the first step of an unblock.
LEMMA MovesOnly ==
  ASSUME DatabaseInv,
         \/ CheckerCommand \/ ReloadList \/ \E w \in Writers : QueueLast(w)
         \/ \E ip \in IPs : ReloadGood(ip) \/ ApiUnblock(ip)
  PROVE  DatabaseInv'
<1>0. TypeOK /\ PlacesOK
  BY DEF DatabaseInv
<1>a. /\ cleaner \in Cleaners /\ cleaner.started <= now /\ good \subseteq IPs
      /\ \A w \in Writers : tasks[w] \in Tasks
  BY <1>0 DEF TypeOK
<1> USE DEF Writers, Promoting, Removing
<1>1. CASE CheckerCommand
  <2>1. /\ tasks["checker"].phase = "command" /\ Goto("checker", "long")
        /\ UNCHANGED <<row, score, bad, credit, origin, now, good, cleaner>>
    BY <1>1 DEF CheckerCommand, tables
  <2>2. /\ tasks' \in [Writers -> Tasks] /\ tasks'["checker"].phase = "long"
        /\ tasks'["checker"].ip = tasks["checker"].ip
        /\ \A v \in Writers \ {"checker"} : tasks'[v] = tasks[v]
    BY <1>0, <2>1, GotoFacts DEF Phases
  <2>3. PlacesOK'
    BY <1>0, <2>1, <2>2 DEF PlacesOK
  <2> QED
    BY <1>a, <2>1, <2>2, <2>3, OnlyTasks
<1>2. CASE ReloadList
  <2>1. /\ tasks["reload"].phase = "list" /\ (Goto("reload", "mark") \/ Finish("reload"))
        /\ UNCHANGED <<row, score, bad, credit, origin, now, good, cleaner>>
    BY <1>2 DEF ReloadList, tables
  <2>2. /\ tasks' \in [Writers -> Tasks]
        /\ \/ tasks'["reload"].phase = "idle"
           \/ tasks'["reload"].phase = "mark" /\ tasks'["reload"].ip = tasks["reload"].ip
        /\ \A v \in Writers \ {"reload"} : tasks'[v] = tasks[v]
    BY <1>0, <2>1, GotoFacts, FinishFacts DEF Phases
  <2>3. PlacesOK'
    BY <1>0, <2>1, <2>2 DEF PlacesOK
  <2> QED
    BY <1>a, <2>1, <2>2, <2>3, OnlyTasks
<1>3. ASSUME NEW w \in Writers, QueueLast(w)
      PROVE  DatabaseInv'
  <2>1. /\ tasks[w].phase = "queue" /\ (IF w = "peer" THEN Goto(w, "write") ELSE Finish(w))
        /\ UNCHANGED <<row, score, bad, credit, origin, now, good, cleaner>>
    BY <1>3 DEF QueueLast, tables
  <2>2. /\ tasks' \in [Writers -> Tasks]
        /\ \/ tasks'[w].phase = "idle"
           \/ w = "peer" /\ tasks'[w].phase = "write" /\ tasks'[w].ip = tasks[w].ip
        /\ \A v \in Writers \ {w} : tasks'[v] = tasks[v]
    BY <1>0, <2>1, GotoFacts, FinishFacts DEF Phases
  <2>3. PlacesOK'
    BY <1>0, <2>1, <2>2 DEF PlacesOK
  <2> QED
    BY <1>a, <2>1, <2>2, <2>3, OnlyTasks
<1>4. ASSUME NEW ip \in IPs, ReloadGood(ip)
      PROVE  DatabaseInv'
  <2>1. /\ Begin("reload", "list", ip, 0) /\ good' = good \cup {ip}
        /\ UNCHANGED <<row, score, bad, credit, origin, now, cleaner>>
    BY <1>4 DEF ReloadGood, tables
  <2>2. /\ tasks' \in [Writers -> Tasks]
        /\ tasks'["reload"].phase = "list" /\ tasks'["reload"].ip = ip
        /\ \A v \in Writers \ {"reload"} : tasks'[v] = tasks[v]
    BY <1>0, <2>1, BeginFacts DEF Phases
  <2>3. PlacesOK'
    BY <1>0, <2>2 DEF PlacesOK
  <2> QED
    BY <1>a, <2>1, <2>2, <2>3, OnlyTasks
<1>5. ASSUME NEW ip \in IPs, ApiUnblock(ip)
      PROVE  DatabaseInv'
  <2>1. /\ Begin("api", "bad", ip, 0)
        /\ UNCHANGED <<row, score, bad, credit, origin, now, good, cleaner>>
    BY <1>5 DEF ApiUnblock, tables
  <2>2. /\ tasks' \in [Writers -> Tasks]
        /\ tasks'["api"].phase = "bad" /\ tasks'["api"].ip = ip
        /\ \A v \in Writers \ {"api"} : tasks'[v] = tasks[v]
    BY <1>0, <2>1, BeginFacts DEF Phases
  <2>3. PlacesOK'
    BY <1>0, <2>2 DEF PlacesOK
  <2> QED
    BY <1>a, <2>1, <2>2, <2>3, OnlyTasks
<1> QED
  BY <1>1, <1>2, <1>3, <1>4, <1>5

\* The queue, the backends, the beginning of a clean-up, a crash and the restart.
LEMMA NothingWritten ==
  ASSUME DatabaseInv,
         \/ CleanupStart \/ RunCommand \/ RestoreFeed \/ Crash \/ Restart \/ UNCHANGED vars
         \/ \E b \in Backends : BackendRestart(b)
  PROVE  DatabaseInv'
<1>0. TypeOK /\ PlacesOK
  BY DEF DatabaseInv
<1>1. UNCHANGED <<row, score, bad, credit, origin, now, good>>
  BY DEF CleanupStart, RunCommand, RestoreFeed, Crash, Restart, BackendRestart, vars, tables
<1>2. cleaner' \in {cleaner, NoCleanup, [at |-> 1, started |-> now]}
  BY DEF CleanupStart, RunCommand, RestoreFeed, Crash, Restart, BackendRestart, vars
<1>3. tasks' = tasks \/ tasks' = [w \in Writers |-> NoTask]
  BY DEF CleanupStart, RunCommand, RestoreFeed, Crash, Restart, BackendRestart, vars, memory
<1>4. cleaner' \in Cleaners /\ cleaner'.started <= now /\ good' \subseteq IPs
  BY <1>0, <1>1, <1>2 DEF TypeOK, Cleaners, NoCleanup
<1>5. /\ tasks' \in [Writers -> Tasks]
      /\ \A w \in Writers : tasks'[w] = tasks[w] \/ tasks'[w].phase = "idle"
  BY <1>0, <1>3, NoTaskFacts DEF TypeOK
<1>6. PlacesOK'
  BY <1>0, <1>5 DEF PlacesOK, Writers, Promoting, Removing
<1> QED
  BY <1>1, <1>4, <1>5, <1>6, OnlyTasks DEF Writers, Promoting

(***************************************************************************)
(* The checker's writes                                                    *)
(***************************************************************************)

\* BlockIPBatch: row, score and credit go up together, and a promotion begins only at the
\* threshold.
LEMMA BlockStep ==
  ASSUME DatabaseInv, NEW ip \in IPs, NEW d \in Durations, CheckerBlock(ip, d)
  PROVE  DatabaseInv'
<1>0. /\ TypeOK /\ PlacesOK /\ CreditOK /\ RecordKept
      /\ d \in Nat \ {0} /\ Threshold \in Nat \ {0} /\ now \in Nat /\ now + d \in Nat
  BY PersistenceAssumption DEF DatabaseInv, TypeOK
<1> DEFINE n == score[ip].n + 1
           p == IF n >= Threshold /\ ip \notin bad THEN "promote" ELSE "queue"
           r == BlockedRow(now + d, "chain")
<1>1. /\ Begin("checker", p, ip, d)
      /\ row' = [row EXCEPT ![ip] = r] /\ score' = [score EXCEPT ![ip] = [n |-> n, at |-> now]]
      /\ credit' = [credit EXCEPT ![ip] = credit[ip] + 1]
      /\ UNCHANGED <<bad, good, cleaner, now, origin>>
  BY DEF CheckerBlock
<1>2. p \in {"promote", "queue"} /\ (p = "promote" => n >= Threshold)
  OBVIOUS
<1>3. /\ score[ip].n \in Nat /\ credit[ip] \in Nat /\ n \in Nat
      /\ [n |-> n, at |-> now] \in Scores /\ [n |-> n, at |-> now].n = n
      /\ n <= credit[ip] + 1 /\ credit[ip] + 1 \in Nat
  BY <1>0 DEF TypeOK, Scores, CreditOK
<1>4. r \in Rows /\ r.state = "blocked" /\ r.expire = now + d /\ r.by = "chain"
  BY <1>0, RowFacts
<1> HIDE DEF n, p, r
<1>5. /\ tasks' \in [Writers -> Tasks]
      /\ tasks'["checker"].phase = p /\ tasks'["checker"].ip = ip
      /\ \A v \in Writers \ {"checker"} : tasks'[v] = tasks[v]
      /\ tasks["api"].phase \notin Removing
  BY <1>0, <1>1, <1>2, BeginFacts DEF Phases, Writers
<1>6. /\ row' \in [IPs -> Rows] /\ row'[ip] = r
      /\ \A i \in IPs \ {ip} : row'[i] = row[i]
  BY <1>0, <1>1, <1>4 DEF TypeOK
<1>7. /\ score' \in [IPs -> Scores] /\ score'[ip].n = n
      /\ \A i \in IPs \ {ip} : score'[i] = score[i]
  BY <1>0, <1>1, <1>3 DEF TypeOK
<1>8. /\ credit' \in [IPs -> Nat] /\ credit'[ip] = credit[ip] + 1
      /\ \A i \in IPs \ {ip} : credit'[i] = credit[i]
  BY <1>0, <1>1, <1>3 DEF TypeOK
<1>9. TypeOK'
  BY <1>0, <1>1, <1>5, <1>6, <1>7, <1>8 DEF TypeOK
<1>10. PlacesOK'
  BY <1>0, <1>2, <1>5 DEF PlacesOK, Writers, Promoting, Removing
<1>11. CreditOK'
  BY <1>0, <1>3, <1>7, <1>8 DEF CreditOK
<1>12. PromotingOK'
  BY <1>0, <1>1, <1>2, <1>4, <1>5, <1>6 DEF PromotingOK
<1>13. PromotionEarned'
  BY <1>0, <1>2, <1>3, <1>5, <1>8 DEF PromotionEarned
<1>14. RecordKept'
  BY <1>0, <1>1, <1>4, <1>6 DEF RecordKept
<1> QED
  BY <1>9, <1>10, <1>11, <1>12, <1>13, <1>14 DEF DatabaseInv

\* PromoteToBadActor and the row of the long block, both under PersistenceMutex.
LEMMA PromoteStep ==
  ASSUME DatabaseInv, CheckerPromote \/ CheckerLong
  PROVE  DatabaseInv'
<1>0. /\ TypeOK /\ PlacesOK /\ CreditOK /\ RecordKept /\ PromotingOK
      /\ BadActorDuration \in Nat /\ now \in Nat
  BY PersistenceAssumption DEF DatabaseInv, TypeOK
<1> DEFINE ip == tasks["checker"].ip
<1>a. ip \in IPs /\ tasks["api"].phase \notin Removing
  BY <1>0 DEF CheckerPromote, CheckerLong, PlacesOK, Writers, Promoting
<1>b. tasks["checker"] \in Tasks /\ tasks["checker"].at \in Nat
  BY <1>0 DEF TypeOK, Tasks, Writers
<1>1. CASE CheckerPromote
  <2>1. /\ tasks["checker"].phase = "promote" /\ bad' = bad \cup {ip}
        /\ origin' = [origin EXCEPT ![ip] = "here"] /\ Goto("checker", "command")
        /\ UNCHANGED <<row, score, good, cleaner, now, credit>>
    BY <1>1 DEF CheckerPromote
  <2>2. /\ tasks' \in [Writers -> Tasks] /\ tasks'["checker"].phase = "command"
        /\ tasks'["checker"].ip = ip
        /\ \A v \in Writers \ {"checker"} : tasks'[v] = tasks[v]
    BY <1>0, <2>1, GotoFacts DEF Phases, Writers
  <2> HIDE DEF ip
  <2>3. TypeOK'
    BY <1>0, <1>a, <2>1, <2>2 DEF TypeOK
  <2>4. PlacesOK'
    BY <1>0, <1>a, <2>1, <2>2 DEF PlacesOK, Writers, Promoting, Removing
  <2>5. row[ip].state = "blocked" /\ row[ip].expire > now
    BY <1>0, <2>1 DEF PromotingOK, Promoting, ip
  <2>6. PromotingOK' /\ PromotionEarned' /\ CreditOK'
    BY <1>0, <2>1, <2>2, <2>5 DEF PromotingOK, PromotionEarned, CreditOK
  <2>7. RecordKept'
    BY <1>0, <1>a, <2>1 DEF RecordKept, TypeOK
  <2> QED
    BY <2>3, <2>4, <2>6, <2>7 DEF DatabaseInv
<1>2. CASE CheckerLong
  <2> DEFINE r == BlockedRow(tasks["checker"].at + BadActorDuration, "bad-actor")
  <2>1. /\ tasks["checker"].phase = "long" /\ row' = [row EXCEPT ![ip] = r]
        /\ Goto("checker", "queue")
        /\ UNCHANGED <<score, bad, good, cleaner, now, credit, origin>>
    BY <1>2 DEF CheckerLong
  <2>2. /\ tasks' \in [Writers -> Tasks] /\ tasks'["checker"].phase = "queue"
        /\ tasks'["checker"].ip = ip
        /\ \A v \in Writers \ {"checker"} : tasks'[v] = tasks[v]
    BY <1>0, <2>1, GotoFacts DEF Phases, Writers
  <2>3. r \in Rows
    BY <1>0, <1>b, RowFacts
  <2>4. ip \in bad
    BY <1>0, <2>1 DEF PromotingOK
  <2> HIDE DEF ip, r
  <2>5. row' \in [IPs -> Rows] /\ \A i \in IPs \ {ip} : row'[i] = row[i]
    BY <1>0, <1>a, <2>1, <2>3 DEF TypeOK
  <2>6. TypeOK'
    BY <1>0, <2>1, <2>2, <2>5 DEF TypeOK
  <2>7. PlacesOK'
    BY <1>0, <1>a, <2>1, <2>2 DEF PlacesOK, Writers, Promoting, Removing
  <2>8. PromotingOK' /\ PromotionEarned' /\ CreditOK'
    BY <1>0, <2>1, <2>2 DEF PromotingOK, PromotionEarned, CreditOK, Promoting
  <2>9. RecordKept'
    BY <1>0, <2>1, <2>4, <2>5 DEF RecordKept
  <2> QED
    BY <2>6, <2>7, <2>8, <2>9 DEF DatabaseInv
<1> QED
  BY <1>1, <1>2

(***************************************************************************)
(* The other writers                                                       *)
(***************************************************************************)

\* Writes that find PersistenceMutex free, and leave it so, cannot disturb a promotion.
LEMMA Unlocked ==
  ASSUME DatabaseInv, tasks["checker"].phase \notin Promoting, TypeOK', PlacesOK',
         \/ tasks'["checker"] = tasks["checker"]
         \/ tasks'["checker"].phase \notin Promoting,
         CreditOK', RecordKept'
  PROVE  DatabaseInv'
BY DEF DatabaseInv, PromotingOK, PromotionEarned, Promoting

\* A good actor's row is marked, by the checker or a reload.
LEMMA MarkStep ==
  ASSUME DatabaseInv, ReloadMark \/ \E ip \in IPs : CheckerUnblock(ip)
  PROVE  DatabaseInv'
<1>0. TypeOK /\ PlacesOK /\ CreditOK /\ RecordKept /\ now \in Nat
  BY DEF DatabaseInv, TypeOK
<1>a. ASSUME NEW ip \in IPs, NEW w \in {"checker", "reload"},
             row' = [row EXCEPT ![ip] = UnblockedRow], origin' = [origin EXCEPT ![ip] = "none"],
             UNCHANGED <<score, bad, good, cleaner, now, credit>>,
             tasks' \in [Writers -> Tasks], tasks'[w].phase = "queue", tasks'[w].ip \in IPs,
             \A v \in Writers \ {w} : tasks'[v] = tasks[v],
             tasks["checker"].phase \notin Promoting
      PROVE  DatabaseInv'
  <2>1. /\ row' \in [IPs -> Rows] /\ row'[ip].state = "unblocked"
        /\ \A i \in IPs \ {ip} : row'[i] = row[i]
    BY <1>0, <1>a, RowFacts DEF TypeOK
  <2>2. TypeOK'
    BY <1>0, <1>a, <2>1 DEF TypeOK
  <2>3. PlacesOK'
    BY <1>0, <1>a DEF PlacesOK, Writers, Promoting, Removing
  <2>4. CreditOK'
    BY <1>0, <1>a DEF CreditOK
  <2>5. RecordKept'
    BY <1>0, <1>a, <2>1 DEF RecordKept, TypeOK
  <2>6. \/ tasks'["checker"] = tasks["checker"]
        \/ tasks'["checker"].phase \notin Promoting
    BY <1>a DEF Writers, Promoting
  <2> QED
    BY <1>a, <2>2, <2>3, <2>4, <2>5, <2>6, Unlocked
<1>1. ASSUME NEW ip \in IPs, CheckerUnblock(ip)
      PROVE  DatabaseInv'
  <2>1. Begin("checker", "queue", ip, 0)
    BY <1>1 DEF CheckerUnblock
  <2>2. /\ tasks' \in [Writers -> Tasks]
        /\ tasks'["checker"].phase = "queue" /\ tasks'["checker"].ip = ip
        /\ \A v \in Writers \ {"checker"} : tasks'[v] = tasks[v]
        /\ tasks["checker"].phase \notin Promoting
    BY <1>0, <2>1, BeginFacts DEF Phases, Writers
  <2> QED
    BY <1>1, <1>a, <2>2 DEF CheckerUnblock
<1>2. CASE ReloadMark
  <2> DEFINE ip == tasks["reload"].ip
  <2>1. /\ tasks["reload"].phase = "mark" /\ ~Locked /\ Goto("reload", "queue")
        /\ row' = [row EXCEPT ![ip] = UnblockedRow] /\ origin' = [origin EXCEPT ![ip] = "none"]
        /\ UNCHANGED <<score, bad, good, cleaner, now, credit>>
    BY <1>2 DEF ReloadMark
  <2>2. ip \in IPs
    BY <1>0, <2>1 DEF PlacesOK, Writers
  <2>3. /\ tasks' \in [Writers -> Tasks]
        /\ tasks'["reload"].phase = "queue" /\ tasks'["reload"].ip = ip
        /\ \A v \in Writers \ {"reload"} : tasks'[v] = tasks[v]
    BY <1>0, <2>1, GotoFacts DEF Phases, Writers
  <2>4. tasks["checker"].phase \notin Promoting
    BY <1>0, <2>1, LockFacts
  <2> HIDE DEF ip
  <2> QED
    BY <1>a, <2>1, <2>2, <2>3, <2>4
<1> QED
  BY <1>1, <1>2

\* ApplyBadActorFromPeer, the record and the row.
LEMMA PeerStep ==
  ASSUME DatabaseInv, PeerWrite \/ \E ip \in IPs : PeerPromote(ip)
  PROVE  DatabaseInv'
<1>0. /\ TypeOK /\ PlacesOK /\ CreditOK /\ RecordKept /\ now \in Nat
      /\ BadActorDuration \in Nat /\ now + BadActorDuration \in Nat
  BY LifetimeFacts DEF DatabaseInv, TypeOK
<1>1. ASSUME NEW ip \in IPs, PeerPromote(ip)
      PROVE  DatabaseInv'
  <2>1. /\ Begin("peer", "queue", ip, BadActorDuration) /\ bad' = bad \cup {ip}
        /\ origin' = [origin EXCEPT ![ip] = "peer"]
        /\ UNCHANGED <<row, score, good, cleaner, now, credit>>
    BY <1>1 DEF PeerPromote
  <2>2. /\ tasks' \in [Writers -> Tasks]
        /\ tasks'["peer"].phase = "queue" /\ tasks'["peer"].ip = ip
        /\ \A v \in Writers \ {"peer"} : tasks'[v] = tasks[v]
        /\ tasks["checker"].phase \notin Promoting
    BY <1>0, <2>1, BeginFacts DEF Phases, Writers
  <2>3. TypeOK'
    BY <1>0, <2>1, <2>2 DEF TypeOK
  <2>4. PlacesOK'
    BY <1>0, <2>2 DEF PlacesOK, Writers, Promoting, Removing
  <2>5. CreditOK' /\ RecordKept'
    BY <1>0, <2>1 DEF CreditOK, RecordKept, TypeOK
  <2>6. tasks'["checker"] = tasks["checker"]
    BY <2>2 DEF Writers
  <2> QED
    BY <2>2, <2>3, <2>4, <2>5, <2>6, Unlocked
<1>2. CASE PeerWrite
  <2> DEFINE ip == tasks["peer"].ip
             r == BlockedRow(now + BadActorDuration, "bad-actor")
             o == IF ip \in bad THEN origin[ip] ELSE "peer"
  <2>1. /\ tasks["peer"].phase = "write" /\ ~Locked /\ row' = [row EXCEPT ![ip] = r]
        /\ origin' = [origin EXCEPT ![ip] = o] /\ Finish("peer")
        /\ UNCHANGED <<score, bad, good, cleaner, now, credit>>
    BY <1>2 DEF PeerWrite
  <2>2. ip \in IPs /\ r \in Rows
    BY <1>0, <2>1, RowFacts DEF PlacesOK, Writers
  <2>3. o \in {"none", "here", "peer"} /\ (o = "here" => ip \in bad)
    BY <1>0, <2>2 DEF TypeOK
  <2>4. /\ tasks' \in [Writers -> Tasks] /\ tasks'["peer"].phase = "idle"
        /\ \A v \in Writers \ {"peer"} : tasks'[v] = tasks[v]
    BY <1>0, <2>1, FinishFacts DEF Writers
  <2> HIDE DEF ip, r, o
  <2>5. TypeOK'
    BY <1>0, <2>1, <2>2, <2>3, <2>4 DEF TypeOK
  <2>6. PlacesOK'
    BY <1>0, <2>4 DEF PlacesOK, Writers, Promoting, Removing
  <2>7. CreditOK'
    BY <1>0, <2>1 DEF CreditOK
  <2>8. RecordKept'
    BY <1>0, <2>1, <2>2, <2>3 DEF RecordKept, TypeOK
  <2>9. tasks["checker"].phase \notin Promoting /\ tasks'["checker"] = tasks["checker"]
    BY <1>0, <2>1, <2>4, LockFacts DEF Writers
  <2> QED
    BY <2>5, <2>6, <2>7, <2>8, <2>9, Unlocked
<1> QED
  BY <1>1, <1>2

\* RemoveFromPersistence, statement by statement.
LEMMA RemoveStep ==
  ASSUME DatabaseInv, ApiRemoveBad \/ ApiRemoveScore \/ ApiRemoveRow
  PROVE  DatabaseInv'
<1>0. TypeOK /\ PlacesOK /\ CreditOK /\ RecordKept /\ now \in Nat
  BY DEF DatabaseInv, TypeOK
<1> DEFINE ip == tasks["api"].ip
<1>a. ip \in IPs
  BY <1>0 DEF PlacesOK, Writers, ApiRemoveBad, ApiRemoveScore, ApiRemoveRow
<1>b. tasks["checker"].phase \notin Promoting
  <2>1. CASE ApiRemoveBad
    BY <1>0, <2>1, LockFacts DEF ApiRemoveBad
  <2>2. CASE ApiRemoveScore \/ ApiRemoveRow
    BY <1>0, <2>2 DEF ApiRemoveScore, ApiRemoveRow, PlacesOK, Removing
  <2> QED
    BY <2>1, <2>2
<1>c. /\ tasks' \in [Writers -> Tasks] /\ tasks'["api"].phase \in {"idle", "score", "row"}
      /\ tasks'["api"].phase # "idle" => tasks'["api"].ip = ip
      /\ \A v \in Writers \ {"api"} : tasks'[v] = tasks[v]
  <2>1. Goto("api", "score") \/ Goto("api", "row") \/ Finish("api")
    BY DEF ApiRemoveBad, ApiRemoveScore, ApiRemoveRow
  <2> QED
    BY <1>0, <2>1, GotoFacts, FinishFacts DEF Phases, Writers
<1> HIDE DEF ip
<1>d. PlacesOK' /\ tasks'["checker"] = tasks["checker"]
  BY <1>0, <1>a, <1>b, <1>c DEF PlacesOK, Writers, Promoting, Removing
<1>1. CASE ApiRemoveBad
  <2>1. /\ bad' = bad \ {ip} /\ origin' = [origin EXCEPT ![ip] = "none"]
        /\ UNCHANGED <<row, score, good, cleaner, now, credit>>
    BY <1>1 DEF ApiRemoveBad, ip
  <2>2. TypeOK'
    BY <1>0, <1>c, <2>1 DEF TypeOK
  <2>3. CreditOK' /\ RecordKept'
    BY <1>0, <1>a, <2>1 DEF CreditOK, RecordKept, TypeOK
  <2> QED
    BY <1>b, <1>d, <2>2, <2>3, Unlocked
<1>2. CASE ApiRemoveScore
  <2> DEFINE none == [n |-> 0, at |-> 0]
  <2>1. /\ score' = [score EXCEPT ![ip] = none] /\ credit' = [credit EXCEPT ![ip] = 0]
        /\ UNCHANGED <<row, bad, good, cleaner, now, origin>>
    BY <1>2 DEF ApiRemoveScore, ip
  <2>2. none \in Scores /\ none.n = 0
    BY DEF Scores
  <2> HIDE DEF none
  <2>3. TypeOK'
    BY <1>0, <1>c, <2>1, <2>2 DEF TypeOK
  <2>4. CreditOK'
    BY <1>0, <1>a, <2>1, <2>2 DEF CreditOK, TypeOK
  <2>5. RecordKept'
    BY <1>0, <2>1 DEF RecordKept
  <2> QED
    BY <1>b, <1>d, <2>3, <2>4, <2>5, Unlocked
<1>3. CASE ApiRemoveRow
  <2>1. /\ row' = [row EXCEPT ![ip] = NoRow]
        /\ UNCHANGED <<score, bad, good, cleaner, now, credit, origin>>
    BY <1>3 DEF ApiRemoveRow, ip
  <2>2. TypeOK'
    BY <1>0, <1>c, <2>1, RowFacts DEF TypeOK
  <2>3. CreditOK'
    BY <1>0, <2>1 DEF CreditOK
  <2>4. RecordKept'
    BY <1>0, <1>a, <2>1, RowFacts DEF RecordKept, TypeOK
  <2> QED
    BY <1>b, <1>d, <2>2, <2>3, <2>4, Unlocked
<1> QED
  BY <1>1, <1>2, <1>3

(***************************************************************************)
(* The clean-up and the clock                                              *)
(***************************************************************************)

\* A statement of the clean-up, wherever it falls: it drops no row that is in force, and a
\* record only with the row.
LEMMA CleanupStep ==
  ASSUME DatabaseInv, CleanupStatement
  PROVE  DatabaseInv'
<1>0. /\ TypeOK /\ PlacesOK /\ CreditOK /\ RecordKept /\ PromotingOK /\ PromotionEarned
      /\ now \in Nat /\ cleaner \in Cleaners /\ cleaner.started <= now
      /\ row \in [IPs -> Rows] /\ score \in [IPs -> Scores]
  BY DEF DatabaseInv, TypeOK
<1>a. /\ UNCHANGED <<good, tasks, now, credit, origin>>
      /\ cleaner' = IF cleaner.at = 7 THEN NoCleanup ELSE [cleaner EXCEPT !.at = @ + 1]
  BY DEF CleanupStatement, memory
<1>b. cleaner' \in Cleaners /\ cleaner'.started <= now
  BY <1>0, <1>a DEF Cleaners, NoCleanup
<1>c. \A ip \in IPs : row[ip].expire \in Nat /\ score[ip].n \in Nat /\ cleaner.started \in Nat
  BY <1>0 DEF Rows, Scores, Cleaners
<1> DEFINE Rest == TypeOK' /\ CreditOK' /\ PromotingOK' /\ RecordKept'
<1>1. ASSUME NEW S, DropRows(S), \A ip \in S : row[ip].state = "blocked" => row[ip].expire <= now
      PROVE  Rest
  <2>1. /\ row' \in [IPs -> Rows] /\ UNCHANGED <<score, bad>>
        /\ \A ip \in IPs : row'[ip] = row[ip] \/ (ip \in S /\ row'[ip].state = "none")
    BY <1>0, <1>1, RowFacts DEF DropRows
  <2>2. TypeOK'
    BY <1>0, <1>a, <1>b, <2>1 DEF TypeOK
  <2>3. CreditOK'
    BY <1>0, <1>a, <2>1 DEF CreditOK
  <2>4. PromotingOK'
    <3>1. tasks["checker"].phase # "idle" => tasks["checker"].ip \in IPs
      BY <1>0 DEF PlacesOK, Writers
    <3> QED
      BY <1>0, <1>1, <1>a, <1>c, <2>1, <3>1 DEF PromotingOK, Promoting
  <2>5. RecordKept'
    BY <1>0, <1>a, <2>1 DEF RecordKept
  <2> QED
    BY <2>2, <2>3, <2>4, <2>5
<1>2. ASSUME NEW S, DropScores(S)
      PROVE  Rest
  <2>0. [n |-> 0, at |-> 0] \in Scores /\ [n |-> 0, at |-> 0].n = 0
    BY DEF Scores
  <2>1. /\ score' \in [IPs -> Scores] /\ UNCHANGED <<row, bad>>
        /\ \A ip \in IPs : score'[ip] = score[ip] \/ score'[ip].n = 0
    BY <1>0, <1>2, <2>0 DEF DropScores
  <2>2. TypeOK'
    BY <1>0, <1>a, <1>b, <2>1 DEF TypeOK
  <2>3. CreditOK'
    BY <1>0, <1>a, <2>1 DEF CreditOK, TypeOK
  <2>4. PromotingOK' /\ RecordKept'
    BY <1>0, <1>a, <2>1 DEF PromotingOK, RecordKept
  <2> QED
    BY <2>2, <2>3, <2>4
<1>3. ASSUME bad' = bad \ StaleBadActors, UNCHANGED <<row, score>>
      PROVE  Rest
  <2>1. \A ip \in IPs : row[ip].state = "blocked" /\ ip \in bad => ip \in bad'
    BY <1>3 DEF StaleBadActors, BlockedIPs
  <2>2. TypeOK'
    BY <1>0, <1>3, <1>a, <1>b DEF TypeOK
  <2>3. CreditOK'
    BY <1>0, <1>3, <1>a DEF CreditOK
  <2>4. PromotingOK'
    <3>1. tasks["checker"].phase # "idle" => tasks["checker"].ip \in IPs
      BY <1>0 DEF PlacesOK, Writers
    <3> QED
      BY <1>0, <1>3, <1>a, <2>1, <3>1 DEF PromotingOK, Promoting
  <2>5. RecordKept'
    BY <1>0, <1>3, <1>a, <2>1 DEF RecordKept
  <2> QED
    BY <2>2, <2>3, <2>4, <2>5
<1>4. \/ DropRows(ExpiredBlocks) \/ DropRows(OldUnblocked)
      \/ \E S \in {LowScores, OrphanedScores, StaleScores, bad} : DropScores(S)
      \/ bad' = bad \ StaleBadActors /\ UNCHANGED <<row, score>>
  BY DEF CleanupStatement
<1>5. /\ \A ip \in ExpiredBlocks : row[ip].expire <= now
      /\ \A ip \in OldUnblocked : row[ip].state # "blocked"
  BY <1>0, <1>c DEF ExpiredBlocks, OldUnblocked
<1> HIDE DEF Rest
<1>6. Rest
  BY <1>1, <1>2, <1>3, <1>4, <1>5
<1>7. PlacesOK' /\ PromotionEarned'
  BY <1>0, <1>a DEF PlacesOK, PromotionEarned
<1> QED
  BY <1>6, <1>7 DEF Rest, DatabaseInv

\* The clock does not move during a promotion.
LEMMA TickStep ==
  ASSUME DatabaseInv, Tick
  PROVE  DatabaseInv'
<1>0. /\ TypeOK /\ PlacesOK /\ RecordKept /\ CreditOK /\ now \in Nat /\ cleaner \in Cleaners
      /\ cleaner.started <= now /\ row \in [IPs -> Rows]
  BY DEF DatabaseInv, TypeOK
<1>1. /\ ~Locked /\ now' = now + 1 /\ now' \in Nat
      /\ UNCHANGED <<row, score, bad, good, tasks, cleaner, credit, origin>>
  BY <1>0 DEF Tick, tables, memory
<1>2. cleaner.started \in Nat /\ \A ip \in IPs : row[ip].expire \in Nat
  BY <1>0 DEF Cleaners, Rows
<1>3. TypeOK'
  BY <1>0, <1>1, <1>2 DEF TypeOK
<1>4. PlacesOK'
  BY <1>0, <1>1 DEF PlacesOK
<1>5. RecordKept'
  BY <1>0, <1>1, <1>2 DEF RecordKept
<1>6. CreditOK'
  BY <1>0, <1>1 DEF CreditOK
<1>7. tasks["checker"].phase \notin Promoting
  BY <1>0, <1>1, LockFacts
<1> QED
  BY <1>1, <1>3, <1>4, <1>5, <1>6, <1>7, Unlocked

(***************************************************************************)
(* The backends follow the database: commands on their way                 *)
(***************************************************************************)

BackendCommands == [kind : {"block", "unblock"}, ip : IPs, dur : Nat]
IsBlock(c, ip) == c.kind = "block" /\ c.ip = ip
IsUnblock(c, ip) == c.kind = "unblock" /\ c.ip = ip

\* A block that keeps the IP blocked until e if it runs at t or later.
Covers(c, t, ip, e) == IsBlock(c, ip) /\ t + LifetimeOf(c.dur) >= e

\* When the commands q have run on backends in state u, at t or later, every backend blocks
\* the IP at least until e ...
Ends(q, u, t, ip, e) ==
  \/ /\ \A b \in Backends : u[b][ip] >= e
     /\ \A i \in 1 .. Len(q) : ~IsUnblock(q[i], ip)
  \/ \E i \in 1 .. Len(q) : /\ Covers(q[i], t, ip, e)
                            /\ \A j \in i + 1 .. Len(q) : ~IsUnblock(q[j], ip)

\* ... or none blocks it any more.
Freed(q, u, t, ip) ==
  \/ /\ \A b \in Backends : u[b][ip] <= t
     /\ \A i \in 1 .. Len(q) : ~IsBlock(q[i], ip)
  \/ \E i \in 1 .. Len(q) : /\ IsUnblock(q[i], ip)
                            /\ \A j \in i + 1 .. Len(q) : ~IsBlock(q[j], ip)

LEMMA AppendFacts ==
  ASSUME NEW q \in Seq(BackendCommands), NEW c \in BackendCommands
  PROVE  /\ Append(q, c) \in Seq(BackendCommands) /\ Len(Append(q, c)) = Len(q) + 1
         /\ Append(q, c)[Len(q) + 1] = c /\ Len(q) \in Nat
         /\ \A i \in 1 .. Len(q) : Append(q, c)[i] = q[i]
OBVIOUS

LEMMA TailFacts ==
  ASSUME NEW q \in Seq(BackendCommands), q # <<>>
  PROVE  /\ Tail(q) \in Seq(BackendCommands) /\ Len(Tail(q)) = Len(q) - 1
         /\ Len(q) \in Nat \ {0} /\ Head(q) = q[1] /\ q[1] \in BackendCommands
         /\ \A i \in 1 .. Len(Tail(q)) : Tail(q)[i] = q[i + 1]
OBVIOUS

\* A command that goes into the queue leaves promises about another IP alone, and the
\* promise of a block or of an unblock if it is one itself.
LEMMA AppendKeeps ==
  ASSUME NEW q \in Seq(BackendCommands), NEW c \in BackendCommands, NEW u, NEW t, NEW ip
  PROVE  /\ ~IsUnblock(c, ip) =>
              \A e : Ends(q, u, t, ip, e) => Ends(Append(q, c), u, t, ip, e)
         /\ ~IsBlock(c, ip) => (Freed(q, u, t, ip) => Freed(Append(q, c), u, t, ip))
<1> DEFINE p == Append(q, c)
<1>1. /\ Len(p) = Len(q) + 1 /\ p[Len(q) + 1] = c /\ Len(q) \in Nat
      /\ \A i \in 1 .. Len(q) : p[i] = q[i]
  BY AppendFacts
<1> HIDE DEF p
<1>2. \A i \in 1 .. Len(p) : i \in 1 .. Len(q) \/ i = Len(q) + 1
  BY <1>1
<1>3. \A i \in 1 .. Len(q) : i \in 1 .. Len(p)
  BY <1>1
<1>4. ASSUME ~IsUnblock(c, ip), NEW e, Ends(q, u, t, ip, e)
      PROVE  Ends(p, u, t, ip, e)
  <2>1. ASSUME \A i \in 1 .. Len(q) : ~IsUnblock(q[i], ip)
        PROVE  \A i \in 1 .. Len(p) : ~IsUnblock(p[i], ip)
    BY <1>1, <1>2, <1>4, <2>1
  <2>2. ASSUME NEW k \in 1 .. Len(q), \A i \in k + 1 .. Len(q) : ~IsUnblock(q[i], ip)
        PROVE  \A i \in k + 1 .. Len(p) : ~IsUnblock(p[i], ip)
    BY <1>1, <1>4, <2>2
  <2>3. CASE \E i \in 1 .. Len(q) : /\ Covers(q[i], t, ip, e)
                                    /\ \A j \in i + 1 .. Len(q) : ~IsUnblock(q[j], ip)
    BY <1>1, <1>3, <2>2, <2>3 DEF Ends
  <2> QED
    BY <1>4, <2>1, <2>3 DEF Ends
<1>5. ASSUME ~IsBlock(c, ip), Freed(q, u, t, ip)
      PROVE  Freed(p, u, t, ip)
  <2>1. ASSUME \A i \in 1 .. Len(q) : ~IsBlock(q[i], ip)
        PROVE  \A i \in 1 .. Len(p) : ~IsBlock(p[i], ip)
    BY <1>1, <1>2, <1>5, <2>1
  <2>2. ASSUME NEW k \in 1 .. Len(q), \A i \in k + 1 .. Len(q) : ~IsBlock(q[i], ip)
        PROVE  \A i \in k + 1 .. Len(p) : ~IsBlock(p[i], ip)
    BY <1>1, <1>5, <2>2
  <2>3. CASE \E i \in 1 .. Len(q) : /\ IsUnblock(q[i], ip)
                                    /\ \A j \in i + 1 .. Len(q) : ~IsBlock(q[j], ip)
    BY <1>1, <1>3, <2>2, <2>3 DEF Freed
  <2> QED
    BY <1>5, <2>1, <2>3 DEF Freed
<1> QED
  BY <1>4, <1>5 DEF p

\* The last command for an IP decides.
LEMMA AppendDecides ==
  ASSUME NEW q \in Seq(BackendCommands), NEW c \in BackendCommands, NEW u, NEW t, NEW ip
  PROVE  /\ \A e : Covers(c, t, ip, e) => Ends(Append(q, c), u, t, ip, e)
         /\ IsUnblock(c, ip) => Freed(Append(q, c), u, t, ip)
<1> DEFINE p == Append(q, c)
           n == Len(q) + 1
<1>1. Len(p) = n /\ p[n] = c /\ n \in Nat \ {0}
  BY AppendFacts
<1>2. n \in 1 .. Len(p) /\ \A j \in n + 1 .. Len(p) : FALSE
  BY <1>1
<1> HIDE DEF p, n
<1> QED
  BY <1>1, <1>2 DEF Ends, Freed, p

\* Time passes.
LEMMA LaterKeeps ==
  ASSUME NEW q \in Seq(BackendCommands), NEW u \in [Backends -> [IPs -> Nat]],
         NEW t \in Nat, NEW s \in Nat, t <= s, NEW ip \in IPs
  PROVE  /\ \A e \in Nat : Ends(q, u, t, ip, e) => Ends(q, u, s, ip, e)
         /\ Freed(q, u, t, ip) => Freed(q, u, s, ip)
<1>1. \A i \in 1 .. Len(q) : q[i] \in BackendCommands
  OBVIOUS
<1>2. \A c \in BackendCommands, e \in Nat : Covers(c, t, ip, e) => Covers(c, s, ip, e)
  <2> TAKE c \in BackendCommands, e \in Nat
  <2>1. LifetimeOf(c.dur) \in Nat
    BY LifetimeFacts DEF BackendCommands
  <2> QED
    BY <2>1 DEF Covers
<1>3. ASSUME NEW e \in Nat, Ends(q, u, t, ip, e)
      PROVE  Ends(q, u, s, ip, e)
  BY <1>1, <1>2, <1>3 DEF Ends
<1>4. \A b \in Backends : u[b][ip] \in Nat
  OBVIOUS
<1> QED
  BY <1>3, <1>4 DEF Freed

\* A backend runs the first command: what the rest promises stays as it was.
LEMMA RunKeeps ==
  ASSUME NEW q \in Seq(BackendCommands), q # <<>>, NEW u \in [Backends -> [IPs -> Nat]],
         NEW v \in [Backends -> [IPs -> Nat]], NEW t \in Nat, NEW ip \in IPs,
         \A b \in Backends :
           v[b][ip] = IF q[1].ip # ip THEN u[b][ip]
                      ELSE IF q[1].kind = "unblock" THEN 0
                      ELSE Later(u[b][ip], t + LifetimeOf(q[1].dur))
  PROVE  /\ \A e \in Nat : Ends(q, u, t, ip, e) => Ends(Tail(q), v, t, ip, e)
         /\ Freed(q, u, t, ip) => Freed(Tail(q), v, t, ip)
<1> DEFINE p == Tail(q)
<1>1. /\ Len(p) = Len(q) - 1 /\ Len(q) \in Nat \ {0} /\ q[1] \in BackendCommands
      /\ \A i \in 1 .. Len(p) : p[i] = q[i + 1]
  BY TailFacts
<1> HIDE DEF p
<1>2. /\ q[1].kind \in {"block", "unblock"} /\ LifetimeOf(q[1].dur) \in Nat
      /\ \A b \in Backends : u[b][ip] \in Nat
  BY <1>1, LifetimeFacts DEF BackendCommands
<1>3. \A i \in 1 .. Len(p) : i + 1 \in 1 .. Len(q) /\ i + 1 # 1
  BY <1>1
<1>4. ASSUME NEW k \in 0 .. Len(p), NEW i \in k + 1 .. Len(p)
      PROVE  p[i] = q[i + 1] /\ i + 1 \in k + 2 .. Len(q)
  BY <1>1, <1>4
<1>5. 1 \in 1 .. Len(q) /\ 0 \in 0 .. Len(p)
  BY <1>1
<1>6. ASSUME NEW i \in 1 .. Len(q), i # 1
      PROVE  i - 1 \in 1 .. Len(p) /\ p[i - 1] = q[i] /\ (i - 1) + 2 = i + 1
  BY <1>1, <1>6
<1>7. ASSUME NEW e \in Nat, Ends(q, u, t, ip, e)
      PROVE  Ends(p, v, t, ip, e)
  <2>1. CASE /\ \A b \in Backends : u[b][ip] >= e
             /\ \A i \in 1 .. Len(q) : ~IsUnblock(q[i], ip)
    <3>1. q[1].ip = ip => q[1].kind # "unblock"
      BY <1>5, <2>1 DEF IsUnblock
    <3>2. \A b \in Backends : v[b][ip] >= e
      BY <1>2, <2>1, <3>1 DEF Later
    <3>3. \A i \in 1 .. Len(p) : ~IsUnblock(p[i], ip)
      BY <1>1, <1>3, <2>1
    <3> QED
      BY <3>2, <3>3 DEF Ends
  <2>2. ASSUME NEW i \in 1 .. Len(q), Covers(q[i], t, ip, e),
               \A j \in i + 1 .. Len(q) : ~IsUnblock(q[j], ip)
        PROVE  Ends(p, v, t, ip, e)
    <3>1. CASE i = 1
      <4>1. \A j \in 1 .. Len(p) : ~IsUnblock(p[j], ip)
        BY <1>4, <1>5, <2>2, <3>1
      <4>2. \A b \in Backends : v[b][ip] >= e
        BY <1>2, <2>2, <3>1 DEF Later, Covers, IsBlock
      <4> QED
        BY <4>1, <4>2 DEF Ends
    <3>2. CASE i # 1
      <4>1. ASSUME NEW j \in (i - 1) + 1 .. Len(p)
            PROVE  ~IsUnblock(p[j], ip)
        <5>1. j \in 1 .. Len(p) /\ j + 1 \in i + 1 .. Len(q)
          BY <1>1, <2>2, <4>1
        <5> QED
          BY <1>1, <2>2, <5>1
      <4> QED
        BY <1>6, <2>2, <3>2, <4>1 DEF Ends
    <3> QED
      BY <3>1, <3>2
  <2> QED
    BY <1>7, <2>1, <2>2 DEF Ends
<1>8. ASSUME Freed(q, u, t, ip)
      PROVE  Freed(p, v, t, ip)
  <2>1. CASE /\ \A b \in Backends : u[b][ip] <= t
             /\ \A i \in 1 .. Len(q) : ~IsBlock(q[i], ip)
    <3>1. q[1].ip = ip => q[1].kind = "unblock"
      BY <1>2, <1>5, <2>1 DEF IsBlock
    <3>2. \A b \in Backends : v[b][ip] <= t
      BY <1>2, <2>1, <3>1
    <3>3. \A i \in 1 .. Len(p) : ~IsBlock(p[i], ip)
      BY <1>1, <1>3, <2>1
    <3> QED
      BY <3>2, <3>3 DEF Freed
  <2>2. ASSUME NEW i \in 1 .. Len(q), IsUnblock(q[i], ip),
               \A j \in i + 1 .. Len(q) : ~IsBlock(q[j], ip)
        PROVE  Freed(p, v, t, ip)
    <3>1. CASE i = 1
      <4>1. \A j \in 1 .. Len(p) : ~IsBlock(p[j], ip)
        BY <1>4, <1>5, <2>2, <3>1
      <4>2. \A b \in Backends : v[b][ip] <= t
        BY <2>2, <3>1 DEF IsUnblock
      <4> QED
        BY <4>1, <4>2 DEF Freed
    <3>2. CASE i # 1
      <4>1. ASSUME NEW j \in (i - 1) + 1 .. Len(p)
            PROVE  ~IsBlock(p[j], ip)
        <5>1. j \in 1 .. Len(p) /\ j + 1 \in i + 1 .. Len(q)
          BY <1>1, <2>2, <4>1
        <5> QED
          BY <1>1, <2>2, <5>1
      <4> QED
        BY <1>6, <2>2, <3>2, <4>1 DEF Freed
    <3> QED
      BY <3>1, <3>2
  <2> QED
    BY <1>8, <2>1, <2>2 DEF Freed
<1> QED
  BY <1>7, <1>8 DEF p

(***************************************************************************)
(* The backends follow the database: the invariant                         *)
(***************************************************************************)

Clear(ip) == \A c \in Causes : <<ip, c>> \notin doubt
Owns(w, ip) == tasks[w].phase # "idle" /\ tasks[w].ip = ip

\* No other writer has a task about the IP, and nothing is to be restored for it.
Only(w, ip) == (\A v \in Writers \ {w} : ~Owns(v, ip)) /\ ip \notin Commands(restoring)

\* The row and the commands on their way agree.
Holds(ip) ==
  /\ row[ip].state = "blocked" /\ row[ip].expire > now =>
       /\ \A i \in 1 .. Len(restoring) : ~IsUnblock(restoring[i], ip)
       /\ \/ Ends(queue, until, now, ip, row[ip].expire)
          \/ \E i \in 1 .. Len(restoring) : Covers(restoring[i], now, ip, row[ip].expire)
  /\ row[ip].state = "unblocked" =>
       /\ \A i \in 1 .. Len(restoring) : ~IsBlock(restoring[i], ip)
       /\ \/ Freed(queue, until, now, ip)
          \/ \E i \in 1 .. Len(restoring) : IsUnblock(restoring[i], ip)

\* Writers that write the row first owe the command ...
CheckerClaim(ip) ==
  LET t == tasks["checker"] IN
  Owns("checker", ip) =>
    /\ t.dur = 0 => row[ip].state # "blocked"
    /\ t.dur # 0 => /\ row[ip].state # "unblocked"
                    /\ row[ip].state = "blocked" /\ row[ip].expire > now =>
                         \/ row[ip].expire <= now + t.dur
                         \/ Ends(queue, until, now, ip, row[ip].expire)
    /\ t.phase = "long" => Ends(queue, until, now, ip, t.at + BadActorDuration)
ReloadClaim(ip) ==
  Owns("reload", ip) /\ tasks["reload"].phase = "queue" => row[ip].state # "blocked"

\* ... and ApplyBadActorFromPeer, which sends the command first, the row.
PeerClaim(ip) ==
  Owns("peer", ip) /\ tasks["peer"].phase = "write" =>
    Ends(queue, until, now, ip, now + BadActorDuration)

\* A writer that has neither written the row nor sent the command, or has done both.
Even(w, ip) ==
  \/ ~Owns(w, ip) \/ tasks[w].phase \in {"list", "mark"}
  \/ w = "peer" /\ tasks[w].phase = "queue"

IpOK(ip) ==
  Clear(ip) =>
    /\ \A w \in Writers : Owns(w, ip) => Only(w, ip)
    /\ up /\ (\A w \in Writers : Even(w, ip)) => Holds(ip)
    /\ CheckerClaim(ip) /\ ReloadClaim(ip) /\ PeerClaim(ip)

CommandsOK ==
  /\ until \in [Backends -> [IPs -> Nat]]
  /\ queue \in Seq(BackendCommands) /\ restoring \in Seq(BackendCommands)

TaskOK(w) ==
  LET t == tasks[w] IN
  /\ t.at <= now
  /\ w = "checker" /\ t.phase \in Promoting => t.dur \in Durations
  /\ w = "checker" /\ t.phase = "queue" => t.dur \in Durations \cup {0}
  /\ w = "reload" /\ t.phase # "idle" => t.dur = 0
  /\ w = "peer" /\ t.phase # "idle" => t.dur = BadActorDuration

\* No row is blocked for longer than an entry can last.
RowOK(ip) == row[ip].state = "blocked" => row[ip].expire <= now + Longest

DownOK == ~up => queue = <<>> /\ restoring = <<>> /\ \A w \in Writers : tasks[w].phase = "idle"

\* With DatabaseInv the inductive invariant behind ReplicaFollows.
ReplicaInv ==
  /\ CommandsOK /\ DownOK
  /\ \A w \in Writers : TaskOK(w)
  /\ \A ip \in IPs : RowOK(ip) /\ IpOK(ip)

(***************************************************************************)
(* The backends follow the database: kinds of steps                        *)
(***************************************************************************)

\* A step that only lets go of an IP, if it does anything about it at all.
LEMMA SteadyStep ==
  ASSUME DatabaseInv, ReplicaInv, NEW i \in IPs,
         \A w \in Writers : tasks'[w].phase = "idle" \/ tasks'[w] = tasks[w] \/ tasks'[w].ip # i,
         \/ row'[i].state = "none"
         \/ /\ row'[i] = row[i]
            /\ up' /\ (\A w \in Writers : Even(w, i)') => up /\ \A w \in Writers : Even(w, i),
         restoring' = restoring, Clear(i)' => Clear(i), now' \in Nat, now <= now',
         now' = now \/ tasks["peer"].phase # "write",
         \A e \in Nat : Ends(queue, until, now, i, e) => Ends(queue', until', now', i, e),
         Freed(queue, until, now, i) => Freed(queue', until', now', i)
  PROVE  IpOK(i)'
<1> SUFFICES ASSUME Clear(i)'
             PROVE  IpOK(i)'
  BY DEF IpOK
<1>1. IpOK(i) /\ Clear(i) /\ CommandsOK /\ \A w \in Writers : TaskOK(w)
  BY DEF ReplicaInv
<1>2. /\ row[i].expire \in Nat /\ now \in Nat /\ BadActorDuration \in Nat
      /\ \A w \in Writers : tasks[w].at \in Nat /\ tasks[w].dur \in Nat
  BY LifetimeFacts DEF DatabaseInv, TypeOK, Rows, Tasks
<1>3. \A w \in Writers : Owns(w, i)' => Owns(w, i) /\ tasks'[w] = tasks[w]
  BY DEF Owns
<1>4. \A w \in Writers : Owns(w, i)' => Only(w, i)'
  BY <1>1, <1>3 DEF IpOK, Only
<1>5. up' /\ (\A w \in Writers : Even(w, i)') => Holds(i)'
  <2> SUFFICES ASSUME up', \A w \in Writers : Even(w, i)', row'[i].state # "none"
               PROVE  Holds(i)'
    BY DEF Holds
  <2>1. Holds(i)
    BY <1>1 DEF IpOK
  <2>2. \A k \in 1 .. Len(restoring) :
          Covers(restoring[k], now, i, row[i].expire)
            => Covers(restoring[k], now', i, row[i].expire)
    <3> TAKE k \in 1 .. Len(restoring)
    <3>1. LifetimeOf(restoring[k].dur) \in Nat
      <4>1. restoring[k] \in BackendCommands
        BY <1>1 DEF CommandsOK
      <4> QED
        BY <4>1, LifetimeFacts DEF BackendCommands
    <3> QED
      BY <1>2, <3>1 DEF Covers
  <2>3. row[i].expire > now' => row[i].expire > now
    BY <1>2
  <2> QED
    BY <1>2, <2>1, <2>2, <2>3 DEF Holds
<1>6. CheckerClaim(i)'
  <2> SUFFICES ASSUME Owns("checker", i)'
               PROVE  CheckerClaim(i)'
    BY DEF CheckerClaim
  <2>1. Owns("checker", i) /\ tasks'["checker"] = tasks["checker"]
    BY <1>3 DEF Writers
  <2>2. CheckerClaim(i) /\ tasks["checker"].at \in Nat /\ tasks["checker"].dur \in Nat
    BY <1>1, <1>2 DEF IpOK, Writers
  <2>3. row'[i].state = "none" \/ row'[i] = row[i]
    OBVIOUS
  <2> QED
    BY <1>2, <2>1, <2>2, <2>3 DEF CheckerClaim
<1>7. ReloadClaim(i)'
  BY <1>1, <1>3 DEF IpOK, ReloadClaim, Writers
<1>8. PeerClaim(i)'
  BY <1>1, <1>2, <1>3 DEF IpOK, PeerClaim, Writers
<1> QED
  BY <1>4, <1>5, <1>6, <1>7, <1>8 DEF IpOK

\* While the process is down nobody promises anything.
LEMMA DownHolds ==
  ASSUME ~up', \A w \in Writers : tasks'[w].phase = "idle"
  PROVE  \A i \in IPs : IpOK(i)'
BY DEF IpOK, Owns, CheckerClaim, ReloadClaim, PeerClaim, Writers

\* A writer whose task is about ip moves.
Moves(w, ip) ==
  /\ tasks' \in [Writers -> Tasks] /\ \A v \in Writers \ {w} : tasks'[v] = tasks[v]
  /\ tasks[w].phase = "idle" \/ tasks[w].ip = ip
  /\ tasks'[w].phase = "idle" \/ tasks'[w].ip = ip
  /\ \A i \in IPs \ {ip} : row'[i] = row[i] /\ \A b \in Backends : until'[b][i] = until[b][i]
  /\ queue' = queue \/ \E c \in BackendCommands : c.ip = ip /\ queue' = Append(queue, c)
  /\ until' \in [Backends -> [IPs -> Nat]]
  /\ \A i \in IPs : Clear(i)' => Clear(i)
  /\ up /\ UNCHANGED <<up, now, restoring>>

Claims(w, ip) ==
  /\ Even(w, ip) => Holds(ip)
  /\ w = "checker" => CheckerClaim(ip)
  /\ w = "reload" => ReloadClaim(ip)
  /\ w = "peer" => PeerClaim(ip)

LEMMA UntilOnly ==
  ASSUME NEW q, NEW u, NEW v, NEW t, NEW ip, \A b \in Backends : u[b][ip] = v[b][ip]
  PROVE  /\ \A e : Ends(q, u, t, ip, e) => Ends(q, v, t, ip, e)
         /\ Freed(q, u, t, ip) => Freed(q, v, t, ip)
BY DEF Ends, Freed

LEMMA WriterStep ==
  ASSUME DatabaseInv, ReplicaInv, NEW w \in Writers, NEW ip \in IPs, Moves(w, ip),
         RowOK(ip)', TaskOK(w)', Clear(ip)' => Only(w, ip) /\ Claims(w, ip)'
  PROVE  ReplicaInv'
<1>0. now \in Nat /\ CommandsOK /\ DownOK
  BY DEF DatabaseInv, TypeOK, ReplicaInv
<1>1. CommandsOK'
  BY <1>0, AppendFacts DEF Moves, CommandsOK
<1>2. DownOK'
  BY DEF Moves, DownOK
<1>3. \A v \in Writers : TaskOK(v)'
  BY DEF Moves, TaskOK, ReplicaInv
<1>4. \A i \in IPs : RowOK(i)'
  BY DEF Moves, RowOK, ReplicaInv
<1>5. ASSUME NEW i \in IPs \ {ip}
      PROVE  IpOK(i)'
  <2>1. \A v \in Writers : tasks'[v].phase = "idle" \/ tasks'[v] = tasks[v] \/ tasks'[v].ip # i
    BY DEF Moves
  <2>2. \A v \in Writers : Even(v, i)' => Even(v, i)
    BY DEF Moves, Even, Owns
  <2>3. /\ \A e : Ends(queue, until, now, i, e) => Ends(queue', until', now', i, e)
        /\ Freed(queue, until, now, i) => Freed(queue', until', now', i)
    <3>1. /\ \A e : Ends(queue, until, now, i, e) => Ends(queue', until, now, i, e)
          /\ Freed(queue, until, now, i) => Freed(queue', until, now, i)
      BY <1>0, AppendKeeps DEF Moves, CommandsOK, IsBlock, IsUnblock
    <3>2. now' = now /\ \A b \in Backends : until[b][i] = until'[b][i]
      BY DEF Moves
    <3> QED
      BY <3>1, <3>2, UntilOnly
  <2>4. row'[i] = row[i] /\ up /\ restoring' = restoring /\ now' = now /\ (Clear(i)' => Clear(i))
    BY DEF Moves
  <2> QED
    BY <1>0, <2>1, <2>2, <2>3, <2>4, SteadyStep
<1>6. IpOK(ip)'
  <2> SUFFICES ASSUME Clear(ip)'
               PROVE  IpOK(ip)'
    BY DEF IpOK
  <2>1. Only(w, ip) /\ Claims(w, ip)'
    OBVIOUS
  <2>2. \A v \in Writers \ {w} : ~Owns(v, ip)'
    BY <2>1 DEF Only, Moves, Owns
  <2>3. \A v \in Writers : Owns(v, ip)' => Only(v, ip)'
    BY <2>1, <2>2 DEF Only, Moves
  <2>4. CheckerClaim(ip)' /\ ReloadClaim(ip)' /\ PeerClaim(ip)'
    BY <2>1, <2>2 DEF Claims, CheckerClaim, ReloadClaim, PeerClaim, Writers
  <2> QED
    BY <2>1, <2>3, <2>4 DEF IpOK, Claims
<1> QED
  BY <1>1, <1>2, <1>3, <1>4, <1>5, <1>6 DEF ReplicaInv

(***************************************************************************)
(* The backends follow the database: the writers                           *)
(***************************************************************************)

\* What Goto leaves alone.
LEMMA GotoKeeps ==
  ASSUME TypeOK, NEW w \in Writers, NEW p \in Phases, Goto(w, p)
  PROVE  /\ tasks'[w].phase = p /\ tasks'[w].ip = tasks[w].ip
         /\ tasks'[w].dur = tasks[w].dur /\ tasks'[w].at = tasks[w].at
<1> DEFINE t == [tasks[w] EXCEPT !.phase = p]
<1>1. tasks[w] \in Tasks /\ tasks \in [Writers -> Tasks]
  BY DEF TypeOK
<1>2. t.phase = p /\ t.ip = tasks[w].ip /\ t.dur = tasks[w].dur /\ t.at = tasks[w].at
  BY <1>1 DEF Tasks
<1>3. tasks' = [tasks EXCEPT ![w] = t]
  BY DEF Goto
<1> HIDE DEF t
<1> QED
  BY <1>1, <1>2, <1>3

\* Begin puts an IP in doubt whose last decision is still under way.
LEMMA BeginKeeps ==
  ASSUME TypeOK, NEW w \in Writers, NEW p \in Phases, NEW ip \in IPs, NEW d \in Nat,
         Begin(w, p, ip, d)
  PROVE  /\ up /\ tasks'[w].dur = d /\ tasks'[w].at = now
         /\ \A i \in IPs : Clear(i)' => Clear(i)
         /\ Clear(ip)' => Clear(ip) /\ Only(w, ip) /\ (w = "api" => ip \notin Commands(queue))
<1> DEFINE t == [phase |-> p, ip |-> ip, dur |-> d, at |-> now]
<1>1. t.dur = d /\ t.at = now
  OBVIOUS
<1>2. tasks' = [tasks EXCEPT ![w] = t] /\ up /\ tasks \in [Writers -> Tasks]
  BY DEF Begin, TypeOK
<1> HIDE DEF t
<1>3. tasks'[w] = t
  BY <1>2
<1>4. doubt' = IF Busy(w, ip) \/ (w = "api" /\ ip \in Commands(queue))
               THEN doubt \cup {<<ip, "overlap">>} ELSE doubt
  BY DEF Begin
<1>5. \A i \in IPs : Clear(i)' => Clear(i)
  BY <1>4 DEF Clear
<1>6. Clear(ip)' => ~Busy(w, ip) /\ (w = "api" => ip \notin Commands(queue))
  BY <1>4 DEF Clear, Causes
<1> QED
  BY <1>1, <1>2, <1>3, <1>5, <1>6 DEF Busy, Only, Owns

\* The owner of an IP that is not in doubt is alone with it.
LEMMA OwnerOnly ==
  ASSUME ReplicaInv, NEW w \in Writers, NEW ip \in IPs, Owns(w, ip), Clear(ip)
  PROVE  Only(w, ip) /\ \A i \in 1 .. Len(restoring) : restoring[i].ip # ip
BY DEF ReplicaInv, IpOK, Only, Commands

\* BlockIPBatch, the unblocking of good actors, the first steps of a reload, of a bad actor
\* from a peer, and of an unblock by hand.
LEMMA BeginStep ==
  ASSUME DatabaseInv, ReplicaInv, NEW ip \in IPs,
         \/ \E d \in Durations : CheckerBlock(ip, d)
         \/ CheckerUnblock(ip) \/ ReloadGood(ip) \/ PeerPromote(ip) \/ ApiUnblock(ip)
  PROVE  ReplicaInv'
<1>0. /\ TypeOK /\ PlacesOK /\ CommandsOK /\ now \in Nat /\ row \in [IPs -> Rows]
      /\ BadActorDuration \in Nat /\ BadActorDuration # 0 /\ Longest \in Nat
      /\ IpOK(ip) /\ RowOK(ip)
      /\ until \in [Backends -> [IPs -> Nat]] /\ queue \in Seq(BackendCommands)
  <2>1. TypeOK /\ PlacesOK /\ CommandsOK /\ IpOK(ip) /\ RowOK(ip)
    BY DEF DatabaseInv, ReplicaInv
  <2>2. now \in Nat /\ row \in [IPs -> Rows]
    BY <2>1 DEF TypeOK
  <2>3. until \in [Backends -> [IPs -> Nat]] /\ queue \in Seq(BackendCommands)
    BY <2>1 DEF CommandsOK
  <2>4. BadActorDuration \in Nat /\ BadActorDuration # 0 /\ Longest \in Nat
    BY LifetimeFacts
  <2> QED
    BY <2>1, <2>2, <2>3, <2>4
<1>a. ASSUME NEW w \in Writers, NEW p \in Phases \ {"idle"}, NEW d \in Nat, Begin(w, p, ip, d),
             UNCHANGED <<up, queue, restoring, now>>,
             \A i \in IPs \ {ip} : row'[i] = row[i],
             until' \in [Backends -> [IPs -> Nat]],
             \A b \in Backends, i \in IPs \ {ip} : until'[b][i] = until[b][i]
      PROVE  /\ Moves(w, ip) /\ Owns(w, ip)'
             /\ tasks'[w].phase = p /\ tasks'[w].ip = ip /\ tasks'[w].dur = d /\ tasks'[w].at = now
             /\ Clear(ip)' => Clear(ip) /\ Only(w, ip)
             /\ \A v \in Writers : Owns(v, ip) /\ Clear(ip)' => FALSE
  <2>1. /\ tasks' \in [Writers -> Tasks] /\ tasks[w].phase = "idle"
        /\ tasks'[w].phase = p /\ tasks'[w].ip = ip
        /\ \A v \in Writers \ {w} : tasks'[v] = tasks[v]
    BY <1>0, <1>a, BeginFacts
  <2>2. /\ up /\ tasks'[w].dur = d /\ tasks'[w].at = now
        /\ \A i \in IPs : Clear(i)' => Clear(i)
        /\ Clear(ip)' => Clear(ip) /\ Only(w, ip)
    BY <1>0, <1>a, BeginKeeps
  <2>3. \A v \in Writers : Owns(v, ip) /\ Clear(ip)' => FALSE
    BY <2>1, <2>2 DEF Only, Owns
  <2> QED
    BY <1>a, <2>1, <2>2, <2>3 DEF Moves, Owns
<1> USE DEF Writers, Phases
<1>1. ASSUME NEW d \in Durations, CheckerBlock(ip, d)
      PROVE  ReplicaInv'
  <2> DEFINE p == tasks'["checker"].phase
             r == BlockedRow(now + d, "chain")
  <2>0. d \in Nat /\ d > 0 /\ d <= Longest /\ now \in Nat /\ now + d \in Nat
    <3>1. d \in Nat /\ d > 0 /\ d <= Longest
      BY LifetimeFacts
    <3> QED
      BY <1>0, <3>1
  <2>1. /\ row' = [row EXCEPT ![ip] = r] /\ UNCHANGED <<up, queue, restoring, until, now>>
        /\ \E q \in {"promote", "queue"} : Begin("checker", q, ip, d)
    BY <1>1 DEF CheckerBlock
  <2>2. r.state = "blocked" /\ r.expire = now + d
    BY <2>0, RowFacts
  <2> HIDE DEF r
  <2>3. row'[ip].state = "blocked" /\ row'[ip].expire = now + d
        /\ \A i \in IPs \ {ip} : row'[i] = row[i]
    BY <1>0, <2>1, <2>2
  <2>4. PICK q \in {"promote", "queue"} : Begin("checker", q, ip, d)
    BY <2>1
  <2>5. /\ Moves("checker", ip) /\ Owns("checker", ip)'
        /\ tasks'["checker"].phase = q /\ tasks'["checker"].dur = d /\ tasks'["checker"].at = now
        /\ Clear(ip)' => Only("checker", ip)
    BY <1>0, <1>a, <2>0, <2>1, <2>3, <2>4
  <2>6. RowOK(ip)' /\ TaskOK("checker")'
    BY <1>0, <2>0, <2>1, <2>3, <2>5 DEF RowOK, TaskOK, Promoting
  <2>7. Claims("checker", ip)'
    BY <2>0, <2>1, <2>3, <2>5 DEF Claims, Even, CheckerClaim
  <2> QED
    BY <2>5, <2>6, <2>7, WriterStep
<1>2. CASE CheckerUnblock(ip)
  <2>1. /\ row' = [row EXCEPT ![ip] = UnblockedRow]
        /\ UNCHANGED <<up, queue, restoring, until, now>>
        /\ Begin("checker", "queue", ip, 0)
    BY <1>2 DEF CheckerUnblock
  <2>2. row'[ip].state = "unblocked" /\ \A i \in IPs \ {ip} : row'[i] = row[i]
    BY <1>0, <2>1, RowFacts
  <2>3. /\ Moves("checker", ip) /\ Owns("checker", ip)'
        /\ tasks'["checker"].phase = "queue" /\ tasks'["checker"].dur = 0
        /\ tasks'["checker"].at = now /\ (Clear(ip)' => Only("checker", ip))
    BY <1>0, <1>a, <2>1, <2>2
  <2>4. RowOK(ip)' /\ TaskOK("checker")'
    BY <1>0, <2>1, <2>2, <2>3 DEF RowOK, TaskOK, Promoting
  <2>5. Claims("checker", ip)'
    BY <2>1, <2>2, <2>3 DEF Claims, Even, CheckerClaim
  <2> QED
    BY <2>3, <2>4, <2>5, WriterStep
<1>3. ASSUME NEW w \in {"reload", "peer"}, NEW p \in {"list", "queue"}, NEW d \in Nat,
             Begin(w, p, ip, d), UNCHANGED <<up, row, queue, restoring, until, now>>,
             w = "reload" => p = "list" /\ d = 0,
             w = "peer" => p = "queue" /\ d = BadActorDuration
      PROVE  ReplicaInv'
  <2>a. /\ w \in Writers /\ p \in Phases \ {"idle"}
        /\ \A i \in IPs \ {ip} : row'[i] = row[i]
        /\ until' \in [Backends -> [IPs -> Nat]]
        /\ \A b \in Backends, i \in IPs \ {ip} : until'[b][i] = until[b][i]
    BY <1>0, <1>3
  <2>1. /\ Moves(w, ip) /\ Owns(w, ip)' /\ tasks'[w].phase = p /\ tasks'[w].dur = d
        /\ tasks'[w].at = now /\ (Clear(ip)' => Clear(ip) /\ Only(w, ip))
        /\ \A v \in Writers : Owns(v, ip) /\ Clear(ip)' => FALSE
    BY <1>3, <1>a, <2>a
  <2>b. up
    BY <2>1 DEF Moves
  <2>2. RowOK(ip)' /\ TaskOK(w)'
    BY <1>0, <1>3, <2>1 DEF RowOK, TaskOK
  <2>3. Clear(ip)' => Holds(ip)
    BY <1>0, <2>1, <2>b DEF IpOK, Even
  <2>4. Clear(ip)' => Holds(ip)'
    BY <1>3, <2>3 DEF Holds
  <2>5. Clear(ip)' => Claims(w, ip)'
    BY <1>3, <2>1, <2>4 DEF Claims, ReloadClaim, PeerClaim
  <2> QED
    BY <2>1, <2>2, <2>5, WriterStep
<1>4. CASE ReloadGood(ip)
  BY <1>3, <1>4 DEF ReloadGood, tables
<1>5. CASE PeerPromote(ip)
  BY <1>0, <1>3, <1>5 DEF PeerPromote
<1>6. CASE ApiUnblock(ip)
  <2>1. /\ until' = [b \in Backends |-> [until[b] EXCEPT ![ip] = 0]]
        /\ UNCHANGED <<up, row, queue, restoring, now>> /\ Begin("api", "bad", ip, 0)
    BY <1>6 DEF ApiUnblock, tables
  <2>2. /\ until' \in [Backends -> [IPs -> Nat]]
        /\ \A b \in Backends, i \in IPs \ {ip} : until'[b][i] = until[b][i]
    BY <1>0, <2>1
  <2>3. /\ Moves("api", ip) /\ Owns("api", ip)' /\ tasks'["api"].phase = "bad"
        /\ tasks'["api"].at = now /\ (Clear(ip)' => Only("api", ip))
    BY <1>0, <1>a, <2>1, <2>2
  <2>4. RowOK(ip)' /\ TaskOK("api")'
    BY <1>0, <2>1, <2>3 DEF RowOK, TaskOK
  <2>5. Claims("api", ip)'
    BY <2>3 DEF Claims, Even
  <2> QED
    BY <2>3, <2>4, <2>5, WriterStep
<1> QED
  BY <1>1, <1>2, <1>4, <1>5, <1>6

\* A writer goes on with its task, or is done with it.
LEMMA GoesOn ==
  ASSUME DatabaseInv, ReplicaInv, NEW w \in Writers, tasks[w].phase # "idle",
         NEW ip \in IPs, ip = tasks[w].ip,
         Finish(w) \/ \E p \in Phases : Goto(w, p),
         UNCHANGED <<up, now, restoring, until, doubt>>,
         \A i \in IPs \ {ip} : row'[i] = row[i],
         queue' = queue \/ \E c \in BackendCommands : c.ip = ip /\ queue' = Append(queue, c)
  PROVE  /\ Moves(w, ip) /\ Owns(w, ip) /\ up
         /\ Clear(ip)' =>
              /\ Clear(ip) /\ Only(w, ip)
              /\ \A i \in 1 .. Len(restoring) : restoring[i].ip # ip
<1>0. TypeOK /\ PlacesOK /\ CommandsOK /\ DownOK
  BY DEF DatabaseInv, ReplicaInv
<1>1. up /\ until \in [Backends -> [IPs -> Nat]]
  BY <1>0 DEF DownOK, CommandsOK
<1>2. \A i \in IPs : Clear(i)' <=> Clear(i)
  BY DEF Clear
<1>3. /\ tasks' \in [Writers -> Tasks] /\ \A v \in Writers \ {w} : tasks'[v] = tasks[v]
      /\ tasks'[w].phase = "idle" \/ tasks'[w].ip = ip
  BY <1>0, GotoFacts, FinishFacts
<1>4. Owns(w, ip)
  BY DEF Owns
<1>5. Clear(ip) => Only(w, ip) /\ \A i \in 1 .. Len(restoring) : restoring[i].ip # ip
  BY <1>4, OwnerOnly
<1>6. Moves(w, ip)
  BY <1>1, <1>2, <1>3 DEF Moves
<1> QED
  BY <1>1, <1>2, <1>4, <1>5, <1>6

\* The commands of the checker, the reload and the peer.
LEMMA CommandStep ==
  ASSUME DatabaseInv, ReplicaInv, CheckerCommand \/ \E w \in Writers : QueueLast(w)
  PROVE  ReplicaInv'
<1>0. /\ TypeOK /\ PlacesOK /\ now \in Nat /\ row \in [IPs -> Rows] /\ BadActorDuration \in Nat
      /\ BadActorDuration # 0 /\ queue \in Seq(BackendCommands)
      /\ \A w \in Writers : tasks[w] \in Tasks
  <2>1. TypeOK /\ PlacesOK /\ CommandsOK
    BY DEF DatabaseInv, ReplicaInv
  <2>2. now \in Nat /\ row \in [IPs -> Rows] /\ \A w \in Writers : tasks[w] \in Tasks
    BY <2>1 DEF TypeOK
  <2>3. queue \in Seq(BackendCommands)
    BY <2>1 DEF CommandsOK
  <2>4. BadActorDuration \in Nat /\ BadActorDuration # 0
    BY LifetimeFacts
  <2> QED
    BY <2>1, <2>2, <2>3, <2>4
<1>1. CASE CheckerCommand
  <2>2. PICK ip \in IPs : ip = tasks["checker"].ip
    BY <1>0, <1>1 DEF PlacesOK, Writers, CheckerCommand
  <2> DEFINE c == Block(ip, BadActorDuration)
  <2>1. /\ tasks["checker"].phase = "command" /\ Goto("checker", "long")
        /\ queue' = Append(queue, c)
        /\ UNCHANGED <<up, row, restoring, until, now, doubt>>
    BY <1>1, <2>2 DEF CheckerCommand, tables
  <2>3. c \in BackendCommands /\ c.ip = ip /\ IsBlock(c, ip) /\ c.dur = BadActorDuration
    BY <1>0, <2>2 DEF BackendCommands, Block, IsBlock
  <2>4. /\ Moves("checker", ip)
        /\ Clear(ip)' => Clear(ip) /\ Only("checker", ip)
    BY <2>1, <2>2, <2>3, GoesOn DEF Writers, Phases
  <2>5. /\ tasks'["checker"].phase = "long" /\ tasks'["checker"].ip = ip
        /\ tasks'["checker"].dur = tasks["checker"].dur
        /\ tasks'["checker"].at = tasks["checker"].at
    BY <1>0, <2>1, <2>2, GotoKeeps DEF Writers, Phases
  <2>6. TaskOK("checker") /\ RowOK(ip) /\ IpOK(ip)
    BY <2>2 DEF ReplicaInv, Writers
  <2>7. TaskOK("checker")' /\ RowOK(ip)'
    BY <2>1, <2>5, <2>6 DEF TaskOK, RowOK, Promoting
  <2>8. /\ tasks["checker"].at \in Nat /\ tasks["checker"].at <= now
        /\ LifetimeOf(BadActorDuration) \in Nat
        /\ LifetimeOf(BadActorDuration) >= BadActorDuration
    BY <1>0, <2>6, LifetimeFacts DEF Tasks, TaskOK, Writers
  <2>9. Covers(c, now, ip, tasks["checker"].at + BadActorDuration)
    BY <1>0, <2>3, <2>8 DEF Covers
  <2> HIDE DEF c
  <2>10. Ends(queue', until, now, ip, tasks["checker"].at + BadActorDuration)
    BY <1>0, <2>1, <2>3, <2>9, AppendDecides
  <2>11. \A e : Ends(queue, until, now, ip, e) => Ends(queue', until, now, ip, e)
    BY <1>0, <2>1, <2>3, AppendKeeps DEF IsBlock, IsUnblock
  <2>12. Clear(ip)' => CheckerClaim(ip)'
    <3> SUFFICES ASSUME Clear(ip)'
                 PROVE  CheckerClaim(ip)'
      OBVIOUS
    <3>1. CheckerClaim(ip) /\ Owns("checker", ip)
      BY <2>1, <2>2, <2>4, <2>6 DEF IpOK, Owns
    <3> QED
      BY <2>1, <2>5, <2>10, <2>11, <3>1 DEF CheckerClaim
  <2>13. Clear(ip)' => Claims("checker", ip)'
    BY <2>5, <2>12 DEF Claims, Even, Owns
  <2> QED
    BY <2>2, <2>4, <2>7, <2>13, WriterStep DEF Writers
<1>2. ASSUME NEW w \in Writers, QueueLast(w)
      PROVE  ReplicaInv'
  <2>2. PICK ip \in IPs : ip = tasks[w].ip
    BY <1>0, <1>2 DEF PlacesOK, QueueLast
  <2> DEFINE d == tasks[w].dur
             c == IF d > 0 THEN Block(ip, d) ELSE Unblock(ip)
  <2>1. /\ tasks[w].phase = "queue" /\ queue' = Append(queue, c)
        /\ IF w = "peer" THEN Goto(w, "write") ELSE Finish(w)
        /\ UNCHANGED <<up, row, restoring, until, now, doubt>>
    BY <1>2, <2>2 DEF QueueLast, tables
  <2>a. d \in Nat /\ w # "api"
    BY <1>0, <2>1 DEF PlacesOK, Tasks, Removing
  <2>3. /\ c \in BackendCommands /\ c.ip = ip
        /\ d # 0 => IsBlock(c, ip) /\ c.dur = d
        /\ d = 0 => IsUnblock(c, ip)
    BY <2>2, <2>a DEF BackendCommands, Block, Unblock, IsBlock, IsUnblock
  <2>4. /\ Moves(w, ip)
        /\ Clear(ip)' => /\ Clear(ip) /\ Only(w, ip)
                         /\ \A i \in 1 .. Len(restoring) : restoring[i].ip # ip
    BY <2>1, <2>2, <2>3, GoesOn DEF Phases
  <2>5. TaskOK(w) /\ RowOK(ip) /\ IpOK(ip)
    BY <2>2 DEF ReplicaInv
  <2>6. /\ w = "peer" => /\ tasks'[w].phase = "write" /\ tasks'[w].ip = ip
                         /\ tasks'[w].dur = d /\ tasks'[w].at = tasks[w].at
        /\ w # "peer" => tasks'[w] = NoTask
    BY <1>0, <2>1, <2>2, GotoKeeps DEF Phases, Finish, TypeOK
  <2>7. TaskOK(w)' /\ RowOK(ip)'
    BY <1>0, <2>1, <2>5, <2>6 DEF TaskOK, RowOK, NoTask, Promoting
  <2>8. /\ w = "peer" => d = BadActorDuration
        /\ w = "reload" => d = 0
        /\ w = "checker" => d \in Durations \cup {0}
    BY <2>1, <2>5 DEF TaskOK
  <2>9. d # 0 => LifetimeOf(d) \in Nat /\ LifetimeOf(d) >= d
    BY <2>a, <2>8, LifetimeFacts DEF Writers
  <2>10. Owns(w, ip) /\ (w = "checker" => tasks["checker"].dur = d)
    BY <2>1, <2>2 DEF Owns
  <2> HIDE DEF c, d
  <2>11. d # 0 => \A e \in Nat : e <= now + d => Ends(queue', until, now, ip, e)
    <3> SUFFICES ASSUME d # 0, NEW e \in Nat, e <= now + d
                 PROVE  Ends(queue', until, now, ip, e)
      OBVIOUS
    <3>1. Covers(c, now, ip, e)
      BY <1>0, <2>a, <2>3, <2>9 DEF Covers
    <3> QED
      BY <1>0, <2>1, <2>3, <3>1, AppendDecides
  <2>12. d # 0 => \A e : Ends(queue, until, now, ip, e) => Ends(queue', until, now, ip, e)
    BY <1>0, <2>1, <2>3, AppendKeeps DEF IsBlock, IsUnblock
  <2>13. d = 0 => Freed(queue', until, now, ip)
    BY <1>0, <2>1, <2>3, AppendDecides
  <2>14. CASE w = "peer"
    <3>1. Clear(ip)' => PeerClaim(ip)'
      BY <1>0, <2>1, <2>8, <2>11, <2>14 DEF PeerClaim
    <3>2. ~Even(w, ip)'
      BY <2>6, <2>14 DEF Even, Owns
    <3> QED
      BY <2>2, <2>4, <2>7, <2>14, <3>1, <3>2, WriterStep DEF Claims
  <2>15. CASE w # "peer"
    <3>1. ~Owns(w, ip)'
      BY <2>6, <2>15, NoTaskFacts DEF Owns
    <3>2. /\ Clear(ip)' => CheckerClaim(ip) /\ ReloadClaim(ip)
          /\ w \in {"checker", "reload"}
      BY <2>a, <2>4, <2>5, <2>15 DEF IpOK, Writers
    <3>3. ASSUME Clear(ip)'
          PROVE  Holds(ip)'
      <4>1. CASE d = 0
        <5>1. row[ip].state # "blocked"
          BY <2>1, <2>8, <2>10, <3>2, <3>3, <4>1 DEF CheckerClaim, ReloadClaim
        <5> QED
          BY <2>1, <2>4, <2>13, <3>3, <4>1, <5>1 DEF Holds, IsBlock
      <4>2. CASE d # 0
        <5>1. /\ row[ip].state # "unblocked" /\ row[ip].expire \in Nat
              /\ row[ip].state = "blocked" /\ row[ip].expire > now =>
                   \/ row[ip].expire <= now + d
                   \/ Ends(queue, until, now, ip, row[ip].expire)
          BY <1>0, <2>2, <2>8, <2>10, <3>2, <3>3, <4>2 DEF CheckerClaim, Rows
        <5> QED
          BY <2>1, <2>4, <2>11, <2>12, <3>3, <4>2, <5>1 DEF Holds, IsUnblock
      <4> QED
        BY <4>1, <4>2
    <3> QED
      BY <2>2, <2>4, <2>7, <2>15, <3>1, <3>3, WriterStep DEF Claims, CheckerClaim, ReloadClaim
  <2> QED
    BY <2>14, <2>15
<1> QED
  BY <1>1, <1>2

\* The row of a long block, of a good actor that a reload found, and of a bad actor from a
\* peer.
LEMMA RowStep ==
  ASSUME DatabaseInv, ReplicaInv, CheckerLong \/ ReloadMark \/ PeerWrite
  PROVE  ReplicaInv'
<1>0. /\ TypeOK /\ PlacesOK /\ now \in Nat /\ row \in [IPs -> Rows]
      /\ BadActorDuration \in Nat /\ BadActorDuration # 0
      /\ BadActorDuration <= Longest /\ Longest \in Nat
      /\ \A w \in Writers : tasks[w] \in Tasks
  <2>1. TypeOK /\ PlacesOK
    BY DEF DatabaseInv
  <2>2. now \in Nat /\ row \in [IPs -> Rows] /\ \A w \in Writers : tasks[w] \in Tasks
    BY <2>1 DEF TypeOK
  <2> QED
    BY <2>1, <2>2, LifetimeFacts
<1>1. CASE CheckerLong
  <2>1. PICK ip \in IPs : ip = tasks["checker"].ip
    BY <1>0, <1>1 DEF PlacesOK, Writers, CheckerLong
  <2> DEFINE at == tasks["checker"].at
             r == BlockedRow(at + BadActorDuration, "bad-actor")
  <2>2. /\ tasks["checker"].phase = "long" /\ Goto("checker", "queue")
        /\ row' = [row EXCEPT ![ip] = r] /\ UNCHANGED <<up, queue, restoring, until, now, doubt>>
    BY <1>1, <2>1 DEF CheckerLong
  <2>3. TaskOK("checker") /\ IpOK(ip)
    BY DEF ReplicaInv, Writers
  <2>4. at \in Nat /\ at <= now /\ at + BadActorDuration \in Nat
    BY <1>0, <2>3 DEF TaskOK, Tasks, Writers
  <2>5. r.state = "blocked" /\ r.expire = at + BadActorDuration
    BY <2>4, RowFacts
  <2> HIDE DEF r
  <2>6. /\ row'[ip].state = "blocked" /\ row'[ip].expire = at + BadActorDuration
        /\ \A i \in IPs \ {ip} : row'[i] = row[i]
    BY <1>0, <2>2, <2>5
  <2>7. /\ tasks'["checker"].phase = "queue" /\ tasks'["checker"].ip = ip
        /\ tasks'["checker"].dur = tasks["checker"].dur /\ tasks'["checker"].at = at
    BY <1>0, <2>1, <2>2, GotoKeeps DEF Writers, Phases
  <2>8. /\ Moves("checker", ip) /\ Owns("checker", ip)
        /\ Clear(ip)' => Clear(ip) /\ Only("checker", ip)
    BY <2>1, <2>2, <2>6, GoesOn DEF Writers, Phases
  <2>9. RowOK(ip)' /\ TaskOK("checker")'
    BY <1>0, <2>2, <2>3, <2>4, <2>6, <2>7 DEF RowOK, TaskOK, Promoting
  <2>10. tasks["checker"].dur # 0
    BY <2>2, <2>3, LifetimeFacts DEF TaskOK, Promoting
  <2>11. Clear(ip)' => Ends(queue, until, now, ip, at + BadActorDuration)
    BY <2>2, <2>3, <2>8 DEF IpOK, CheckerClaim
  <2>12. Clear(ip)' => CheckerClaim(ip)'
    BY <2>2, <2>6, <2>7, <2>10, <2>11 DEF CheckerClaim
  <2>13. ~Even("checker", ip)'
    BY <2>7 DEF Even, Owns
  <2> QED
    BY <2>8, <2>9, <2>12, <2>13, WriterStep DEF Claims, Writers
<1>2. CASE ReloadMark
  <2>1. PICK ip \in IPs : ip = tasks["reload"].ip
    BY <1>0, <1>2 DEF PlacesOK, Writers, ReloadMark
  <2>2. /\ tasks["reload"].phase = "mark" /\ Goto("reload", "queue")
        /\ row' = [row EXCEPT ![ip] = UnblockedRow]
        /\ UNCHANGED <<up, queue, restoring, until, now, doubt>>
    BY <1>2, <2>1 DEF ReloadMark
  <2>3. row'[ip].state = "unblocked" /\ \A i \in IPs \ {ip} : row'[i] = row[i]
    BY <1>0, <2>2, RowFacts
  <2>4. /\ tasks'["reload"].phase = "queue" /\ tasks'["reload"].ip = ip
        /\ tasks'["reload"].dur = tasks["reload"].dur
        /\ tasks'["reload"].at = tasks["reload"].at
    BY <1>0, <2>1, <2>2, GotoKeeps DEF Writers, Phases
  <2>5. Moves("reload", ip) /\ (Clear(ip)' => Only("reload", ip))
    BY <2>1, <2>2, <2>3, GoesOn DEF Writers, Phases
  <2>6. TaskOK("reload")
    BY DEF ReplicaInv, Writers
  <2>7. RowOK(ip)' /\ TaskOK("reload")'
    BY <2>2, <2>3, <2>4, <2>6 DEF RowOK, TaskOK
  <2>8. ReloadClaim(ip)' /\ ~Even("reload", ip)'
    BY <2>3, <2>4 DEF ReloadClaim, Even, Owns
  <2> QED
    BY <2>5, <2>7, <2>8, WriterStep DEF Claims, Writers
<1>3. CASE PeerWrite
  <2>1. PICK ip \in IPs : ip = tasks["peer"].ip
    BY <1>0, <1>3 DEF PlacesOK, Writers, PeerWrite
  <2> DEFINE r == BlockedRow(now + BadActorDuration, "bad-actor")
  <2>2. /\ tasks["peer"].phase = "write" /\ Finish("peer")
        /\ row' = [row EXCEPT ![ip] = r] /\ UNCHANGED <<up, queue, restoring, until, now, doubt>>
    BY <1>3, <2>1 DEF PeerWrite
  <2>3. now + BadActorDuration \in Nat
    BY <1>0
  <2>4. r.state = "blocked" /\ r.expire = now + BadActorDuration
    BY <2>3, RowFacts
  <2> HIDE DEF r
  <2>5. /\ row'[ip].state = "blocked" /\ row'[ip].expire = now + BadActorDuration
        /\ \A i \in IPs \ {ip} : row'[i] = row[i]
    BY <1>0, <2>2, <2>4
  <2>6. tasks'["peer"] = NoTask
    BY <1>0, <2>2 DEF Finish, TypeOK, Writers
  <2>7. /\ Moves("peer", ip) /\ Owns("peer", ip)
        /\ Clear(ip)' => /\ Clear(ip) /\ Only("peer", ip)
                         /\ \A i \in 1 .. Len(restoring) : restoring[i].ip # ip
    BY <2>1, <2>2, <2>5, GoesOn DEF Writers, Phases
  <2>8. RowOK(ip)' /\ TaskOK("peer")'
    BY <1>0, <2>2, <2>5, <2>6 DEF RowOK, TaskOK, NoTask
  <2>9. IpOK(ip)
    BY DEF ReplicaInv
  <2>10. Clear(ip)' => Ends(queue, until, now, ip, now + BadActorDuration)
    BY <2>2, <2>7, <2>9 DEF IpOK, PeerClaim
  <2>11. Clear(ip)' => Holds(ip)'
    BY <2>2, <2>5, <2>7, <2>10 DEF Holds, IsUnblock
  <2>12. PeerClaim(ip)'
    BY <2>6, NoTaskFacts DEF PeerClaim, Owns
  <2> QED
    BY <2>7, <2>8, <2>11, <2>12, WriterStep DEF Claims, Writers
<1> QED
  BY <1>1, <1>2, <1>3

\* The record of a promotion, the list of a reload, and the statements of a removal.
LEMMA QuietStep ==
  ASSUME DatabaseInv, ReplicaInv,
         CheckerPromote \/ ReloadList \/ ApiRemoveBad \/ ApiRemoveScore \/ ApiRemoveRow
  PROVE  ReplicaInv'
<1>0. /\ TypeOK /\ PlacesOK /\ row \in [IPs -> Rows] /\ now \in Nat
  BY DEF DatabaseInv, TypeOK
<1>1. CASE CheckerPromote
  <2>1. PICK ip \in IPs : ip = tasks["checker"].ip
    BY <1>0, <1>1 DEF PlacesOK, Writers, CheckerPromote
  <2>2. /\ tasks["checker"].phase = "promote" /\ Goto("checker", "command")
        /\ UNCHANGED <<up, row, queue, restoring, until, now, doubt>>
    BY <1>1 DEF CheckerPromote
  <2>3. /\ tasks'["checker"].phase = "command" /\ tasks'["checker"].ip = ip
        /\ tasks'["checker"].dur = tasks["checker"].dur
        /\ tasks'["checker"].at = tasks["checker"].at
    BY <1>0, <2>1, <2>2, GotoKeeps DEF Writers, Phases
  <2>4. /\ Moves("checker", ip) /\ Owns("checker", ip)
        /\ Clear(ip)' => Clear(ip) /\ Only("checker", ip)
    BY <2>1, <2>2, GoesOn DEF Writers, Phases
  <2>5. TaskOK("checker") /\ RowOK(ip) /\ IpOK(ip)
    BY DEF ReplicaInv, Writers
  <2>6. TaskOK("checker")' /\ RowOK(ip)'
    BY <2>2, <2>3, <2>5 DEF TaskOK, RowOK, Promoting
  <2>7. Clear(ip)' => CheckerClaim(ip)'
    BY <2>2, <2>3, <2>4, <2>5 DEF IpOK, CheckerClaim
  <2>8. ~Even("checker", ip)'
    BY <2>3 DEF Even, Owns
  <2> QED
    BY <2>4, <2>6, <2>7, <2>8, WriterStep DEF Claims, Writers
<1>2. CASE ReloadList
  <2>1. PICK ip \in IPs : ip = tasks["reload"].ip
    BY <1>0, <1>2 DEF PlacesOK, Writers, ReloadList
  <2>2. /\ tasks["reload"].phase = "list" /\ (Goto("reload", "mark") \/ Finish("reload"))
        /\ UNCHANGED <<up, row, queue, restoring, until, now, doubt>>
    BY <1>2 DEF ReloadList, tables
  <2>3. \/ tasks'["reload"] = NoTask
        \/ /\ tasks'["reload"].phase = "mark" /\ tasks'["reload"].dur = tasks["reload"].dur
           /\ tasks'["reload"].at = tasks["reload"].at
    BY <1>0, <2>2, GotoKeeps DEF Writers, Phases, Finish, TypeOK
  <2>4. /\ Moves("reload", ip) /\ Owns("reload", ip) /\ up
        /\ Clear(ip)' => Clear(ip) /\ Only("reload", ip)
    BY <2>1, <2>2, GoesOn DEF Writers, Phases
  <2>5. TaskOK("reload") /\ RowOK(ip) /\ IpOK(ip)
    BY DEF ReplicaInv, Writers
  <2>6. TaskOK("reload")' /\ RowOK(ip)'
    BY <1>0, <2>2, <2>3, <2>5 DEF TaskOK, RowOK, NoTask
  <2>7. Clear(ip)' => Holds(ip)
    BY <2>2, <2>4, <2>5 DEF IpOK, Only, Even
  <2>8. Clear(ip)' => Holds(ip)'
    BY <2>2, <2>7 DEF Holds
  <2>9. ReloadClaim(ip)'
    BY <2>3, NoTaskFacts DEF ReloadClaim, Owns
  <2> QED
    BY <2>4, <2>6, <2>8, <2>9, WriterStep DEF Claims, Writers
<1>3. CASE ApiRemoveBad \/ ApiRemoveScore \/ ApiRemoveRow
  <2>1. PICK ip \in IPs : ip = tasks["api"].ip
    BY <1>0, <1>3 DEF PlacesOK, Writers, ApiRemoveBad, ApiRemoveScore, ApiRemoveRow
  <2>2. /\ tasks["api"].phase # "idle" /\ UNCHANGED <<up, queue, restoring, until, now, doubt>>
        /\ \/ row' = row /\ \E p \in {"score", "row"} : Goto("api", p)
           \/ row' = [row EXCEPT ![ip] = NoRow] /\ Finish("api")
    BY <1>3, <2>1 DEF ApiRemoveBad, ApiRemoveScore, ApiRemoveRow
  <2>3. /\ \A i \in IPs \ {ip} : row'[i] = row[i]
        /\ \/ /\ row' = row /\ tasks'["api"].phase \in {"score", "row"}
              /\ tasks'["api"].ip = ip /\ tasks'["api"].at = tasks["api"].at
           \/ row'[ip].state = "none" /\ tasks'["api"] = NoTask
    BY <1>0, <2>1, <2>2, GotoKeeps, RowFacts DEF Writers, Phases, Finish, TypeOK
  <2>4. /\ Moves("api", ip) /\ Owns("api", ip)
        /\ Clear(ip)' => Clear(ip) /\ Only("api", ip)
    BY <2>1, <2>2, <2>3, GoesOn DEF Writers, Phases
  <2>5. TaskOK("api") /\ RowOK(ip)
    BY DEF ReplicaInv, Writers
  <2>6. TaskOK("api")' /\ RowOK(ip)'
    BY <1>0, <2>2, <2>3, <2>5 DEF TaskOK, RowOK, NoTask
  <2>7. Even("api", ip)' => Holds(ip)'
    BY <2>3 DEF Even, Owns, Holds
  <2> QED
    BY <2>4, <2>6, <2>7, WriterStep DEF Claims, Writers
<1> QED
  BY <1>1, <1>2, <1>3

(***************************************************************************)
(* The backends follow the database: time, the queue and crashes           *)
(***************************************************************************)

\* Steps in which no writer takes part: the clean-up, a command that runs, and the clock.
LEMMA AmbientStep ==
  ASSUME DatabaseInv, DatabaseInv', ReplicaInv,
         CleanupStart \/ CleanupStatement \/ RunCommand \/ Tick \/ UNCHANGED vars
  PROVE  ReplicaInv'
<1>0. /\ TypeOK /\ PlacesOK /\ CommandsOK /\ DownOK /\ now \in Nat /\ now' \in Nat
      /\ Longest \in Nat
  BY LifetimeFacts DEF DatabaseInv, TypeOK, ReplicaInv
<1>a. row \in [IPs -> Rows] /\ \A w \in Writers : tasks[w] \in Tasks
  BY <1>0 DEF TypeOK
<1>b. until \in [Backends -> [IPs -> Nat]] /\ queue \in Seq(BackendCommands)
  BY <1>0 DEF CommandsOK
<1>1. /\ UNCHANGED <<up, tasks, restoring, doubt>>
      /\ now' = now \/ (now' = now + 1 /\ tasks["peer"].phase # "write")
      /\ \A i \in IPs : row'[i] = row[i] \/ row'[i].state = "none"
  <2>1. CASE CleanupStart \/ RunCommand \/ Tick \/ UNCHANGED vars
    BY <2>1 DEF CleanupStart, RunCommand, Tick, vars, tables, memory
  <2>2. CASE CleanupStatement
    <3>1. row' = row \/ \E S : row' = [ip \in IPs |-> IF ip \in S THEN NoRow ELSE row[ip]]
      BY <2>2 DEF CleanupStatement, DropRows, DropScores
    <3>2. \A i \in IPs : row'[i] = row[i] \/ row'[i].state = "none"
      BY <3>1, RowFacts
    <3> QED
      BY <2>2, <3>2 DEF CleanupStatement, memory
  <2> QED
    BY <2>1, <2>2
<1>2. /\ CommandsOK' /\ (~up => queue' = <<>>)
      /\ \A i \in IPs :
           /\ \A e \in Nat : Ends(queue, until, now, i, e) => Ends(queue', until', now', i, e)
           /\ Freed(queue, until, now, i) => Freed(queue', until', now', i)
  <2>1. CASE RunCommand
    <3>1. /\ queue # <<>> /\ queue' = Tail(queue) /\ now' = now /\ restoring' = restoring /\ up
          /\ until' = [b \in Backends |-> [until[b] EXCEPT ![Head(queue).ip] =
                         IF Head(queue).kind = "unblock" THEN 0
                         ELSE Later(@, now + LifetimeOf(Head(queue).dur))]]
      BY <2>1 DEF RunCommand
    <3>2. queue' \in Seq(BackendCommands) /\ Head(queue) = queue[1] /\ queue[1] \in BackendCommands
      BY <1>b, <3>1, TailFacts
    <3>3. queue[1].ip \in IPs /\ LifetimeOf(queue[1].dur) \in Nat
      BY <3>2, LifetimeFacts DEF BackendCommands
    <3>4. \A t \in Nat : Later(t, now + LifetimeOf(queue[1].dur)) \in Nat
      BY <1>0, <3>3 DEF Later
    <3>5. until' \in [Backends -> [IPs -> Nat]]
      BY <1>b, <3>1, <3>2, <3>3, <3>4
    <3>6. \A b \in Backends, i \in IPs :
            until'[b][i] = IF queue[1].ip # i THEN until[b][i]
                           ELSE IF queue[1].kind = "unblock" THEN 0
                           ELSE Later(until[b][i], now + LifetimeOf(queue[1].dur))
      BY <1>b, <3>1, <3>2, <3>3
    <3>7. \A i \in IPs :
            /\ \A e \in Nat : Ends(queue, until, now, i, e) => Ends(queue', until', now', i, e)
            /\ Freed(queue, until, now, i) => Freed(queue', until', now', i)
      BY <1>0, <1>b, <3>1, <3>5, <3>6, RunKeeps
    <3> QED
      BY <1>0, <3>1, <3>2, <3>5, <3>7 DEF CommandsOK
  <2>2. CASE CleanupStart \/ CleanupStatement \/ Tick \/ UNCHANGED vars
    <3>1. UNCHANGED <<queue, until, restoring>>
      BY <2>2 DEF CleanupStart, CleanupStatement, Tick, vars, memory
    <3>2. now <= now'
      BY <1>0, <1>1
    <3>3. \A i \in IPs :
            /\ \A e \in Nat : Ends(queue, until, now, i, e) => Ends(queue, until, now', i, e)
            /\ Freed(queue, until, now, i) => Freed(queue, until, now', i)
      BY <1>0, <1>b, <3>2, LaterKeeps
    <3> QED
      BY <1>0, <3>1, <3>3 DEF CommandsOK, DownOK
  <2> QED
    BY <2>1, <2>2
<1>3. DownOK'
  BY <1>0, <1>1, <1>2 DEF DownOK
<1>4. \A w \in Writers : TaskOK(w)'
  <2> TAKE w \in Writers
  <2>1. TaskOK(w) /\ tasks[w].at \in Nat /\ now <= now'
    BY <1>0, <1>1, <1>a DEF ReplicaInv, Tasks
  <2> QED
    BY <1>0, <1>1, <2>1 DEF TaskOK
<1>5. ASSUME NEW i \in IPs
      PROVE  RowOK(i)' /\ IpOK(i)'
  <2>1. RowOK(i) /\ row[i].expire \in Nat
    BY <1>a DEF ReplicaInv, Rows
  <2>2. RowOK(i)'
    BY <1>0, <1>1, <2>1 DEF RowOK
  <2>3. /\ \A w \in Writers : tasks'[w] = tasks[w]
        /\ \A w \in Writers : Even(w, i)' => Even(w, i)
        /\ Clear(i)' => Clear(i)
    BY <1>1 DEF Even, Owns, Clear
  <2>4. IpOK(i)'
    BY <1>0, <1>1, <1>2, <2>3, SteadyStep
  <2> QED
    BY <2>2, <2>4
<1> QED
  BY <1>2, <1>3, <1>4, <1>5 DEF ReplicaInv

\* The restore goroutine puts a command into the queue.
LEMMA FeedStep ==
  ASSUME DatabaseInv, ReplicaInv, RestoreFeed
  PROVE  ReplicaInv'
<1> DEFINE c == Head(restoring)
<1>0. CommandsOK /\ DownOK /\ now \in Nat /\ row \in [IPs -> Rows]
  BY DEF DatabaseInv, TypeOK, ReplicaInv
<1>1. /\ restoring # <<>> /\ queue' = Append(queue, c) /\ restoring' = Tail(restoring)
      /\ UNCHANGED <<up, row, tasks, until, now, doubt>>
  BY DEF RestoreFeed, tables
<1>2. /\ queue \in Seq(BackendCommands) /\ restoring \in Seq(BackendCommands)
      /\ Tail(restoring) \in Seq(BackendCommands) /\ c \in BackendCommands /\ c = restoring[1]
      /\ Len(Tail(restoring)) = Len(restoring) - 1 /\ Len(restoring) \in Nat \ {0}
      /\ \A k \in 1 .. Len(Tail(restoring)) : Tail(restoring)[k] = restoring[k + 1]
      /\ Append(queue, c) \in Seq(BackendCommands)
  BY <1>0, <1>1, TailFacts, AppendFacts DEF CommandsOK
<1> HIDE DEF c
<1>3. \A k \in 1 .. Len(restoring') :
        k + 1 \in 1 .. Len(restoring) /\ restoring'[k] = restoring[k + 1]
  BY <1>1, <1>2
<1>4. \A k \in 1 .. Len(restoring) :
        \/ k = 1
        \/ k - 1 \in 1 .. Len(restoring') /\ restoring'[k - 1] = restoring[k]
  BY <1>1, <1>2
<1>5. 1 \in 1 .. Len(restoring)
  BY <1>2
<1>6. ASSUME NEW i \in IPs, Clear(i)'
      PROVE  IpOK(i)'
  <2>1. IpOK(i) /\ Clear(i)
    BY <1>1, <1>6 DEF ReplicaInv, Clear
  <2>2. ASSUME NEW w \in Writers, Owns(w, i)'
        PROVE  Only(w, i)' /\ c.ip # i
    <3>1. Owns(w, i) /\ Only(w, i)
      BY <1>1, <2>1, <2>2 DEF IpOK, Owns
    <3>2. \A k \in 1 .. Len(restoring) : restoring[k].ip # i
      BY <3>1 DEF Only, Commands
    <3>3. i \notin Commands(restoring')
      BY <1>3, <3>2 DEF Commands
    <3>4. \A v \in Writers \ {w} : ~Owns(v, i)'
      BY <1>1, <3>1 DEF Only, Owns
    <3> QED
      BY <1>2, <1>5, <3>2, <3>3, <3>4 DEF Only
  <2>3. /\ c.ip # i \/ IsBlock(c, i) =>
             \A e : Ends(queue, until, now, i, e) => Ends(queue', until, now, i, e)
        /\ c.ip # i \/ IsUnblock(c, i) =>
             (Freed(queue, until, now, i) => Freed(queue', until, now, i))
        /\ \A e : Covers(c, now, i, e) => Ends(queue', until, now, i, e)
        /\ IsUnblock(c, i) => Freed(queue', until, now, i)
    BY <1>1, <1>2, AppendKeeps, AppendDecides DEF IsBlock, IsUnblock
  <2>4. CheckerClaim(i)' /\ ReloadClaim(i)' /\ PeerClaim(i)'
    <3>1. CheckerClaim(i) /\ ReloadClaim(i) /\ PeerClaim(i)
      BY <2>1 DEF IpOK
    <3>2. CheckerClaim(i)'
      BY <1>1, <2>2, <2>3, <3>1 DEF CheckerClaim, Owns, Writers
    <3>3. ReloadClaim(i)'
      BY <1>1, <3>1 DEF ReloadClaim, Owns
    <3>4. PeerClaim(i)'
      BY <1>1, <2>2, <2>3, <3>1 DEF PeerClaim, Owns, Writers
    <3> QED
      BY <3>2, <3>3, <3>4
  <2>5. ASSUME up', \A w \in Writers : Even(w, i)'
        PROVE  Holds(i)'
    <3>1. Holds(i)
      BY <1>1, <2>1, <2>5 DEF IpOK, Even, Owns
    <3>2. c.kind \in {"block", "unblock"}
      BY <1>2 DEF BackendCommands
    <3>3. CASE row[i].state = "blocked" /\ row[i].expire > now
      <4>1. \A k \in 1 .. Len(restoring) : ~IsUnblock(restoring[k], i)
        BY <3>1, <3>3 DEF Holds
      <4>2. \A k \in 1 .. Len(restoring') : ~IsUnblock(restoring'[k], i)
        BY <1>3, <4>1
      <4>3. c.ip # i \/ IsBlock(c, i)
        BY <1>2, <1>5, <3>2, <4>1 DEF IsBlock, IsUnblock
      <4>4. \/ Ends(queue', until, now, i, row[i].expire)
            \/ \E k \in 1 .. Len(restoring') : Covers(restoring'[k], now, i, row[i].expire)
        BY <1>2, <1>4, <2>3, <3>1, <3>3, <4>3 DEF Holds
      <4> QED
        BY <1>1, <3>3, <4>2, <4>4 DEF Holds
    <3>4. CASE row[i].state = "unblocked"
      <4>1. \A k \in 1 .. Len(restoring) : ~IsBlock(restoring[k], i)
        BY <3>1, <3>4 DEF Holds
      <4>2. \A k \in 1 .. Len(restoring') : ~IsBlock(restoring'[k], i)
        BY <1>3, <4>1
      <4>3. c.ip # i \/ IsUnblock(c, i)
        BY <1>2, <1>5, <3>2, <4>1 DEF IsBlock, IsUnblock
      <4>4. \/ Freed(queue', until, now, i)
            \/ \E k \in 1 .. Len(restoring') : IsUnblock(restoring'[k], i)
        BY <1>2, <1>4, <2>3, <3>1, <3>4, <4>3 DEF Holds
      <4> QED
        BY <1>1, <3>4, <4>2, <4>4 DEF Holds
    <3> QED
      BY <1>1, <3>3, <3>4 DEF Holds
  <2> QED
    BY <2>2, <2>4, <2>5 DEF IpOK
<1>7. \A i \in IPs : IpOK(i)'
  BY <1>6 DEF IpOK
<1>8. CommandsOK' /\ DownOK'
  BY <1>0, <1>1, <1>2 DEF CommandsOK, DownOK
<1>9. /\ \A w \in Writers : TaskOK(w)'
      /\ \A i \in IPs : RowOK(i)'
  BY <1>1 DEF ReplicaInv, TaskOK, RowOK
<1> QED
  BY <1>7, <1>8, <1>9 DEF ReplicaInv

\* The process is gone, and with it whatever was on its way; a backend restarts meanwhile.
LEMMA CrashStep ==
  ASSUME DatabaseInv, ReplicaInv, Crash \/ \E b \in Backends : BackendRestart(b)
  PROVE  ReplicaInv'
<1>0. TypeOK /\ CommandsOK /\ DownOK /\ now \in Nat
  BY DEF DatabaseInv, TypeOK, ReplicaInv
<1>1. /\ ~up' /\ queue' = <<>> /\ restoring' = <<>> /\ row' = row /\ now' = now
      /\ \A w \in Writers : tasks'[w] = NoTask \/ (tasks'[w] = tasks[w] /\ tasks[w].phase = "idle")
  BY <1>0 DEF Crash, BackendRestart, tables, memory, DownOK
<1>2. CommandsOK'
  <2>1. until' \in [Backends -> [IPs -> Nat]]
    <3>1. until' = until \/ \E b \in Backends : until' = [until EXCEPT ![b] = [ip \in IPs |-> 0]]
      BY DEF Crash, BackendRestart
    <3>2. [ip \in IPs |-> 0] \in [IPs -> Nat]
      OBVIOUS
    <3> QED
      BY <1>0, <3>1, <3>2 DEF CommandsOK
  <2> QED
    BY <1>1, <2>1 DEF CommandsOK
<1>3. \A w \in Writers : tasks'[w].phase = "idle"
  BY <1>1, NoTaskFacts
<1>4. DownOK'
  BY <1>1, <1>3 DEF DownOK
<1>5. \A w \in Writers : TaskOK(w)'
  BY <1>0, <1>1, <1>3 DEF TaskOK, ReplicaInv, NoTask, Promoting
<1>6. \A i \in IPs : RowOK(i)' /\ IpOK(i)'
  BY <1>1, <1>3, DownHolds DEF ReplicaInv, RowOK
<1> QED
  BY <1>2, <1>4, <1>5, <1>6 DEF ReplicaInv

\* The loop over a finite set comes by each of its members and by nothing else.
LEMMA SetToSeqsFacts ==
  ASSUME NEW S, IsFiniteSet(S), NEW s \in SetToSeqs(S)
  PROVE  s \in Seq(S) /\ \A x \in S : \E k \in 1 .. Len(s) : s[k] = x
<1>1. Cardinality(S) \in Nat
  BY FS_CardinalityType
<1>2. /\ s \in [1 .. Cardinality(S) -> S]
      /\ \A i, j \in 1 .. Cardinality(S) : i # j => s[i] # s[j]
  BY DEF SetToSeqs
<1>3. s \in Injection(1 .. Cardinality(S), S)
  BY <1>2 DEF Injection, IsInjective
<1>4. Cardinality(1 .. Cardinality(S)) = Cardinality(S)
  BY <1>1, FS_Interval
<1>5. s \in Surjection(1 .. Cardinality(S), S)
  BY <1>3, <1>4, FS_Injection
<1>6. s \in Seq(S) /\ Len(s) = Cardinality(S)
  BY <1>1, <1>2
<1> QED
  BY <1>5, <1>6 DEF Surjection

\* What a loop over a finite set makes of it is finite.
LEMMA FiniteImage ==
  ASSUME NEW S, IsFiniteSet(S), NEW f
  PROVE  IsFiniteSet({f[x] : x \in S})
<1> DEFINE T == {f[x] : x \in S}
           g == [x \in S |-> f[x]]
<1>1. g \in Surjection(S, T)
  BY DEF Surjection
<1> QED
  BY <1>1, FS_Surjection

\* The smallest table that holds the remaining time holds it.
LEMMA BestFitFacts ==
  ASSUME NEW r \in Nat, r <= Longest
  PROVE  BestFit(r) \in Nat /\ LifetimeOf(BestFit(r)) >= r
<1> DEFINE fits == {d \in TableDurations : r <= d}
<1>1. fits \subseteq Nat /\ fits # {}
  BY LifetimeFacts, PersistenceAssumption
<1>2. \E x \in fits : \A y \in fits : ~(<<y, x>> \in OpToRel(<, Nat))
  BY <1>1, NatLessThanWellFounded, WFMin
<1>3. PICK x \in fits : \A y \in fits : ~(<<y, x>> \in OpToRel(<, Nat))
  BY <1>2
<1>4. \A y \in fits : x <= y
  <2> TAKE y \in fits
  <2>1. x \in Nat /\ y \in Nat
    BY <1>1
  <2>2. ~(y < x)
    BY <1>3, <2>1 DEF OpToRel
  <2> QED
    BY <2>1, <2>2
<1>5. BestFit(r) \in fits
  BY <1>1, <1>4 DEF BestFit
<1> QED
  BY <1>1, <1>5 DEF LifetimeOf

\* restorePersistenceState sends what is missing.
LEMMA RestartStep ==
  ASSUME DatabaseInv, ReplicaInv, Restart
  PROVE  ReplicaInv'
<1>0. /\ TypeOK /\ CommandsOK /\ DownOK /\ now \in Nat /\ row \in [IPs -> Rows]
      /\ Longest \in Nat /\ BadActorDuration \in Nat /\ IsFiniteSet(IPs) /\ bad \subseteq IPs
      /\ until \in [Backends -> [IPs -> Nat]]
  <2>1. TypeOK /\ CommandsOK /\ DownOK
    BY DEF DatabaseInv, ReplicaInv
  <2>2. now \in Nat /\ row \in [IPs -> Rows] /\ bad \subseteq IPs
    BY <2>1 DEF TypeOK
  <2>3. until \in [Backends -> [IPs -> Nat]]
    BY <2>1 DEF CommandsOK
  <2> QED
    BY <2>1, <2>2, <2>3, LifetimeFacts, PersistenceAssumption
<1>1. /\ ~up /\ up' /\ UNCHANGED <<row, tasks, queue, until, now, bad, good>>
      /\ doubt' = (Trusted \X {"trusted"}) \cup (Contested \X {"contested"})
      /\ queue = <<>> /\ \A w \in Writers : tasks[w].phase = "idle"
  BY <1>0 DEF Restart, tables, DownOK
<1>2. PICK absent \in SUBSET IPs :
        \E r \in SetToSeqs(RestoreRows(absent)), p \in SetToSeqs(RestoreRecords) :
          restoring' = r \o p
  BY DEF Restart
<1> DEFINE live(ip) == row[ip].state = "blocked" /\ row[ip].expire > now
           blocks == {ip \in IPs \ good : live(ip) /\ ~KnownBlocked(ip)}
           unblocks == {ip \in IPs \ good : /\ row[ip].state = "unblocked"
                                            /\ KnownBlocked(ip) \/ ip \in absent}
           promoted == {i \in bad : ~KnownBlocked(i)}
           blockOf(ip) == Block(ip, BestFit(row[ip].expire - now))
           longOf(ip) == Block(ip, BadActorDuration)
           R == {blockOf(ip) : ip \in blocks} \cup {Unblock(ip) : ip \in unblocks}
           P == {longOf(ip) : ip \in promoted}
<1>3. PICK r \in SetToSeqs(R), p \in SetToSeqs(P) : restoring' = r \o p
  <2>1. R = RestoreRows(absent) /\ P = RestoreRecords
    BY DEF RestoreRows, RestoreRecords
  <2> HIDE DEF R, P
  <2> QED
    BY <1>2, <2>1
<1>4. IsFiniteSet(R) /\ IsFiniteSet(P)
  <2>1. IsFiniteSet(blocks) /\ IsFiniteSet(unblocks) /\ IsFiniteSet(promoted)
    BY <1>0, FS_Subset
  <2> HIDE DEF blocks, unblocks, promoted
  <2> DEFINE f == [ip \in IPs |-> blockOf(ip)]
             g == [ip \in IPs |-> Unblock(ip)]
             h == [ip \in IPs |-> longOf(ip)]
  <2>2. /\ {f[ip] : ip \in blocks} = {blockOf(ip) : ip \in blocks}
        /\ {g[ip] : ip \in unblocks} = {Unblock(ip) : ip \in unblocks}
        /\ {h[ip] : ip \in promoted} = P
    BY <1>0 DEF blocks, unblocks, promoted
  <2> HIDE DEF f, g, h
  <2>3. /\ IsFiniteSet({f[ip] : ip \in blocks}) /\ IsFiniteSet({g[ip] : ip \in unblocks})
        /\ IsFiniteSet({h[ip] : ip \in promoted})
    BY <2>1, FiniteImage
  <2> QED
    BY <2>2, <2>3, FS_Union
<1>5. \A ip \in blocks :
        /\ BestFit(row[ip].expire - now) \in Nat
        /\ now + LifetimeOf(BestFit(row[ip].expire - now)) >= row[ip].expire
        /\ row[ip].expire \in Nat
  <2> TAKE ip \in blocks
  <2>1. row[ip].expire \in Nat /\ RowOK(ip)
    BY <1>0 DEF Rows, ReplicaInv
  <2> DEFINE left == row[ip].expire - now
  <2>2. left \in Nat /\ left <= Longest
    BY <1>0, <2>1 DEF RowOK
  <2> HIDE DEF left
  <2>3. /\ BestFit(left) \in Nat
        /\ LifetimeOf(BestFit(left)) \in Nat /\ LifetimeOf(BestFit(left)) >= left
    BY <2>2, BestFitFacts, LifetimeFacts
  <2> QED
    BY <1>0, <2>1, <2>3 DEF left
<1>6. R \subseteq BackendCommands /\ P \subseteq BackendCommands
  BY <1>0, <1>5 DEF BackendCommands, Block, Unblock
<1> HIDE DEF R, P
<1>7. /\ r \in Seq(R) /\ p \in Seq(P) /\ Len(r) \in Nat /\ Len(p) \in Nat
      /\ \A x \in R : \E k \in 1 .. Len(r) : r[k] = x
      /\ \A k \in 1 .. Len(r) : r[k] \in R
      /\ \A k \in 1 .. Len(p) : p[k] \in P
  BY <1>4, SetToSeqsFacts
<1>8. r \in Seq(BackendCommands) /\ p \in Seq(BackendCommands)
  BY <1>6, <1>7
<1>9. /\ restoring' \in Seq(BackendCommands) /\ Len(restoring') = Len(r) + Len(p)
      /\ \A k \in 1 .. Len(restoring') : restoring'[k] = IF k <= Len(r) THEN r[k] ELSE p[k - Len(r)]
  BY <1>3, <1>8
<1>10. \A k \in 1 .. Len(restoring') : restoring'[k] \in R \cup P
  <2> TAKE k \in 1 .. Len(restoring')
  <2>1. k <= Len(r) => k \in 1 .. Len(r)
    BY <1>7, <1>9
  <2>2. ~(k <= Len(r)) => k - Len(r) \in 1 .. Len(p)
    BY <1>7, <1>9
  <2> QED
    BY <1>7, <1>9, <2>1, <2>2
<1>11. \A x \in R : \E k \in 1 .. Len(restoring') : restoring'[k] = x
  <2> TAKE x \in R
  <2>1. PICK k \in 1 .. Len(r) : r[k] = x
    BY <1>7
  <2>2. k \in 1 .. Len(restoring') /\ k <= Len(r)
    BY <1>7, <1>9
  <2> QED
    BY <1>9, <2>1, <2>2
<1>12. ASSUME NEW ip \in IPs, Clear(ip)'
       PROVE  Holds(ip)'
  <2>1. ip \notin Trusted /\ ip \notin Contested
    BY <1>1, <1>12 DEF Clear, Causes
  <2>2. ip \notin good
    BY <2>1 DEF Contested
  <2>3. row[ip].expire \in Nat /\ \A b \in Backends : until[b][ip] \in Nat
    BY <1>0 DEF Rows
  <2>4. CASE live(ip)
    <3>1. \A x \in R \cup P : ~IsUnblock(x, ip)
      BY <2>4 DEF R, P, IsUnblock, Block, Unblock
    <3>2. \A k \in 1 .. Len(restoring') : ~IsUnblock(restoring'[k], ip)
      BY <1>10, <3>1
    <3>3. CASE KnownBlocked(ip)
      <4>1. \A b \in Backends : until[b][ip] >= row[ip].expire
        BY <2>1, <2>3, <2>4, <3>3 DEF Trusted
      <4>2. Ends(queue', until', now', ip, row[ip].expire)
        BY <1>1, <4>1 DEF Ends
      <4> QED
        BY <1>1, <2>4, <3>2, <4>2 DEF Holds
    <3>4. CASE ~KnownBlocked(ip)
      <4>1. ip \in blocks /\ blockOf(ip) \in R
        BY <2>2, <2>4, <3>4 DEF R
      <4>2. Covers(blockOf(ip), now, ip, row[ip].expire)
        BY <1>5, <4>1 DEF Covers, IsBlock, Block
      <4>3. \E k \in 1 .. Len(restoring') : restoring'[k] = blockOf(ip)
        BY <1>11, <4>1
      <4>4. \E k \in 1 .. Len(restoring') : Covers(restoring'[k], now, ip, row[ip].expire)
        BY <4>2, <4>3
      <4> QED
        BY <1>1, <2>4, <3>2, <4>4 DEF Holds
    <3> QED
      BY <3>3, <3>4
  <2>5. CASE row[ip].state = "unblocked"
    <3>1. ip \notin bad
      BY <2>1, <2>5 DEF Contested
    <3>2. \A x \in R \cup P : ~IsBlock(x, ip)
      BY <2>5, <3>1 DEF R, P, IsBlock, Block, Unblock
    <3>3. \A k \in 1 .. Len(restoring') : ~IsBlock(restoring'[k], ip)
      BY <1>10, <3>2
    <3>4. CASE KnownBlocked(ip)
      <4>1. Unblock(ip) \in R /\ IsUnblock(Unblock(ip), ip)
        BY <2>2, <2>5, <3>4 DEF R, IsUnblock, Unblock
      <4>2. \E k \in 1 .. Len(restoring') : IsUnblock(restoring'[k], ip)
        BY <1>11, <4>1
      <4> QED
        BY <1>1, <2>5, <3>3, <4>2 DEF Holds
    <3>5. CASE ~KnownBlocked(ip)
      <4>1. Freed(queue', until', now', ip)
        BY <1>0, <1>1, <2>3, <3>5 DEF Freed, KnownBlocked
      <4> QED
        BY <1>1, <2>5, <3>3, <4>1 DEF Holds
    <3> QED
      BY <3>4, <3>5
  <2> QED
    BY <1>1, <2>4, <2>5 DEF Holds
<1>13. \A w \in Writers, ip \in IPs : ~Owns(w, ip)'
  BY <1>1 DEF Owns
<1>14. \A ip \in IPs : CheckerClaim(ip)' /\ ReloadClaim(ip)' /\ PeerClaim(ip)'
  BY <1>13 DEF CheckerClaim, ReloadClaim, PeerClaim, Writers
<1>15. \A ip \in IPs : IpOK(ip)'
  BY <1>12, <1>13, <1>14 DEF IpOK
<1>16. CommandsOK' /\ DownOK'
  BY <1>0, <1>1, <1>9 DEF CommandsOK, DownOK
<1>17. /\ \A w \in Writers : TaskOK(w)'
       /\ \A ip \in IPs : RowOK(ip)'
  BY <1>1 DEF ReplicaInv, TaskOK, RowOK
<1> QED
  BY <1>15, <1>16, <1>17 DEF ReplicaInv

\* Nothing is promised when the database is new.
LEMMA ReplicaInit == PersistenceInit => ReplicaInv
<1> SUFFICES ASSUME PersistenceInit
             PROVE  ReplicaInv
  OBVIOUS
<1>1. /\ up /\ queue = <<>> /\ restoring = <<>> /\ now = 1
      /\ \A w \in Writers : tasks[w] = NoTask
      /\ \A ip \in IPs : row[ip] = NoRow
      /\ until = [b \in Backends |-> [ip \in IPs |-> 0]]
  BY DEF PersistenceInit
<1>2. CommandsOK /\ DownOK
  BY <1>1 DEF CommandsOK, DownOK
<1>3. \A w \in Writers : TaskOK(w)
  BY <1>1 DEF TaskOK, NoTask, Promoting
<1>4. ASSUME NEW ip \in IPs
      PROVE  RowOK(ip) /\ IpOK(ip)
  <2>1. row[ip].state = "none" /\ \A w \in Writers : ~Owns(w, ip)
    BY <1>1, NoTaskFacts, RowFacts DEF Owns
  <2> QED
    BY <2>1 DEF RowOK, IpOK, Holds, CheckerClaim, ReloadClaim, PeerClaim, Writers
<1> QED
  BY <1>2, <1>3, <1>4 DEF ReplicaInv

(***************************************************************************)
(* The theorems                                                            *)
(***************************************************************************)

\* The invariant holds in every state of every run, with crashes and restarts.
THEOREM Invariance == PersistenceSpec => []DatabaseInv
<1>1. ASSUME DatabaseInv, [PersistenceNext]_vars
      PROVE  DatabaseInv'
  BY <1>1, MovesOnly, NothingWritten, BlockStep, PromoteStep, MarkStep, PeerStep, RemoveStep,
     CleanupStep, TickStep DEF PersistenceNext
<1> QED
  BY InitHolds, <1>1, PTL DEF PersistenceSpec

\* Tables and tasks have their types, and PersistenceMutex excludes: of the writers that are
\* between two statements under it there is never more than one.
THEOREM MutexExcludes == PersistenceSpec => []PersistenceTypeOK
<1>1. DatabaseInv => PersistenceTypeOK
  <2> SUFFICES ASSUME DatabaseInv
               PROVE  PersistenceTypeOK
    OBVIOUS
  <2>1. TypeOK /\ PlacesOK
    BY DEF DatabaseInv
  <2>2. /\ \A ip \in IPs : /\ row[ip].state \in {"none", "blocked", "unblocked"}
                           /\ row[ip].expire \in Nat
                           /\ score[ip].n \in Nat
        /\ bad \subseteq IPs /\ good \subseteq IPs
    BY <2>1 DEF TypeOK, Rows, Scores
  <2>3. ASSUME NEW w \in Writers, NEW v \in Writers,
               tasks[w].phase \in Promoting \cup Removing,
               tasks[v].phase \in Promoting \cup Removing
        PROVE  w = v
    BY <2>1, <2>3 DEF PlacesOK, Writers, Promoting, Removing
  <2> QED
    BY <2>2, <2>3 DEF PersistenceTypeOK, Promoting, Removing
<1> QED
  BY Invariance, <1>1, PTL

\* executeBlock promotes an IP only for as many blocks as the threshold asks for, counted
\* since RemoveFromPersistence last removed it, wherever a crash or the clean-up falls.
THEOREM PromotionsAreEarned == PersistenceSpec => []PromotionEarned
<1>1. DatabaseInv => PromotionEarned
  BY DEF DatabaseInv
<1> QED
  BY Invariance, <1>1, PTL

\* runCleanup never takes the record of a bad actor that was promoted here away while the
\* block that came with it is in force, although it does not take PersistenceMutex.
THEOREM RecordsAreKept == PersistenceSpec => []RecordKept
<1>1. DatabaseInv => RecordKept
  BY DEF DatabaseInv
<1> QED
  BY Invariance, <1>1, PTL

\* At rest every backend blocks an IP at least until its row expires, and does not block one
\* whose row says unblocked, unless the IP is in doubt: the commands of executeBlock, reloads,
\* peers and restorePersistenceState make up for every crash, whatever the IPs, backends,
\* durations and tables, as long as no block outlasts the longest table.
THEOREM ReplicaIsFollowed == PersistenceSpec => []ReplicaFollows
<1>1. ASSUME DatabaseInv, DatabaseInv', ReplicaInv, [PersistenceNext]_vars
      PROVE  ReplicaInv'
  BY <1>1, BeginStep, CommandStep, RowStep, QuietStep, AmbientStep, FeedStep, CrashStep,
     RestartStep DEF PersistenceNext
<1>2. DatabaseInv /\ ReplicaInv => ReplicaFollows
  <2> SUFFICES ASSUME DatabaseInv, ReplicaInv, AtRest, NEW b \in Backends, NEW ip \in IPs,
                      \A c \in Causes : <<ip, c>> \notin doubt
               PROVE  /\ row[ip].state = "blocked" /\ row[ip].expire > now =>
                           until[b][ip] >= row[ip].expire
                      /\ row[ip].state = "unblocked" => until[b][ip] <= now
    BY DEF ReplicaFollows
  <2>1. Holds(ip)
    BY DEF ReplicaInv, IpOK, Clear, AtRest, Even, Owns
  <2>2. /\ row[ip].state = "blocked" /\ row[ip].expire > now =>
             Ends(<<>>, until, now, ip, row[ip].expire)
        /\ row[ip].state = "unblocked" => Freed(<<>>, until, now, ip)
    BY <2>1 DEF Holds, AtRest
  <2> QED
    BY <2>2 DEF Ends, Freed
<1> QED
  BY Invariance, ReplicaInit, <1>1, <1>2, PTL DEF PersistenceSpec
=============================================================================
