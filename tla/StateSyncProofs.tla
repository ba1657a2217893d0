--------------------------- MODULE StateSyncProofs ---------------------------
(***************************************************************************)
(* Machine-checked facts about the synchronisation of blocks, for every    *)
(* number of followers, every set of IPs and durations and any number of   *)
(* decisions, rounds, failures and restarts.                               *)
(***************************************************************************)
EXTENDS StateSync, TLAPS

(***************************************************************************)
(* The inductive invariant                                                 *)
(***************************************************************************)

\* A row that could be one of decisions made up to t, of which those to block end at e.
GoodOf(e, t, row) ==
  /\ row.state = "none" => row.expire = 0
  /\ row.state = "blocked" => row.expire \in e
  /\ row.state = "unblocked" => row.expire <= t

\* Rows are such rows in the tables, in the answers on their way and in the file.
RowsGood ==
  \A ip \in IPs :
    /\ \A n \in Nodes : GoodOf(ends[ip], now, rows[n][ip])
    /\ \A f \in Followers : GoodOf(ends[ip], now, rounds[f].answer.merged[ip])
    /\ GoodOf(ends[ip], now, cache.answer.merged[ip])

\* No time is in the future; a watermark is a second that it has passed over itself.
Dated ==
  /\ holes \in [Followers -> [Nodes -> SUBSET Nat]]
  /\ ends \in [IPs -> SUBSET Nat]
  /\ \A n \in Nodes, ip \in IPs :
       own[n][ip].mod <= now /\ (own[n][ip].state = "blocked" => own[n][ip].mod # 0)
  /\ \A f \in Followers :
       /\ last[f] <= now
       /\ last[f] # 0 => \A n \in Nodes : last[f] \in holes[f][n]
       /\ rounds[f].answer.asked <= now
  /\ now # 0
  /\ cache.answer.ts \in cache.answer.asked .. now

\* A round was asked for with the watermark that the follower still has.
RoundsOrdered ==
  \A f \in Followers :
    LET r == rounds[f] IN
    r.phase # "idle" =>
      /\ r.since # 0 => r.since = last[f]
      /\ r.since <= r.answer.asked
      /\ r.phase \in {"store", "apply"} => r.todo = {}
      /\ r.phase = "store" => r.since = 0

\* A row of the decision d, or of a later end that was merged into it.
Covers(row, d) == row.state = "blocked" /\ row.expire >= d.expire

\* A block that a node decided itself and that still runs is in its table.
OwnKept ==
  \A n \in Nodes, ip \in IPs :
    own[n][ip].state = "blocked" /\ own[n][ip].expire > now =>
      Covers(rows[n][ip], own[n][ip]) /\ rows[n][ip].mod >= own[n][ip].mod

\* The answer a to a request with watermark since has every block of the nodes S that was
\* decided between the two and still runs; o are the decisions and t is the time.
HoldsOf(o, t, a, S, since) ==
  \A n \in S, ip \in IPs :
    /\ o[n][ip].state = "blocked" /\ o[n][ip].expire > t
    /\ o[n][ip].mod > since /\ o[n][ip].mod < a.asked
    => Covers(a.merged[ip], o[n][ip])

\* The nodes that have been asked for their part of an answer, and sent it.
Reached(r) == Nodes \ (r.todo \cup r.answer.failed)

AnswersHold ==
  /\ HoldsOf(own, now, cache.answer, Nodes \ cache.answer.failed, 0)
  /\ \A f \in Followers :
       rounds[f].phase # "idle" =>
         HoldsOf(own, now, rounds[f].answer, Reached(rounds[f]), rounds[f].since)

SyncInv ==
  /\ StateSyncTypeOK
  /\ Dated
  /\ RowsGood
  /\ RoundsOrdered
  /\ OwnKept
  /\ AnswersHold
  /\ SyncedUpTo

(***************************************************************************)
(* Rows: what sending, merging and the upsert keep                         *)
(***************************************************************************)

\* The leader is a node and no follower.
LEMMA LeaderApart == Leader \in Nodes /\ Leader \notin Followers /\ Followers \subseteq Nodes
BY StateSyncAssumption DEF Nodes

\* What the records for "none" are made of.
LEMMA NoneTypes ==
  /\ NoRow \in Rows /\ NoRow.state = "none" /\ NoRow.expire = 0 /\ NoRow.mod = 0
  /\ NoRows \in [IPs -> Rows] /\ \A ip \in IPs : NoRows[ip] = NoRow
  /\ NoAnswer \in Answers /\ NoAnswer.merged = NoRows /\ NoAnswer.failed = {}
  /\ NoAnswer.ts = 0 /\ NoAnswer.asked = 0
  /\ NoRound \in Rounds /\ NoRound.phase = "idle" /\ NoRound.answer = NoAnswer
  /\ NoCache \in [answer : Answers, time : Times] /\ NoCache.answer = NoAnswer
<1>1. NoRow \in Rows /\ NoRow.state = "none" /\ NoRow.expire = 0 /\ NoRow.mod = 0
  BY StateSyncAssumption DEF NoRow, Rows, Times
<1>2. NoRows \in [IPs -> Rows] /\ \A ip \in IPs : NoRows[ip] = NoRow
  BY <1>1 DEF NoRows
<1>3. /\ NoAnswer \in Answers /\ NoAnswer.merged = NoRows /\ NoAnswer.failed = {}
      /\ NoAnswer.ts = 0 /\ NoAnswer.asked = 0
  BY <1>2, StateSyncAssumption DEF NoAnswer, Answers, Times
<1>4. NoRound \in Rounds /\ NoRound.phase = "idle" /\ NoRound.answer = NoAnswer
  BY <1>3, StateSyncAssumption DEF NoRound, Rounds, Times
<1>5. NoCache \in [answer : Answers, time : Times] /\ NoCache.answer = NoAnswer
  BY <1>3, StateSyncAssumption DEF NoCache, Times
<1> QED
  BY <1>1, <1>2, <1>3, <1>4, <1>5

\* A good row stays one as time passes and decisions are added.
LEMMA GoodLater ==
  ASSUME NEW e, NEW d, e \subseteq d, NEW t \in Nat, NEW u \in Nat, t <= u,
         NEW row \in Rows, GoodOf(e, t, row)
  PROVE  GoodOf(d, u, row)
BY DEF GoodOf, Rows

\* The merge of two good rows is one of them, apart from its modification time, and covers
\* what either covers for as long as that runs.
LEMMA MergeGood ==
  ASSUME NEW e, NEW t \in Nat, NEW r \in Rows, NEW s \in Rows,
         GoodOf(e, t, r), GoodOf(e, t, s)
  PROVE  /\ Merge(r, s) \in Rows
         /\ GoodOf(e, t, Merge(r, s))
         /\ \A d \in Rows : d.expire > t /\ (Covers(r, d) \/ Covers(s, d)) =>
              Covers(Merge(r, s), d)
<1>1. CASE r.state = "none"
  <2>1. Merge(r, s) = s
    BY <1>1 DEF Merge
  <2> QED
    BY <1>1, <2>1 DEF Covers
<1>2. CASE r.state # "none" /\ s.state = "none"
  <2>1. Merge(r, s) = r
    BY <1>2 DEF Merge
  <2> QED
    BY <1>2, <2>1 DEF Covers
<1>3. CASE r.state # "none" /\ s.state # "none"
  <2>1. /\ Merge(r, s).state = IF s.expire > r.expire THEN s.state ELSE r.state
        /\ Merge(r, s).expire = IF s.expire > r.expire THEN s.expire ELSE r.expire
        /\ Merge(r, s) \in Rows
    BY <1>3 DEF Merge, Rows
  <2>2. GoodOf(e, t, Merge(r, s))
    BY <2>1 DEF GoodOf
  <2>3. ASSUME NEW d \in Rows, d.expire > t, Covers(r, d) \/ Covers(s, d)
        PROVE  Covers(Merge(r, s), d)
    <3>1. d.expire \in Nat /\ r.expire \in Nat /\ s.expire \in Nat
      BY DEF Rows
    <3>2. r.state \in {"blocked", "unblocked"} /\ s.state \in {"blocked", "unblocked"}
      BY <1>3 DEF Rows
    <3> QED
      BY <2>1, <2>3, <3>1, <3>2 DEF GoodOf, Covers
  <2> QED
    BY <2>1, <2>2, <2>3
<1> QED
  BY <1>1, <1>2, <1>3

\* The upsert of a good row that still runs blocks, and covers what either covers.
LEMMA UpsertGood ==
  ASSUME NEW e, NEW t \in Nat, NEW old \in Rows, NEW row \in Rows,
         GoodOf(e, t, old), GoodOf(e, t, row), row.expire > t
  PROVE  /\ Upsert(old, row) \in Rows
         /\ GoodOf(e, t, Upsert(old, row))
         /\ Upsert(old, row).mod >= old.mod
         /\ \A d \in Rows : Covers(old, d) \/ Covers(row, d) => Covers(Upsert(old, row), d)
<1>1. old.expire \in Nat /\ row.expire \in Nat /\ old.mod \in Nat /\ row.mod \in Nat
  BY StateSyncAssumption DEF Rows, Times
<1>2. row.state = "blocked" /\ row.expire \in e
  BY <1>1 DEF GoodOf, Rows
<1>3. /\ Upsert(old, row).state = "blocked"
      /\ Upsert(old, row).expire = IF row.expire > old.expire THEN row.expire ELSE old.expire
      /\ Upsert(old, row).mod = IF row.mod > old.mod THEN row.mod ELSE old.mod
      /\ Upsert(old, row) \in Rows
  BY <1>2 DEF Upsert, Rows
<1>4. Upsert(old, row).expire \in e
  BY <1>1, <1>2, <1>3 DEF GoodOf, Rows
<1>5. ASSUME NEW d \in Rows, Covers(old, d) \/ Covers(row, d)
      PROVE  Covers(Upsert(old, row), d)
  <2>1. d.expire \in Nat
    BY DEF Rows
  <2> QED
    BY <1>1, <1>3, <1>5, <2>1 DEF Covers
<1> QED
  BY <1>1, <1>3, <1>4, <1>5 DEF GoodOf

\* What a node sends is its own row or none, and it sends what is later than asked for and
\* still runs.
LEMMA SentRows ==
  ASSUME StateSyncTypeOK, NEW n \in Nodes, NEW since \in Nat
  PROVE  /\ Sent(n, since) \in [IPs -> Rows]
         /\ \A ip \in IPs : Sent(n, since)[ip] \in {NoRow, rows[n][ip]}
         /\ \A ip \in IPs : rows[n][ip].mod > since /\ rows[n][ip].expire > now =>
              Sent(n, since)[ip] = rows[n][ip]
<1>1. /\ \A ip \in IPs : rows[n][ip] \in Rows
      /\ now \in Nat
  BY StateSyncAssumption DEF StateSyncTypeOK, Times
<1>2. \A ip \in IPs : Sent(n, since)[ip] \in {NoRow, rows[n][ip]}
  BY DEF Sent
<1>3. ASSUME NEW ip \in IPs, rows[n][ip].mod > since, rows[n][ip].expire > now
      PROVE  Sent(n, since)[ip] = rows[n][ip]
  <2>1. rows[n][ip].mod \in Nat /\ rows[n][ip].expire \in Nat
    BY <1>1, StateSyncAssumption DEF Rows, Times
  <2>2. ~(rows[n][ip].mod <= since) /\ ~(rows[n][ip].expire < now)
    BY <1>1, <1>3, <2>1
  <2> QED
    BY <2>2 DEF Sent
<1>4. Sent(n, since) \in [IPs -> Rows]
  BY <1>1, NoneTypes DEF Sent
<1> QED
  BY <1>2, <1>3, <1>4

\* What a node sends, merged with a good row.
LEMMA MergeSent ==
  ASSUME StateSyncTypeOK, RowsGood, NEW n \in Nodes, NEW since \in Nat, NEW ip \in IPs,
         NEW m \in Rows, GoodOf(ends[ip], now, m)
  PROVE  /\ Merge(m, Sent(n, since)[ip]) \in Rows
         /\ GoodOf(ends[ip], now, Merge(m, Sent(n, since)[ip]))
         /\ \A d \in Rows :
              /\ d.expire > now
              /\ \/ Covers(m, d)
                 \/ Covers(rows[n][ip], d) /\ rows[n][ip].mod > since
              => Covers(Merge(m, Sent(n, since)[ip]), d)
<1> DEFINE s == Sent(n, since)[ip]
<1>1. now \in Nat /\ rows[n][ip] \in Rows
  BY StateSyncAssumption DEF StateSyncTypeOK, Times
<1>2. /\ s \in Rows /\ s \in {NoRow, rows[n][ip]}
      /\ rows[n][ip].mod > since /\ rows[n][ip].expire > now => s = rows[n][ip]
  BY SentRows
<1> HIDE DEF s
<1>3. GoodOf(ends[ip], now, NoRow) /\ GoodOf(ends[ip], now, rows[n][ip])
  BY NoneTypes DEF RowsGood, GoodOf
<1>4. GoodOf(ends[ip], now, s)
  BY <1>2, <1>3
<1>5. /\ Merge(m, s) \in Rows /\ GoodOf(ends[ip], now, Merge(m, s))
      /\ \A d \in Rows : d.expire > now /\ (Covers(m, d) \/ Covers(s, d)) =>
           Covers(Merge(m, s), d)
  BY <1>1, <1>2, <1>4, MergeGood
<1>6. ASSUME NEW d \in Rows, d.expire > now, Covers(rows[n][ip], d), rows[n][ip].mod > since
      PROVE  Covers(s, d)
  <2>1. d.expire \in Nat /\ rows[n][ip].expire \in Nat
    BY <1>1 DEF Rows
  <2> QED
    BY <1>1, <1>2, <1>6, <2>1 DEF Covers
<1>7. \A d \in Rows :
        /\ d.expire > now
        /\ \/ Covers(m, d)
           \/ Covers(rows[n][ip], d) /\ rows[n][ip].mod > since
        => Covers(Merge(m, s), d)
  BY <1>5, <1>6
<1> QED
  BY <1>5, <1>7 DEF s

(***************************************************************************)
(* The moves of a round                                                    *)
(***************************************************************************)

\* The leader starts to collect an answer.
Asked(f) ==
  \E since \in {0, last[f]} :
    /\ rounds'[f].phase = "collect" /\ rounds'[f].since = since
    /\ rounds'[f].todo = Followers /\ rounds'[f].answer.failed = {}
    /\ rounds'[f].answer.asked = now
    /\ rounds'[f].answer.merged = Sent(Leader, since)

\* It serves the file.
Cached(f) ==
  /\ rounds'[f].phase = "apply" /\ rounds'[f].since = 0 /\ rounds'[f].todo = {}
  /\ rounds'[f].answer = cache.answer

\* A node has been asked and has sent its part, or has not.
Collected(f) ==
  \E n \in Followers :
    /\ rounds[f].phase = "collect" /\ rounds'[f].phase = "collect"
    /\ rounds'[f].since = rounds[f].since
    /\ rounds'[f].todo = rounds[f].todo \ {n}
    /\ rounds'[f].answer.asked = rounds[f].answer.asked
    /\ \/ /\ rounds'[f].answer.failed = rounds[f].answer.failed
          /\ \A ip \in IPs : rounds'[f].answer.merged[ip] =
               Merge(rounds[f].answer.merged[ip], Sent(n, rounds[f].since)[ip])
       \/ /\ rounds'[f].answer.failed = rounds[f].answer.failed \cup {n}
          /\ rounds'[f].answer.merged = rounds[f].answer.merged

\* The answer is dated, or is in the file.
Moved(f) ==
  /\ rounds[f].phase \in {"collect", "store"} /\ rounds'[f].phase \in {"store", "apply"}
  /\ rounds[f].phase = "collect" => rounds[f].todo = {} /\ rounds'[f].answer.ts = now
  /\ rounds[f].phase = "store" => rounds'[f].answer.ts = rounds[f].answer.ts
  /\ rounds'[f].phase = "store" => rounds[f].since = 0
  /\ rounds'[f].since = rounds[f].since /\ rounds'[f].todo = rounds[f].todo
  /\ rounds'[f].answer.asked = rounds[f].answer.asked
  /\ rounds'[f].answer.failed = rounds[f].answer.failed
  /\ rounds'[f].answer.merged = rounds[f].answer.merged

RoundStep(f) ==
  \/ rounds'[f] = rounds[f] /\ last'[f] = last[f]
  \/ rounds'[f] = NoRound
  \/ /\ UNCHANGED <<now, rows, own, last, ends, holes>>
     /\ Asked(f) \/ Cached(f) \/ Collected(f) \/ Moved(f)

\* The fields of a round.
LEMMA RoundType ==
  ASSUME NEW r \in Rounds
  PROVE  /\ r.phase \in {"idle", "collect", "store", "apply"} /\ r.since \in Times
         /\ r.todo \subseteq Followers /\ r.answer \in Answers
         /\ r.answer.merged \in [IPs -> Rows] /\ r.answer.ts \in Times
         /\ r.answer.failed \subseteq Followers /\ r.answer.asked \in Times
BY DEF Rounds, Answers

\* Every step moves every round in one of these ways, and a round keeps its type.
LEMMA RoundsMove ==
  ASSUME StateSyncTypeOK, Dated, RowsGood, [StateSyncNext]_vars
  PROVE  rounds' \in [Followers -> Rounds] /\ \A f \in Followers : RoundStep(f)
<1> USE LeaderApart, StateSyncAssumption, NoneTypes
<1> DEFINE Goal == rounds' \in [Followers -> Rounds] /\ \A f \in Followers : RoundStep(f)
<1>0. /\ rounds \in [Followers -> Rounds] /\ last \in [Followers -> Times]
      /\ now \in Times /\ cache.answer \in Answers /\ 0 \in Times
  BY DEF StateSyncTypeOK, Times
<1>a. ASSUME NEW f \in Followers, NEW r \in Rounds, rounds' = [rounds EXCEPT ![f] = r],
             RoundStep(f), last' = last
      PROVE  Goal
  BY <1>0, <1>a DEF RoundStep
<1>b. ASSUME NEW f \in Followers, rounds' = [rounds EXCEPT ![f] = NoRound],
             \A g \in Followers \ {f} : last'[g] = last[g]
      PROVE  Goal
  BY <1>0, <1>b DEF RoundStep
<1>1. ASSUME NEW f \in Followers, NEW since \in {0, last[f]}, Request(f, since)
      PROVE  Goal
  <2> DEFINE r == Fresh(since)
  <2>0. since \in Times /\ since \in Nat
    BY <1>0 DEF Times
  <2>1. Sent(Leader, since) \in [IPs -> Rows]
    BY <2>0, SentRows
  <2>2. /\ r.phase = "collect" /\ r.since = since /\ r.todo = Followers
        /\ r.answer.failed = {} /\ r.answer.asked = now
        /\ r.answer.merged = Sent(Leader, since)
    BY DEF Fresh, NoRound, NoAnswer
  <2>3. r \in Rounds
    BY <1>0, <2>0, <2>1 DEF Fresh, NoRound, NoAnswer, Rounds, Answers
  <2>4. /\ FromCache.phase = "apply" /\ FromCache.since = 0 /\ FromCache.todo = {}
        /\ FromCache.answer = cache.answer /\ FromCache \in Rounds
    BY <1>0 DEF FromCache, NoRound, Rounds
  <2>5. UNCHANGED <<now, rows, own, last, ends, holes>>
    BY <1>1 DEF Request, history
  <2>6. rounds' = [rounds EXCEPT ![f] = r] \/ rounds' = [rounds EXCEPT ![f] = FromCache]
    BY <1>1 DEF Request
  <2> HIDE DEF r, Goal
  <2>7. CASE rounds' = [rounds EXCEPT ![f] = r]
    <3>1. rounds'[f] = r
      BY <1>0, <2>7
    <3>2. RoundStep(f)
      BY <2>2, <2>5, <3>1 DEF RoundStep, Asked
    <3> QED
      BY <1>a, <2>3, <2>5, <2>7, <3>2
  <2>8. CASE rounds' = [rounds EXCEPT ![f] = FromCache]
    <3>1. rounds'[f] = FromCache
      BY <1>0, <2>8
    <3>2. RoundStep(f)
      BY <2>4, <2>5, <3>1 DEF RoundStep, Cached
    <3> QED
      BY <1>a, <2>4, <2>5, <2>8, <3>2
  <2> QED
    BY <2>6, <2>7, <2>8
<1>2. ASSUME NEW f \in Followers, SyncRequest(f) \/ InitialRequest(f)
      PROVE  Goal
  <2> HIDE DEF Goal
  <2> QED
    BY <1>1, <1>2 DEF SyncRequest, InitialRequest
<1>3. ASSUME NEW f \in Followers, NEW n \in Followers, Collect(f, n)
      PROVE  Goal
  <2> DEFINE q == rounds[f]
             m == [ip \in IPs |-> Merge(q.answer.merged[ip], Sent(n, q.since)[ip])]
             a == [q.answer EXCEPT !.merged = m]
             r == [q EXCEPT !.todo = @ \ {n}, !.answer = a]
  <2>0. q \in Rounds
    BY <1>0
  <2>1. q.since \in Nat /\ q.answer \in Answers /\ q.answer.merged \in [IPs -> Rows]
    BY <2>0, RoundType DEF Times
  <2>2. m \in [IPs -> Rows]
    <3>1. ASSUME NEW ip \in IPs
          PROVE  Merge(q.answer.merged[ip], Sent(n, q.since)[ip]) \in Rows
      <4>1. q.answer.merged[ip] \in Rows /\ GoodOf(ends[ip], now, q.answer.merged[ip])
        BY <2>1 DEF RowsGood
      <4> QED
        BY <2>1, <4>1, MergeSent
    <3> QED
      BY <3>1
  <2>3. /\ a \in Answers /\ a.merged = m /\ a.failed = q.answer.failed
        /\ a.asked = q.answer.asked
    BY <2>1, <2>2 DEF Answers
  <2>4. /\ r \in Rounds /\ r.phase = q.phase /\ r.since = q.since
        /\ r.todo = q.todo \ {n} /\ r.answer = a
    BY <2>0, <2>3 DEF Rounds
  <2>5. UNCHANGED <<now, rows, own, last, ends, holes>> /\ q.phase = "collect"
    BY <1>3 DEF Collect, history
  <2>6. rounds' = [rounds EXCEPT ![f] = r]
    BY <1>3 DEF Collect
  <2>7. \A ip \in IPs : m[ip] = Merge(q.answer.merged[ip], Sent(n, q.since)[ip])
    OBVIOUS
  <2> HIDE DEF r, a, m, Goal
  <2>8. rounds'[f] = r
    BY <1>0, <2>6
  <2>9. RoundStep(f)
    BY <2>3, <2>4, <2>5, <2>7, <2>8 DEF RoundStep, Collected
  <2> QED
    BY <1>a, <2>4, <2>5, <2>6, <2>9
<1>4. ASSUME NEW f \in Followers, NEW n \in Followers, CollectFails(f, n)
      PROVE  Goal
  <2> DEFINE q == rounds[f]
             a == [q.answer EXCEPT !.failed = @ \cup {n}]
             r == [q EXCEPT !.todo = @ \ {n}, !.answer = a]
  <2>0. q \in Rounds
    BY <1>0
  <2>1. q.answer \in Answers
    BY <2>0, RoundType
  <2>3. /\ a \in Answers /\ a.merged = q.answer.merged /\ a.asked = q.answer.asked
        /\ a.failed = q.answer.failed \cup {n}
    BY <2>1 DEF Answers
  <2>4. /\ r \in Rounds /\ r.phase = q.phase /\ r.since = q.since
        /\ r.todo = q.todo \ {n} /\ r.answer = a
    BY <2>0, <2>3 DEF Rounds
  <2>5. UNCHANGED <<now, rows, own, last, ends, holes>> /\ q.phase = "collect"
    BY <1>4 DEF CollectFails, history
  <2>6. rounds' = [rounds EXCEPT ![f] = r]
    BY <1>4 DEF CollectFails
  <2> HIDE DEF r, a, Goal
  <2>8. rounds'[f] = r
    BY <1>0, <2>6
  <2>9. RoundStep(f)
    BY <2>3, <2>4, <2>5, <2>8 DEF RoundStep, Collected
  <2> QED
    BY <1>a, <2>4, <2>5, <2>6, <2>9
<1>5. ASSUME NEW f \in Followers, Respond(f)
      PROVE  Goal
  <2> DEFINE q == rounds[f]
             a == [q.answer EXCEPT !.ts = now]
             r == [q EXCEPT !.phase = IF q.since = 0 THEN "store" ELSE "apply", !.answer = a]
  <2>0. q \in Rounds
    BY <1>0
  <2>1. q.answer \in Answers
    BY <2>0, RoundType
  <2>3. /\ a \in Answers /\ a.merged = q.answer.merged /\ a.asked = q.answer.asked
        /\ a.failed = q.answer.failed /\ a.ts = now
    BY <1>0, <2>1 DEF Answers
  <2>4. /\ r \in Rounds /\ r.phase = (IF q.since = 0 THEN "store" ELSE "apply")
        /\ r.since = q.since /\ r.todo = q.todo /\ r.answer = a
    BY <2>0, <2>3 DEF Rounds
  <2>5. /\ UNCHANGED <<now, rows, own, last, ends, holes>>
        /\ q.phase = "collect" /\ q.todo = {}
    BY <1>5 DEF Respond, history
  <2>6. rounds' = [rounds EXCEPT ![f] = r]
    BY <1>5 DEF Respond
  <2> HIDE DEF r, a, Goal
  <2>8. rounds'[f] = r
    BY <1>0, <2>6
  <2>9. RoundStep(f)
    BY <2>3, <2>4, <2>5, <2>8 DEF RoundStep, Moved
  <2> QED
    BY <1>a, <2>4, <2>5, <2>6, <2>9
<1>6. ASSUME NEW f \in Followers, Store(f)
      PROVE  Goal
  <2> DEFINE q == rounds[f]
             r == [q EXCEPT !.phase = "apply"]
  <2>0. q \in Rounds
    BY <1>0
  <2>4. /\ r \in Rounds /\ r.phase = "apply" /\ r.since = q.since
        /\ r.todo = q.todo /\ r.answer = q.answer
    BY <2>0 DEF Rounds
  <2>5. UNCHANGED <<now, rows, own, last, ends, holes>> /\ q.phase = "store"
    BY <1>6 DEF Store, history
  <2>6. rounds' = [rounds EXCEPT ![f] = r]
    BY <1>6 DEF Store
  <2> HIDE DEF r, Goal
  <2>8. rounds'[f] = r
    BY <1>0, <2>6
  <2>9. RoundStep(f)
    BY <2>4, <2>5, <2>8 DEF RoundStep, Moved
  <2> QED
    BY <1>a, <2>4, <2>5, <2>6, <2>9
<1>7. ASSUME NEW f \in Followers,
             \/ RoundFails(f) \/ FollowerMerge(f) \/ FollowerMergeFails(f)
             \/ FollowerJoin(f) \/ Stop(f)
      PROVE  Goal
  <2>1. rounds' = [rounds EXCEPT ![f] = NoRound]
    BY <1>7 DEF RoundFails, FollowerMerge, FollowerMergeFails, FollowerJoin, Stop, EndRound
  <2>2. \A g \in Followers \ {f} : last'[g] = last[g]
    BY <1>0, <1>7
    DEF RoundFails, FollowerMerge, FollowerMergeFails, FollowerJoin, Stop, EndRound, history
  <2> HIDE DEF Goal
  <2> QED
    BY <1>b, <2>1, <2>2
<1>8. ASSUME LeaderRestart
      PROVE  Goal
  <2>1. /\ rounds' \in [Followers -> Rounds] /\ last' = last
        /\ \A f \in Followers : rounds'[f] \in {NoRound, rounds[f]}
    BY <1>0, <1>8 DEF LeaderRestart
  <2> QED
    BY <2>1 DEF RoundStep
<1>9. ASSUME rounds' = rounds, last' = last
      PROVE  Goal
  BY <1>0, <1>9 DEF RoundStep
<1>10. ASSUME NEW n \in Nodes, NEW ip \in IPs, NEW row, Decide(n, ip, row)
      PROVE  Goal
  <2> HIDE DEF Goal
  <2> QED
    BY <1>9, <1>10 DEF Decide
<1> HIDE DEF Goal
<1>11. Goal
  BY <1>2, <1>3, <1>4, <1>5, <1>6, <1>7, <1>8, <1>9, <1>10
  DEF StateSyncNext, DecideBlock, DecideUnblock, Tick, vars
<1> QED
  BY <1>11 DEF Goal

(***************************************************************************)
(* The moves of a row                                                      *)
(***************************************************************************)

\* A node decides; it merges a block that still runs; or it joins the cluster, when a row
\* that it is sent replaces what it decided.
TableStep(n, ip) ==
  \/ rows'[n][ip] = rows[n][ip] /\ own'[n][ip] = own[n][ip]
  \/ /\ now' = now
     /\ rows'[n][ip] = own'[n][ip] /\ own'[n][ip].mod = now
     /\ GoodOf(ends'[ip], now, rows'[n][ip])
  \/ /\ now' = now /\ own'[n][ip] = own[n][ip]
     /\ \E row \in Rows :
          /\ row.expire > now /\ GoodOf(ends[ip], now, row)
          /\ rows'[n][ip] = Upsert(rows[n][ip], row)
  \/ /\ now' = now /\ own'[n][ip] = NoRow /\ n \notin up
     /\ GoodOf(ends[ip], now, rows'[n][ip])

TablesTyped ==
  /\ rows' \in [Nodes -> [IPs -> Rows]] /\ own' \in [Nodes -> [IPs -> Rows]]
  /\ ends' \in [IPs -> SUBSET Nat] /\ \A ip \in IPs : ends[ip] \subseteq ends'[ip]
  /\ now' \in Times /\ now <= now'

\* What a merge of the rows for some IPs does to the follower's table.
LEMMA MergeRowsType ==
  ASSUME StateSyncTypeOK, RowsGood, NEW f \in Followers, NEW S, MergeRows(f, S)
  PROVE  /\ rows' \in [Nodes -> [IPs -> Rows]]
         /\ \A n \in Nodes \ {f} : rows'[n] = rows[n]
         /\ \A ip \in IPs :
              LET row == rounds[f].answer.merged[ip] IN
              IF ip \in S /\ row.expire > now
              THEN rows'[f][ip] = Upsert(rows[f][ip], row) ELSE rows'[f][ip] = rows[f][ip]
<1> DEFINE m == rounds[f].answer.merged
           t == [ip \in IPs |-> IF ip \in S /\ m[ip].expire > now
                                THEN Upsert(rows[f][ip], m[ip]) ELSE rows[f][ip]]
<1>1. f \in Nodes /\ m \in [IPs -> Rows] /\ rows \in [Nodes -> [IPs -> Rows]] /\ now \in Nat
  BY LeaderApart, RoundType, StateSyncAssumption DEF StateSyncTypeOK, Times
<1>2. ASSUME NEW ip \in IPs, m[ip].expire > now
      PROVE  Upsert(rows[f][ip], m[ip]) \in Rows
  <2> DEFINE x == rows[f][ip]
             y == m[ip]
  <2>1. GoodOf(ends[ip], now, x) /\ GoodOf(ends[ip], now, y) /\ y.expire > now
    BY <1>1, <1>2 DEF RowsGood
  <2>2. x \in Rows /\ y \in Rows
    BY <1>1
  <2> HIDE DEF x, y
  <2>3. Upsert(x, y) \in Rows
    BY <1>1, <2>1, <2>2, UpsertGood
  <2> QED
    BY <2>3 DEF x, y
<1>3. t \in [IPs -> Rows]
  BY <1>1, <1>2
<1>4. rows' = [rows EXCEPT ![f] = t]
  BY DEF MergeRows
<1>5. /\ \A ip \in IPs : t[ip] = IF ip \in S /\ m[ip].expire > now
                                 THEN Upsert(rows[f][ip], m[ip]) ELSE rows[f][ip]
  OBVIOUS
<1> HIDE DEF t
<1>6. rows'[f] = t
  BY <1>1, <1>4
<1>7. rows' \in [Nodes -> [IPs -> Rows]] /\ \A n \in Nodes \ {f} : rows'[n] = rows[n]
  BY <1>1, <1>3, <1>4
<1> QED
  BY <1>5, <1>6, <1>7

\* Every step moves every row in one of these ways.
LEMMA TablesMove ==
  ASSUME StateSyncTypeOK, Dated, RowsGood, [StateSyncNext]_vars
  PROVE  TablesTyped /\ \A n \in Nodes, ip \in IPs : TableStep(n, ip)
<1> USE LeaderApart, StateSyncAssumption, NoneTypes
<1> DEFINE Goal == TablesTyped /\ \A n \in Nodes, ip \in IPs : TableStep(n, ip)
<1>0. /\ rows \in [Nodes -> [IPs -> Rows]] /\ own \in [Nodes -> [IPs -> Rows]]
      /\ ends \in [IPs -> SUBSET Nat] /\ now \in Times /\ now \in Nat
      /\ rounds \in [Followers -> Rounds]
  BY DEF StateSyncTypeOK, Dated, Times
<1>1. ASSUME NEW n \in Nodes, NEW ip \in IPs, NEW row \in Rows, Decide(n, ip, row),
             row.mod = now, GoodOf(ends'[ip], now, row),
             ends' \in [IPs -> SUBSET Nat], \A i \in IPs : ends[i] \subseteq ends'[i]
      PROVE  Goal
  <2>1. /\ rows' = [rows EXCEPT ![n][ip] = row] /\ own' = [own EXCEPT ![n][ip] = row]
        /\ now' = now
    BY <1>1 DEF Decide
  <2>2. TablesTyped
    BY <1>0, <1>1, <2>1 DEF TablesTyped
  <2>3. rows'[n][ip] = row /\ own'[n][ip] = row
    BY <1>0, <2>1
  <2>4. \A m \in Nodes, i \in IPs :
          m # n \/ i # ip => rows'[m][i] = rows[m][i] /\ own'[m][i] = own[m][i]
    BY <1>0, <2>1
  <2> QED
    BY <1>1, <2>1, <2>2, <2>3, <2>4 DEF TableStep
<1>2. ASSUME NEW n \in Nodes, NEW ip \in IPs, NEW d \in Durations, DecideBlock(n, ip, d)
      PROVE  Goal
  <2> DEFINE row == [state |-> "blocked", expire |-> now + d, mod |-> now]
  <2>1. row \in Rows /\ row.mod = now /\ row.state = "blocked" /\ row.expire = now + d
    BY <1>0 DEF Rows
  <2>2. Decide(n, ip, row) /\ ends' = [ends EXCEPT ![ip] = @ \cup {now + d}]
    BY <1>2 DEF DecideBlock
  <2>3. /\ ends' \in [IPs -> SUBSET Nat] /\ now + d \in ends'[ip]
        /\ \A i \in IPs : ends[i] \subseteq ends'[i]
    BY <1>0, <2>2
  <2> HIDE DEF row, Goal
  <2>4. GoodOf(ends'[ip], now, row)
    BY <2>1, <2>3 DEF GoodOf
  <2> QED
    BY <1>1, <2>1, <2>2, <2>3, <2>4
<1>3. ASSUME NEW n \in Nodes, NEW ip \in IPs, DecideUnblock(n, ip)
      PROVE  Goal
  <2> DEFINE row == [state |-> "unblocked", expire |-> now, mod |-> now]
  <2>1. row \in Rows /\ row.mod = now /\ row.state = "unblocked" /\ row.expire = now
    BY <1>0 DEF Rows
  <2>2. Decide(n, ip, row) /\ ends' = ends
    BY <1>3 DEF DecideUnblock
  <2> HIDE DEF row, Goal
  <2>4. GoodOf(ends'[ip], now, row)
    BY <1>0, <2>1 DEF GoodOf
  <2> QED
    BY <1>0, <1>1, <2>1, <2>2, <2>4
<1>4. ASSUME NEW f \in Followers, NEW S, MergeRows(f, S), UNCHANGED <<now, own, ends>>
      PROVE  Goal
  <2> DEFINE m == rounds[f].answer.merged
  <2>1. m \in [IPs -> Rows] /\ \A ip \in IPs : GoodOf(ends[ip], now, m[ip])
    BY <1>0, RoundType DEF RowsGood
  <2>2. /\ rows' \in [Nodes -> [IPs -> Rows]]
        /\ \A n \in Nodes \ {f} : rows'[n] = rows[n]
        /\ \A ip \in IPs :
             \/ rows'[f][ip] = rows[f][ip]
             \/ m[ip].expire > now /\ rows'[f][ip] = Upsert(rows[f][ip], m[ip])
    BY <1>4, MergeRowsType
  <2>3. TablesTyped
    BY <1>0, <1>4, <2>2 DEF TablesTyped
  <2> HIDE DEF m
  <2>4. \A ip \in IPs : TableStep(f, ip)
    BY <1>4, <2>1, <2>2 DEF TableStep
  <2>5. \A n \in Nodes \ {f}, ip \in IPs : TableStep(n, ip)
    BY <1>4, <2>2 DEF TableStep
  <2> QED
    BY <2>3, <2>4, <2>5
<1>5. ASSUME NEW f \in Followers, FollowerJoin(f)
      PROVE  Goal
  <2> DEFINE m == rounds[f].answer.merged
             R == {ip \in IPs : m[ip].state # "none"}
             t == [ip \in IPs |-> IF ip \in R THEN m[ip] ELSE rows[f][ip]]
             o == [ip \in IPs |-> IF ip \in R THEN NoRow ELSE own[f][ip]]
  <2>1. m \in [IPs -> Rows] /\ \A ip \in IPs : GoodOf(ends[ip], now, m[ip])
    BY <1>0, RoundType DEF RowsGood
  <2>2. /\ rows' = [rows EXCEPT ![f] = t] /\ own' = [own EXCEPT ![f] = o]
        /\ UNCHANGED <<now, ends>> /\ f \notin up
    BY <1>5 DEF FollowerJoin
  <2>3. t \in [IPs -> Rows] /\ o \in [IPs -> Rows]
    BY <1>0, <2>1
  <2>4. \A ip \in IPs :
          \/ t[ip] = m[ip] /\ o[ip] = NoRow
          \/ t[ip] = rows[f][ip] /\ o[ip] = own[f][ip]
    OBVIOUS
  <2> HIDE DEF t, o, R, m
  <2>5. TablesTyped
    BY <1>0, <2>2, <2>3 DEF TablesTyped
  <2>6. rows'[f] = t /\ own'[f] = o
    BY <1>0, <2>2
  <2>7. \A n \in Nodes \ {f} : rows'[n] = rows[n] /\ own'[n] = own[n]
    BY <1>0, <2>2
  <2> QED
    BY <2>1, <2>2, <2>4, <2>5, <2>6, <2>7 DEF TableStep
<1>6. ASSUME NEW f \in Followers, FollowerMerge(f) \/ FollowerMergeFails(f)
      PROVE  Goal
  <2> HIDE DEF Goal
  <2> QED
    BY <1>4, <1>6 DEF FollowerMerge, FollowerMergeFails
<1>7. ASSUME UNCHANGED <<rows, own, ends>>, now' \in Times, now <= now'
      PROVE  Goal
  BY <1>0, <1>7 DEF TablesTyped, TableStep
<1>8. ASSUME UNCHANGED <<rows, own, ends, now>>
      PROVE  Goal
  <2> HIDE DEF Goal
  <2> QED
    BY <1>0, <1>7, <1>8
<1>9. ASSUME Tick
      PROVE  Goal
  <2>1. UNCHANGED <<rows, own, ends>> /\ now' \in Times /\ now <= now'
    BY <1>0, <1>9 DEF Tick, Times, history
  <2> HIDE DEF Goal
  <2> QED
    BY <1>7, <2>1
<1>10. ASSUME NEW f \in Followers,
             \/ SyncRequest(f) \/ InitialRequest(f) \/ Respond(f) \/ Store(f) \/ RoundFails(f)
             \/ \E n \in Followers : Collect(f, n) \/ CollectFails(f, n)
             \/ Stop(f)
      PROVE  UNCHANGED <<rows, own, ends, now>>
  BY <1>10 DEF SyncRequest, InitialRequest, Request, Respond, Store, RoundFails, Collect,
               CollectFails, Stop, history
<1> HIDE DEF Goal
<1>11. Goal
  BY <1>2, <1>3, <1>5, <1>6, <1>8, <1>9, <1>10
  DEF StateSyncNext, LeaderRestart, vars, history
<1> QED
  BY <1>11 DEF Goal

(***************************************************************************)
(* The moves of a watermark                                                *)
(***************************************************************************)

\* It stays, is forgotten with the follower, or becomes the date of an answer.
WatermarkStep(f) ==
  \/ last'[f] = last[f] /\ holes'[f] = holes[f]
  \/ last'[f] = 0 /\ f \notin up' /\ \A g \in Followers \ {f} : g \in up => g \in up'
  \/ /\ FollowerMerge(f) \/ FollowerMergeFails(f) \/ FollowerJoin(f)
     /\ rounds[f].phase = "apply" /\ now' = now
     /\ last'[f] = rounds[f].answer.ts
     /\ \E failed \in SUBSET Nodes : \A n \in Nodes :
          holes'[f][n] = (IF rounds[f].since = 0 THEN {} ELSE holes[f][n]) \cup
                         Missed(n, failed, rounds[f].since, rounds[f].answer)

\* What the end of a round does to watermark and holes.
LEMMA RoundEnds ==
  ASSUME StateSyncTypeOK, Dated, NEW f \in Followers, NEW failed, EndRound(f, failed)
  PROVE  /\ last' \in [Followers -> Times] /\ holes' \in [Followers -> [Nodes -> SUBSET Nat]]
         /\ last'[f] = rounds[f].answer.ts
         /\ \A n \in Nodes :
              holes'[f][n] = (IF rounds[f].since = 0 THEN {} ELSE holes[f][n]) \cup
                             Missed(n, failed, rounds[f].since, rounds[f].answer)
         /\ \A g \in Followers \ {f} : last'[g] = last[g] /\ holes'[g] = holes[g]
<1> DEFINE a == rounds[f].answer
           since == rounds[f].since
           h == [n \in Nodes |-> (IF since = 0 THEN {} ELSE holes[f][n]) \cup
                                 Missed(n, failed, since, a)]
<1>1. a.ts \in Times /\ a.asked \in Nat /\ since \in Nat /\ a.ts \in Nat
  BY RoundType, StateSyncAssumption DEF StateSyncTypeOK, Times
<1>2. \A n \in Nodes : Missed(n, failed, since, a) \subseteq Nat
  BY <1>1 DEF Missed
<1>3. h \in [Nodes -> SUBSET Nat]
  BY <1>2 DEF Dated
<1>4. last' = [last EXCEPT ![f] = a.ts] /\ holes' = [holes EXCEPT ![f] = h]
  BY DEF EndRound, Watermark
<1>5. \A n \in Nodes : h[n] = (IF since = 0 THEN {} ELSE holes[f][n]) \cup
                              Missed(n, failed, since, a)
  OBVIOUS
<1> HIDE DEF h
<1>6. holes'[f] = h /\ last'[f] = a.ts
  BY <1>4 DEF Dated, StateSyncTypeOK
<1>7. /\ last' \in [Followers -> Times] /\ holes' \in [Followers -> [Nodes -> SUBSET Nat]]
      /\ \A g \in Followers \ {f} : last'[g] = last[g] /\ holes'[g] = holes[g]
  BY <1>1, <1>3, <1>4 DEF Dated, StateSyncTypeOK
<1> QED
  BY <1>5, <1>6, <1>7

\* Every step moves every watermark in one of these ways.
LEMMA WatermarksMove ==
  ASSUME StateSyncTypeOK, Dated, [StateSyncNext]_vars
  PROVE  /\ last' \in [Followers -> Times] /\ holes' \in [Followers -> [Nodes -> SUBSET Nat]]
         /\ \A f \in Followers : WatermarkStep(f)
<1> USE LeaderApart, StateSyncAssumption
<1> DEFINE Goal ==
      /\ last' \in [Followers -> Times] /\ holes' \in [Followers -> [Nodes -> SUBSET Nat]]
      /\ \A f \in Followers : WatermarkStep(f)
<1>0. /\ last \in [Followers -> Times] /\ holes \in [Followers -> [Nodes -> SUBSET Nat]]
      /\ rounds \in [Followers -> Rounds] /\ 0 \in Times
  BY DEF StateSyncTypeOK, Dated, Times
<1>1. ASSUME UNCHANGED <<last, holes>>
      PROVE  Goal
  BY <1>0, <1>1 DEF WatermarkStep
<1>2. ASSUME NEW f \in Followers, NEW failed \in SUBSET Nodes, EndRound(f, failed),
             rounds[f].phase = "apply", now' = now,
             FollowerMerge(f) \/ FollowerMergeFails(f) \/ FollowerJoin(f)
      PROVE  Goal
  <2>1. WatermarkStep(f)
    <3>1. /\ last'[f] = rounds[f].answer.ts
          /\ \A n \in Nodes :
               holes'[f][n] = (IF rounds[f].since = 0 THEN {} ELSE holes[f][n]) \cup
                              Missed(n, failed, rounds[f].since, rounds[f].answer)
      BY <1>2, RoundEnds
    <3> QED
      BY <1>2, <3>1, Zenon DEF WatermarkStep
  <2>2. /\ last' \in [Followers -> Times] /\ holes' \in [Followers -> [Nodes -> SUBSET Nat]]
        /\ \A g \in Followers \ {f} : last'[g] = last[g] /\ holes'[g] = holes[g]
    BY <1>2, RoundEnds
  <2>3. \A g \in Followers \ {f} : WatermarkStep(g)
    BY <2>2 DEF WatermarkStep
  <2> QED
    BY <2>1, <2>2, <2>3
<1>3. ASSUME NEW f \in Followers, FollowerMerge(f) \/ FollowerMergeFails(f) \/ FollowerJoin(f)
      PROVE  Goal
  <2>1. rounds[f].answer.failed \in SUBSET Nodes
    BY <1>0, RoundType
  <2> HIDE DEF Goal
  <2> QED
    BY <1>2, <1>3, <2>1 DEF FollowerMerge, FollowerMergeFails, FollowerJoin
<1>4. ASSUME NEW f \in Followers, Stop(f)
      PROVE  Goal
  <2>1. /\ last' = [last EXCEPT ![f] = 0] /\ holes' = [holes EXCEPT ![f] = NoHoles]
        /\ up' = up \ {f}
    BY <1>4 DEF Stop
  <2>2. NoHoles \in [Nodes -> SUBSET Nat]
    BY DEF NoHoles
  <2> QED
    BY <1>0, <2>1, <2>2 DEF WatermarkStep
<1>5. ASSUME NEW f \in Followers,
             \/ SyncRequest(f) \/ InitialRequest(f) \/ Respond(f) \/ Store(f) \/ RoundFails(f)
             \/ \E n \in Followers : Collect(f, n) \/ CollectFails(f, n)
      PROVE  UNCHANGED <<last, holes>>
  BY <1>5 DEF SyncRequest, InitialRequest, Request, Respond, Store, RoundFails, Collect,
              CollectFails, history
<1> HIDE DEF Goal
<1>6. Goal
  BY <1>1, <1>3, <1>4, <1>5
  DEF StateSyncNext, DecideBlock, DecideUnblock, Decide, LeaderRestart, Tick, vars, history
<1> QED
  BY <1>6 DEF Goal

(***************************************************************************)
(* Types, dates and rows                                                   *)
(***************************************************************************)

\* The invariant holds when the nodes have started.
LEMMA InitHolds == StateSyncInit => SyncInv
<1> SUFFICES ASSUME StateSyncInit
             PROVE  SyncInv
  OBVIOUS
<1> USE LeaderApart, NoneTypes, StateSyncAssumption DEF StateSyncInit
<1>1. StateSyncTypeOK
  BY DEF StateSyncTypeOK, Times
<1>2. Dated
  BY DEF Dated, NoHoles, Times
<1>3. RowsGood
  BY DEF RowsGood, GoodOf
<1>4. RoundsOrdered
  BY DEF RoundsOrdered
<1>5. OwnKept
  BY DEF OwnKept
<1>6. AnswersHold
  BY DEF AnswersHold, HoldsOf
<1>7. SyncedUpTo
  BY DEF SyncedUpTo
<1> QED
  BY <1>1, <1>2, <1>3, <1>4, <1>5, <1>6, <1>7 DEF SyncInv

\* The nodes that answer: the leader always, and a follower without a watermark may not.
LEMMA UpStep ==
  ASSUME StateSyncTypeOK, [StateSyncNext]_vars
  PROVE  /\ up' \subseteq Nodes /\ Leader \in up'
         /\ \A f \in Followers : f \notin up' => last'[f] = 0
<1> USE LeaderApart
<1> DEFINE Goal == /\ up' \subseteq Nodes /\ Leader \in up'
                   /\ \A f \in Followers : f \notin up' => last'[f] = 0
<1>0. /\ up \subseteq Nodes /\ Leader \in up /\ last \in [Followers -> Times]
      /\ \A f \in Followers : f \notin up => last[f] = 0
  BY DEF StateSyncTypeOK
<1>1. ASSUME NEW f \in Followers, up' = up \cup {f},
             \A g \in Followers \ {f} : last'[g] = last[g]
      PROVE  Goal
  BY <1>0, <1>1
<1>2. ASSUME NEW f \in Followers, FollowerJoin(f) \/ RoundFails(f)
      PROVE  Goal
  <2>1. up' = up \cup {f} /\ \A g \in Followers \ {f} : last'[g] = last[g]
    BY <1>0, <1>2 DEF FollowerJoin, RoundFails, EndRound
  <2> QED
    BY <1>1, <2>1
<1>3. ASSUME NEW f \in Followers, FollowerMerge(f) \/ FollowerMergeFails(f)
      PROVE  Goal
  <2>1. f \in up /\ up' = up /\ \A g \in Followers \ {f} : last'[g] = last[g]
    BY <1>0, <1>3 DEF FollowerMerge, FollowerMergeFails, EndRound
  <2> QED
    BY <1>0, <2>1
<1>4. ASSUME NEW f \in Followers, Stop(f)
      PROVE  Goal
  BY <1>0, <1>4 DEF Stop
<1>5. ASSUME LeaderRestart
      PROVE  Goal
  BY <1>0, <1>5 DEF LeaderRestart
<1>6. ASSUME UNCHANGED <<up, last>>
      PROVE  Goal
  BY <1>0, <1>6
<1>7. ASSUME NEW f \in Followers,
             \/ SyncRequest(f) \/ InitialRequest(f) \/ Respond(f) \/ Store(f)
             \/ \E n \in Followers : Collect(f, n) \/ CollectFails(f, n)
      PROVE  UNCHANGED <<up, last>>
  BY <1>7 DEF SyncRequest, InitialRequest, Request, Respond, Store, Collect, CollectFails
<1> HIDE DEF Goal
<1>8. Goal
  BY <1>2, <1>3, <1>4, <1>5, <1>6, <1>7
  DEF StateSyncNext, DecideBlock, DecideUnblock, Decide, Tick, vars
<1> QED
  BY <1>8 DEF Goal

\* The file is the old one, none, or an answer to a request for everything.
LEMMA CacheStep ==
  ASSUME StateSyncTypeOK, [StateSyncNext]_vars
  PROVE  /\ cache' \in [answer : Answers, time : Times]
         /\ \/ cache'.answer = cache.answer
            \/ cache'.answer = NoAnswer
            \/ \E f \in Followers : /\ rounds[f].phase = "store" /\ Store(f)
                                    /\ cache'.answer = rounds[f].answer
<1>0. /\ cache \in [answer : Answers, time : Times] /\ now \in Times
      /\ rounds \in [Followers -> Rounds]
  BY DEF StateSyncTypeOK
<1>1. ASSUME NEW f \in Followers, Store(f)
      PROVE  /\ cache' \in [answer : Answers, time : Times]
             /\ rounds[f].phase = "store" /\ cache'.answer = rounds[f].answer
  <2>1. rounds[f].answer \in Answers
    BY <1>0, RoundType
  <2> QED
    BY <1>0, <1>1, <2>1 DEF Store
<1>2. ASSUME LeaderRestart
      PROVE  cache' \in [answer : Answers, time : Times] /\ cache'.answer = NoAnswer
  BY <1>2, NoneTypes DEF LeaderRestart
<1>3. ASSUME NEW f \in Followers,
             \/ SyncRequest(f) \/ InitialRequest(f) \/ Respond(f) \/ RoundFails(f)
             \/ \E n \in Followers : Collect(f, n) \/ CollectFails(f, n)
             \/ FollowerMerge(f) \/ FollowerMergeFails(f) \/ FollowerJoin(f) \/ Stop(f)
      PROVE  cache' = cache
  BY <1>3 DEF SyncRequest, InitialRequest, Request, Respond, RoundFails, Collect,
              CollectFails, FollowerMerge, FollowerMergeFails, FollowerJoin, Stop
<1>4. CASE cache' = cache
  BY <1>0, <1>4
<1>5. CASE \E f \in Followers : Store(f)
  BY <1>1, <1>5
<1>6. CASE LeaderRestart
  BY <1>2, <1>6
<1> QED
  BY <1>3, <1>4, <1>5, <1>6
  DEF StateSyncNext, DecideBlock, DecideUnblock, Decide, Tick, vars

\* Every step keeps the types.
LEMMA TypeStep == SyncInv /\ [StateSyncNext]_vars => StateSyncTypeOK'
<1> SUFFICES ASSUME SyncInv, [StateSyncNext]_vars
             PROVE  StateSyncTypeOK'
  OBVIOUS
<1>0. StateSyncTypeOK /\ Dated /\ RowsGood
  BY DEF SyncInv
<1>1. TablesTyped /\ rounds' \in [Followers -> Rounds] /\ last' \in [Followers -> Times]
  BY <1>0, TablesMove, RoundsMove, WatermarksMove
<1>2. /\ up' \subseteq Nodes /\ Leader \in up'
      /\ \A f \in Followers : f \notin up' => last'[f] = 0
  BY <1>0, UpStep
<1>3. cache' \in [answer : Answers, time : Times]
  BY <1>0, CacheStep
<1>4. incremental' = incremental
  BY DEF StateSyncNext, DecideBlock, DecideUnblock, Decide, SyncRequest, InitialRequest,
         Request, Respond, Store, RoundFails, Collect, CollectFails, FollowerMerge,
         FollowerMergeFails, FollowerJoin, Stop, LeaderRestart, Tick, vars
<1>5. ASSUME NEW f \in Followers, rounds'[f].phase \in {"store", "apply"}
      PROVE  rounds'[f].answer.ts \in rounds'[f].answer.asked .. now'
  <2>1. RoundStep(f)
    BY <1>0, RoundsMove
  <2>2. now \in Nat /\ now' \in Nat /\ now <= now'
    BY <1>0, <1>1, StateSyncAssumption DEF TablesTyped, StateSyncTypeOK, Times
  <2>3. /\ rounds[f].phase \in {"store", "apply"} =>
             rounds[f].answer.ts \in rounds[f].answer.asked .. now
        /\ rounds[f].answer.asked <= now /\ cache.answer.ts \in cache.answer.asked .. now
    BY <1>0 DEF StateSyncTypeOK, Dated
  <2>4. rounds[f].answer.asked \in Nat /\ cache.answer.asked \in Nat
    BY <1>0, RoundType, StateSyncAssumption DEF StateSyncTypeOK, Answers, Times
  <2>5. CASE rounds'[f] = rounds[f]
    BY <1>5, <2>2, <2>3, <2>4, <2>5
  <2>6. CASE rounds'[f] = NoRound
    BY <1>5, <2>6, NoneTypes
  <2>7. CASE Asked(f) \/ Collected(f)
    BY <1>5, <2>7 DEF Asked, Collected
  <2>8. CASE Cached(f) /\ now' = now
    BY <2>3, <2>8 DEF Cached
  <2>9. CASE Moved(f) /\ now' = now
    BY <2>2, <2>3, <2>4, <2>9 DEF Moved
  <2> QED
    BY <2>1, <2>5, <2>6, <2>7, <2>8, <2>9 DEF RoundStep
<1> QED
  BY <1>0, <1>1, <1>2, <1>3, <1>4, <1>5 DEF StateSyncTypeOK, TablesTyped

\* No step dates anything after now, and a watermark that moves stays in its own holes.
LEMMA DatedStep == SyncInv /\ [StateSyncNext]_vars => Dated'
<1> SUFFICES ASSUME SyncInv, [StateSyncNext]_vars
             PROVE  Dated'
  OBVIOUS
<1>0. StateSyncTypeOK /\ Dated /\ RowsGood /\ RoundsOrdered
  BY DEF SyncInv
<1>1. /\ TablesTyped /\ \A n \in Nodes, ip \in IPs : TableStep(n, ip)
      /\ \A f \in Followers : RoundStep(f)
      /\ holes' \in [Followers -> [Nodes -> SUBSET Nat]]
      /\ \A f \in Followers : WatermarkStep(f)
  BY <1>0, TablesMove, RoundsMove, WatermarksMove
<1>2. now \in Nat /\ now' \in Nat /\ now <= now' /\ now # 0
  BY <1>0, <1>1, StateSyncAssumption DEF TablesTyped, StateSyncTypeOK, Dated, Times
<1>3. ASSUME NEW n \in Nodes, NEW ip \in IPs
      PROVE  own'[n][ip].mod <= now' /\ (own'[n][ip].state = "blocked" => own'[n][ip].mod # 0)
  <2>1. own[n][ip].mod \in Nat
    BY <1>0, StateSyncAssumption DEF StateSyncTypeOK, Rows, Times
  <2>2. \/ own'[n][ip] = own[n][ip]
        \/ own'[n][ip].mod = now
        \/ own'[n][ip] = NoRow
    BY <1>1 DEF TableStep
  <2> QED
    BY <1>0, <1>2, <2>1, <2>2, NoneTypes DEF Dated
<1>4. ASSUME NEW f \in Followers
      PROVE  last'[f] <= now' /\ (last'[f] # 0 => \A n \in Nodes : last'[f] \in holes'[f][n])
  <2>1. last[f] \in Nat /\ last[f] <= now
    BY <1>0, StateSyncAssumption DEF StateSyncTypeOK, Dated, Times
  <2>2. CASE last'[f] = last[f] /\ holes'[f] = holes[f]
    BY <1>0, <1>2, <2>1, <2>2 DEF Dated
  <2>3. CASE last'[f] = 0
    BY <1>2, <2>3
  <2>4. ASSUME rounds[f].phase = "apply", last'[f] = rounds[f].answer.ts,
               NEW failed \in SUBSET Nodes, \A n \in Nodes :
                 holes'[f][n] = (IF rounds[f].since = 0 THEN {} ELSE holes[f][n]) \cup
                                Missed(n, failed, rounds[f].since, rounds[f].answer)
        PROVE  last'[f] <= now' /\ (last'[f] # 0 => \A n \in Nodes : last'[f] \in holes'[f][n])
    <3> DEFINE a == rounds[f].answer
               since == rounds[f].since
    <3>1. a.ts \in a.asked .. now /\ since \in Nat /\ a.asked \in Nat /\ a.ts \in Nat
      BY <1>0, <2>4, RoundType, StateSyncAssumption DEF StateSyncTypeOK, Times
    <3>2. since <= a.asked /\ (since # 0 => since = last[f])
      BY <1>0, <2>4 DEF RoundsOrdered
    <3> HIDE DEF a, since
    <3>3. ASSUME NEW n \in Nodes, a.ts # 0
          PROVE  a.ts \in holes'[f][n]
      <4>1. CASE n \in failed /\ since = a.ts
        BY <1>0, <2>4, <3>2, <3>3, <4>1 DEF Dated, a, since
      <4>2. CASE n \in failed /\ since # a.ts
        BY <2>4, <3>1, <3>2, <4>2 DEF Missed, a, since
      <4>3. CASE n \notin failed
        BY <2>4, <3>1, <4>3 DEF Missed, a, since
      <4> QED
        BY <4>1, <4>2, <4>3
    <3> QED
      BY <1>2, <2>4, <3>1, <3>3 DEF a
  <2> QED
    BY <1>1, <2>2, <2>3, <2>4 DEF WatermarkStep
<1>5. ASSUME NEW f \in Followers
      PROVE  rounds'[f].answer.asked <= now'
  <2>1. rounds[f].answer.asked \in Nat /\ cache.answer.asked \in Nat
    BY <1>0, RoundType, StateSyncAssumption DEF StateSyncTypeOK, Answers, Times
  <2>2. rounds[f].answer.asked <= now /\ cache.answer.asked <= now
    BY <1>0, <1>2, <2>1 DEF Dated
  <2>3. rounds'[f].answer.asked \in {rounds[f].answer.asked, cache.answer.asked, 0, now}
    BY <1>1, NoneTypes DEF RoundStep, Asked, Cached, Collected, Moved
  <2> QED
    BY <1>2, <2>1, <2>2, <2>3
<1>6. cache'.answer.ts \in cache'.answer.asked .. now'
  <2>1. cache.answer.ts \in cache.answer.asked .. now /\ cache.answer.asked \in Nat
    BY <1>0, StateSyncAssumption DEF StateSyncTypeOK, Dated, Answers, Times
  <2>2. \A f \in Followers : /\ rounds[f].answer.asked \in Nat
                             /\ rounds[f].phase = "store" =>
                                  rounds[f].answer.ts \in rounds[f].answer.asked .. now
    BY <1>0, RoundType, StateSyncAssumption DEF StateSyncTypeOK, Times
  <2> QED
    BY <1>0, <1>2, <2>1, <2>2, CacheStep, NoneTypes
<1> QED
  BY <1>1, <1>2, <1>3, <1>4, <1>5, <1>6 DEF Dated, TablesTyped

\* Every step leaves rows that are those of decisions, in the tables and on their way.
LEMMA RowsStep == SyncInv /\ [StateSyncNext]_vars => RowsGood'
<1> SUFFICES ASSUME SyncInv, [StateSyncNext]_vars, NEW ip \in IPs
             PROVE  /\ \A n \in Nodes : GoodOf(ends'[ip], now', rows'[n][ip])
                    /\ \A f \in Followers : GoodOf(ends'[ip], now', rounds'[f].answer.merged[ip])
                    /\ GoodOf(ends'[ip], now', cache'.answer.merged[ip])
  BY DEF RowsGood
<1>0. StateSyncTypeOK /\ Dated /\ RowsGood
  BY DEF SyncInv
<1>1. /\ TablesTyped /\ \A n \in Nodes : TableStep(n, ip)
      /\ rounds' \in [Followers -> Rounds] /\ \A f \in Followers : RoundStep(f)
  BY <1>0, TablesMove, RoundsMove
<1>2. now \in Nat /\ now' \in Nat /\ now <= now' /\ ends[ip] \subseteq ends'[ip]
  BY <1>0, <1>1, StateSyncAssumption DEF TablesTyped, StateSyncTypeOK, Times
<1>3. ASSUME NEW row \in Rows, GoodOf(ends[ip], now, row)
      PROVE  GoodOf(ends'[ip], now', row)
  BY <1>2, <1>3, GoodLater
<1>4. GoodOf(ends[ip], now, NoRow) /\ NoRow \in Rows
  BY NoneTypes DEF GoodOf
<1>5. ASSUME NEW n \in Nodes
      PROVE  GoodOf(ends'[ip], now', rows'[n][ip])
  <2>1. /\ rows[n][ip] \in Rows /\ rows'[n][ip] \in Rows
        /\ GoodOf(ends[ip], now, rows[n][ip])
    BY <1>0, <1>1 DEF StateSyncTypeOK, TablesTyped, RowsGood
  <2>2. CASE rows'[n][ip] = rows[n][ip]
    BY <1>3, <2>1, <2>2
  <2>3. CASE GoodOf(ends'[ip], now, rows'[n][ip]) /\ now' = now
    BY <2>3
  <2>4. CASE GoodOf(ends[ip], now, rows'[n][ip])
    BY <1>3, <2>1, <2>4
  <2>5. ASSUME NEW row \in Rows, row.expire > now, GoodOf(ends[ip], now, row),
               rows'[n][ip] = Upsert(rows[n][ip], row)
        PROVE  GoodOf(ends[ip], now, rows'[n][ip])
    BY <1>2, <2>1, <2>5, UpsertGood
  <2> QED
    BY <1>1, <2>2, <2>3, <2>4, <2>5 DEF TableStep
<1>6. cache.answer.merged[ip] \in Rows /\ GoodOf(ends[ip], now, cache.answer.merged[ip])
  BY <1>0 DEF StateSyncTypeOK, Answers, RowsGood
<1>7. \A f \in Followers : /\ rounds[f].answer.merged[ip] \in Rows
                           /\ GoodOf(ends[ip], now, rounds[f].answer.merged[ip])
                           /\ rounds[f].since \in Nat
  BY <1>0, RoundType, StateSyncAssumption DEF StateSyncTypeOK, RowsGood, Times
<1>8. ASSUME NEW f \in Followers
      PROVE  GoodOf(ends'[ip], now', rounds'[f].answer.merged[ip])
  <2> DEFINE m == rounds'[f].answer.merged[ip]
  <2>0. m \in Rows
    BY <1>1, RoundType
  <2>1. CASE m \in {rounds[f].answer.merged[ip], cache.answer.merged[ip], NoRow}
    BY <1>3, <1>4, <1>6, <1>7, <2>1
  <2>2. CASE Asked(f)
    <3>1. PICK since \in {0, last[f]} : rounds'[f].answer.merged = Sent(Leader, since)
      BY <2>2 DEF Asked
    <3>2. since \in Nat
      BY <1>0, StateSyncAssumption DEF StateSyncTypeOK, Times
    <3>3. m \in {NoRow, rows[Leader][ip]}
      BY <1>0, <3>1, <3>2, SentRows, LeaderApart
    <3>4. rows[Leader][ip] \in Rows /\ GoodOf(ends[ip], now, rows[Leader][ip])
      BY <1>0, LeaderApart DEF StateSyncTypeOK, RowsGood
    <3> QED
      BY <1>3, <1>4, <3>3, <3>4
  <2>3. CASE Collected(f)
    <3>1. PICK n \in Followers :
            \/ m = Merge(rounds[f].answer.merged[ip], Sent(n, rounds[f].since)[ip])
            \/ rounds'[f].answer.merged = rounds[f].answer.merged
      BY <2>3 DEF Collected
    <3>2. CASE m = Merge(rounds[f].answer.merged[ip], Sent(n, rounds[f].since)[ip])
      <4>1. n \in Nodes
        BY LeaderApart
      <4>2. GoodOf(ends[ip], now, m)
        BY <1>0, <1>7, <3>2, <4>1, MergeSent
      <4> QED
        BY <1>3, <2>0, <4>2
    <3> QED
      BY <2>1, <3>1, <3>2
  <2>4. CASE rounds'[f] = NoRound
    BY <2>1, <2>4, NoneTypes
  <2> QED
    BY <1>1, <2>1, <2>2, <2>3, <2>4 DEF RoundStep, Cached, Moved
<1>9. cache'.answer.merged[ip] \in {cache.answer.merged[ip], NoRow}
        \cup {rounds[f].answer.merged[ip] : f \in Followers}
  BY <1>0, CacheStep, NoneTypes
<1>10. GoodOf(ends'[ip], now', cache'.answer.merged[ip])
  BY <1>3, <1>4, <1>6, <1>7, <1>9
<1> QED
  BY <1>5, <1>8, <1>10

\* A round is asked for with the watermark, which does not move before the round ends.
LEMMA OrderedStep == SyncInv /\ [StateSyncNext]_vars => RoundsOrdered'
<1> SUFFICES ASSUME SyncInv, [StateSyncNext]_vars, NEW f \in Followers,
                    rounds'[f].phase # "idle"
             PROVE  /\ rounds'[f].since # 0 => rounds'[f].since = last'[f]
                    /\ rounds'[f].since <= rounds'[f].answer.asked
                    /\ rounds'[f].phase \in {"store", "apply"} => rounds'[f].todo = {}
                    /\ rounds'[f].phase = "store" => rounds'[f].since = 0
  BY DEF RoundsOrdered
<1>0. StateSyncTypeOK /\ Dated /\ RowsGood /\ RoundsOrdered
  BY DEF SyncInv
<1>1. RoundStep(f)
  BY <1>0, RoundsMove
<1>2. /\ last[f] \in Nat /\ last[f] <= now /\ now \in Nat /\ cache.answer.asked \in Nat
      /\ rounds[f].answer.asked \in Nat /\ rounds[f].since \in Nat
  BY <1>0, RoundType, StateSyncAssumption DEF StateSyncTypeOK, Dated, Answers, Times
<1>3. CASE rounds'[f] = rounds[f] /\ last'[f] = last[f]
  BY <1>0, <1>3 DEF RoundsOrdered
<1>4. CASE rounds'[f] = NoRound
  BY <1>4, NoneTypes
<1>5. CASE Asked(f) /\ last' = last
  BY <1>2, <1>5 DEF Asked
<1>6. CASE Cached(f)
  BY <1>2, <1>6 DEF Cached
<1>7. CASE Collected(f) /\ last' = last
  BY <1>0, <1>7 DEF Collected, RoundsOrdered
<1>8. CASE Moved(f) /\ last' = last
  <2>1. rounds[f].phase # "idle"
    BY <1>8 DEF Moved
  <2> QED
    BY <1>0, <1>8, <2>1 DEF Moved, RoundsOrdered
<1> QED
  BY <1>1, <1>3, <1>4, <1>5, <1>6, <1>7, <1>8 DEF RoundStep

\* A node loses no block that it decided and that still runs by what it is sent.
LEMMA OwnStep == SyncInv /\ [StateSyncNext]_vars => OwnKept'
<1> SUFFICES ASSUME SyncInv, [StateSyncNext]_vars, NEW n \in Nodes, NEW ip \in IPs,
                    own'[n][ip].state = "blocked", own'[n][ip].expire > now'
             PROVE  Covers(rows'[n][ip], own'[n][ip]) /\ rows'[n][ip].mod >= own'[n][ip].mod
  BY DEF OwnKept
<1>0. StateSyncTypeOK /\ Dated /\ RowsGood /\ OwnKept
  BY DEF SyncInv
<1>1. TablesTyped /\ TableStep(n, ip)
  BY <1>0, TablesMove
<1>2. now \in Nat /\ now' \in Nat /\ now <= now'
  BY <1>0, <1>1, StateSyncAssumption DEF TablesTyped, StateSyncTypeOK, Times
<1>3. /\ rows[n][ip] \in Rows /\ own[n][ip] \in Rows /\ own'[n][ip] \in Rows
      /\ GoodOf(ends[ip], now, rows[n][ip])
  BY <1>0, <1>1 DEF StateSyncTypeOK, TablesTyped, RowsGood
<1>4. /\ own[n][ip].expire \in Nat /\ own'[n][ip].expire \in Nat
      /\ own[n][ip].mod \in Nat /\ own'[n][ip].mod \in Nat /\ rows[n][ip].mod \in Nat
  BY <1>3, StateSyncAssumption DEF Rows, Times
<1>5. ASSUME own'[n][ip] = own[n][ip]
      PROVE  Covers(rows[n][ip], own[n][ip]) /\ rows[n][ip].mod >= own[n][ip].mod
  BY <1>0, <1>2, <1>4, <1>5 DEF OwnKept
<1>6. CASE rows'[n][ip] = rows[n][ip] /\ own'[n][ip] = own[n][ip]
  BY <1>5, <1>6
<1>7. CASE rows'[n][ip] = own'[n][ip]
  BY <1>4, <1>7 DEF Covers
<1>8. ASSUME own'[n][ip] = own[n][ip], NEW row \in Rows, row.expire > now,
             GoodOf(ends[ip], now, row), rows'[n][ip] = Upsert(rows[n][ip], row)
      PROVE  Covers(rows'[n][ip], own'[n][ip]) /\ rows'[n][ip].mod >= own'[n][ip].mod
  <2>1. /\ Covers(Upsert(rows[n][ip], row), own[n][ip])
        /\ Upsert(rows[n][ip], row) \in Rows
        /\ Upsert(rows[n][ip], row).mod >= rows[n][ip].mod
    BY <1>2, <1>3, <1>5, <1>8, UpsertGood
  <2>2. Upsert(rows[n][ip], row).mod \in Nat
    BY <2>1, StateSyncAssumption DEF Rows, Times
  <2> QED
    BY <1>4, <1>5, <1>8, <2>1, <2>2
<1>9. CASE own'[n][ip] = NoRow
  BY <1>9, NoneTypes
<1> QED
  BY <1>1, <1>6, <1>7, <1>8, <1>9 DEF TableStep

(***************************************************************************)
(* Answers                                                                 *)
(***************************************************************************)

\* What an answer holds, it holds after every step: later decisions are made after the
\* request.
LEMMA HoldsStays ==
  ASSUME SyncInv, [StateSyncNext]_vars, NEW a \in Answers, a.asked <= now,
         NEW S \in SUBSET Nodes, NEW since, HoldsOf(own, now, a, S, since)
  PROVE  HoldsOf(own', now', a, S, since)
<1>0. StateSyncTypeOK /\ Dated /\ RowsGood
  BY DEF SyncInv
<1>1. TablesTyped /\ \A n \in Nodes, ip \in IPs : TableStep(n, ip)
  BY <1>0, TablesMove
<1>2. now \in Nat /\ now' \in Nat /\ now <= now' /\ a.asked \in Nat
  BY <1>0, <1>1, StateSyncAssumption DEF TablesTyped, StateSyncTypeOK, Answers, Times
<1> SUFFICES ASSUME NEW n \in S, NEW ip \in IPs,
                    own'[n][ip].state = "blocked", own'[n][ip].expire > now',
                    own'[n][ip].mod > since, own'[n][ip].mod < a.asked
             PROVE  Covers(a.merged[ip], own'[n][ip])
  BY DEF HoldsOf
<1>3. n \in Nodes /\ own'[n][ip] \in Rows
  BY <1>1 DEF TablesTyped
<1>4. own'[n][ip].expire \in Nat /\ own'[n][ip].mod \in Nat
  BY <1>3, StateSyncAssumption DEF Rows, Times
<1>5. own'[n][ip].mod # now /\ own'[n][ip] # NoRow
  BY <1>2, <1>4, NoneTypes
<1>6. own'[n][ip] = own[n][ip]
  BY <1>1, <1>3, <1>5 DEF TableStep
<1> QED
  BY <1>2, <1>4, <1>6 DEF HoldsOf

\* Every step keeps the promise of the answers on their way and of the file.
LEMMA AnswersStep == SyncInv /\ [StateSyncNext]_vars => AnswersHold'
<1> SUFFICES ASSUME SyncInv, [StateSyncNext]_vars
             PROVE  AnswersHold'
  OBVIOUS
<1>0. StateSyncTypeOK /\ Dated /\ RowsGood /\ RoundsOrdered /\ OwnKept /\ AnswersHold
  BY DEF SyncInv
<1> USE LeaderApart, StateSyncAssumption, NoneTypes
<1>a. \A row \in Rows : row.mod \in Nat /\ row.expire \in Nat
  BY DEF Rows, Times
<1>b. /\ own \in [Nodes -> [IPs -> Rows]] /\ rows \in [Nodes -> [IPs -> Rows]]
      /\ \A f \in Followers : last[f] \in Nat
  BY <1>0 DEF StateSyncTypeOK, Times
<1>c. \A f \in Followers : {0, last[f]} \subseteq Nat
  BY <1>b
<1>1. \A f \in Followers : RoundStep(f)
  BY <1>0, RoundsMove
<1>2. /\ cache.answer \in Answers /\ cache.answer.asked <= now
      /\ Nodes \ cache.answer.failed \in SUBSET Nodes
      /\ HoldsOf(own, now, cache.answer, Nodes \ cache.answer.failed, 0)
  <2>1. cache.answer.asked \in Nat /\ now \in Nat
    BY <1>0 DEF StateSyncTypeOK, Answers, Times
  <2> QED
    BY <1>0, <2>1 DEF StateSyncTypeOK, Dated, AnswersHold
<1>3. \A f \in Followers :
        /\ rounds[f].answer \in Answers /\ rounds[f].answer.asked <= now
        /\ Reached(rounds[f]) \in SUBSET Nodes /\ rounds[f].since \in Nat
  BY <1>0, RoundType DEF StateSyncTypeOK, Dated, Reached, Times
<1>4. HoldsOf(own', now', cache.answer, Nodes \ cache.answer.failed, 0)
  BY <1>2, HoldsStays
<1>5. ASSUME NEW f \in Followers, rounds[f].phase # "idle"
      PROVE  HoldsOf(own', now', rounds[f].answer, Reached(rounds[f]), rounds[f].since)
  <2>1. HoldsOf(own, now, rounds[f].answer, Reached(rounds[f]), rounds[f].since)
    BY <1>0, <1>5 DEF AnswersHold
  <2> QED
    BY <1>3, <2>1, HoldsStays
<1>6. HoldsOf(own', now', cache'.answer, Nodes \ cache'.answer.failed, 0)
  <2>1. CASE cache'.answer = cache.answer
    BY <1>4, <2>1
  <2>2. CASE cache'.answer = NoAnswer
    <3>1. own' \in [Nodes -> [IPs -> Rows]]
      BY <1>0, TablesMove DEF TablesTyped
    <3>2. \A n \in Nodes, ip \in IPs : own'[n][ip].mod \in Nat
      BY <3>1, <1>a
    <3>3. \A n \in Nodes, ip \in IPs : ~(own'[n][ip].mod < cache'.answer.asked)
      BY <2>2, <3>2
    <3> QED
      BY <3>3, Zenon DEF HoldsOf
  <2>3. ASSUME NEW f \in Followers, rounds[f].phase = "store", cache'.answer = rounds[f].answer
        PROVE  HoldsOf(own', now', cache'.answer, Nodes \ cache'.answer.failed, 0)
    <3>1. rounds[f].phase # "idle" /\ rounds[f].since = 0 /\ rounds[f].todo = {}
      BY <1>0, <2>3 DEF RoundsOrdered
    <3>2. Reached(rounds[f]) = Nodes \ cache'.answer.failed
      BY <2>3, <3>1 DEF Reached
    <3> QED
      BY <1>5, <2>3, <3>1, <3>2
  <2> QED
    BY <1>0, <2>1, <2>2, <2>3, CacheStep
<1>7. ASSUME NEW f \in Followers, rounds'[f].phase # "idle"
      PROVE  HoldsOf(own', now', rounds'[f].answer, Reached(rounds'[f]), rounds'[f].since)
  <2>1. CASE rounds'[f] = rounds[f]
    BY <1>5, <1>7, <2>1
  <2>2. CASE rounds'[f] = NoRound
    BY <1>7, <2>2
  <2>3. CASE Asked(f) /\ UNCHANGED <<now, own, rows>>
    <3>1. PICK since \in {0, last[f]} :
            /\ rounds'[f].since = since /\ rounds'[f].todo = Followers
            /\ rounds'[f].answer.merged = Sent(Leader, since)
      BY <2>3 DEF Asked
    <3>2. since \in Nat
      BY <1>c, Zenon
    <3> SUFFICES ASSUME NEW n \in Reached(rounds'[f]), NEW ip \in IPs,
                        own[n][ip].state = "blocked", own[n][ip].expire > now,
                        own[n][ip].mod > since
                 PROVE  Covers(Sent(Leader, since)[ip], own[n][ip])
      BY <2>3, <3>1 DEF HoldsOf
    <3>3. n = Leader
      BY <3>1 DEF Reached, Nodes
    <3>4. Covers(rows[Leader][ip], own[Leader][ip]) /\ rows[Leader][ip].mod >= own[Leader][ip].mod
      BY <1>0, <3>3 DEF OwnKept
    <3>5. /\ rows[Leader][ip].mod \in Nat /\ own[Leader][ip].mod \in Nat /\ now \in Nat
          /\ rows[Leader][ip].expire \in Nat /\ own[Leader][ip].expire \in Nat
      BY <1>0 DEF StateSyncTypeOK, Rows, Times
    <3>6. rows[Leader][ip].mod > since /\ rows[Leader][ip].expire > now
      BY <3>2, <3>3, <3>4, <3>5 DEF Covers
    <3>7. Sent(Leader, since)[ip] = rows[Leader][ip]
      BY <1>0, <3>2, <3>6, SentRows
    <3> QED
      BY <3>3, <3>4, <3>7
  <2>4. CASE Cached(f)
    <3>1. Reached(rounds'[f]) = Nodes \ cache.answer.failed
      BY <2>4 DEF Cached, Reached
    <3> QED
      BY <1>4, <2>4, <3>1 DEF Cached
  <2>5. CASE Collected(f) /\ UNCHANGED <<now, own, rows, ends>>
    <3> DEFINE q == rounds[f]
               a == rounds'[f].answer
    <3>1. PICK n \in Followers :
            /\ q.phase = "collect" /\ rounds'[f].since = q.since
            /\ rounds'[f].todo = q.todo \ {n} /\ a.asked = q.answer.asked
            /\ \/ /\ a.failed = q.answer.failed
                  /\ \A ip \in IPs : a.merged[ip] =
                       Merge(q.answer.merged[ip], Sent(n, q.since)[ip])
               \/ /\ a.failed = q.answer.failed \cup {n}
                  /\ a.merged = q.answer.merged
      BY <2>5 DEF Collected
    <3>2. HoldsOf(own, now, q.answer, Reached(q), q.since)
      BY <1>0, <3>1 DEF AnswersHold
    <3> SUFFICES ASSUME NEW m \in Reached(rounds'[f]), NEW ip \in IPs,
                        own[m][ip].state = "blocked", own[m][ip].expire > now,
                        own[m][ip].mod > q.since, own[m][ip].mod < q.answer.asked
                 PROVE  Covers(a.merged[ip], own[m][ip])
      BY <2>5, <3>1 DEF HoldsOf
    <3>3. m \in Nodes /\ own[m][ip] \in Rows /\ q.since \in Nat
      <4>1. m \in Nodes
        BY DEF Reached
      <4>2. own[m][ip] \in Rows
        BY <1>0, <4>1 DEF StateSyncTypeOK
      <4> QED
        BY <1>3, <4>1, <4>2
    <3>4. m \in Reached(q) => Covers(q.answer.merged[ip], own[m][ip])
      BY <3>2 DEF HoldsOf
    <3>5. CASE a.failed = q.answer.failed \cup {n} /\ a.merged = q.answer.merged
      <4>1. m \in Reached(q)
        BY <3>1, <3>5 DEF Reached
      <4> QED
        BY <3>4, <3>5, <4>1
    <3>6. CASE /\ a.failed = q.answer.failed
               /\ a.merged[ip] = Merge(q.answer.merged[ip], Sent(n, q.since)[ip])
      <4>1. m \in Reached(q) \/ m = n
        BY <3>1, <3>6 DEF Reached
      <4>2. Covers(rows[m][ip], own[m][ip]) /\ rows[m][ip].mod > q.since
        <5>1. Covers(rows[m][ip], own[m][ip]) /\ rows[m][ip].mod >= own[m][ip].mod
          BY <1>0, <3>3 DEF OwnKept
        <5>2. rows[m][ip].mod \in Nat /\ own[m][ip].mod \in Nat
          BY <1>0, <3>3 DEF StateSyncTypeOK, Rows, Times
        <5> QED
          BY <3>3, <5>1, <5>2
      <4>3. n \in Nodes /\ q.answer.merged[ip] \in Rows
        BY <1>3 DEF Answers
      <4>4. GoodOf(ends[ip], now, q.answer.merged[ip])
        BY <1>0 DEF RowsGood
      <4> HIDE DEF a
      <4>5. Covers(Merge(q.answer.merged[ip], Sent(n, q.since)[ip]), own[m][ip])
        BY <1>0, <3>3, <3>4, <4>1, <4>2, <4>3, <4>4, MergeSent
      <4> QED
        BY <3>6, <4>5
    <3> QED
      BY <3>1, <3>5, <3>6
  <2>6. CASE Moved(f)
    <3>1. rounds[f].phase # "idle" /\ Reached(rounds'[f]) = Reached(rounds[f])
      BY <2>6 DEF Moved, Reached
    <3> QED
      BY <1>5, <2>6, <3>1 DEF Moved, HoldsOf
  <2> QED
    BY <1>1, <2>1, <2>2, <2>3, <2>4, <2>5, <2>6 DEF RoundStep
<1> QED
  BY <1>6, <1>7 DEF AnswersHold

(***************************************************************************)
(* Watermarks                                                              *)
(***************************************************************************)

\* The end of a round covers what the watermark before covered, and what the answer holds.
\* The rest is in the holes.
LEMMA CoveredByRound ==
  ASSUME SyncInv, NEW f \in Followers, rounds[f].phase = "apply",
         NEW failed, rounds[f].answer.failed \subseteq failed, EndRound(f, failed),
         NEW n \in Nodes, n # f, NEW ip \in IPs,
         own[n][ip].state = "blocked", own[n][ip].expire > now,
         own[n][ip].mod <= last'[f], own[n][ip].mod \notin holes'[f][n]
  PROVE  \/ f \in up /\ (own[f][ip].mod < own[n][ip].mod => Covers(rows[f][ip], own[n][ip]))
         \/ n \notin failed /\ Covers(rounds[f].answer.merged[ip], own[n][ip])
<1> DEFINE a == rounds[f].answer
           since == rounds[f].since
           d == own[n][ip]
<1>0. StateSyncTypeOK /\ Dated /\ RoundsOrdered /\ AnswersHold /\ SyncedUpTo
  BY DEF SyncInv
<1>1. /\ a.ts \in Nat /\ a.asked \in Nat /\ since \in Nat /\ last[f] \in Nat
      /\ a.ts \in a.asked .. now
  BY <1>0, RoundType, StateSyncAssumption DEF StateSyncTypeOK, Times
<1>2. d \in Rows /\ d.mod \in Nat /\ d.mod # 0
  BY <1>0, StateSyncAssumption DEF StateSyncTypeOK, Dated, Rows, Times
<1>3. /\ last'[f] = a.ts
      /\ holes'[f][n] = (IF since = 0 THEN {} ELSE holes[f][n]) \cup Missed(n, failed, since, a)
  BY <1>0, RoundEnds
<1>4. since # 0 => since = last[f]
  BY <1>0 DEF RoundsOrdered
<1>5. CASE d.mod <= since
  <2>1. since # 0
    BY <1>1, <1>2, <1>5
  <2>2. d.mod \notin holes[f][n] /\ d.mod <= last[f]
    BY <1>3, <1>4, <1>5, <2>1
  <2>3. own[f][ip].mod < d.mod => Covers(rows[f][ip], d)
    BY <1>0, <2>2 DEF SyncedUpTo, Covers
  <2>4. f \in up
    BY <1>0, <1>4, <2>1 DEF StateSyncTypeOK
  <2> QED
    BY <2>3, <2>4
<1>6. CASE d.mod > since
  <2>1. n \notin failed /\ d.mod < a.asked
    BY <1>1, <1>2, <1>3, <1>6 DEF Missed
  <2>2. n \in Reached(rounds[f])
    BY <1>0, <2>1 DEF RoundsOrdered, Reached
  <2>3. HoldsOf(own, now, a, Reached(rounds[f]), since)
    BY <1>0 DEF AnswersHold
  <2> QED
    BY <1>6, <2>1, <2>2, <2>3 DEF HoldsOf
<1> QED
  BY <1>1, <1>2, <1>5, <1>6

\* A follower's watermark never covers a running block that the follower lacks, but for
\* those in the holes and those about which it has decided itself.
LEMMA SyncedStep == SyncInv /\ [StateSyncNext]_vars => SyncedUpTo'
<1> SUFFICES ASSUME SyncInv, [StateSyncNext]_vars,
                    NEW f \in Followers, NEW n \in Nodes, NEW ip \in IPs, n # f,
                    own'[n][ip].state = "blocked", own'[n][ip].expire > now',
                    own'[n][ip].mod <= last'[f], own'[n][ip].mod \notin holes'[f][n],
                    own'[f][ip].mod < own'[n][ip].mod
             PROVE  Covers(rows'[f][ip], own'[n][ip])
  BY DEF SyncedUpTo, Covers
<1>0. StateSyncTypeOK /\ Dated /\ RowsGood /\ RoundsOrdered /\ SyncedUpTo
  BY DEF SyncInv
<1>1. f \in Nodes /\ TablesTyped /\ TableStep(n, ip) /\ TableStep(f, ip) /\ WatermarkStep(f)
  BY <1>0, LeaderApart, TablesMove, WatermarksMove
<1>2. Dated' /\ own' \in [Nodes -> [IPs -> Rows]]
  BY <1>1, DatedStep DEF TablesTyped
<1>3. /\ now \in Nat /\ now' \in Nat /\ now <= now' /\ last[f] \in Nat /\ last[f] <= now
      /\ rows[f][ip] \in Rows /\ GoodOf(ends[ip], now, rows[f][ip])
  BY <1>0, <1>1, StateSyncAssumption DEF TablesTyped, StateSyncTypeOK, Dated, RowsGood, Times
<1>4. own'[n][ip] \in Rows /\ own'[n][ip].mod # 0 /\ own'[n][ip].mod <= now'
  BY <1>2 DEF Dated
<1>5. own'[n][ip].mod \in Nat /\ own'[n][ip].expire \in Nat /\ own'[f][ip].mod \in Nat
  BY <1>1, <1>2, <1>4, StateSyncAssumption DEF Rows, Times
<1>6. rounds[f].answer.merged[ip] \in Rows /\ GoodOf(ends[ip], now, rounds[f].answer.merged[ip])
  BY <1>0, RoundType DEF StateSyncTypeOK, RowsGood
<1>a. ASSUME NEW S, MergeRows(f, S), Covers(rows[f][ip], own'[n][ip])
      PROVE  Covers(rows'[f][ip], own'[n][ip])
  <2> DEFINE m == rounds[f].answer.merged[ip]
  <2>1. \/ rows'[f][ip] = rows[f][ip]
        \/ m.expire > now /\ rows'[f][ip] = Upsert(rows[f][ip], m)
    BY <1>0, <1>a, MergeRowsType
  <2>2. m \in Rows /\ GoodOf(ends[ip], now, m)
    BY <1>6
  <2> HIDE DEF m
  <2> QED
    BY <1>3, <1>4, <1>a, <2>1, <2>2, UpsertGood
<1>7. CASE FollowerMerge(f)
  <2> DEFINE m == rounds[f].answer.merged[ip]
             failed == rounds[f].answer.failed
  <2>1. /\ rounds[f].phase = "apply" /\ MergeRows(f, IPs) /\ EndRound(f, failed)
        /\ UNCHANGED <<now, own>>
    BY <1>7 DEF FollowerMerge
  <2>2. \/ f \in up /\ Covers(rows[f][ip], own[n][ip])
        \/ n \notin failed /\ Covers(m, own[n][ip])
    BY <2>1, CoveredByRound
  <2>3. CASE Covers(m, own[n][ip])
    <3>1. m.expire > now
      <4>1. m.expire \in Nat
        BY <1>6 DEF Rows
      <4> QED
        BY <1>3, <1>5, <2>1, <2>3, <4>1 DEF Covers
    <3>2. rows'[f][ip] = Upsert(rows[f][ip], m)
      BY <1>0, <2>1, <3>1, MergeRowsType
    <3>3. m \in Rows /\ GoodOf(ends[ip], now, m)
      BY <1>6
    <3> HIDE DEF m
    <3>4. \A d \in Rows : Covers(m, d) => Covers(Upsert(rows[f][ip], m), d)
      BY <1>3, <3>1, <3>3, UpsertGood
    <3> QED
      BY <1>4, <2>1, <2>3, <3>2, <3>4
  <2> QED
    BY <1>a, <2>1, <2>2, <2>3
<1>8. CASE FollowerMergeFails(f)
  <2>1. /\ rounds[f].phase = "apply" /\ EndRound(f, Nodes)
        /\ UNCHANGED <<now, own>> /\ \E S \in (SUBSET IPs) \ {IPs} : MergeRows(f, S)
    BY <1>8 DEF FollowerMergeFails
  <2>2. rounds[f].answer.failed \subseteq Nodes
    BY <1>0, RoundType, LeaderApart DEF StateSyncTypeOK
  <2>3. Covers(rows[f][ip], own[n][ip])
    BY <2>1, <2>2, CoveredByRound
  <2> QED
    BY <1>a, <2>1, <2>3
<1>9. CASE FollowerJoin(f)
  <2> DEFINE m == rounds[f].answer.merged[ip]
             failed == rounds[f].answer.failed
  <2>1. /\ rounds[f].phase = "apply" /\ f \notin up /\ EndRound(f, failed) /\ now' = now
    BY <1>9 DEF FollowerJoin
  <2>2. own'[n][ip] = own[n][ip]
    BY <1>0, <1>9 DEF FollowerJoin, StateSyncTypeOK
  <2>3. m.state # "none" => rows'[f][ip] = m
    BY <1>0, <1>1, <1>9 DEF FollowerJoin, StateSyncTypeOK
  <2>4. Covers(m, own[n][ip])
    BY <2>1, <2>2, CoveredByRound
  <2> QED
    BY <2>2, <2>3, <2>4 DEF Covers
<1>10. CASE last'[f] = last[f] /\ holes'[f] = holes[f]
  <2>1. own'[n][ip] = own[n][ip]
    <3>1. own'[n][ip].mod # now
      <4>1. last[f] # 0 => last[f] \in holes[f][n]
        BY <1>0 DEF Dated
      <4>2. own'[n][ip].mod <= last[f] /\ own'[n][ip].mod \notin holes[f][n]
        BY <1>10
      <4> QED
        BY <1>3, <1>4, <1>5, <4>1, <4>2
    <3>2. own'[n][ip] # NoRow
      BY NoneTypes
    <3> QED
      BY <1>1, <3>1, <3>2 DEF TableStep
  <2>2. ASSUME own'[f][ip] = own[f][ip]
        PROVE  Covers(rows[f][ip], own[n][ip])
    <3>1. own[n][ip].expire > now
      BY <1>3, <1>5, <2>1
    <3> QED
      BY <1>0, <1>10, <2>1, <2>2, <3>1 DEF SyncedUpTo, Covers
  <2>3. CASE rows'[f][ip] = rows[f][ip] /\ own'[f][ip] = own[f][ip]
    BY <2>1, <2>2, <2>3
  <2>4. CASE own'[f][ip].mod = now /\ now' = now
    BY <1>3, <1>4, <1>5, <2>4
  <2>5. ASSUME own'[f][ip] = own[f][ip], NEW row \in Rows, row.expire > now,
               GoodOf(ends[ip], now, row), rows'[f][ip] = Upsert(rows[f][ip], row)
        PROVE  Covers(rows'[f][ip], own'[n][ip])
    <3>1. \A d \in Rows : Covers(rows[f][ip], d) => Covers(Upsert(rows[f][ip], row), d)
      BY <1>3, <2>5, UpsertGood
    <3> QED
      BY <1>4, <2>1, <2>2, <2>5, <3>1
  <2>6. CASE f \notin up
    BY <1>0, <1>4, <1>5, <1>10, <2>6 DEF StateSyncTypeOK
  <2> QED
    BY <1>1, <2>3, <2>4, <2>5, <2>6 DEF TableStep
<1>11. CASE last'[f] = 0
  BY <1>4, <1>5, <1>11
<1> QED
  BY <1>1, <1>7, <1>8, <1>9, <1>10, <1>11 DEF WatermarkStep

(***************************************************************************)
(* Theorems                                                                *)
(***************************************************************************)

\* The inductive invariant holds in every behaviour.
LEMMA Invariance == StateSyncSpec => []SyncInv
<1>1. SyncInv /\ [StateSyncNext]_vars => SyncInv'
  BY TypeStep, DatedStep, RowsStep, OrderedStep, OwnStep, AnswersStep, SyncedStep DEF SyncInv
<1> QED
  BY InitHolds, <1>1, PTL DEF StateSyncSpec

\* Every state has its types, a follower that starts has no watermark, and an answer is
\* dated between the request and now.
THEOREM TypeCorrect == StateSyncSpec => []StateSyncTypeOK
<1>1. SyncInv => StateSyncTypeOK
  BY DEF SyncInv
<1> QED
  BY Invariance, <1>1, PTL

\* The rules of the leader's merge and of the follower's upsert never make a block out of
\* anything but a block, nor lengthen an unblocking (collectAndMergeStates,
\* fetchAndMergeFromLeader), on any node and however rounds and decisions interleave.
THEOREM NothingIsInvented == StateSyncSpec => []NothingInvented
<1>1. SyncInv => NothingInvented
  BY DEF SyncInv, RowsGood, GoodOf, NothingInvented
<1> QED
  BY Invariance, <1>1, PTL

\* A follower whose watermark covers a running block of another node has it, for at least
\* as long, but for those that SyncedUpTo names: incremental or not, from the file or not,
\* with failed nodes, failed transactions and restarts (fetchAndMergeFromLeader,
\* clusterMergedStateHandler, fetchInitialStateFromCluster).
THEOREM FollowersAreSynced == StateSyncSpec => []SyncedUpTo
<1>1. SyncInv => SyncedUpTo
  BY DEF SyncInv
<1> QED
  BY Invariance, <1>1, PTL

\* A node that takes part in the cluster loses no running block that it decided itself,
\* whatever it merges.
THEOREM OwnBlocksStay == StateSyncSpec => []OwnKept
<1>1. SyncInv => OwnKept
  BY DEF SyncInv
<1> QED
  BY Invariance, <1>1, PTL
=============================================================================
