----------------------------- MODULE Enforcement -----------------------------
(***************************************************************************)
(* From a decision about an IP to its effect on HAProxy.  The decision     *)
(* makers write the database and hand a command to the rate-limited queue  *)
(* (the checker, the reloader, a bad actor learned from a peer), or call   *)
(* the blocker directly and then write the database (the API).  The queue  *)
(* of RateLimitedBlocker runs its commands on the backends of              *)
(* HAProxyBlocker, whose resync reads the same database.                   *)
(*                                                                         *)
(* The parts share no lock: a database write and the command that carries  *)
(* it are two steps, and anything may happen between them.  holes records  *)
(* the IPs for which such a thing did happen, with its cause, so that      *)
(* Agreement can say that nothing else makes HAProxy differ from the       *)
(* database.                                                               *)
(***************************************************************************)
EXTENDS RateLimitedBlocker, HAProxyBlocker

CONSTANTS
  ActiveMakers,      \* the decision makers that take part: a subset of Makers
  BlockDurations,    \* block_duration of the chains
  BadActorDuration,  \* bad_actors.block_duration
  MaxDecisions       \* bound of the model: database writes

ASSUME EnforcementAssumption ==
  /\ BlockDurations \subseteq Nat \ {0}
  /\ BadActorDuration \in Nat \ {0}
  /\ MaxDecisions \in Nat
  /\ MaxSubmissions >= 2 * MaxDecisions
  /\ Threads = {"worker", "api"}
  /\ RestoreCommands = {}
  /\ \A d \in BlockDurations \cup {BadActorDuration} : d <= Lifetime[Fallback]
  /\ LiveCommands =
       {BlockCmd(ip, d) : ip \in IPs, d \in BlockDurations \cup {BadActorDuration}}
         \cup {UnblockCmd(ip) : ip \in IPs}

VARIABLES
  db,        \* the ips table: state and ticks until expire_time
  pcs,       \* per decision maker, the command it has still to hand over
  listing,   \* the reloader's copy of the blocked IPs
  decisions, \* database writes so far, for the bound
  holes      \* history: <<ip, cause>> for what separates database and command, and
             \* <<ip, "unread">> when a resync could not read the database

decisionVars == <<db, pcs, listing, decisions, holes>>
vars == <<queueVars, hapVars, decisionVars>>

Makers == {"checker", "reload", "peer", "api"}
Causes == {"overlap", "dropped", "discovery", "api", "peer"}
Unread == IPs \X {"unread"}
States == {"none", "blocked", "unblocked"}
Idle == [phase |-> "idle", cmd |-> UnblockCmd(AnyIP)]
CallRecords == [busy : BOOLEAN, kind : {"none", "block", "unblock"}, ip : IPs \cup {AnyIP},
                dur : Nat, sent : SUBSET Backends, err : BOOLEAN]
ResyncRecords == [phase : {"idle", "query", "block", "unblock"}, b : Backends,
                  blocks : SUBSET (IPs \X Tables), unblocks : SUBSET (IPs \X Tables)]

EnfInit ==
  /\ RLBInit
  /\ HAPInit
  /\ db = [ip \in IPs |-> [state |-> "none", left |-> 0]]
  /\ pcs = [m \in Makers |-> Idle]
  /\ listing = {}
  /\ decisions = 0
  /\ holes = {}

(***************************************************************************)
(* Database writes                                                         *)
(***************************************************************************)

\* Decision makers and resyncs other than m that are at work on the IP.
Overlaps(m, ip) ==
  \/ \E n \in Makers \ {m} : pcs[n].phase # "idle" /\ pcs[n].cmd.ip = ip
  \/ \E s \in Slots : resync[s].phase \in {"block", "unblock"}

Pending(ip) ==
  \/ \E i \in 1 .. Len(queue) : queue[i].ip = ip
  \/ \E i \in 1 .. Len(inflight) : inflight[i].ip = ip

\* The bound on decisions.
Decide(m) ==
  /\ m \in ActiveMakers
  /\ decisions < MaxDecisions
  /\ decisions' = decisions + 1

\* One write of the ips row under PersistenceMutex, by m.
WriteState(m, ip, row) ==
  /\ db' = [db EXCEPT ![ip] = row]
  /\ holes' = IF Overlaps(m, ip) THEN holes \cup {<<ip, "overlap">>} ELSE holes

BlockedRow(d) == [state |-> "blocked", left |-> d]
UnblockedRow == [state |-> "unblocked", left |-> 0]
NoRow == [state |-> "none", left |-> 0]

\* A command is handed to the queue, which takes or drops it.
HandOver(cmd, found) ==
  \/ Enqueue(cmd) /\ holes' = holes \cup found
  \/ Drop(cmd) /\ holes' = holes \cup found \cup {<<cmd.ip, "dropped">>}

(***************************************************************************)
(* Decision makers that use the queue                                      *)
(***************************************************************************)

\* executeBlock, up to the end of the transaction: the checker holds
\* ActivityMutex throughout, so it makes one decision at a time.
CheckerBlock(ip, d) ==
  /\ Decide("checker")
  /\ pcs["checker"].phase = "idle"
  /\ WriteState("checker", ip, BlockedRow(d))
  /\ pcs' = [pcs EXCEPT !["checker"] = [phase |-> "queue", cmd |-> BlockCmd(ip, d)]]
  /\ UNCHANGED <<queueVars, hapVars, listing>>

\* The same, with a score that reaches the threshold.
CheckerPromote(ip, d) ==
  /\ Decide("checker")
  /\ pcs["checker"].phase = "idle"
  /\ WriteState("checker", ip, BlockedRow(d))
  /\ pcs' = [pcs EXCEPT !["checker"] = [phase |-> "promote", cmd |-> BlockCmd(ip, d)]]
  /\ UNCHANGED <<queueVars, hapVars, listing>>

\* Promotion, still under PersistenceMutex: the long block is handed over and
\* then written.
CheckerPromoted ==
  LET cmd == pcs["checker"].cmd IN
  /\ pcs["checker"].phase = "promote"
  /\ HandOver(BlockCmd(cmd.ip, BadActorDuration), {})
  /\ db' = [db EXCEPT ![cmd.ip] = BlockedRow(BadActorDuration)]
  /\ pcs' = [pcs EXCEPT !["checker"].phase = "queue"]
  /\ UNCHANGED <<hapVars, listing, decisions>>

\* CheckChains on a good actor, with unblock_on_good_actor: the row is written,
\* the command is not yet queued.  The cooldown may be over at any time.
CheckerUnblock(ip) ==
  /\ Decide("checker")
  /\ pcs["checker"].phase = "idle"
  /\ WriteState("checker", ip, UnblockedRow)
  /\ pcs' = [pcs EXCEPT !["checker"] = [phase |-> "queue", cmd |-> UnblockCmd(ip)]]
  /\ UNCHANGED <<queueVars, hapVars, listing>>

\* unblockNewlyWhitelistedIPs lists the blocked IPs (GetBlockedIPs); some of them
\* match the new rules ...
ReloadList ==
  LET blocked == {ip \in IPs : db[ip].state = "blocked" /\ db[ip].left > 0} IN
  /\ "reload" \in ActiveMakers
  /\ pcs["reload"].phase = "idle"
  /\ listing = {}
  /\ listing' \in SUBSET blocked \ {{}}
  /\ UNCHANGED <<queueVars, hapVars, db, pcs, decisions, holes>>

\* ... and are unblocked one by one.
ReloadUnblock(ip) ==
  /\ Decide("reload")
  /\ pcs["reload"].phase = "idle"
  /\ ip \in listing
  /\ listing' = listing \ {ip}
  /\ WriteState("reload", ip, UnblockedRow)
  /\ pcs' = [pcs EXCEPT !["reload"] = [phase |-> "queue", cmd |-> UnblockCmd(ip)]]
  /\ UNCHANGED <<queueVars, hapVars>>

\* The command of a row already written.
HandOverNext(m) ==
  /\ pcs[m].phase = "queue"
  /\ HandOver(pcs[m].cmd, {})
  /\ pcs' = [pcs EXCEPT ![m] = Idle]
  /\ UNCHANGED <<hapVars, db, listing, decisions>>

\* ApplyBadActorFromPeer works the other way round: the command is queued ...
PeerBadActor(ip) ==
  /\ Decide("peer")
  /\ pcs["peer"].phase = "idle"
  /\ HandOver(BlockCmd(ip, BadActorDuration),
              IF Overlaps("peer", ip) THEN {<<ip, "overlap">>} ELSE {})
  /\ pcs' = [pcs EXCEPT !["peer"] =
               [phase |-> "write", cmd |-> BlockCmd(ip, BadActorDuration)]]
  /\ UNCHANGED <<hapVars, db, listing>>

\* ... before the row is written.
PeerWrite ==
  /\ pcs["peer"].phase = "write"
  /\ WriteState("peer", pcs["peer"].cmd.ip, BlockedRow(BadActorDuration))
  /\ pcs' = [pcs EXCEPT !["peer"] = Idle]
  /\ UNCHANGED <<queueVars, hapVars, listing, decisions>>

(***************************************************************************)
(* The API, which does not use the queue                                   *)
(***************************************************************************)

\* unblockIP calls UnblockDirect ...
ApiUnblock(ip) ==
  /\ Decide("api")
  /\ pcs["api"].phase = "idle"
  /\ CallStart("api", UnblockCmd(ip))
  /\ pcs' = [pcs EXCEPT !["api"] = [phase |-> "call", cmd |-> UnblockCmd(ip)]]
  /\ holes' = IF Overlaps("api", ip) \/ Pending(ip)
              THEN holes \cup {<<ip, "api">>} ELSE holes
  /\ UNCHANGED <<queueVars, db, listing>>

\* ... answers 500 when a backend failed, with the row still there ...
ApiReturn ==
  /\ CallReturn("api")
  /\ IF calls["api"].err
     THEN /\ pcs' = [pcs EXCEPT !["api"] = Idle]
          /\ holes' = holes \cup {<<calls["api"].ip, "api">>}
     ELSE /\ pcs' = [pcs EXCEPT !["api"].phase = "write"]
          /\ UNCHANGED holes
  /\ UNCHANGED <<queueVars, db, listing, decisions>>

\* ... and otherwise deletes it (RemoveFromPersistence).
ApiRemove ==
  /\ pcs["api"].phase = "write"
  /\ WriteState("api", pcs["api"].cmd.ip, NoRow)
  /\ pcs' = [pcs EXCEPT !["api"] = Idle]
  /\ UNCHANGED <<queueVars, hapVars, listing, decisions>>

(***************************************************************************)
(* The queue's worker runs a command on the backends                       *)
(***************************************************************************)

RunCommand ==
  LET cmd == Head(queue) IN
  /\ WorkerTake
  /\ CallStart("worker", cmd)
  /\ holes' = IF Skips(cmd) THEN holes \cup {<<cmd.ip, "discovery">>} ELSE holes
  /\ UNCHANGED <<db, pcs, listing, decisions>>

CommandDone ==
  /\ CallReturn("worker")
  /\ WorkerFinish
  /\ UNCHANGED decisionVars

(***************************************************************************)
(* Resync and time                                                         *)
(***************************************************************************)

\* What ResyncCallback collects: unexpired blocks, with the table their remaining
\* duration maps to.
ResyncBlocks ==
  {<<ip, TableFor(db[ip].left)>> :
     ip \in {i \in IPs : db[i].state = "blocked" /\ db[i].left > 0}}

\* The IP of a bad actor whose block is under way and whose row is not written.
EarlyBlocks == {<<ip, "peer">> :
  ip \in {i \in IPs : pcs["peer"].phase = "write" /\ pcs["peer"].cmd.ip = i}}

ResyncRead(s) ==
  /\ ResyncQuery(s, ResyncBlocks, {ip \in IPs : db[ip].state = "unblocked"})
  /\ holes' = holes \cup EarlyBlocks
  /\ UNCHANGED <<queueVars, db, pcs, listing, decisions>>

ResyncReadFails(s) ==
  /\ ResyncQueryFails(s)
  /\ holes' = holes \cup Unread
  /\ UNCHANGED <<queueVars, db, pcs, listing, decisions>>

Time ==
  /\ Tick
  /\ db' = [ip \in IPs |->
       [db[ip] EXCEPT !.left = IF @ > 0 THEN @ - 1 ELSE 0]]
  /\ holes' = holes \cup EarlyBlocks
  /\ UNCHANGED <<queueVars, pcs, listing, decisions>>

(***************************************************************************)
(* Specification                                                           *)
(***************************************************************************)

Decisions ==
  \/ \E ip \in IPs :
       \/ \E d \in BlockDurations : CheckerBlock(ip, d) \/ CheckerPromote(ip, d)
       \/ CheckerUnblock(ip)
       \/ ReloadUnblock(ip)
       \/ PeerBadActor(ip)
       \/ ApiUnblock(ip)
  \/ ReloadList

Completions ==
  \/ CheckerPromoted
  \/ \E m \in Makers : HandOverNext(m)
  \/ PeerWrite
  \/ ApiReturn
  \/ ApiRemove

Commanding ==
  \/ RunCommand
  \/ CommandDone
  \/ \E th \in Threads, b \in Backends :
       /\ Deliver(th, b) \/ DeliverFails(th, b)
       /\ UNCHANGED <<queueVars, decisionVars>>

Checking(b) ==
  /\ HealthProbe(b) \/ (probe.b = b /\ HealthRecord)
  /\ UNCHANGED <<queueVars, decisionVars>>

Resyncs(s) ==
  \/ ResyncRead(s) \/ ResyncReadFails(s)
  \/ /\ \/ ResyncTables(s)
        \/ \E ip \in IPs, t \in Tables : ResyncBlock(s, ip, t) \/ ResyncUnblock(s, ip, t)
     /\ UNCHANGED <<queueVars, decisionVars>>

Failures ==
  /\ \E b \in Backends : Cut(b) \/ Crash(b) \/ Restore(b)
  /\ UNCHANGED <<queueVars, decisionVars>>

EnfNext ==
  \/ Decisions
  \/ Completions
  \/ Commanding
  \/ \E b \in Backends : Checking(b)
  \/ \E s \in Slots : Resyncs(s)
  \/ Failures
  \/ Time

EnfSpec == EnfInit /\ [][EnfNext]_vars

\* Every goroutine that has work is scheduled, and every call on a backend ends:
\* its connection, write and read have deadlines and its attempts are bounded.  The
\* health check visits every address in each round, so no backend is passed over
\* for ever (strong fairness, because one probe is under way at a time).  Nothing
\* is assumed of the decision makers' inputs, of failures or of their repair.
EnfFairSpec ==
  /\ EnfSpec
  /\ WF_vars(Completions)
  /\ WF_vars(Commanding)
  /\ \A b \in Backends : SF_vars(Checking(b))
  /\ \A s \in Slots : WF_vars(Resyncs(s))

(***************************************************************************)
(* Properties                                                              *)
(***************************************************************************)

\* Every variable of the backends, of the blocker, of the queue and of the database
\* side holds a value of its type: entries live no longer than their table allows,
\* rows no longer than the longest table, a call that ended waits for no backend.
EnfTypeOK ==
  /\ link \in [Backends -> {"up", "cut", "down"}]
  /\ uptime \in [Backends -> Nat]
  /\ left \in [Backends -> [IPs -> [Tables -> Nat]]]
  /\ \A b \in Backends, ip \in IPs, t \in Tables : left[b][ip][t] <= Lifetime[t]
  /\ health \in [Backends -> [ok : BOOLEAN, uptime : Nat]]
  /\ probe \in [state : {"none", "answered", "failed"}, b : Backends, uptime : Nat]
  /\ calls \in [Threads -> CallRecords]
  /\ \A th \in Threads : IF calls[th].busy THEN calls[th].ip \in IPs ELSE calls[th].sent = {}
  /\ resync \in [Slots -> ResyncRecords]
  /\ missed \in [Backends -> SUBSET IPs]
  /\ queue \in Seq(LiveCommands) /\ inflight \in Seq(LiveCommands)
  /\ db \in [IPs -> [state : States, left : Nat]]
  /\ \A ip \in IPs : db[ip].left <= Lifetime[Fallback]
  /\ pcs \in [Makers -> [phase : {"idle", "promote", "queue", "write", "call"},
                         cmd : LiveCommands \cup {UnblockCmd(AnyIP)}]]
  /\ \A m \in Makers : pcs[m].phase # "idle" => pcs[m].cmd \in LiveCommands
  /\ listing \subseteq IPs
  /\ holes \subseteq (IPs \X Causes) \cup Unread

\* Nobody is at work on a command, a row or a resync of b.
AtRest(b) ==
  /\ queue = <<>> /\ inflight = <<>>
  /\ \A m \in Makers : pcs[m].phase = "idle"
  /\ ~Resyncing(b)

Reflects(b, ip) ==
  /\ db[ip].state = "blocked" /\ db[ip].left > 0 =>
       \E t \in Tables : left[b][ip][t] >= db[ip].left
  /\ db[ip].state = "unblocked" => ~Blocked(b, ip)

\* HAProxy enforces the database: at rest a healthy backend blocks an IP for as
\* long as its row says, and does not block an IP whose row says unblocked, unless
\* it missed a command or lost its tables since the last resync, or one of the
\* causes in holes applies to the IP.  A command skipped on an unhealthy backend,
\* in particular, is made good by the resync, wherever the skip falls between the
\* health check's answer, its record and the resync's query.
Agreement ==
  \A b \in Backends, ip \in IPs :
    /\ AtRest(b)
    /\ link[b] = "up" /\ health[b].ok
    /\ ip \notin missed[b]
    /\ \A c \in Causes : <<ip, c>> \notin holes
    => Reflects(b, ip)

\* The health check has an answer of b from after a restart.
SeenRestarted(b) ==
  /\ probe.state = "answered" /\ probe.b = b
  /\ probe.uptime < health[b].uptime

\* A backend found unhealthy, or restarted, does not stay behind: once it is reachable for
\* good the health check takes it back, a resync runs to its end, and no command or entry
\* it missed before is left unsent, unless the resync could not read the database: nothing
\* starts it again.  A restart that shows in no answer's uptime is not noticed.
Recovers ==
  \A b \in Backends :
    ~health[b].ok \/ SeenRestarted(b) ~>
      \/ link[b] # "up"
      \/ health[b].ok /\ ~Resyncing(b) /\ (missed[b] = {} \/ Unread \subseteq holes)

\* Every decision is carried to its end: when the decisions stop, the hand-overs,
\* the queue, the API calls and the resyncs all finish, whatever failed meanwhile,
\* so that Agreement applies.
ComesToRest == <>[](\A b \in Backends : AtRest(b))
=============================================================================
