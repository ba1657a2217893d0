---------------------------- MODULE HAProxyBlocker ----------------------------
(***************************************************************************)
(* The HAProxy backends and what internal/blocker/haproxy.go does to them: *)
(* commands fanned out to every backend that is believed healthy, the      *)
(* health check that compares uptimes, and the resync of a backend that    *)
(* restarted or recovered (the callback of cmd/bot-detector/main.go).      *)
(*                                                                         *)
(* A stick-table entry is the time it still counts: left[b][ip][t] ticks   *)
(* with gpc0 = 1, and 0 when the entry is absent, expired or has gpc0 = 0. *)
(* Tables are the tables of the version of the IP (the _ipv4 or _ipv6      *)
(* suffix), the same on every backend.  Callers of Block and Unblock are   *)
(* threads: the queue's worker and the API.                                *)
(***************************************************************************)
EXTENDS Naturals, FiniteSets

CONSTANTS
  Backends,    \* blockers.backends.haproxy.addresses
  First,       \* addresses[0]
  IPs,
  Tables,      \* the tables of duration_tables
  Lifetime,    \* Lifetime[t]: ticks an entry of table t lives after its last update
  Threads,     \* goroutines that may be in a call of Block or Unblock
  MaxTime,     \* bound of the model: ticks of the clock
  MaxFaults    \* bound of the model: failures

ASSUME HAProxyAssumption ==
  /\ First \in Backends
  /\ Lifetime \in [Tables -> Nat \ {0}]
  /\ \E t \in Tables : \A u \in Tables : Lifetime[u] <= Lifetime[t]
  /\ MaxTime \in Nat
  /\ MaxFaults \in Nat

VARIABLES
  link,      \* external: "up", "cut" (runs, unreachable) or "down"
  uptime,    \* external: Uptime_sec of each backend
  left,      \* external: remaining ticks of each block
  now,       \* the clock, for the bound
  faults,    \* failures so far, for the bound
  health,    \* backendHealth: Healthy and LastUptime
  probe,     \* the answer to "show info" that the health check has not recorded yet
  calls,     \* per thread, the call of executeCommandsConcurrently it is in
  resync,    \* per slot, a run of ResyncCallback
  missed     \* history: IPs of which b failed a command or lost an entry since
             \* the last resync of b read the database; all when it could not

hapVars == <<link, uptime, left, now, faults, health, probe, calls, resync, missed>>

BlockCmd(ip, d) == [kind |-> "block", ip |-> ip, dur |-> d]
UnblockCmd(ip) == [kind |-> "unblock", ip |-> ip, dur |-> 0]

Slots == 1 .. MaxFaults  \* every resync follows a failure of a backend of its own
AnyIP == CHOOSE ip \in IPs : TRUE
NoCall == [busy |-> FALSE, kind |-> "none", ip |-> AnyIP, dur |-> 0,
           sent |-> {}, err |-> FALSE]
NoProbe == [state |-> "none", b |-> First, uptime |-> 0]
NoResync == [phase |-> "idle", b |-> First, blocks |-> {}, unblocks |-> {}]

HAPInit ==
  /\ link = [b \in Backends |-> "up"]
  /\ uptime = [b \in Backends |-> 1]
  /\ left = [b \in Backends |-> [ip \in IPs |-> [t \in Tables |-> 0]]]
  /\ now = 0
  /\ faults = 0
  \* GetBackendHealth of an address never checked: healthy, uptime 0.
  /\ health = [b \in Backends |-> [ok |-> TRUE, uptime |-> 0]]
  /\ probe = NoProbe
  /\ calls = [th \in Threads |-> NoCall]
  /\ resync = [s \in Slots |-> NoResync]
  /\ missed = [b \in Backends |-> {}]

(***************************************************************************)
(* The backends (external)                                                 *)
(***************************************************************************)

Blocked(b, ip) == \E t \in Tables : left[b][ip][t] > 0

\* Time passes: entries run out, uptimes grow.
Tick ==
  /\ now < MaxTime
  /\ now' = now + 1
  /\ left' = [b \in Backends |-> [ip \in IPs |-> [t \in Tables |->
                IF left[b][ip][t] > 0 THEN left[b][ip][t] - 1 ELSE 0]]]
  /\ uptime' = [b \in Backends |-> IF link[b] = "down" THEN 0 ELSE uptime[b] + 1]
  /\ UNCHANGED <<link, faults, health, probe, calls, resync, missed>>

\* The network to b fails; its tables and its uptime are untouched.
Cut(b) ==
  /\ faults < MaxFaults
  /\ link[b] = "up"
  /\ link' = [link EXCEPT ![b] = "cut"]
  /\ faults' = faults + 1
  /\ UNCHANGED <<uptime, left, now, health, probe, calls, resync, missed>>

\* b stops: its tables are gone.
Crash(b) ==
  /\ faults < MaxFaults
  /\ link[b] = "up"
  /\ link' = [link EXCEPT ![b] = "down"]
  /\ left' = [left EXCEPT ![b] = [ip \in IPs |-> [t \in Tables |-> 0]]]
  /\ uptime' = [uptime EXCEPT ![b] = 0]
  /\ missed' = [missed EXCEPT ![b] = IPs]
  /\ faults' = faults + 1
  /\ UNCHANGED <<now, health, probe, calls, resync>>

\* The network heals, or a stopped backend starts with uptime 0.
Restore(b) ==
  /\ link[b] # "up"
  /\ link' = [link EXCEPT ![b] = "up"]
  /\ UNCHANGED <<uptime, left, now, faults, health, probe, calls, resync, missed>>

(***************************************************************************)
(* Block and Unblock                                                       *)
(***************************************************************************)

\* The fallback is the table of the longest duration (parseDurationTables).
Fallback == CHOOSE t \in Tables : \A u \in Tables : Lifetime[u] <= Lifetime[t]

\* The table of a block: the one of exactly this duration, else the fallback.
TableFor(d) ==
  IF \E t \in Tables : Lifetime[t] = d
  THEN CHOOSE t \in Tables : Lifetime[t] = d
  ELSE Fallback

\* Unblock asks addresses[0] for the table names and gives up, with no error,
\* when it does not answer; Block knows its table.
Skips(cmd) == cmd.kind = "unblock" /\ link[First] # "up"

\* The loop of executeCommandsConcurrently over the backends: one believed
\* unhealthy is skipped, for the others a goroutine is started.
Targets == {b \in Backends : health[b].ok}

\* A call, up to the goroutines.  The health of the backends is read in one step:
\* the reads of two backends commute with the health records between them.
CallStart(th, cmd) ==
  /\ ~calls[th].busy
  /\ calls' = [calls EXCEPT ![th] =
       [busy |-> TRUE, ip |-> cmd.ip, kind |-> cmd.kind, dur |-> cmd.dur,
        sent |-> IF Skips(cmd) THEN {} ELSE Targets, err |-> FALSE]]
  /\ UNCHANGED <<link, uptime, left, now, faults, health, probe, resync, missed>>

\* What a command does to the entries of an IP, and leaves alone.
Applied(entries, kind, d) ==
  [t \in Tables |-> IF kind = "unblock" THEN 0
                    ELSE IF t = TableFor(d) THEN Lifetime[t] ELSE entries[t]]

\* The goroutine's command reaches b, after at most MaxRetries attempts.
Deliver(th, b) ==
  LET call == calls[th] IN
  /\ b \in call.sent
  /\ link[b] = "up"
  /\ left' = [left EXCEPT ![b][call.ip] = Applied(@, call.kind, call.dur)]
  /\ calls' = [calls EXCEPT ![th].sent = @ \ {b}]
  /\ UNCHANGED <<link, uptime, now, faults, health, probe, resync, missed>>

\* Faulty variant: a failed command is tried again and again.
DeliverFailsForever(th, b) ==
  /\ b \in calls[th].sent
  /\ link[b] # "up"
  /\ calls' = [calls EXCEPT ![th].err = TRUE]
  /\ UNCHANGED <<link, uptime, left, now, faults, health, probe, resync, missed>>

\* All attempts failed and the error is counted; a command whose answer was lost
\* may have been applied.  A backend that answers with an error is one that is cut for
\* this command alone.
DeliverFails(th, b) ==
  LET call == calls[th] IN
  /\ b \in call.sent
  /\ link[b] # "up"
  /\ \/ UNCHANGED left
     \/ /\ link[b] = "cut"
        /\ left' = [left EXCEPT ![b][call.ip] = Applied(@, call.kind, call.dur)]
  /\ calls' = [calls EXCEPT ![th].sent = @ \ {b}, ![th].err = TRUE]
  /\ missed' = [missed EXCEPT ![b] = @ \cup {call.ip}]
  /\ UNCHANGED <<link, uptime, now, faults, health, probe, resync>>

\* wg.Wait is over: every backend was skipped or has answered.
CallDone(th) ==
  /\ calls[th].busy
  /\ calls[th].sent = {}

CallReturn(th) ==
  /\ CallDone(th)
  /\ calls' = [calls EXCEPT ![th] = NoCall]
  /\ UNCHANGED <<link, uptime, left, now, faults, health, probe, resync, missed>>

(***************************************************************************)
(* Health checks                                                           *)
(***************************************************************************)

\* performHealthChecks asks b for its uptime ...
HealthProbe(b) ==
  /\ probe.state = "none"
  /\ probe' = IF link[b] = "up"
              THEN [state |-> "answered", b |-> b, uptime |-> uptime[b]]
              ELSE [state |-> "failed", b |-> b, uptime |-> 0]
  /\ UNCHANGED <<link, uptime, left, now, faults, health, calls, resync, missed>>

\* Faulty variant: a backend that answers again is only marked healthy.
NeedsResyncOnRestartOnly(b, up) ==
  health[b].ok /\ health[b].uptime > 0 /\ up < health[b].uptime

\* Recovered, or its uptime went back.
NeedsResync(b, up) ==
  \/ ~health[b].ok
  \/ health[b].uptime > 0 /\ up < health[b].uptime

\* ... and records the answer, starting the resync callback after the backend is
\* marked healthy.
HealthRecord ==
  LET b == probe.b
      answered == probe.state = "answered" IN
  /\ probe.state # "none"
  /\ probe' = NoProbe
  /\ health' = [health EXCEPT ![b] = [ok |-> answered, uptime |-> probe.uptime]]
  /\ IF answered /\ NeedsResync(b, probe.uptime)
     THEN \E s \in Slots :
            /\ resync[s].phase = "idle"
            /\ \A r \in Slots : resync[r].phase = "idle" => s <= r
            /\ resync' = [resync EXCEPT ![s] = [NoResync EXCEPT !.phase = "query", !.b = b]]
     ELSE UNCHANGED resync
  /\ UNCHANGED <<link, uptime, left, now, faults, calls, missed>>

(***************************************************************************)
(* Resync                                                                  *)
(***************************************************************************)

\* ResyncCallback reads all IP states: blocks is the set of pairs of an IP and the
\* table its remaining duration maps to, unblocks the set of unblocked IPs.
ResyncQuery(s, blocks, unblocks) ==
  /\ resync[s].phase = "query"
  /\ resync' = [resync EXCEPT ![s].phase = "block", ![s].blocks = blocks,
                              ![s].unblocks = unblocks \X Tables]
  /\ missed' = [missed EXCEPT ![resync[s].b] = {}]
  /\ UNCHANGED <<link, uptime, left, now, faults, health, probe, calls>>

\* They cannot be read: the callback logs it and resyncs nothing, also not the commands
\* that b was not sent while it was unhealthy.
ResyncQueryFails(s) ==
  /\ resync[s].phase = "query"
  /\ faults < MaxFaults
  /\ faults' = faults + 1
  /\ resync' = [resync EXCEPT ![s] = NoResync]
  /\ missed' = [missed EXCEPT ![resync[s].b] = IPs]
  /\ UNCHANGED <<link, uptime, left, now, health, probe, calls>>

\* ResyncBackend sends the next block to b alone.
ResyncBlock(s, ip, t) ==
  LET b == resync[s].b IN
  /\ resync[s].phase = "block"
  /\ <<ip, t>> \in resync[s].blocks
  /\ resync' = [resync EXCEPT ![s].blocks = @ \ {<<ip, t>>}]
  /\ IF link[b] = "up"
     THEN /\ left' = [left EXCEPT ![b][ip][t] = Lifetime[t]]
          /\ UNCHANGED missed
     ELSE /\ missed' = [missed EXCEPT ![b] = @ \cup {ip}]
          /\ UNCHANGED left
  /\ UNCHANGED <<link, uptime, now, faults, health, probe, calls>>

\* ResyncUnblockedIPs asks b for its tables, and returns when b does not answer.
ResyncTables(s) ==
  LET b == resync[s].b
      ips == {p[1] : p \in resync[s].unblocks} IN
  /\ resync[s].phase = "block"
  /\ resync[s].blocks = {}
  /\ IF ips # {} /\ link[b] = "up"
     THEN /\ resync' = [resync EXCEPT ![s].phase = "unblock"]
          /\ UNCHANGED missed
     ELSE /\ resync' = [resync EXCEPT ![s] = NoResync]
          /\ missed' = [missed EXCEPT ![b] = @ \cup ips]
  /\ UNCHANGED <<link, uptime, left, now, faults, health, probe, calls>>

\* ... then sends one unblock for each IP and table.
ResyncUnblock(s, ip, t) ==
  LET b == resync[s].b IN
  /\ resync[s].phase = "unblock"
  /\ <<ip, t>> \in resync[s].unblocks
  /\ resync' = [resync EXCEPT ![s] =
       IF resync[s].unblocks = {<<ip, t>>} THEN NoResync
       ELSE [resync[s] EXCEPT !.unblocks = @ \ {<<ip, t>>}]]
  /\ IF link[b] = "up"
     THEN /\ left' = [left EXCEPT ![b][ip][t] = 0]
          /\ UNCHANGED missed
     ELSE /\ missed' = [missed EXCEPT ![b] = @ \cup {ip}]
          /\ UNCHANGED left
  /\ UNCHANGED <<link, uptime, now, faults, health, probe, calls>>

Resyncing(b) == \E s \in Slots : resync[s].phase # "idle" /\ resync[s].b = b
=============================================================================
