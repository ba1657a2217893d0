------------------------------ MODULE ClusterApi ------------------------------
(***************************************************************************)
(* The requests of internal/server that take a decision back in a cluster: *)
(* unblock and clear of an IP, unblock by reason, removal of bad actors,   *)
(* and the lookup that shows what every node thinks.  A follower forwards  *)
(* a request to the leader; the leader works on the shared HAProxy, on its *)
(* own tables and memory, and sends the followers requests of their own.   *)
(*                                                                         *)
(* Every handler is a job with a program counter, so that decisions, the   *)
(* synchronisation of nodes and other jobs fall between its steps.  HAProxy*)
(* is one set of blocked IPs: BackendQueries and Enforcement have the      *)
(* backends, Persistence the scores.  A decision of a node and the         *)
(* application of one record of a peer are single steps, apart from the    *)
(* block command that waits in the queue of the node (pend).  Times are    *)
(* left out: no block expires.  Persistence is enabled.                    *)
(***************************************************************************)
EXTENDS Naturals, FiniteSets, FiniteSetsExt

CONSTANTS
  Leader, Followers,  \* numbers, in the order of cluster.nodes
  HAProxy,       \* a number that is no node's, for the shared HAProxy
  IPs,           \* numbers: lists of IPs are worked through in this order
  Reasons,       \* chain names
  Kinds,         \* the requests that are made
  MaxRequests,   \* bound of the model
  MaxDecisions,  \* bound of the model: decisions and synchronisations
  MaxFaults      \* bound of the model: failures of any kind

Nodes == {Leader} \cup Followers
AllKinds == {"unblock", "unblockGet", "clear", "byReason", "delete", "deleteUnblock", "lookup"}

ASSUME ApiAssumption ==
  /\ Leader \notin Followers /\ HAProxy \notin Nodes /\ Nodes \cup {HAProxy} \subseteq Nat
  /\ IPs \subseteq Nat \ {0} /\ Kinds \subseteq AllKinds
  /\ {"none", "null", "bad-actor", "all"} \cap Reasons = {}
  /\ {MaxRequests, MaxDecisions, MaxFaults} \subseteq Nat

VARIABLES
  row,      \* ips: the reason of the blocked row of an IP on a node, or "none"
  bad,      \* bad_actors: the reason in the history, "null" without one, or "none"
  act,      \* ActivityStore: "none", "seen" or "blocked"
  hap,      \* the IPs that HAProxy blocks
  pend,     \* per node, block commands in its queue
  inbox,    \* per node, records of peers received and not yet applied
  jobs,     \* handlers at work, and requests on their way to them
  used,     \* requests, decisions and faults so far, for the bounds
  owed,     \* history: what requests promised, <<node or HAProxy, ip, what, request>>,
            \* and nothing has happened since that takes it back
  loose,    \* history: IPs that HAProxy may block without a row, see BlockHasRecord
  late      \* history: requests and nodes whose answer they gave up

tables == <<row, bad, act, hap>>
apiVars == <<row, bad, act, hap, pend, inbox, jobs, used, owed, loose, late>>

Job(kind, node, ip, reason) ==
  [req |-> 0, kind |-> kind, node |-> node, ip |-> ip, reason |-> reason, pc |-> "forward",
   todo |-> {}, done |-> {}, asked |-> {}, status |-> [n \in Nodes |-> "error"],
   waited |-> FALSE]

OfIP == {"unblock", "unblockGet", "clear", "lookup"}
OfList == {"byReason", "delete", "deleteUnblock"}

\* The records of n that a request for reason r matches ("all": every bad actor).
\* A history of null matches no reason.
BadMatches(n, r) == {i \in IPs : IF r = "all" THEN bad[n][i] # "none" ELSE bad[n][i] = r}
RowMatches(n, r) == {i \in IPs : row[n][i] = r}

\* What a node may know of an IP (row, bad actor, activity): nothing, an actor
\* that is not blocked, a block by a chain, which the activity forgets at a
\* restart, or a bad actor (whose log lines are skipped, so it has no activity).
Known ==
  {<<"none", "none", a>> : a \in {"none", "seen"}}
    \cup {<<r, "none", a>> : r \in Reasons, a \in {"none", "blocked"}}
    \cup {<<"bad-actor", b, "none">> : b \in Reasons \cup {"null"}}

ApiInit ==
  /\ \E k \in [Nodes -> [IPs -> Known]] :
       /\ row = [n \in Nodes |-> [i \in IPs |-> k[n][i][1]]]
       /\ bad = [n \in Nodes |-> [i \in IPs |-> k[n][i][2]]]
       /\ act = [n \in Nodes |-> [i \in IPs |-> k[n][i][3]]]
  /\ hap = {i \in IPs : \E n \in Nodes : row[n][i] # "none"}
  /\ pend = [n \in Nodes |-> {}]
  /\ inbox = [n \in Nodes |-> {}]
  /\ jobs = {}
  /\ used = [requests |-> 0, decisions |-> 0, faults |-> 0]
  /\ owed = {}
  /\ loose = {}
  /\ late = {}

\* Whether a job is, or may come to be, about the removal of i.
Removing(i) ==
  \E j \in jobs : /\ j.kind # "lookup"
                  /\ \/ j.ip = i \/ i \in j.todo \cup j.done
                     \/ j.kind \in OfList /\ j.pc \in {"collect", "remove"}

Withdrawn(where, ips) == {c \in owed : ~(c[1] \in where /\ c[2] \in ips)}
Everywhere == Nodes \cup {HAProxy}

\* A new decision of n about i takes back what n and HAProxy owed; as long as a list
\* is being made it may also keep i out of it.
Redecided(n, i) ==
  LET listing == \E j \in jobs : j.pc \in {"collect", "remove"}
  IN  Withdrawn(IF listing THEN Everywhere ELSE {n, HAProxy}, {i})

\* When j removes the records of some IPs, a request whose list is just being made of
\* such records may overlook them.
Overlooked(j, ips) ==
  {c \in owed :
     /\ c[2] \in ips
     /\ \E k \in jobs : k.req = c[4] /\ k.req # j.req /\ k.pc \in {"collect", "remove"}}

Fault == used.faults < MaxFaults /\ used' = [used EXCEPT !.faults = @ + 1]

(***************************************************************************)
(* Decisions and synchronisation meanwhile                                 *)
(***************************************************************************)

\* A node blocks i for chain r, and perhaps promotes it.
Decide(n, i, r) ==
  /\ used.decisions < MaxDecisions
  /\ act[n][i] # "blocked" /\ bad[n][i] = "none"
  /\ \E promoted \in BOOLEAN :
       /\ row' = [row EXCEPT ![n][i] = IF promoted THEN "bad-actor" ELSE r]
       /\ bad' = [bad EXCEPT ![n][i] = IF promoted THEN r ELSE "none"]
  /\ act' = [act EXCEPT ![n][i] = "blocked"]
  /\ pend' = [pend EXCEPT ![n] = @ \cup {i}]
  /\ used' = [used EXCEPT !.decisions = @ + 1]
  /\ owed' = Redecided(n, i)
  /\ loose' = IF Removing(i) THEN loose \cup {i} ELSE loose
  /\ UNCHANGED <<hap, inbox, jobs, late>>

\* The worker of n runs the command.
BlockRuns(n, i) ==
  /\ i \in pend[n]
  /\ hap' = hap \cup {i}
  /\ pend' = [pend EXCEPT ![n] = @ \ {i}]
  /\ owed' = Withdrawn({HAProxy}, {i})
  /\ loose' = IF Removing(i) THEN loose \cup {i} ELSE loose
  /\ UNCHANGED <<row, bad, act, inbox, jobs, used, late>>

\* A follower receives the merged rows and the leader's bad actors; the leader
\* receives the bad actors of a follower.
Receive(n, src) ==
  /\ used.decisions < MaxDecisions
  /\ inbox[n] = {}
  /\ n # src /\ Leader \in {n, src}
  /\ LET bads == {<<"bad", i, bad[src][i]>> : i \in BadMatches(src, "all")}
         rows == {<<"row", i, row[m][i]>> : m \in Nodes \ {n}, i \in IPs}
         news == bads \cup {r \in rows : n # Leader /\ r[3] # "none"}
     IN news # {} /\ inbox' = [inbox EXCEPT ![n] = news]
  /\ used' = [used EXCEPT !.decisions = @ + 1]
  /\ UNCHANGED <<tables, pend, jobs, owed, loose, late>>

\* A row of a peer is merged into ips.
ApplyRow(n, rec) ==
  LET i == rec[2] IN
  /\ rec \in inbox[n] /\ rec[1] = "row"
  /\ inbox' = [inbox EXCEPT ![n] = @ \ {rec}]
  /\ row' = [row EXCEPT ![n][i] = IF @ = "none" THEN rec[3] ELSE @]
  /\ owed' = Withdrawn({n}, {i})
  /\ UNCHANGED <<bad, act, hap, pend, jobs, used, loose, late>>

\* ApplyBadActorFromPeer: one that is new here is recorded, blocked and gets a row.
ApplyBadActor(n, rec) ==
  LET i == rec[2] IN
  /\ rec \in inbox[n] /\ rec[1] = "bad"
  /\ inbox' = [inbox EXCEPT ![n] = @ \ {rec}]
  /\ IF bad[n][i] # "none"
     THEN UNCHANGED <<row, bad, pend, owed, loose>>
     ELSE /\ bad' = [bad EXCEPT ![n][i] = rec[3]]
          /\ row' = [row EXCEPT ![n][i] = "bad-actor"]
          /\ pend' = [pend EXCEPT ![n] = @ \cup {i}]
          /\ owed' = Redecided(n, i)
          /\ loose' = IF Removing(i) THEN loose \cup {i} ELSE loose
  /\ UNCHANGED <<act, hap, jobs, used, late>>

(***************************************************************************)
(* Requests                                                                *)
(***************************************************************************)

\* What request j will have removed when all it causes has ended: an IP
\* everywhere, every IP some node blocks for the reason, or the bad actors of
\* each node (with their blocks on that node, if it is asked to unblock them).
Promise(j) ==
  CASE j.kind = "lookup" -> {}
    [] j.kind \in OfIP \ {"lookup"} -> {<<w, j.ip, "all", j.req>> : w \in Everywhere}
    [] j.kind = "byReason" ->
         {<<w, i, "all", j.req>> :
            w \in Everywhere, i \in UNION {RowMatches(n, j.reason) : n \in Nodes}}
    [] j.kind = "delete" ->
         UNION {{<<n, i, "bad", j.req>> : i \in BadMatches(n, j.reason)} : n \in Nodes}
    [] j.kind = "deleteUnblock" ->
         UNION {{<<w, i, "all", j.req>> :
                   w \in {n, HAProxy}, i \in BadMatches(n, j.reason)} : n \in Nodes}

\* The handler begins on the leader.
Entered(j) ==
  [j EXCEPT !.node = Leader,
            !.pc = CASE j.kind = "lookup" -> "query"
                     [] j.kind \in OfIP \ {"lookup"} -> "haproxy"
                     [] j.kind = "byReason" -> "collect"
                     [] OTHER -> "remove"]

Submit(r) ==
  LET j == [r EXCEPT !.req = used.requests] IN
  /\ used.requests < MaxRequests
  /\ used' = [used EXCEPT !.requests = @ + 1]
  /\ jobs' = jobs \cup {IF j.node = Leader THEN Entered(j) ELSE j}
  /\ owed' = IF j.node = Leader THEN owed \cup Promise(j) ELSE owed
  /\ UNCHANGED <<tables, pend, inbox, loose, late>>

\* forwardToLeader: a follower passes the request on, or answers 502.
Forward(j) ==
  /\ j.pc = "forward"
  /\ jobs' = (jobs \ {j}) \cup {Entered(j)}
  /\ owed' = owed \cup Promise(j)
  /\ UNCHANGED <<tables, pend, inbox, used, loose, late>>

ForwardFails(j) ==
  /\ j.pc = "forward" /\ Fault
  /\ jobs' = jobs \ {j}
  /\ UNCHANGED <<tables, pend, inbox, owed, loose, late>>

(***************************************************************************)
(* The steps of unblockIP, of clearIP and of the internal handlers         *)
(***************************************************************************)

\* UnblockDirect or ClearIP on the shared HAProxy.
HapRemove(j) ==
  /\ j.pc = "haproxy"
  /\ hap' = hap \ {j.ip}
  /\ jobs' = (jobs \ {j}) \cup {[j EXCEPT !.pc = "persist"]}
  /\ UNCHANGED <<row, bad, act, pend, inbox, used, owed, loose, late>>

\* The first backend does not give the table names: nothing is sent, no error.
HapSkipped(j) ==
  /\ j.pc = "haproxy" /\ Fault
  /\ jobs' = (jobs \ {j}) \cup {[j EXCEPT !.pc = "persist"]}
  /\ owed' = Withdrawn({HAProxy}, {j.ip})
  /\ loose' = loose \cup {j.ip}
  /\ UNCHANGED <<tables, pend, inbox, late>>

\* Faulty variant: an error of HAProxy does not end the removal.
HapFailsOn(j) ==
  /\ j.pc = "haproxy" /\ Fault
  /\ jobs' = (jobs \ {j}) \cup {[j EXCEPT !.pc = "persist"]}
  /\ owed' = Withdrawn({HAProxy}, {j.ip})
  /\ UNCHANGED <<tables, pend, inbox, loose, late>>

\* Some backend fails: the request ends with 500, or a list goes on with the next IP.
HapFails(j) ==
  /\ j.pc = "haproxy" /\ Fault
  /\ \/ hap' = hap
     \/ hap' = hap \ {j.ip}
  /\ jobs' = (jobs \ {j}) \cup
       (IF j.kind \in OfList THEN {[j EXCEPT !.pc = "next", !.ip = 0]} ELSE {})
  /\ owed' = Withdrawn(IF j.kind = "deleteUnblock" THEN {j.node, HAProxy} ELSE Everywhere, {j.ip})
  /\ UNCHANGED <<row, bad, act, pend, inbox, loose, late>>

\* RemoveFromPersistence.
Persist(j) ==
  /\ j.pc = "persist"
  /\ row' = [row EXCEPT ![j.node][j.ip] = "none"]
  /\ bad' = [bad EXCEPT ![j.node][j.ip] = "none"]
  /\ loose' = IF \E n \in Nodes : j.ip \in pend[n] THEN loose \cup {j.ip} ELSE loose
  /\ jobs' = (jobs \ {j}) \cup {[j EXCEPT !.pc = "activity"]}
  /\ owed' = owed \ Overlooked(j, {j.ip})
  /\ UNCHANGED <<act, hap, pend, inbox, used, late>>

\* The job goes on; with an error a request only logs it, and the internal handler ends
\* with 500.
Persisted(j, err) ==
  (jobs \ {j}) \cup (IF err /\ j.kind = "int" THEN {} ELSE {[j EXCEPT !.pc = "activity"]})

\* The row cannot be read or deleted; the error of the removal of the bad actor, if that
\* fails too, is ignored.
PersistFails(j) ==
  /\ j.pc = "persist" /\ Fault
  /\ bad' \in {bad, [bad EXCEPT ![j.node][j.ip] = "none"]}
  /\ jobs' = Persisted(j, TRUE)
  /\ owed' = Withdrawn({j.node}, {j.ip}) \ Overlooked(j, {j.ip})
  /\ UNCHANGED <<row, act, hap, pend, inbox, loose, late>>

\* The row is gone, but the bad actor stays, of which nobody is told, or the event cannot be
\* recorded.
PersistHalf(j) ==
  LET isBad == bad[j.node][j.ip] # "none"
      isRow == row[j.node][j.ip] # "none"
  IN
  /\ j.pc = "persist" /\ Fault
  /\ \E stays, err \in BOOLEAN :
       /\ stays => isBad
       /\ err => isRow
       /\ stays # err
       /\ bad' = IF stays THEN bad ELSE [bad EXCEPT ![j.node][j.ip] = "none"]
       /\ jobs' = Persisted(j, err)
  /\ row' = [row EXCEPT ![j.node][j.ip] = "none"]
  /\ loose' = IF \E n \in Nodes : j.ip \in pend[n] THEN loose \cup {j.ip} ELSE loose
  /\ owed' = Withdrawn({j.node}, {j.ip}) \ Overlooked(j, {j.ip})
  /\ UNCHANGED <<act, hap, pend, inbox, late>>

\* The internal requests to the followers (broadcastToFollowers and its synchronous
\* form, which waits for them).
Broadcast(j, ips, waited) ==
  {[Job("int", f, i, "none") EXCEPT !.req = j.req, !.pc = "persist", !.waited = waited] :
     f \in Followers, i \in ips}

\* Faulty variant: the leader does not wait for the followers before it asks them.
AfterActivityAsync(j) ==
  CASE j.kind = "int" -> {}
    [] j.kind \in {"unblock", "clear"} -> Broadcast(j, {j.ip}, FALSE)
    [] j.kind = "unblockGet" -> {[j EXCEPT !.pc = "wait"]} \cup Broadcast(j, {j.ip}, FALSE)
    [] OTHER -> {[j EXCEPT !.pc = "next", !.done = @ \cup {j.ip}, !.ip = 0]}

\* What is left to do when the IP is done on this node.
AfterActivity(j) ==
  CASE j.kind = "int" -> {}
    [] j.kind \in {"unblock", "clear"} -> Broadcast(j, {j.ip}, FALSE)
    [] j.kind = "unblockGet" -> {[j EXCEPT !.pc = "wait"]} \cup Broadcast(j, {j.ip}, TRUE)
    [] OTHER -> {[j EXCEPT !.pc = "next", !.done = @ \cup {j.ip}, !.ip = 0]}

\* clearIPFromActivityStore.
ClearActivity(j) ==
  /\ j.pc = "activity"
  /\ act' = [act EXCEPT ![j.node][j.ip] = "none"]
  /\ jobs' = (jobs \ {j}) \cup AfterActivity(j)
  /\ UNCHANGED <<row, bad, hap, pend, inbox, used, owed, loose, late>>

\* An internal request does not arrive.
Lost(j) ==
  /\ \/ j.kind = "int" /\ j.pc = "persist"
     \/ j.node # Leader /\ j.pc = "remove"
  /\ Fault
  /\ jobs' = jobs \ {j}
  /\ owed' = IF j.kind = "int" THEN Withdrawn({j.node}, {j.ip})
             ELSE Withdrawn({j.node, HAProxy}, BadMatches(j.node, j.reason))
  /\ UNCHANGED <<tables, pend, inbox, loose, late>>

\* The leader gives the follower's answer up after 5 seconds; the handler goes on.
TimedOut(j) ==
  /\ j.waited /\ Fault
  /\ jobs' = (jobs \ {j}) \cup {[j EXCEPT !.waited = FALSE]}
  /\ late' = late \cup {<<j.req, j.node>>}
  /\ UNCHANGED <<tables, pend, inbox, owed, loose>>

(***************************************************************************)
(* Lists                                                                   *)
(***************************************************************************)

NextNode(j) == Min(Nodes \ j.asked)

\* Faulty variant: only the leader's own rows are looked at.
CollectOwn(j) ==
  /\ j.pc = "collect"
  /\ jobs' = (jobs \ {j}) \cup
       {[j EXCEPT !.asked = Nodes, !.todo = RowMatches(Leader, j.reason), !.pc = "next"]}
  /\ UNCHANGED <<tables, pend, inbox, used, owed, loose, late>>

\* GetBlockedIPsByReason on the leader, then on one follower after the other.
Collect(j) ==
  /\ j.pc = "collect"
  /\ jobs' = (jobs \ {j}) \cup
       {[j EXCEPT !.asked = @ \cup {NextNode(j)},
                  !.todo = @ \cup RowMatches(NextNode(j), j.reason),
                  !.pc = IF j.asked \cup {NextNode(j)} = Nodes THEN "next" ELSE "collect"]}
  /\ UNCHANGED <<tables, pend, inbox, used, owed, loose, late>>

\* The leader's own error ends the request; a follower that fails is left out.
CollectFails(j) ==
  /\ j.pc = "collect" /\ Fault
  /\ LET n == NextNode(j)
         more == [j EXCEPT !.asked = @ \cup {n},
                           !.pc = IF j.asked \cup {n} = Nodes THEN "next" ELSE "collect"]
     IN /\ jobs' = (jobs \ {j}) \cup (IF n = Leader THEN {} ELSE {more})
        /\ owed' = Withdrawn(Everywhere, IF n = Leader THEN IPs ELSE RowMatches(n, j.reason))
  /\ UNCHANGED <<tables, pend, inbox, loose, late>>

\* RemoveBadActorsByReason or RemoveAllBadActors; the leader then tells the followers.
Remove(j) ==
  /\ j.pc = "remove"
  /\ LET removed == BadMatches(j.node, j.reason)
         rest == {[j EXCEPT !.pc = "next", !.todo = removed]}
         told == {[Job(j.kind, f, 0, j.reason) EXCEPT !.req = j.req, !.pc = "remove"] :
                    f \in Followers}
     IN /\ bad' = [bad EXCEPT ![j.node] =
                     [i \in IPs |-> IF i \in removed THEN "none" ELSE bad[j.node][i]]]
        /\ jobs' = (jobs \ {j}) \cup (IF j.kind = "deleteUnblock" THEN rest ELSE {})
                                \cup (IF j.node = Leader THEN told ELSE {})
        /\ owed' = owed \ Overlooked(j, removed)
  /\ UNCHANGED <<row, act, hap, pend, inbox, used, loose, late>>

\* The database fails after some were removed: 500, and nobody is told.
RemoveFails(j) ==
  /\ j.pc = "remove" /\ Fault
  /\ \E some \in SUBSET BadMatches(j.node, j.reason) :
       bad' = [bad EXCEPT ![j.node] =
                 [i \in IPs |-> IF i \in some THEN "none" ELSE bad[j.node][i]]]
  /\ jobs' = jobs \ {j}
  /\ owed' = Withdrawn(IF j.node = Leader THEN Everywhere ELSE {j.node, HAProxy}, IPs)
  /\ UNCHANGED <<row, act, hap, pend, inbox, loose, late>>

\* The next IP of the list; at its end unblockByReason tells the followers which
\* IPs were unblocked.
NextIP(j) ==
  /\ j.pc = "next"
  /\ jobs' = (jobs \ {j}) \cup
       (IF j.todo # {}
        THEN {[j EXCEPT !.ip = Min(j.todo), !.todo = @ \ {Min(j.todo)}, !.pc = "haproxy"]}
        ELSE IF j.kind = "byReason" THEN Broadcast(j, j.done, FALSE) ELSE {})
  /\ UNCHANGED <<tables, pend, inbox, used, owed, loose, late>>

(***************************************************************************)
(* The status of an IP                                                     *)
(***************************************************************************)

\* What the activity of the actors with the IP says, if there are any.
ActorStatus(n, i) == IF act[n][i] = "blocked" THEN "blocked" ELSE "unblocked"

\* buildIPStatusResponse: HAProxy counts only where there is no activity.
NodeStatus(n, i) ==
  CASE act[n][i] # "none" -> ActorStatus(n, i)
    [] act[n][i] = "none" /\ i \in hap -> "blocked"
    [] OTHER -> "unknown"

\* queryAllNodes: nodes that did not answer do not count.
ClusterStatus(status) ==
  LET all == {status[n] : n \in Nodes} IN
  CASE "blocked" \in all -> IF all \cap {"unblocked", "unknown"} # {} THEN "mixed" ELSE "blocked"
    [] "unblocked" \in all /\ "blocked" \notin all -> "unblocked"
    [] OTHER -> "unknown"

\* All waited-for followers have answered, failed or timed out.
Wait(j) ==
  /\ j.pc = "wait"
  /\ ~\E k \in jobs : k.waited /\ k.req = j.req
  /\ jobs' = (jobs \ {j}) \cup {[j EXCEPT !.pc = "query"]}
  /\ UNCHANGED <<tables, pend, inbox, used, owed, loose, late>>

Query(j) ==
  /\ j.pc = "query" /\ j.asked # Nodes
  /\ jobs' = (jobs \ {j}) \cup
       {[j EXCEPT !.asked = @ \cup {NextNode(j)},
                  !.status[NextNode(j)] = NodeStatus(NextNode(j), j.ip)]}
  /\ UNCHANGED <<tables, pend, inbox, used, owed, loose, late>>

\* The node does not answer, or its look-up in HAProxy fails, which counts as not blocked
\* there.
QueryFails(j) ==
  LET n == NextNode(j)
      unseen == IF act[n][j.ip] = "none" THEN {"unknown"} ELSE {}
  IN
  /\ j.pc = "query" /\ j.asked # Nodes /\ Fault
  /\ \E st \in {j.status[n]} \cup unseen :
       jobs' = (jobs \ {j}) \cup {[j EXCEPT !.asked = @ \cup {n}, !.status[n] = st]}
  /\ UNCHANGED <<tables, pend, inbox, owed, loose, late>>

\* The answer is rendered.
Render(j) ==
  /\ j.pc = "query" /\ j.asked = Nodes
  /\ jobs' = jobs \ {j}
  /\ UNCHANGED <<tables, pend, inbox, used, owed, loose, late>>

(***************************************************************************)
(* Specification                                                           *)
(***************************************************************************)

Requests ==
  {Job(k, n, i, "none") : k \in Kinds \cap OfIP, n \in Nodes, i \in IPs}
    \cup {Job(k, n, 0, r) : k \in Kinds \cap OfList, n \in Nodes, r \in Reasons}
    \cup {Job(k, n, 0, "all") : k \in Kinds \cap {"delete", "deleteUnblock"}, n \in Nodes}

Handler(j) ==
  \/ Forward(j) \/ ForwardFails(j)
  \/ HapRemove(j) \/ HapSkipped(j) \/ HapFails(j)
  \/ Persist(j) \/ PersistFails(j) \/ PersistHalf(j) \/ ClearActivity(j)
  \/ Lost(j) \/ TimedOut(j)
  \/ Collect(j) \/ CollectFails(j) \/ Remove(j) \/ RemoveFails(j) \/ NextIP(j)
  \/ Wait(j) \/ Query(j) \/ QueryFails(j) \/ Render(j)

Others ==
  \/ \E n \in Nodes, i \in IPs : BlockRuns(n, i) \/ \E r \in Reasons : Decide(n, i, r)
  \/ \E n, src \in Nodes : Receive(n, src)
  \/ \E n \in Nodes : \E rec \in inbox[n] : ApplyRow(n, rec) \/ ApplyBadActor(n, rec)

ApiNext ==
  \/ Others
  \/ \E j \in Requests : Submit(j)
  \/ \E j \in jobs : Handler(j)

ApiSpec == ApiInit /\ [][ApiNext]_apiVars

(***************************************************************************)
(* Properties                                                              *)
(***************************************************************************)

Quiet ==
  /\ jobs = {}
  /\ \A n \in Nodes : pend[n] = {} /\ inbox[n] = {}

Honoured(c) ==
  CASE c[1] = HAProxy -> c[2] \notin hap
    [] c[1] # HAProxy /\ c[3] = "bad" -> bad[c[1]][c[2]] = "none"
    [] OTHER -> /\ row[c[1]][c[2]] = "none"
                /\ bad[c[1]][c[2]] = "none"
                /\ act[c[1]][c[2]] # "blocked"

\* When every handler and broadcast has ended, what a request promised is gone:
\* from HAProxy and from the tables and memory of every node, unless a node
\* decided again or took the record over from a peer, a request between nodes was
\* lost, a step failed, or another request removed the record just before it was
\* to be found (a removal of bad actors that does not unblock takes the IP from one
\* that does).
PromisesKept == Quiet => \A c \in owed : Honoured(c)

\* When nothing is under way, an IP that HAProxy blocks has a row on some node,
\* so that it is shown, found by reason and unblocked again.  The exceptions are
\* in loose: the removal overlapped with a block of the IP (a decision, a bad
\* actor of a peer, a command in a queue), which a late broadcast or the leader's
\* own step may then strip of its row, or HAProxy was skipped without an error.
BlockHasRecord ==
  Quiet => \A i \in hap : i \in loose \/ \E n \in Nodes : row[n][i] # "none"

\* GET /ip/{ip}/unblock does not show the IP as blocked after it has unblocked it,
\* unless it was blocked again, or a follower failed or answered too late.
ReadYourUnblock ==
  \A j \in jobs :
    j.kind = "unblockGet" /\ j.asked = Nodes /\ ClusterStatus(j.status) \in {"blocked", "mixed"}
      => \/ <<HAProxy, j.ip, "all", j.req>> \notin owed
         \/ \E n \in Nodes :
              /\ j.status[n] = "blocked"
              /\ <<j.req, n>> \in late \/ <<n, j.ip, "all", j.req>> \notin owed
=============================================================================
