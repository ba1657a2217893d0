-------------------------- MODULE ClusterApiProofs --------------------------
(***************************************************************************)
(* Machine-checked facts about the requests that take decisions back, for  *)
(* every cluster, every set of IPs and reasons, and any number of requests *)
(* side by side, decisions, synchronisations and failures.                 *)
(***************************************************************************)
EXTENDS ClusterApi, WellFoundedInduction, TLAPS

(***************************************************************************)
(* Types, and the jobs there can be                                        *)
(***************************************************************************)

Words == Reasons \cup {"none", "null", "bad-actor", "all"}
Places == {"forward", "haproxy", "persist", "activity", "collect", "remove", "next", "wait",
           "query"}
Shown == {"error", "blocked", "unblocked", "unknown"}
Jobs == [req : Nat, kind : AllKinds \cup {"int"}, node : Nodes, ip : IPs \cup {0},
         reason : Words, pc : Places, todo : SUBSET IPs, done : SUBSET IPs,
         asked : SUBSET Nodes, status : [Nodes -> Shown], waited : BOOLEAN]
Records == {"bad", "row"} \X IPs \X Words
Claims == Everywhere \X IPs \X {"all", "bad"} \X Nat

\* The places of the handlers of each kind of request.
PlacesOf(kind) ==
  CASE kind \in {"unblock", "clear"} -> {"forward", "haproxy", "persist", "activity"}
    [] kind = "unblockGet" -> {"forward", "haproxy", "persist", "activity", "wait", "query"}
    [] kind = "lookup" -> {"forward", "query"}
    [] kind = "byReason" -> {"forward", "collect", "next", "haproxy", "persist", "activity"}
    [] kind = "delete" -> {"forward", "remove"}
    [] kind = "deleteUnblock" -> {"forward", "remove", "next", "haproxy", "persist", "activity"}
    [] OTHER -> {"persist", "activity"}

\* Every variable that the argument is about has its type.
TypeOK ==
  /\ row \in [Nodes -> [IPs -> Words]]
  /\ bad \in [Nodes -> [IPs -> Words]]
  /\ act \in [Nodes -> [IPs -> {"none", "seen", "blocked"}]]
  /\ hap \subseteq IPs
  /\ pend \in [Nodes -> SUBSET IPs]
  /\ inbox \in [Nodes -> SUBSET Records]
  /\ jobs \subseteq Jobs
  /\ used \in [requests : Nat, decisions : Nat, faults : Nat]
  /\ owed \subseteq Claims

\* What a job is about at each place, for each kind of request.
JobOK(j) ==
  /\ j.pc \in PlacesOf(j.kind)
  /\ j.pc = "forward" =>
       j.todo = {} /\ j.done = {} /\ j.asked = {} /\ \A n \in Nodes : j.status[n] = "error"
  /\ j.pc = "remove" => j.todo = {} /\ j.done = {}
  /\ j.pc = "collect" => j.asked # Nodes
  /\ j.pc \in {"haproxy", "persist", "activity"} => j.ip \in IPs
  /\ j.kind \in OfIP \cup {"int"} => j.ip \in IPs /\ j.todo = {} /\ j.done = {}
  /\ j.kind \in OfIP \cup {"byReason"} /\ j.pc # "forward" => j.node = Leader
  /\ j.kind = "int" => j.node \in Followers
  /\ j.kind = "byReason" => j.reason \in Reasons
  /\ j.kind \in {"delete", "deleteUnblock"} => j.reason \in Reasons \cup {"all"}
  /\ j.waited => j.kind = "int"

PlacesOK == \A j \in jobs : JobOK(j)

Removals == {"delete", "deleteUnblock"}

\* A job that nothing else of its request is under way with.
First(j) == j.pc \in {"forward", "collect"} \/ (j.pc = "remove" /\ j.node = Leader)

\* Jobs belong to requests that were made; as long as a request has not left its first place
\* it has one job, and later at most one of its own on each node.  The removal of bad actors
\* is told to the followers as such, all else by internal requests.
RequestsOK ==
  /\ \A j \in jobs : j.req < used.requests
  /\ \A j, k \in jobs : j.req = k.req /\ First(j) => j = k
  /\ \A j, k \in jobs :
       j.req = k.req /\ j.node = k.node /\ j.kind # "int" /\ k.kind # "int" => j = k
  /\ \A j, k \in jobs : j.req = k.req /\ j.kind \in Removals => k.kind = j.kind

(***************************************************************************)
(* Blocks and their records                                                *)
(***************************************************************************)

HasRow(i) == \E n \in Nodes : row[n][i] # "none"
Unblocked(i) == i \notin hap \/ i \in loose
Stripped(j) ==
  /\ j.pc \in {"persist", "activity"} => Unblocked(j.ip)
  /\ \A i \in j.done : Unblocked(i)

\* An IP that HAProxy blocks or is about to has a row, and an IP whose rows a job is about to
\* remove is not blocked any more.
RecordsOK ==
  /\ \A i \in hap : i \in loose \/ HasRow(i)
  /\ \A n \in Nodes : \A i \in pend[n] : i \in loose \/ HasRow(i)
  /\ \A j \in jobs : Stripped(j)

(***************************************************************************)
(* The answer to GET /ip/{ip}/unblock                                      *)
(***************************************************************************)

Owed(j, w) == <<w, j.ip, "all", j.req>> \in owed
Late(j, n) == <<j.req, n>> \in late

\* The internal request of j to n is under way, and j waits for it.
Awaited(j, n) ==
  \E k \in jobs : k.kind = "int" /\ k.req = j.req /\ k.node = n /\ k.ip = j.ip /\ k.waited

\* As long as a node owes j the IP, it does not hold it for blocked when it is asked.
AnswerOK(j) ==
  /\ j.pc \in {"persist", "activity", "wait", "query"} /\ Owed(j, HAProxy) => j.ip \notin hap
  /\ j.pc \in {"wait", "query"} =>
       \A n \in Nodes :
         \/ ~Owed(j, n) \/ Late(j, n) \/ act[n][j.ip] # "blocked"
         \/ j.pc = "wait" /\ Awaited(j, n)
  /\ \A n \in Nodes : j.status[n] = "blocked" => ~Owed(j, HAProxy) \/ ~Owed(j, n) \/ Late(j, n)

AnswersOK == \A j \in jobs : j.kind = "unblockGet" => AnswerOK(j)

(***************************************************************************)
(* Promises                                                                *)
(***************************************************************************)

Matches(b, r) == IF r = "all" THEN b # "none" ELSE b = r

\* Job j is to remove the bad actors of n, and i is one that it will find.
WillRemove(j, n, i) ==
  /\ j.pc = "remove"
  /\ j.node \in {n, Leader}
  /\ Matches(bad[n][i], j.reason)

\* Job j is to find i in a list, or has it in its list.
WillFind(j, i) ==
  \/ i \in j.todo
  \/ j.pc = "collect" /\ \E n \in Nodes \ j.asked : row[n][i] = j.reason

Early == {"haproxy", "persist"}
Any == {"haproxy", "persist", "activity"}
At(j, i, places) == j.ip = i /\ j.pc \in places

\* Job j is to remove i from HAProxy, to remove the row and the bad actor of i on n, or to
\* clear the activity of i there.
WillUnblock(j, i) ==
  \/ At(j, i, {"haproxy"})
  \/ WillFind(j, i)
  \/ j.kind = "deleteUnblock" /\ \E n \in Nodes : WillRemove(j, n, i)

WillReach(j, n, i, places) ==
  \/ /\ j.kind # "deleteUnblock" /\ j.node = Leader /\ n # Leader
     /\ At(j, i, Any) \/ WillFind(j, i) \/ i \in j.done
  \/ j.node = n /\ (At(j, i, places) \/ WillFind(j, i))
  \/ j.kind = "deleteUnblock" /\ WillRemove(j, n, i)

\* What is owed and not yet so is the business of a job of the same request.
HapOwed(i, q) == i \notin hap \/ \E j \in jobs : j.req = q /\ WillUnblock(j, i)
BadOwed(n, i, q) == bad[n][i] = "none" \/ \E j \in jobs : j.req = q /\ WillRemove(j, n, i)
RowOwed(n, i, q) ==
  \/ row[n][i] = "none" /\ bad[n][i] = "none"
  \/ \E j \in jobs : j.req = q /\ WillReach(j, n, i, Early)
ActOwed(n, i, q) ==
  \/ act[n][i] # "blocked"
  \/ \E j \in jobs : j.req = q /\ WillReach(j, n, i, Any)

PromiseOK(c) ==
  /\ c[1] = HAProxy => HapOwed(c[2], c[4])
  /\ c[1] # HAProxy /\ c[3] = "bad" => BadOwed(c[1], c[2], c[4])
  /\ c[1] # HAProxy /\ c[3] = "all" => RowOwed(c[1], c[2], c[4]) /\ ActOwed(c[1], c[2], c[4])

PromisesOK == \A c \in owed : PromiseOK(c)

\* The inductive invariant.
ApiInv == TypeOK /\ PlacesOK /\ RequestsOK /\ RecordsOK /\ AnswersOK /\ PromisesOK

(***************************************************************************)
(* The constants                                                           *)
(***************************************************************************)

LEMMA NodesFacts ==
  /\ Leader \in Nodes /\ Followers \subseteq Nodes /\ Leader \notin Followers
  /\ Nodes \subseteq Nat /\ HAProxy \notin Nodes
  /\ \A n \in Nodes : n # Leader => n \in Followers
  /\ IPs \subseteq Nat /\ 0 \notin IPs
BY ApiAssumption DEF Nodes

\* A list of numbers has a first one, so that the loops over nodes and IPs go on.
LEMMA MinFacts ==
  ASSUME NEW S, S \subseteq Nat, S # {}
  PROVE  Min(S) \in S
<1>1. \E x \in S : \A y \in S : ~(<<y, x>> \in OpToRel(<, Nat))
  BY NatLessThanWellFounded, WFMin
<1>2. PICK x \in S : \A y \in S : ~(<<y, x>> \in OpToRel(<, Nat))
  BY <1>1
<1>3. \A y \in S : x =< y
  <2> TAKE y \in S
  <2>1. x \in Nat /\ y \in Nat
    OBVIOUS
  <2>2. ~(y < x)
    <3> SUFFICES ASSUME y < x PROVE FALSE
      OBVIOUS
    <3> <<y, x>> \in {ss \in Nat \X Nat : ss[1] < ss[2]}
      BY <2>1
    <3> QED
      BY <1>2 DEF OpToRel
  <2> QED
    BY <2>1, <2>2
<1> QED
  BY <1>3 DEF Min

LEMMA NextNodeFacts ==
  ASSUME NEW j, j.asked \in SUBSET Nodes, j.asked # Nodes
  PROVE  NextNode(j) \in Nodes \ j.asked
<1> Nodes \ j.asked # {} /\ Nodes \ j.asked \subseteq Nat
  BY NodesFacts
<1> QED
  BY MinFacts DEF NextNode

(***************************************************************************)
(* What a job is after a step                                              *)
(***************************************************************************)

Same(j, k) == k.req = j.req /\ k.kind = j.kind /\ k.reason = j.reason
SameWork(j, k) == k.ip = j.ip /\ k.todo = j.todo /\ k.done = j.done
SameAnswer(j, k) == k.asked = j.asked /\ k.status = j.status

\* The job goes on at place p and nothing else of it changes.
Moved(j, k, p) ==
  /\ k \in Jobs /\ k.pc = p
  /\ Same(j, k) /\ k.node = j.node /\ SameWork(j, k) /\ SameAnswer(j, k)

\* An internal request to remove i at f.
Sent(j, k, f, i) ==
  /\ k \in Jobs /\ k.req = j.req /\ k.kind = "int" /\ k.node = f /\ k.ip = i
  /\ k.pc = "persist" /\ k.todo = {} /\ k.done = {}

LEMMA JobTyped ==
  ASSUME NEW j \in Jobs
  PROVE  /\ j.req \in Nat /\ j.kind \in AllKinds \cup {"int"} /\ j.node \in Nodes
         /\ j.ip \in IPs \cup {0} /\ j.reason \in Words /\ j.pc \in Places
         /\ j.todo \subseteq IPs /\ j.done \subseteq IPs /\ j.asked \subseteq Nodes
         /\ j.status \in [Nodes -> Shown] /\ j.waited \in BOOLEAN
BY DEF Jobs

LEMMA MovedFacts ==
  ASSUME NEW j \in Jobs, NEW p \in Places
  PROVE  Moved(j, [j EXCEPT !.pc = p], p) /\ [j EXCEPT !.pc = p].waited = j.waited
BY DEF Moved, Same, SameWork, SameAnswer, Jobs

LEMMA JobFacts ==
  ASSUME NEW kind \in AllKinds \cup {"int"}, NEW n \in Nodes, NEW i \in IPs \cup {0},
         NEW r \in Words
  PROVE  /\ Job(kind, n, i, r) \in Jobs
         /\ Job(kind, n, i, r).kind = kind
         /\ Job(kind, n, i, r).node = n
         /\ Job(kind, n, i, r).ip = i
         /\ Job(kind, n, i, r).reason = r
         /\ Job(kind, n, i, r).pc = "forward"
         /\ Job(kind, n, i, r).todo = {}
         /\ Job(kind, n, i, r).done = {}
         /\ Job(kind, n, i, r).asked = {}
         /\ Job(kind, n, i, r).status = [m \in Nodes |-> "error"]
         /\ ~Job(kind, n, i, r).waited
<1> DEFINE s == [m \in Nodes |-> "error"]
           J == Job(kind, n, i, r)
<1>1. s \in [Nodes -> Shown]
  BY DEF Shown
<1>2. J = [req |-> 0, kind |-> kind, node |-> n, ip |-> i, reason |-> r, pc |-> "forward",
           todo |-> {}, done |-> {}, asked |-> {}, status |-> s, waited |-> FALSE]
  BY DEF Job
<1> HIDE DEF s
<1>3. /\ J \in Jobs /\ J.kind = kind /\ J.node = n /\ J.ip = i /\ J.reason = r
      /\ J.pc = "forward" /\ J.todo = {} /\ J.done = {} /\ J.asked = {} /\ J.status = s
      /\ ~J.waited
  <2> HIDE DEF J
  <2> QED
    BY <1>1, <1>2 DEF Jobs, Places
<1> QED
  BY <1>3 DEF s

\* A job that is made for request q at place p.
Made(k, J, q, p, w) ==
  /\ k \in Jobs /\ k.req = q /\ k.pc = p /\ k.waited = w
  /\ k.kind = J.kind /\ k.node = J.node /\ k.reason = J.reason
  /\ SameWork(J, k) /\ SameAnswer(J, k)

LEMMA SentFacts ==
  ASSUME NEW j \in Jobs, NEW ips \in SUBSET IPs, NEW w \in BOOLEAN
  PROVE  /\ \A k \in Broadcast(j, ips, w) :
              /\ \E f \in Followers, i \in ips : Sent(j, k, f, i)
              /\ k.waited = w
         /\ \A f \in Followers, i \in ips :
              \E k \in Broadcast(j, ips, w) : Sent(j, k, f, i) /\ k.waited = w
<1> DEFINE S(f, i) == [Job("int", f, i, "none") EXCEPT !.req = j.req, !.pc = "persist",
                                                       !.waited = w]
<1>1. ASSUME NEW f \in Followers, NEW i \in ips
      PROVE  Sent(j, S(f, i), f, i) /\ S(f, i).waited = w
  <2>1. "int" \in AllKinds \cup {"int"} /\ f \in Nodes /\ i \in IPs \cup {0} /\ "none" \in Words
          /\ "persist" \in Places /\ j.req \in Nat
    BY NodesFacts, JobTyped DEF Words, Places
  <2> HIDE DEF S
  <2> DEFINE J == Job("int", f, i, "none")
  <2>2. J \in Jobs /\ J.kind = "int" /\ J.node = f /\ J.ip = i /\ J.todo = {} /\ J.done = {}
    BY <2>1, JobFacts
  <2> HIDE DEF J
  <2>3. S(f, i) = [J EXCEPT !.req = j.req, !.pc = "persist", !.waited = w]
    BY DEF S, J
  <2>4. Made(S(f, i), J, j.req, "persist", w)
    BY <2>1, <2>2, <2>3 DEF Made, SameWork, SameAnswer, Jobs
  <2> QED
    BY <2>2, <2>4 DEF Sent, Made, SameWork
<1>2. Broadcast(j, ips, w) = {S(f, i) : f \in Followers, i \in ips}
  BY DEF Broadcast
<1> HIDE DEF S
<1> QED
  BY <1>1, <1>2

LEMMA EnteredFacts ==
  ASSUME NEW j \in Jobs, JobOK(j), j.pc = "forward"
  PROVE  /\ Entered(j) \in Jobs /\ Same(j, Entered(j)) /\ Entered(j).node = Leader
         /\ SameWork(j, Entered(j)) /\ SameAnswer(j, Entered(j)) /\ Entered(j).waited = j.waited
         /\ j.kind = "lookup" => Entered(j).pc = "query"
         /\ j.kind \in {"unblock", "unblockGet", "clear"} => Entered(j).pc = "haproxy"
         /\ j.kind = "byReason" => Entered(j).pc = "collect"
         /\ j.kind \in {"delete", "deleteUnblock"} => Entered(j).pc = "remove"
         /\ j.kind \in AllKinds
<1> DEFINE p == CASE j.kind = "lookup" -> "query"
                  [] j.kind \in OfIP \ {"lookup"} -> "haproxy"
                  [] j.kind = "byReason" -> "collect"
                  [] OTHER -> "remove"
<1>1. /\ p \in Places
      /\ j.kind = "lookup" => p = "query"
      /\ j.kind \in {"unblock", "unblockGet", "clear"} => p = "haproxy"
      /\ j.kind = "byReason" => p = "collect"
      /\ j.kind \in {"delete", "deleteUnblock"} => p = "remove"
  BY DEF Places, OfIP
<1>2. j.kind \in AllKinds
  BY JobTyped DEF JobOK, PlacesOf
<1>3. Entered(j) = [j EXCEPT !.node = Leader, !.pc = p]
  BY DEF Entered
<1> HIDE DEF p
<1>4. /\ Entered(j) \in Jobs /\ Same(j, Entered(j)) /\ Entered(j).node = Leader
      /\ SameWork(j, Entered(j)) /\ SameAnswer(j, Entered(j)) /\ Entered(j).waited = j.waited
      /\ Entered(j).pc = p
  BY <1>1, <1>3, NodesFacts DEF Same, SameWork, SameAnswer, Jobs
<1> QED
  BY <1>1, <1>2, <1>4

\* The steps of a list.
LEMMA ListFacts ==
  ASSUME NEW j \in Jobs
  PROVE  /\ \A k : k = [j EXCEPT !.pc = "next", !.ip = 0] =>
              /\ k \in Jobs /\ Same(j, k) /\ k.node = j.node /\ SameAnswer(j, k)
              /\ k.waited = j.waited
              /\ k.pc = "next" /\ k.ip = 0 /\ k.todo = j.todo /\ k.done = j.done
         /\ j.ip \in IPs =>
              \A k : k = [j EXCEPT !.pc = "next", !.done = @ \cup {j.ip}, !.ip = 0] =>
                /\ k \in Jobs /\ Same(j, k) /\ k.node = j.node /\ SameAnswer(j, k)
                /\ k.waited = j.waited
                /\ k.pc = "next" /\ k.ip = 0 /\ k.todo = j.todo /\ k.done = j.done \cup {j.ip}
<1>1. ASSUME NEW k, k = [j EXCEPT !.pc = "next", !.ip = 0]
      PROVE  /\ k \in Jobs /\ Same(j, k) /\ k.node = j.node /\ SameAnswer(j, k)
             /\ k.waited = j.waited
             /\ k.pc = "next" /\ k.ip = 0 /\ k.todo = j.todo /\ k.done = j.done
  BY <1>1 DEF Jobs, Same, SameAnswer, Places
<1>2. ASSUME NEW k, j.ip \in IPs, k = [j EXCEPT !.pc = "next", !.done = @ \cup {j.ip}, !.ip = 0]
      PROVE  /\ k \in Jobs /\ Same(j, k) /\ k.node = j.node /\ SameAnswer(j, k)
             /\ k.waited = j.waited
             /\ k.pc = "next" /\ k.ip = 0 /\ k.todo = j.todo /\ k.done = j.done \cup {j.ip}
  BY <1>2 DEF Jobs, Same, SameAnswer, Places
<1> QED
  BY <1>1, <1>2

(***************************************************************************)
(* Jobs give way to jobs                                                   *)
(***************************************************************************)

JobsInv == jobs \subseteq Jobs /\ PlacesOK /\ RequestsOK

\* Jobs R take the place of j.
Fits(j, R) ==
  /\ \A k \in R : k \in Jobs /\ JobOK(k) /\ k.req = j.req
  /\ \A k \in R : First(k) => First(j) /\ \A l \in R : l = k
  /\ \A k, l \in R : k.node = l.node /\ k.kind # "int" /\ l.kind # "int" => k = l
  /\ First(j) \/ \A k \in R : k.kind # "int" => k.node = j.node /\ j.kind # "int"
  /\ \A k \in R : k.kind = j.kind \/ (k.kind = "int" /\ j.kind \notin Removals)

LEMMA JobsStep ==
  ASSUME JobsInv, NEW j \in jobs, NEW R, Fits(j, R), jobs' = (jobs \ {j}) \cup R,
         used'.requests = used.requests
  PROVE  JobsInv'
<1>1. jobs' \subseteq Jobs /\ PlacesOK'
  BY DEF JobsInv, PlacesOK, Fits, JobOK
<1>2. \A k \in jobs' : k.req < used'.requests
  BY DEF JobsInv, RequestsOK, Fits
<1>3. ASSUME NEW k \in jobs', NEW l \in jobs', k.req = l.req, First(k)
      PROVE  k = l
  <2>1. CASE k \in R
    BY <1>3, <2>1 DEF JobsInv, RequestsOK, Fits
  <2>2. CASE k \notin R
    BY <1>3, <2>2 DEF JobsInv, RequestsOK, Fits
  <2> QED
    BY <2>1, <2>2
<1>4. ASSUME NEW k \in jobs', NEW l \in jobs', k.req = l.req, k.node = l.node,
             k.kind # "int", l.kind # "int"
      PROVE  k = l
  <2>1. CASE k \in R /\ l \in R
    BY <1>4, <2>1 DEF Fits
  <2>2. CASE k \in R /\ l \notin R
    <3>1. l \in jobs /\ l # j /\ l.req = j.req
      BY <1>4, <2>2 DEF Fits
    <3> QED
      BY <1>4, <2>2, <3>1 DEF JobsInv, RequestsOK, Fits
  <2>3. CASE k \notin R /\ l \in R
    <3>1. k \in jobs /\ k # j /\ k.req = j.req
      BY <1>4, <2>3 DEF Fits
    <3> QED
      BY <1>4, <2>3, <3>1 DEF JobsInv, RequestsOK, Fits
  <2>4. CASE k \notin R /\ l \notin R
    BY <1>4, <2>4 DEF JobsInv, RequestsOK
  <2> QED
    BY <2>1, <2>2, <2>3, <2>4
<1>5. ASSUME NEW k \in jobs', NEW l \in jobs', k.req = l.req, k.kind \in Removals
      PROVE  l.kind = k.kind
  <2>1. CASE k \in R
    <3>1. k.req = j.req /\ k.kind = j.kind
      BY <1>5, <2>1 DEF Fits, Removals
    <3> QED
      BY <1>5, <3>1 DEF Fits, JobsInv, RequestsOK
  <2>2. CASE k \notin R
    <3>1. k \in jobs
      BY <2>2
    <3> QED
      BY <1>5, <3>1 DEF Fits, JobsInv, RequestsOK
  <2> QED
    BY <2>1, <2>2
<1> QED
  BY <1>1, <1>2, <1>3, <1>4, <1>5 DEF JobsInv, RequestsOK, First

LEMMA FitsOne ==
  ASSUME NEW j, NEW k, k \in Jobs, JobOK(k), k.req = j.req, k.node = j.node, k.kind = j.kind,
         First(k) => First(j)
  PROVE  Fits(j, {k})
BY DEF Fits

LEMMA FitsNone ==
  ASSUME NEW j
  PROVE  Fits(j, {})
BY DEF Fits

LEMMA SentFits ==
  ASSUME NEW j \in Jobs, NEW ips \in SUBSET IPs, NEW w \in BOOLEAN
  PROVE  \A k \in Broadcast(j, ips, w) :
           k \in Jobs /\ JobOK(k) /\ k.req = j.req /\ k.kind = "int" /\ ~First(k)
<1> SUFFICES ASSUME NEW k \in Broadcast(j, ips, w)
             PROVE  k \in Jobs /\ JobOK(k) /\ k.req = j.req /\ k.kind = "int" /\ ~First(k)
  OBVIOUS
<1>1. PICK f \in Followers, i \in ips : Sent(j, k, f, i)
  BY SentFacts
<1>2. /\ k \in Jobs /\ k.req = j.req /\ k.kind = "int" /\ k.node \in Followers /\ k.ip \in IPs
      /\ k.pc = "persist" /\ k.todo = {} /\ k.done = {}
  BY <1>1 DEF Sent
<1>3. JobOK(k) /\ ~First(k)
  BY <1>2 DEF JobOK, PlacesOf, First, OfIP
<1> QED
  BY <1>2, <1>3

(***************************************************************************)
(* The jobs that each step leaves                                          *)
(***************************************************************************)

Replaced(j, R) == jobs' = (jobs \ {j}) \cup R /\ Fits(j, R)

\* The list goes on with its next IP.
Advanced(j, k) ==
  /\ k \in Jobs /\ Same(j, k) /\ k.node = j.node /\ SameAnswer(j, k)
  /\ k.pc = "next" /\ k.waited = j.waited

LEMMA EnterJobs ==
  ASSUME JobsInv, NEW j \in jobs, Forward(j)
  PROVE  Replaced(j, {Entered(j)})
<1> DEFINE k == Entered(j)
<1>1. j \in Jobs /\ JobOK(j) /\ j.pc = "forward"
  BY DEF JobsInv, PlacesOK, Forward
<1>2. /\ k \in Jobs /\ Same(j, k) /\ k.node = Leader
      /\ SameWork(j, k) /\ SameAnswer(j, k) /\ k.waited = j.waited
      /\ j.kind = "lookup" => k.pc = "query"
      /\ j.kind \in {"unblock", "unblockGet", "clear"} => k.pc = "haproxy"
      /\ j.kind = "byReason" => k.pc = "collect"
      /\ j.kind \in {"delete", "deleteUnblock"} => k.pc = "remove"
      /\ j.kind \in AllKinds
  BY <1>1, EnteredFacts
<1> HIDE DEF k
<1>3. JobOK(k)
  BY <1>1, <1>2, NodesFacts
  DEF JobOK, Same, SameWork, SameAnswer, PlacesOf, OfIP, AllKinds
<1>4. Fits(j, {k})
  BY <1>1, <1>2, <1>3 DEF Fits, First, Same
<1> QED
  BY <1>4 DEF Replaced, Forward, k

LEMMA HapJobs ==
  ASSUME JobsInv, NEW j \in jobs, HapRemove(j) \/ HapSkipped(j)
  PROVE  \E k : Moved(j, k, "persist") /\ k.waited = j.waited /\ Replaced(j, {k})
<1> DEFINE k == [j EXCEPT !.pc = "persist"]
<1>1. j \in Jobs /\ JobOK(j) /\ j.pc = "haproxy"
  BY DEF JobsInv, PlacesOK, HapRemove, HapSkipped
<1>2. Moved(j, k, "persist") /\ k.waited = j.waited
  BY <1>1, MovedFacts DEF Places
<1>3. jobs' = (jobs \ {j}) \cup {k}
  BY DEF HapRemove, HapSkipped
<1> HIDE DEF k
<1>4. JobOK(k)
  BY <1>1, <1>2 DEF Moved, JobOK, Same, SameWork, SameAnswer, PlacesOf
<1>5. Fits(j, {k})
  BY <1>2, <1>4, FitsOne DEF Moved, Same, First
<1> QED
  BY <1>2, <1>3, <1>5 DEF Replaced

LEMMA HapFailsJobs ==
  ASSUME JobsInv, NEW j \in jobs, HapFails(j)
  PROVE  \/ j.kind \notin OfList /\ Replaced(j, {})
         \/ /\ j.kind \in OfList
            /\ \E k : /\ Advanced(j, k) /\ Replaced(j, {k})
                      /\ k.ip = 0 /\ k.todo = j.todo /\ k.done = j.done
<1> DEFINE k == [j EXCEPT !.pc = "next", !.ip = 0]
<1>1. j \in Jobs /\ JobOK(j) /\ j.pc = "haproxy"
  BY DEF JobsInv, PlacesOK, HapFails
<1>2. CASE j.kind \notin OfList
  BY <1>2, FitsNone DEF Replaced, HapFails
<1>3. CASE j.kind \in OfList
  <2>1. Advanced(j, k) /\ k.ip = 0 /\ k.todo = j.todo /\ k.done = j.done
    BY <1>1, ListFacts DEF Advanced
  <2>2. jobs' = (jobs \ {j}) \cup {k}
    BY <1>3 DEF HapFails
  <2> HIDE DEF k
  <2>3. JobOK(k)
    BY <1>1, <1>3, <2>1 DEF Advanced, JobOK, Same, SameAnswer, PlacesOf, OfList, OfIP
  <2>4. Fits(j, {k})
    BY <2>1, <2>3, FitsOne DEF Advanced, Same, First
  <2> QED
    BY <1>3, <2>1, <2>2, <2>4 DEF Replaced
<1> QED
  BY <1>2, <1>3

LEMMA PersistJobs ==
  ASSUME JobsInv, NEW j \in jobs, Persist(j) \/ PersistFails(j) \/ PersistHalf(j)
  PROVE  /\ \/ ~Persist(j) /\ j.kind = "int" /\ Replaced(j, {})
            \/ \E k : Moved(j, k, "activity") /\ k.waited = j.waited /\ Replaced(j, {k})
         /\ Persist(j) => \E k : Moved(j, k, "activity") /\ Replaced(j, {k})
<1> DEFINE k == [j EXCEPT !.pc = "activity"]
<1>1. j \in Jobs /\ JobOK(j) /\ j.pc = "persist"
  BY DEF JobsInv, PlacesOK, Persist, PersistFails, PersistHalf
<1>2. Moved(j, k, "activity") /\ k.waited = j.waited
  BY <1>1, MovedFacts DEF Places
<1>3. \/ jobs' = (jobs \ {j}) \cup {k}
      \/ ~Persist(j) /\ j.kind = "int" /\ jobs' = jobs \ {j}
  BY DEF Persist, PersistFails, PersistHalf, Persisted
<1>4. Persist(j) => jobs' = (jobs \ {j}) \cup {k}
  BY DEF Persist
<1> HIDE DEF k
<1>5. JobOK(k)
  BY <1>1, <1>2 DEF Moved, JobOK, Same, SameWork, SameAnswer, PlacesOf
<1>6. Fits(j, {k})
  BY <1>2, <1>5, FitsOne DEF Moved, Same, First
<1>7. jobs' = (jobs \ {j}) \cup {k} =>
        Moved(j, k, "activity") /\ k.waited = j.waited /\ Replaced(j, {k})
  BY <1>2, <1>6 DEF Replaced
<1>8. jobs' = jobs \ {j} => Replaced(j, {})
  BY FitsNone DEF Replaced
<1> QED
  BY <1>3, <1>4, <1>7, <1>8

LEMMA ClearJobs ==
  ASSUME JobsInv, NEW j \in jobs, ClearActivity(j)
  PROVE  \/ j.kind = "int" /\ Replaced(j, {})
         \/ j.kind \in {"unblock", "clear"} /\ Replaced(j, Broadcast(j, {j.ip}, FALSE))
         \/ /\ j.kind = "unblockGet"
            /\ \E k : /\ Moved(j, k, "wait") /\ k.waited = j.waited
                      /\ Replaced(j, {k} \cup Broadcast(j, {j.ip}, TRUE))
         \/ /\ j.kind \in {"byReason", "deleteUnblock"}
            /\ \E k : /\ Advanced(j, k) /\ Replaced(j, {k})
                      /\ k.ip = 0 /\ k.todo = j.todo /\ k.done = j.done \cup {j.ip}
<1>1. j \in Jobs /\ JobOK(j) /\ j.pc = "activity" /\ j.ip \in IPs
  BY DEF JobsInv, PlacesOK, ClearActivity, JobOK
<1>2. j.kind \in {"int", "unblock", "clear", "unblockGet", "byReason", "deleteUnblock"}
  BY <1>1, JobTyped DEF JobOK, PlacesOf, AllKinds
<1>3. jobs' = (jobs \ {j}) \cup AfterActivity(j)
  BY DEF ClearActivity
<1>4. {j.ip} \in SUBSET IPs
  BY <1>1
<1>5. CASE j.kind = "int"
  BY <1>3, <1>5, FitsNone DEF AfterActivity, Replaced
<1>6. CASE j.kind \in {"unblock", "clear"}
  <2> DEFINE R == Broadcast(j, {j.ip}, FALSE)
  <2>1. jobs' = (jobs \ {j}) \cup R
    BY <1>3, <1>6 DEF AfterActivity
  <2>2. \A k \in R : k \in Jobs /\ JobOK(k) /\ k.req = j.req /\ k.kind = "int" /\ ~First(k)
    BY <1>1, <1>4, SentFits
  <2> HIDE DEF R
  <2>3. Fits(j, R)
    BY <1>6, <2>2 DEF Fits, Removals
  <2> QED
    BY <1>6, <2>1, <2>3 DEF Replaced, R
<1>7. CASE j.kind = "unblockGet"
  <2> DEFINE R == Broadcast(j, {j.ip}, TRUE)
             k == [j EXCEPT !.pc = "wait"]
  <2>1. jobs' = (jobs \ {j}) \cup ({k} \cup R)
    BY <1>3, <1>7 DEF AfterActivity
  <2>2. \A l \in R : l \in Jobs /\ JobOK(l) /\ l.req = j.req /\ l.kind = "int" /\ ~First(l)
    BY <1>1, <1>4, SentFits
  <2>3. Moved(j, k, "wait") /\ k.waited = j.waited
    BY <1>1, MovedFacts DEF Places
  <2> HIDE DEF R, k
  <2>4. JobOK(k) /\ ~First(k)
    BY <1>1, <1>7, <2>3 DEF Moved, JobOK, Same, SameWork, SameAnswer, PlacesOf, First
  <2>5. Fits(j, {k} \cup R)
    BY <1>7, <2>2, <2>3, <2>4 DEF Fits, Moved, Same, Removals
  <2> QED
    BY <1>7, <2>1, <2>3, <2>5 DEF Replaced, R
<1>8. CASE j.kind \in {"byReason", "deleteUnblock"}
  <2> DEFINE k == [j EXCEPT !.pc = "next", !.done = @ \cup {j.ip}, !.ip = 0]
  <2>1. Advanced(j, k) /\ k.ip = 0 /\ k.todo = j.todo /\ k.done = j.done \cup {j.ip}
    BY <1>1, ListFacts DEF Advanced
  <2>2. jobs' = (jobs \ {j}) \cup {k}
    BY <1>3, <1>8 DEF AfterActivity
  <2> HIDE DEF k
  <2>3. JobOK(k)
    BY <1>1, <1>8, <2>1 DEF Advanced, JobOK, Same, SameAnswer, PlacesOf, OfIP
  <2>4. Fits(j, {k})
    BY <2>1, <2>3, FitsOne DEF Advanced, Same, First
  <2> QED
    BY <1>8, <2>1, <2>2, <2>4 DEF Replaced
<1> QED
  BY <1>2, <1>5, <1>6, <1>7, <1>8

LEMMA GoneJobs ==
  ASSUME NEW j, ForwardFails(j) \/ Lost(j) \/ RemoveFails(j) \/ Render(j)
  PROVE  Replaced(j, {})
BY FitsNone DEF Replaced, ForwardFails, Lost, RemoveFails, Render

LEMMA TimedOutJobs ==
  ASSUME JobsInv, NEW j \in jobs, TimedOut(j)
  PROVE  /\ j.waited /\ j.kind = "int"
         /\ \E k : Moved(j, k, j.pc) /\ ~k.waited /\ Replaced(j, {k})
<1> DEFINE k == [j EXCEPT !.waited = FALSE]
<1>1. j \in Jobs /\ JobOK(j) /\ j.waited
  BY DEF JobsInv, PlacesOK, TimedOut
<1>2. Moved(j, k, j.pc) /\ ~k.waited
  BY <1>1 DEF Moved, Same, SameWork, SameAnswer, Jobs
<1>3. jobs' = (jobs \ {j}) \cup {k}
  BY DEF TimedOut
<1> HIDE DEF k
<1>4. JobOK(k) /\ j.kind = "int"
  BY <1>1, <1>2 DEF Moved, JobOK, Same, SameWork, SameAnswer
<1>5. Fits(j, {k})
  BY <1>2, <1>4, FitsOne DEF Moved, Same, First
<1> QED
  BY <1>1, <1>2, <1>3, <1>4, <1>5 DEF Replaced

\* A list being made: node n has been asked and gave ips.
Asked(j, k, n, ips) ==
  /\ k \in Jobs /\ Same(j, k) /\ k.node = j.node /\ k.status = j.status /\ k.waited = j.waited
  /\ k.ip = j.ip /\ k.done = j.done
  /\ k.asked = j.asked \cup {n} /\ k.todo = j.todo \cup ips
  /\ k.asked # Nodes => k.pc = "collect"
  /\ k.pc \in {"collect", "next"}

LEMMA AskedFits ==
  ASSUME NEW j \in Jobs, JobOK(j), j.pc = "collect", NEW k, NEW n, NEW ips, Asked(j, k, n, ips),
         k.asked = Nodes => k.pc = "next"
  PROVE  Fits(j, {k}) /\ j.kind = "byReason" /\ j.reason \in Reasons
<1>1. j.kind = "byReason" /\ j.reason \in Reasons
  BY JobTyped DEF JobOK, PlacesOf, AllKinds
<1>2. JobOK(k)
  BY <1>1 DEF JobOK, Asked, Same, PlacesOf, OfIP
<1>3. First(j)
  BY DEF First
<1> QED
  BY <1>1, <1>2, <1>3, FitsOne DEF Asked, Same

LEMMA CollectJobs ==
  ASSUME JobsInv, NEW j \in jobs, Collect(j) \/ CollectFails(j)
  PROVE  /\ j.kind = "byReason" /\ j.reason \in Reasons /\ j.pc = "collect"
         /\ NextNode(j) \in Nodes \ j.asked
         /\ \/ /\ Collect(j)
               /\ \E k : /\ Asked(j, k, NextNode(j), RowMatches(NextNode(j), j.reason))
                         /\ Replaced(j, {k})
            \/ CollectFails(j) /\ NextNode(j) = Leader /\ Replaced(j, {})
            \/ /\ CollectFails(j) /\ NextNode(j) # Leader
               /\ \E k : Asked(j, k, NextNode(j), {}) /\ Replaced(j, {k})
<1> DEFINE n == NextNode(j)
           ips == RowMatches(n, j.reason)
           p == IF j.asked \cup {n} = Nodes THEN "next" ELSE "collect"
<1>1. j \in Jobs /\ JobOK(j) /\ j.pc = "collect" /\ j.asked \in SUBSET Nodes /\ j.asked # Nodes
  BY JobTyped DEF JobsInv, PlacesOK, Collect, CollectFails, JobOK
<1>2. n \in Nodes \ j.asked
  BY <1>1, NextNodeFacts
<1>3. j.kind = "byReason" /\ j.reason \in Reasons
  BY <1>1, JobTyped DEF JobOK, PlacesOf, AllKinds
<1>4. ips \subseteq IPs
  BY DEF RowMatches
<1>5. p \in Places /\ (j.asked \cup {n} = Nodes => p = "next")
        /\ (j.asked \cup {n} # Nodes => p = "collect") /\ p \in {"collect", "next"}
  BY DEF Places
<1>6. CASE Collect(j)
  <2> DEFINE k == [j EXCEPT !.asked = @ \cup {n}, !.todo = @ \cup ips, !.pc = p]
  <2>1. jobs' = (jobs \ {j}) \cup {k}
    BY <1>6 DEF Collect
  <2> HIDE DEF n, ips, p
  <2>2. Asked(j, k, n, ips) /\ k.pc = p
    BY <1>1, <1>2, <1>4, <1>5 DEF Jobs, Asked, Same
  <2> HIDE DEF k
  <2>3. Fits(j, {k})
    BY <1>1, <1>5, <2>2, AskedFits DEF Asked
  <2>4. \E l : Asked(j, l, n, ips) /\ Replaced(j, {l})
    BY <2>1, <2>2, <2>3 DEF Replaced
  <2> QED
    BY <1>1, <1>2, <1>3, <1>6, <2>4 DEF n, ips
<1>7. CASE CollectFails(j) /\ n = Leader
  <2>1. jobs' = (jobs \ {j}) \cup {}
    BY <1>7 DEF CollectFails
  <2> QED
    BY <1>1, <1>2, <1>3, <1>7, <2>1, FitsNone DEF Replaced
<1>8. CASE CollectFails(j) /\ n # Leader
  <2> DEFINE k == [j EXCEPT !.asked = @ \cup {n}, !.pc = p]
  <2>1. jobs' = (jobs \ {j}) \cup {k}
    BY <1>8 DEF CollectFails
  <2> HIDE DEF n, ips, p
  <2>2. Asked(j, k, n, {}) /\ k.pc = p
    BY <1>1, <1>2, <1>5 DEF Jobs, Asked, Same
  <2> HIDE DEF k
  <2>3. Fits(j, {k})
    BY <1>1, <1>5, <2>2, AskedFits DEF Asked
  <2>4. \E l : Asked(j, l, n, {}) /\ Replaced(j, {l})
    BY <2>1, <2>2, <2>3 DEF Replaced
  <2> QED
    BY <1>1, <1>2, <1>3, <1>8, <2>4 DEF n
<1> QED
  BY <1>6, <1>7, <1>8

\* The leader tells follower f to remove its bad actors.
Told(j, k, f) ==
  /\ k \in Jobs /\ Same(j, k) /\ k.node = f /\ k.pc = "remove"
  /\ k.todo = {} /\ k.done = {} /\ ~k.waited /\ k.status = [m \in Nodes |-> "error"]

ToldJobs(j) ==
  {[Job(j.kind, f, 0, j.reason) EXCEPT !.req = j.req, !.pc = "remove"] : f \in Followers}

LEMMA ToldFacts ==
  ASSUME NEW j \in Jobs
  PROVE  /\ \A k \in ToldJobs(j) : \E f \in Followers : Told(j, k, f)
         /\ \A f \in Followers : \E k \in ToldJobs(j) : Told(j, k, f)
         /\ \A k, l \in ToldJobs(j) : k.node = l.node => k = l
<1> DEFINE T(f) == [Job(j.kind, f, 0, j.reason) EXCEPT !.req = j.req, !.pc = "remove"]
<1>1. ASSUME NEW f \in Followers
      PROVE  Told(j, T(f), f)
  <2> HIDE DEF T
  <2>1. /\ j.kind \in AllKinds \cup {"int"} /\ f \in Nodes /\ 0 \in IPs \cup {0}
        /\ j.reason \in Words /\ "remove" \in Places /\ j.req \in Nat
    BY NodesFacts, JobTyped DEF Places
  <2> DEFINE J == Job(j.kind, f, 0, j.reason)
  <2>2. /\ J \in Jobs /\ J.kind = j.kind /\ J.node = f /\ J.reason = j.reason
        /\ J.todo = {} /\ J.done = {} /\ ~J.waited /\ J.status = [m \in Nodes |-> "error"]
    BY <2>1, JobFacts
  <2> HIDE DEF J
  <2>3. T(f) = [J EXCEPT !.req = j.req, !.pc = "remove"]
    BY DEF T, J
  <2>4. Made(T(f), J, j.req, "remove", J.waited)
    BY <2>1, <2>2, <2>3 DEF Made, SameWork, SameAnswer, Jobs
  <2> QED
    BY <2>2, <2>4 DEF Told, Made, Same, SameWork, SameAnswer
<1>2. ToldJobs(j) = {T(f) : f \in Followers}
  BY DEF ToldJobs
<1> HIDE DEF T
<1>3. \A f \in Followers : T(f).node = f
  BY <1>1 DEF Told
<1> QED
  BY <1>1, <1>2, <1>3

LEMMA RemoveJobs ==
  ASSUME JobsInv, NEW j \in jobs, Remove(j)
  PROVE  /\ j.kind \in {"delete", "deleteUnblock"} /\ j.reason \in Reasons \cup {"all"}
         /\ j.todo = {} /\ j.done = {}
         /\ \E R1, R2 :
              /\ Replaced(j, R1 \cup R2)
              /\ \/ j.kind = "delete" /\ R1 = {}
                 \/ /\ j.kind = "deleteUnblock"
                    /\ \E k : /\ R1 = {k} /\ Advanced(j, k)
                              /\ k.todo = BadMatches(j.node, j.reason) /\ k.done = {}
              /\ \/ j.node # Leader /\ R2 = {}
                 \/ j.node = Leader /\ R2 = ToldJobs(j)
<1> DEFINE removed == BadMatches(j.node, j.reason)
           k == [j EXCEPT !.pc = "next", !.todo = removed]
           R1 == IF j.kind = "deleteUnblock" THEN {k} ELSE {}
           R2 == IF j.node = Leader THEN ToldJobs(j) ELSE {}
<1>1. j \in Jobs /\ JobOK(j) /\ j.pc = "remove"
  BY DEF JobsInv, PlacesOK, Remove
<1>2. /\ j.kind \in {"delete", "deleteUnblock"} /\ j.reason \in Reasons \cup {"all"}
      /\ j.todo = {} /\ j.done = {}
  BY <1>1, JobTyped DEF JobOK, PlacesOf, AllKinds
<1>3. removed \subseteq IPs
  BY DEF BadMatches
<1>4. jobs' = (jobs \ {j}) \cup (R1 \cup R2)
  BY DEF Remove, ToldJobs
<1> HIDE DEF removed
<1>5. Advanced(j, k) /\ k.todo = removed /\ k.done = {}
  BY <1>1, <1>2, <1>3 DEF Advanced, Jobs, Same, SameAnswer, Places
<1> HIDE DEF k
<1>6. j.kind = "deleteUnblock" => JobOK(k) /\ ~First(k)
  BY <1>1, <1>2, <1>5 DEF Advanced, JobOK, Same, SameAnswer, PlacesOf, OfIP, First
<1>7. ASSUME NEW l \in ToldJobs(j)
      PROVE  /\ l \in Jobs /\ l.req = j.req /\ JobOK(l) /\ ~First(l) /\ l.node # Leader
             /\ l.kind = j.kind
  <2>1. PICK f \in Followers : Told(j, l, f)
    BY <1>1, ToldFacts
  <2> QED
    BY <1>1, <1>2, <2>1, NodesFacts DEF Told, Same, JobOK, PlacesOf, OfIP, First
<1>8. Fits(j, R1 \cup R2)
  <2>1. \A l \in R1 \cup R2 :
          l \in Jobs /\ l.req = j.req /\ JobOK(l) /\ ~First(l) /\ l.kind = j.kind
    BY <1>2, <1>5, <1>6, <1>7 DEF Advanced, Same
  <2>2. \A l, m \in R1 \cup R2 : l.node = m.node => l = m
    <3> TAKE l, m \in R1 \cup R2
    <3> HAVE l.node = m.node
    <3>1. l \in R1 => l = k /\ l.node = j.node
      BY <1>5 DEF Advanced
    <3>2. m \in R1 => m = k /\ m.node = j.node
      BY <1>5 DEF Advanced
    <3>3. l \in R2 => l \in ToldJobs(j) /\ l.node # Leader /\ j.node = Leader
      BY <1>7
    <3>4. m \in R2 => m \in ToldJobs(j) /\ m.node # Leader /\ j.node = Leader
      BY <1>7
    <3> HIDE DEF R1, R2
    <3> QED
      BY <1>1, <3>1, <3>2, <3>3, <3>4, ToldFacts
  <2>3. First(j) \/ \A l \in R1 \cup R2 : l.node = j.node /\ j.kind # "int"
    BY <1>1, <1>2, <1>5 DEF First, Advanced
  <2> HIDE DEF R1, R2
  <2> QED
    BY <2>1, <2>2, <2>3 DEF Fits
<1>9. Replaced(j, R1 \cup R2)
  BY <1>4, <1>8 DEF Replaced
<1>10. \/ j.kind = "delete" /\ R1 = {}
       \/ j.kind = "deleteUnblock" /\ R1 = {k}
  BY <1>2
<1>11. \/ j.node # Leader /\ R2 = {}
       \/ j.node = Leader /\ R2 = ToldJobs(j)
  OBVIOUS
<1> HIDE DEF R1, R2
<1> QED
  BY <1>2, <1>5, <1>9, <1>10, <1>11 DEF removed

LEMMA NextIPJobs ==
  ASSUME JobsInv, NEW j \in jobs, NextIP(j)
  PROVE  /\ j.kind \in {"byReason", "deleteUnblock"}
         /\ \/ \E k : /\ k.ip \in j.todo /\ k.todo = j.todo \ {k.ip} /\ k.done = j.done
                      /\ k.pc = "haproxy" /\ Same(j, k) /\ k.node = j.node /\ SameAnswer(j, k)
                      /\ k.waited = j.waited /\ Replaced(j, {k})
            \/ /\ j.todo = {} /\ j.kind = "byReason"
               /\ Replaced(j, Broadcast(j, j.done, FALSE))
            \/ j.todo = {} /\ j.kind = "deleteUnblock" /\ Replaced(j, {})
<1> DEFINE i == Min(j.todo)
           k == [j EXCEPT !.ip = i, !.todo = @ \ {i}, !.pc = "haproxy"]
           R == Broadcast(j, j.done, FALSE)
<1>1. j \in Jobs /\ JobOK(j) /\ j.pc = "next" /\ j.todo \subseteq IPs /\ j.done \in SUBSET IPs
  BY JobTyped DEF JobsInv, PlacesOK, NextIP
<1>2. j.kind \in {"byReason", "deleteUnblock"}
  BY <1>1, JobTyped DEF JobOK, PlacesOf, AllKinds
<1>3. CASE j.todo # {}
  <2>1. i \in j.todo
    BY <1>1, <1>3, MinFacts, NodesFacts
  <2>2. jobs' = (jobs \ {j}) \cup {k}
    BY <1>3 DEF NextIP
  <2> HIDE DEF i
  <2>3. /\ k \in Jobs /\ k.ip = i /\ k.todo = j.todo \ {i} /\ k.done = j.done
        /\ k.pc = "haproxy" /\ Same(j, k) /\ k.node = j.node /\ SameAnswer(j, k)
        /\ k.waited = j.waited
    BY <1>1, <2>1 DEF Jobs, Same, SameAnswer, Places
  <2> HIDE DEF k
  <2>4. JobOK(k)
    BY <1>1, <1>2, <2>1, <2>3 DEF JobOK, Same, SameAnswer, PlacesOf, OfIP
  <2>5. Fits(j, {k})
    BY <2>3, <2>4, FitsOne DEF Same, First
  <2> QED
    BY <1>2, <2>1, <2>2, <2>3, <2>5 DEF Replaced
<1>4. CASE j.todo = {} /\ j.kind = "byReason"
  <2>1. jobs' = (jobs \ {j}) \cup R
    BY <1>4 DEF NextIP
  <2>2. \A l \in R : l \in Jobs /\ JobOK(l) /\ l.req = j.req /\ l.kind = "int" /\ ~First(l)
    BY <1>1, SentFits
  <2> HIDE DEF R
  <2>3. Fits(j, R)
    BY <1>4, <2>2 DEF Fits, Removals
  <2> QED
    BY <1>4, <2>1, <2>3 DEF Replaced, R
<1>5. CASE j.todo = {} /\ j.kind = "deleteUnblock"
  <2>1. jobs' = (jobs \ {j}) \cup {}
    BY <1>5 DEF NextIP
  <2> QED
    BY <1>5, <2>1, FitsNone DEF Replaced
<1> QED
  BY <1>2, <1>3, <1>4, <1>5

LEMMA WaitJobs ==
  ASSUME JobsInv, NEW j \in jobs, Wait(j)
  PROVE  \E k : Moved(j, k, "query") /\ k.waited = j.waited /\ Replaced(j, {k})
<1> DEFINE k == [j EXCEPT !.pc = "query"]
<1>1. j \in Jobs /\ JobOK(j) /\ j.pc = "wait"
  BY DEF JobsInv, PlacesOK, Wait
<1>2. Moved(j, k, "query") /\ k.waited = j.waited
  BY <1>1, MovedFacts DEF Places
<1>3. jobs' = (jobs \ {j}) \cup {k}
  BY DEF Wait
<1> HIDE DEF k
<1>4. JobOK(k)
  BY <1>1, <1>2, JobTyped DEF Moved, JobOK, Same, SameWork, SameAnswer, PlacesOf, AllKinds
<1>5. Fits(j, {k})
  BY <1>2, <1>4, FitsOne DEF Moved, Same, First
<1> QED
  BY <1>2, <1>3, <1>5 DEF Replaced

\* Node n has said what it thinks of the IP, or has not answered.
Answered(j, k, n) ==
  /\ k \in Jobs /\ Same(j, k) /\ k.node = j.node /\ SameWork(j, k) /\ k.waited = j.waited
  /\ k.pc = "query"
  /\ \A m \in Nodes : m # n => k.status[m] = j.status[m]

LEMMA AnsweredFits ==
  ASSUME NEW j \in Jobs, JobOK(j), j.pc = "query", NEW k, NEW n, Answered(j, k, n)
  PROVE  Fits(j, {k})
<1>1. JobOK(k)
  BY JobTyped DEF Answered, JobOK, Same, SameWork
<1> QED
  BY <1>1, FitsOne DEF Answered, Same, First

LEMMA StatusTyped ==
  ASSUME NEW n, NEW i
  PROVE  /\ NodeStatus(n, i) \in Shown
         /\ NodeStatus(n, i) = "blocked" =>
              act[n][i] = "blocked" \/ (act[n][i] = "none" /\ i \in hap)
BY DEF NodeStatus, ActorStatus, Shown

LEMMA QueryJobs ==
  ASSUME JobsInv, NEW j \in jobs, Query(j) \/ QueryFails(j)
  PROVE  /\ j.pc = "query" /\ NextNode(j) \in Nodes
         /\ \E k : /\ Answered(j, k, NextNode(j)) /\ Replaced(j, {k})
                   /\ \/ k.status[NextNode(j)] = NodeStatus(NextNode(j), j.ip)
                      \/ k.status[NextNode(j)] \in {j.status[NextNode(j)], "unknown"}
<1> DEFINE n == NextNode(j)
           st == NodeStatus(n, j.ip)
<1>1. j \in Jobs /\ JobOK(j) /\ j.pc = "query" /\ j.asked \in SUBSET Nodes /\ j.asked # Nodes
  BY JobTyped DEF JobsInv, PlacesOK, Query, QueryFails
<1>2. n \in Nodes /\ st \in Shown /\ j.status \in [Nodes -> Shown]
  BY <1>1, NextNodeFacts, StatusTyped, JobTyped
<1>3. CASE Query(j)
  <2> DEFINE k == [j EXCEPT !.asked = @ \cup {n}, !.status[n] = st]
  <2>1. jobs' = (jobs \ {j}) \cup {k}
    BY <1>3 DEF Query
  <2> HIDE DEF n, st
  <2>2. Answered(j, k, n) /\ k.status[n] = st
    BY <1>1, <1>2 DEF Jobs, Answered, Same, SameWork
  <2> HIDE DEF k
  <2>3. Fits(j, {k})
    BY <1>1, <2>2, AnsweredFits
  <2>4. \E l : Answered(j, l, n) /\ Replaced(j, {l}) /\ l.status[n] = st
    BY <2>1, <2>2, <2>3 DEF Replaced
  <2> QED
    BY <1>1, <1>2, <2>4 DEF n, st
<1>4. CASE QueryFails(j)
  <2>0. PICK u \in {j.status[n], "unknown"} :
          jobs' = (jobs \ {j}) \cup {[j EXCEPT !.asked = @ \cup {n}, !.status[n] = u]}
    BY <1>4 DEF QueryFails
  <2> DEFINE k == [j EXCEPT !.asked = @ \cup {n}, !.status[n] = u]
  <2>1. jobs' = (jobs \ {j}) \cup {k}
    BY <2>0
  <2>a. u \in Shown
    BY <1>2 DEF Shown
  <2> HIDE DEF n, st
  <2>2. Answered(j, k, n) /\ k.status[n] = u
    BY <1>1, <1>2, <2>a DEF Jobs, Answered, Same, SameWork
  <2> HIDE DEF k
  <2>3. Fits(j, {k})
    BY <1>1, <2>2, AnsweredFits
  <2>4. \E l : Answered(j, l, n) /\ Replaced(j, {l}) /\ l.status[n] \in {j.status[n], "unknown"}
    BY <2>0, <2>1, <2>2, <2>3 DEF Replaced
  <2> QED
    BY <1>1, <1>2, <2>4 DEF n
<1> QED
  BY <1>3, <1>4

\* A request that is made: what it asks for, with its number.
Numbered(r, q) == [r EXCEPT !.req = q]

LEMMA RequestFacts ==
  ASSUME NEW r \in Requests, NEW q \in Nat, NEW j, j = Numbered(r, q)
  PROVE  /\ j \in Jobs /\ j.req = q /\ j.pc = "forward" /\ ~j.waited
         /\ j.kind \in AllKinds /\ j.todo = {} /\ j.done = {} /\ j.asked = {}
         /\ j.status = [m \in Nodes |-> "error"]
         /\ j.kind \in OfIP => j.ip \in IPs
         /\ j.kind = "byReason" => j.reason \in Reasons
         /\ j.kind \in {"delete", "deleteUnblock"} => j.reason \in Reasons \cup {"all"}
         /\ JobOK(j)
<1>1. PICK kind \in AllKinds, n \in Nodes, i \in IPs \cup {0}, w \in Words :
        /\ r = Job(kind, n, i, w)
        /\ kind \in OfIP => i \in IPs
        /\ kind = "byReason" => w \in Reasons
        /\ kind \in {"delete", "deleteUnblock"} => w \in Reasons \cup {"all"}
  <2>1. CASE \E k \in Kinds \cap OfIP, n \in Nodes, i \in IPs : r = Job(k, n, i, "none")
    BY <2>1, ApiAssumption DEF Words, OfIP
  <2>2. CASE \E k \in Kinds \cap OfList, n \in Nodes, w \in Reasons : r = Job(k, n, 0, w)
    BY <2>2, ApiAssumption DEF Words, OfIP, OfList
  <2>3. CASE \E k \in Kinds \cap {"delete", "deleteUnblock"}, n \in Nodes : r = Job(k, n, 0, "all")
    BY <2>3, ApiAssumption DEF Words, OfIP
  <2> QED
    BY <2>1, <2>2, <2>3 DEF Requests
<1>2. /\ r \in Jobs /\ r.kind = kind /\ r.node = n /\ r.ip = i /\ r.reason = w
      /\ r.pc = "forward" /\ r.todo = {} /\ r.done = {} /\ r.asked = {} /\ ~r.waited
      /\ r.status = [m \in Nodes |-> "error"]
  BY <1>1, JobFacts
<1>3. Made(j, r, q, "forward", r.waited)
  BY <1>2 DEF Made, SameWork, SameAnswer, Jobs, Numbered
<1>4. /\ j \in Jobs /\ j.req = q /\ j.pc = "forward" /\ ~j.waited /\ j.kind = kind
      /\ j.todo = {} /\ j.done = {} /\ j.asked = {} /\ j.reason = w /\ j.ip = i
      /\ j.status = [m \in Nodes |-> "error"]
  BY <1>2, <1>3 DEF Made, SameWork, SameAnswer
<1>5. JobOK(j)
  BY <1>1, <1>4 DEF JobOK, PlacesOf, AllKinds, OfIP
<1> QED
  BY <1>1, <1>4, <1>5

\* The request is with the leader at once, or has to be forwarded.
LEMMA SubmitJobs ==
  ASSUME TypeOK, JobsInv, NEW r \in Requests, Submit(r)
  PROVE  \E j, k :
           /\ j \in Jobs /\ JobOK(j) /\ j.pc = "forward" /\ ~j.waited /\ j.kind \in AllKinds
           /\ j.kind \in OfIP => j.ip \in IPs
           /\ j.req = used.requests /\ used'.requests = used.requests + 1
           /\ k \in Jobs /\ JobOK(k) /\ k.req = j.req
           /\ jobs' = jobs \cup {k}
           /\ \/ k = j /\ j.node # Leader /\ owed' = owed
              \/ k = Entered(j) /\ j.node = Leader /\ owed' = owed \cup Promise(j)
<1> DEFINE j == Numbered(r, used.requests)
<1>1. /\ used.requests \in Nat
      /\ used' = [used EXCEPT !.requests = @ + 1]
      /\ jobs' = jobs \cup {IF j.node = Leader THEN Entered(j) ELSE j}
      /\ owed' = IF j.node = Leader THEN owed \cup Promise(j) ELSE owed
  BY DEF TypeOK, Submit, Numbered
<1>2. used'.requests = used.requests + 1
  BY <1>1 DEF TypeOK
<1>3. /\ j \in Jobs /\ j.req = used.requests /\ j.pc = "forward" /\ ~j.waited
      /\ j.kind \in AllKinds /\ (j.kind \in OfIP => j.ip \in IPs) /\ JobOK(j)
  BY <1>1, RequestFacts
<1> HIDE DEF j
<1>4. /\ Entered(j) \in Jobs /\ Same(j, Entered(j)) /\ Entered(j).node = Leader
      /\ SameWork(j, Entered(j)) /\ SameAnswer(j, Entered(j)) /\ Entered(j).waited = j.waited
      /\ j.kind = "lookup" => Entered(j).pc = "query"
      /\ j.kind \in {"unblock", "unblockGet", "clear"} => Entered(j).pc = "haproxy"
      /\ j.kind = "byReason" => Entered(j).pc = "collect"
      /\ j.kind \in {"delete", "deleteUnblock"} => Entered(j).pc = "remove"
  BY <1>3, EnteredFacts
<1> DEFINE e == Entered(j)
<1> HIDE DEF e
<1>5. JobOK(e) /\ e.req = j.req
  BY <1>3, <1>4, NodesFacts
  DEF JobOK, Same, SameWork, SameAnswer, PlacesOf, OfIP, AllKinds, e
<1>6. CASE j.node = Leader
  BY <1>1, <1>2, <1>3, <1>4, <1>5, <1>6 DEF e
<1>7. CASE j.node # Leader
  BY <1>1, <1>2, <1>3, <1>7
<1> QED
  BY <1>6, <1>7

LEMMA SubmitKeepsJobs ==
  ASSUME TypeOK, JobsInv, NEW r \in Requests, Submit(r)
  PROVE  JobsInv'
<1>1. PICK j, k :
        /\ j.req = used.requests /\ used'.requests = used.requests + 1
        /\ k \in Jobs /\ JobOK(k) /\ k.req = j.req
        /\ jobs' = jobs \cup {k}
  BY SubmitJobs
<1>2. used.requests \in Nat /\ \A l \in jobs : l.req \in Nat /\ l.req < used.requests
  BY JobTyped DEF TypeOK, JobsInv, RequestsOK
<1>3. jobs' \subseteq Jobs /\ PlacesOK'
  BY <1>1 DEF JobsInv, PlacesOK, JobOK
<1>4. \A l \in jobs : l.req # k.req
  BY <1>1, <1>2
<1>5. \A l \in jobs' : l.req < used'.requests
  BY <1>1, <1>2
<1> QED
  BY <1>1, <1>3, <1>4, <1>5 DEF JobsInv, RequestsOK, First

LEMMA FaultFacts ==
  ASSUME TypeOK, Fault
  PROVE  used' \in [requests : Nat, decisions : Nat, faults : Nat]
           /\ used'.requests = used.requests
BY DEF TypeOK, Fault

LEMMA HandlerUsed ==
  ASSUME TypeOK, NEW j \in jobs, Handler(j)
  PROVE  used' \in [requests : Nat, decisions : Nat, faults : Nat]
           /\ used'.requests = used.requests
<1>1. Fault \/ used' = used
  BY DEF Handler, Forward, ForwardFails, HapRemove, HapSkipped, HapFails, Persist, PersistFails,
         PersistHalf, ClearActivity, Lost, TimedOut, Collect, CollectFails, Remove, RemoveFails, NextIP, Wait,
         Query, QueryFails, Render
<1> QED
  BY <1>1, FaultFacts DEF TypeOK

LEMMA HandlerJobs ==
  ASSUME JobsInv, NEW j \in jobs, Handler(j)
  PROVE  \E R : Replaced(j, R)
<1>1. CASE Forward(j)
  BY <1>1, EnterJobs
<1>2. CASE HapRemove(j) \/ HapSkipped(j)
  BY <1>2, HapJobs
<1>3. CASE HapFails(j)
  BY <1>3, HapFailsJobs
<1>4. CASE Persist(j) \/ PersistFails(j) \/ PersistHalf(j)
  BY <1>4, PersistJobs
<1>5. CASE ClearActivity(j)
  BY <1>5, ClearJobs
<1>6. CASE ForwardFails(j) \/ Lost(j) \/ RemoveFails(j) \/ Render(j)
  BY <1>6, GoneJobs
<1>7. CASE TimedOut(j)
  BY <1>7, TimedOutJobs
<1>8. CASE Collect(j) \/ CollectFails(j)
  BY <1>8, CollectJobs
<1>9. CASE Remove(j)
  BY <1>9, RemoveJobs
<1>10. CASE NextIP(j)
  BY <1>10, NextIPJobs
<1>11. CASE Wait(j)
  BY <1>11, WaitJobs
<1>12. CASE Query(j) \/ QueryFails(j)
  BY <1>12, QueryJobs
<1> QED
  BY <1>1, <1>2, <1>3, <1>4, <1>5, <1>6, <1>7, <1>8, <1>9, <1>10, <1>11, <1>12 DEF Handler

LEMMA OthersJobs ==
  ASSUME TypeOK, Others
  PROVE  jobs' = jobs /\ used' \in [requests : Nat, decisions : Nat, faults : Nat]
           /\ used'.requests = used.requests
<1>1. jobs' = jobs /\ (used' = used \/ used' = [used EXCEPT !.decisions = @ + 1])
  <2>1. ASSUME NEW n \in Nodes, NEW i \in IPs, NEW r \in Reasons, Decide(n, i, r)
        PROVE  jobs' = jobs /\ used' = [used EXCEPT !.decisions = @ + 1]
    BY <2>1 DEF Decide
  <2>2. ASSUME NEW n \in Nodes, NEW i \in IPs, BlockRuns(n, i)
        PROVE  jobs' = jobs /\ used' = used
    BY <2>2 DEF BlockRuns
  <2>3. ASSUME NEW n \in Nodes, NEW src \in Nodes, Receive(n, src)
        PROVE  jobs' = jobs /\ used' = [used EXCEPT !.decisions = @ + 1]
    BY <2>3 DEF Receive
  <2>4. ASSUME NEW n \in Nodes, NEW rec \in inbox[n], ApplyRow(n, rec) \/ ApplyBadActor(n, rec)
        PROVE  jobs' = jobs /\ used' = used
    BY <2>4 DEF ApplyRow, ApplyBadActor
  <2> QED
    BY <2>1, <2>2, <2>3, <2>4 DEF Others
<1> QED
  BY <1>1 DEF TypeOK

LEMMA JobsKept ==
  ASSUME TypeOK, JobsInv, [ApiNext]_apiVars
  PROVE  JobsInv'
<1>1. CASE Others
  BY <1>1, OthersJobs DEF JobsInv, PlacesOK, RequestsOK
<1>2. CASE \E r \in Requests : Submit(r)
  BY <1>2, SubmitKeepsJobs
<1>3. CASE \E j \in jobs : Handler(j)
  <2>1. PICK j \in jobs : Handler(j)
    BY <1>3
  <2>2. PICK R : Replaced(j, R)
    BY <2>1, HandlerJobs
  <2> QED
    BY <2>1, <2>2, HandlerUsed, JobsStep DEF Replaced
<1>4. CASE UNCHANGED apiVars
  BY <1>4 DEF apiVars, JobsInv, PlacesOK, RequestsOK
<1> QED
  BY <1>1, <1>2, <1>3, <1>4 DEF ApiNext

(***************************************************************************)
(* Types                                                                   *)
(***************************************************************************)

TablesOK ==
  /\ row \in [Nodes -> [IPs -> Words]]
  /\ bad \in [Nodes -> [IPs -> Words]]
  /\ act \in [Nodes -> [IPs -> {"none", "seen", "blocked"}]]
  /\ hap \subseteq IPs
  /\ pend \in [Nodes -> SUBSET IPs]

LEMMA WithdrawnFacts ==
  ASSUME NEW where, NEW ips
  PROVE  /\ Withdrawn(where, ips) \subseteq owed
         /\ \A c \in Withdrawn(where, ips) : c[1] \in where => c[2] \notin ips
BY DEF Withdrawn

LEMMA RedecidedFacts ==
  ASSUME NEW n \in Nodes, NEW i
  PROVE  /\ Redecided(n, i) \subseteq owed
         /\ \A c \in Redecided(n, i) : c[1] \in {n, HAProxy} => c[2] # i
         /\ (\E j \in jobs : j.pc \in {"collect", "remove"}) =>
              \A c \in Redecided(n, i) : c[1] \in Everywhere => c[2] # i
<1>1. CASE \E j \in jobs : j.pc \in {"collect", "remove"}
  <2>1. Redecided(n, i) = Withdrawn(Everywhere, {i})
    BY <1>1 DEF Redecided
  <2> QED
    BY <2>1, WithdrawnFacts DEF Everywhere
<1>2. CASE ~\E j \in jobs : j.pc \in {"collect", "remove"}
  <2>1. Redecided(n, i) = Withdrawn({n, HAProxy}, {i})
    BY <1>2 DEF Redecided
  <2> QED
    BY <1>2, <2>1, WithdrawnFacts
<1> QED
  BY <1>1, <1>2

LEMMA PromiseTyped ==
  ASSUME NEW j \in Jobs, j.kind \in OfIP => j.ip \in IPs, j.kind \in AllKinds
  PROVE  Promise(j) \subseteq Claims
<1>1. j.req \in Nat
  BY JobTyped
<1>2. \A w \in Everywhere, i \in IPs : <<w, i, "all", j.req>> \in Claims
  BY <1>1 DEF Claims
<1>3. \A n \in Nodes, i \in IPs : <<n, i, "bad", j.req>> \in Claims
  BY <1>1 DEF Claims, Everywhere
<1>4. \A n \in Nodes : \A r : RowMatches(n, r) \subseteq IPs /\ BadMatches(n, r) \subseteq IPs
  BY DEF RowMatches, BadMatches
<1>5. Nodes \subseteq Everywhere /\ HAProxy \in Everywhere
  BY DEF Everywhere
<1>6. CASE j.kind = "lookup"
  BY <1>6 DEF Promise
<1>7. CASE j.kind \in OfIP \ {"lookup"}
  <2>1. Promise(j) = {<<w, j.ip, "all", j.req>> : w \in Everywhere}
    BY <1>7 DEF Promise, OfIP
  <2> QED
    BY <1>2, <1>7, <2>1
<1>8. CASE j.kind = "byReason"
  <2>1. Promise(j) = {<<w, i, "all", j.req>> :
                        w \in Everywhere, i \in UNION {RowMatches(n, j.reason) : n \in Nodes}}
    BY <1>8 DEF Promise, OfIP
  <2> QED
    BY <1>2, <1>4, <2>1
<1>9. CASE j.kind = "delete"
  <2>1. Promise(j) =
          UNION {{<<n, i, "bad", j.req>> : i \in BadMatches(n, j.reason)} : n \in Nodes}
    BY <1>9 DEF Promise, OfIP
  <2> QED
    BY <1>3, <1>4, <2>1
<1>10. CASE j.kind = "deleteUnblock"
  <2>1. Promise(j) =
          UNION {{<<w, i, "all", j.req>> :
                    w \in {n, HAProxy}, i \in BadMatches(n, j.reason)} : n \in Nodes}
    BY <1>10 DEF Promise, OfIP
  <2> QED
    BY <1>2, <1>4, <1>5, <2>1
<1> QED
  BY <1>6, <1>7, <1>8, <1>9, <1>10 DEF AllKinds, OfIP

LEMMA TypeParts ==
  /\ TypeOK => TablesOK
  /\ TypeOK <=> /\ TablesOK /\ inbox \in [Nodes -> SUBSET Records] /\ jobs \subseteq Jobs
                /\ used \in [requests : Nat, decisions : Nat, faults : Nat] /\ owed \subseteq Claims
BY DEF TypeOK, TablesOK

\* What is owed grows only with a request that reaches the leader.
LEMMA HandlerOwed ==
  ASSUME NEW j, Handler(j)
  PROVE  owed' \subseteq owed \/ (Forward(j) /\ owed' = owed \cup Promise(j))
<1>1. CASE Forward(j)
  BY <1>1 DEF Forward
<1>2. CASE \/ ForwardFails(j) \/ HapRemove(j) \/ ClearActivity(j) \/ TimedOut(j) \/ Collect(j)
           \/ NextIP(j) \/ Wait(j) \/ Query(j) \/ QueryFails(j) \/ Render(j)
  BY <1>2 DEF ForwardFails, HapRemove, ClearActivity, TimedOut, Collect, NextIP, Wait, Query,
              QueryFails, Render
<1>3. CASE Persist(j) \/ Remove(j)
  BY <1>3 DEF Persist, Remove
<1>4. CASE HapSkipped(j) \/ HapFails(j)
  BY <1>4, WithdrawnFacts DEF HapSkipped, HapFails
<1>8. CASE PersistFails(j) \/ PersistHalf(j)
  <2>1. owed' = Withdrawn({j.node}, {j.ip}) \ Overlooked(j, {j.ip})
    BY <1>8 DEF PersistFails, PersistHalf
  <2> QED
    BY <2>1, WithdrawnFacts
<1>5. CASE Lost(j)
  BY <1>5, WithdrawnFacts DEF Lost
<1>6. CASE CollectFails(j)
  BY <1>6, WithdrawnFacts DEF CollectFails
<1>7. CASE RemoveFails(j)
  BY <1>7, WithdrawnFacts DEF RemoveFails
<1> QED
  BY <1>1, <1>2, <1>3, <1>4, <1>5, <1>6, <1>7, <1>8 DEF Handler

\* A handler only removes from the tables and from HAProxy.
LEMMA HandlerTables ==
  ASSUME TypeOK, JobsInv, NEW j \in jobs, Handler(j)
  PROVE  TablesOK' /\ inbox' = inbox /\ pend' = pend /\ hap' \subseteq hap
<1>1. CASE Persist(j)
  <2>1. j.node \in Nodes /\ j.ip \in IPs
    BY <1>1, JobTyped DEF JobsInv, PlacesOK, JobOK, Persist
  <2> QED
    BY <1>1, <2>1 DEF Persist, TypeOK, TablesOK, Words
<1>2. CASE PersistFails(j) \/ PersistHalf(j)
  <2>1. j.node \in Nodes /\ j.ip \in IPs
    BY <1>2, JobTyped DEF JobsInv, PlacesOK, JobOK, PersistFails, PersistHalf
  <2>2. /\ bad' = bad \/ bad' = [bad EXCEPT ![j.node][j.ip] = "none"]
        /\ row' = row \/ row' = [row EXCEPT ![j.node][j.ip] = "none"]
        /\ UNCHANGED <<act, hap, pend, inbox>>
    BY <1>2 DEF PersistFails, PersistHalf
  <2>3. bad \in [Nodes -> [IPs -> Words]] /\ row \in [Nodes -> [IPs -> Words]]
    BY DEF TypeOK, TablesOK
  <2>4. "none" \in Words
    BY DEF Words
  <2>5. bad' \in [Nodes -> [IPs -> Words]]
    <3>1. CASE bad' = bad
      BY <2>3, <3>1
    <3>2. CASE bad' = [bad EXCEPT ![j.node][j.ip] = "none"]
      BY <2>1, <2>3, <2>4, <3>2
    <3> QED
      BY <2>2, <3>1, <3>2
  <2>6. row' \in [Nodes -> [IPs -> Words]]
    <3>1. CASE row' = row
      BY <2>3, <3>1
    <3>2. CASE row' = [row EXCEPT ![j.node][j.ip] = "none"]
      BY <2>1, <2>3, <2>4, <3>2
    <3> QED
      BY <2>2, <3>1, <3>2
  <2> QED
    BY <2>2, <2>5, <2>6 DEF TypeOK, TablesOK
<1>3. CASE ClearActivity(j)
  <2>1. j.node \in Nodes /\ j.ip \in IPs
    BY <1>3, JobTyped DEF JobsInv, PlacesOK, JobOK, ClearActivity
  <2> QED
    BY <1>3, <2>1 DEF ClearActivity, TypeOK, TablesOK
<1>4. CASE HapRemove(j) \/ HapFails(j)
  BY <1>4 DEF HapRemove, HapFails, TypeOK, TablesOK
<1>5. CASE Remove(j)
  <2>1. j.node \in Nodes
    BY JobTyped DEF JobsInv
  <2> DEFINE f == [i \in IPs |-> IF i \in BadMatches(j.node, j.reason) THEN "none"
                                 ELSE bad[j.node][i]]
  <2>2. f \in [IPs -> Words]
    BY <2>1 DEF TypeOK, Words
  <2>3. bad' = [bad EXCEPT ![j.node] = f] /\ UNCHANGED <<row, act, hap, pend, inbox>>
    BY <1>5 DEF Remove
  <2> HIDE DEF f
  <2> QED
    BY <2>1, <2>2, <2>3 DEF TypeOK, TablesOK
<1>6. CASE RemoveFails(j)
  <2>1. j.node \in Nodes
    BY JobTyped DEF JobsInv
  <2>2. PICK some \in SUBSET BadMatches(j.node, j.reason) :
          bad' = [bad EXCEPT ![j.node] =
                    [i \in IPs |-> IF i \in some THEN "none" ELSE bad[j.node][i]]]
    BY <1>6 DEF RemoveFails
  <2> DEFINE f == [i \in IPs |-> IF i \in some THEN "none" ELSE bad[j.node][i]]
  <2>3. f \in [IPs -> Words]
    BY <2>1 DEF TypeOK, Words
  <2>4. bad' = [bad EXCEPT ![j.node] = f] /\ UNCHANGED <<row, act, hap, pend, inbox>>
    BY <1>6, <2>2 DEF RemoveFails
  <2> HIDE DEF f
  <2> QED
    BY <2>1, <2>3, <2>4 DEF TypeOK, TablesOK
<1>7. CASE \/ Forward(j) \/ ForwardFails(j) \/ HapSkipped(j) \/ Lost(j) \/ TimedOut(j)
           \/ Collect(j) \/ CollectFails(j) \/ NextIP(j) \/ Wait(j) \/ Query(j) \/ QueryFails(j)
           \/ Render(j)
  <2>1. UNCHANGED tables /\ UNCHANGED <<pend, inbox>>
    BY <1>7 DEF Forward, ForwardFails, HapSkipped, Lost, TimedOut, Collect, CollectFails, NextIP,
                Wait, Query, QueryFails, Render
  <2> QED
    BY <2>1 DEF tables, TypeOK, TablesOK
<1> QED
  BY <1>1, <1>2, <1>3, <1>4, <1>5, <1>6, <1>7 DEF Handler

LEMMA OthersTables ==
  ASSUME TypeOK, Others
  PROVE  TablesOK' /\ inbox' \in [Nodes -> SUBSET Records] /\ owed' \subseteq owed
<1>1. ASSUME NEW n \in Nodes, NEW i \in IPs, NEW r \in Reasons, Decide(n, i, r)
      PROVE  TablesOK' /\ inbox' \in [Nodes -> SUBSET Records] /\ owed' \subseteq owed
  BY <1>1, RedecidedFacts DEF Decide, TypeOK, TablesOK, Words
<1>2. ASSUME NEW n \in Nodes, NEW i \in IPs, BlockRuns(n, i)
      PROVE  TablesOK' /\ inbox' \in [Nodes -> SUBSET Records] /\ owed' \subseteq owed
  BY <1>2, WithdrawnFacts DEF BlockRuns, TypeOK, TablesOK
<1>3. ASSUME NEW n \in Nodes, NEW src \in Nodes, Receive(n, src)
      PROVE  TablesOK' /\ inbox' \in [Nodes -> SUBSET Records] /\ owed' \subseteq owed
  <2> DEFINE bads == {<<"bad", i, bad[src][i]>> : i \in BadMatches(src, "all")}
             rows == {<<"row", i, row[m][i]>> : m \in Nodes \ {n}, i \in IPs}
             news == bads \cup {r \in rows : n # Leader /\ r[3] # "none"}
  <2>1. bads \subseteq Records
    BY DEF Records, BadMatches, TypeOK
  <2>2. rows \subseteq Records
    BY DEF Records, TypeOK
  <2>3. inbox' = [inbox EXCEPT ![n] = news] /\ UNCHANGED tables /\ UNCHANGED <<pend, owed>>
    BY <1>3 DEF Receive
  <2>4. news \subseteq Records
    BY <2>1, <2>2
  <2> HIDE DEF news
  <2> QED
    BY <2>3, <2>4 DEF TypeOK, TablesOK, tables
<1>4. ASSUME NEW n \in Nodes, NEW rec \in inbox[n], ApplyRow(n, rec)
      PROVE  TablesOK' /\ inbox' \in [Nodes -> SUBSET Records] /\ owed' \subseteq owed
  <2>1. rec[2] \in IPs /\ rec[3] \in Words
    BY DEF TypeOK, Records
  <2> QED
    BY <1>4, <2>1, WithdrawnFacts DEF ApplyRow, TypeOK, TablesOK
<1>5. ASSUME NEW n \in Nodes, NEW rec \in inbox[n], ApplyBadActor(n, rec)
      PROVE  TablesOK' /\ inbox' \in [Nodes -> SUBSET Records] /\ owed' \subseteq owed
  <2>1. rec[2] \in IPs /\ rec[3] \in Words
    BY DEF TypeOK, Records
  <2>2. CASE bad[n][rec[2]] # "none"
    BY <1>5, <2>2 DEF ApplyBadActor, TypeOK, TablesOK
  <2>3. CASE bad[n][rec[2]] = "none"
    <3>1. /\ bad' = [bad EXCEPT ![n][rec[2]] = rec[3]]
          /\ row' = [row EXCEPT ![n][rec[2]] = "bad-actor"]
          /\ pend' = [pend EXCEPT ![n] = @ \cup {rec[2]}]
          /\ owed' = Redecided(n, rec[2])
          /\ inbox' = [inbox EXCEPT ![n] = @ \ {rec}]
          /\ UNCHANGED <<act, hap>>
      BY <1>5, <2>3 DEF ApplyBadActor
    <3>2. owed' \subseteq owed
      BY <3>1, RedecidedFacts
    <3>3. inbox' \in [Nodes -> SUBSET Records]
      BY <3>1 DEF TypeOK
    <3>4. TablesOK'
      BY <2>1, <3>1 DEF TypeOK, TablesOK, Words
    <3> QED
      BY <3>2, <3>3, <3>4
  <2> QED
    BY <2>2, <2>3
<1> QED
  BY <1>1, <1>2, <1>3, <1>4, <1>5 DEF Others

LEMMA TypeKept ==
  ASSUME TypeOK, JobsInv, [ApiNext]_apiVars
  PROVE  TypeOK' /\ JobsInv'
<1>1. JobsInv' /\ jobs' \subseteq Jobs
  BY JobsKept DEF JobsInv
<1>2. CASE Others
  BY <1>1, <1>2, OthersTables, OthersJobs, TypeParts
  DEF TypeOK, TablesOK
<1>3. CASE \E r \in Requests : Submit(r)
  <2>1. PICK r \in Requests : Submit(r)
    BY <1>3
  <2>2. PICK j, k :
          /\ j \in Jobs /\ j.kind \in AllKinds
          /\ j.kind \in OfIP => j.ip \in IPs
          /\ \/ k = j /\ j.node # Leader /\ owed' = owed
             \/ k = Entered(j) /\ j.node = Leader /\ owed' = owed \cup Promise(j)
    BY <2>1, SubmitJobs
  <2>3. owed' \subseteq Claims
    BY <2>2, PromiseTyped DEF TypeOK
  <2>4. used' \in [requests : Nat, decisions : Nat, faults : Nat]
    BY <2>1 DEF Submit, TypeOK
  <2>5. UNCHANGED tables /\ UNCHANGED <<pend, inbox>>
    BY <2>1 DEF Submit
  <2> QED
    BY <1>1, <2>3, <2>4, <2>5 DEF TypeOK, tables
<1>4. CASE \E j \in jobs : Handler(j)
  <2>1. PICK j \in jobs : Handler(j)
    BY <1>4
  <2>2. TablesOK' /\ inbox' = inbox
    BY <2>1, HandlerTables
  <2>3. used' \in [requests : Nat, decisions : Nat, faults : Nat]
    BY <2>1, HandlerUsed
  <2>4. owed' \subseteq Claims
    <3>1. CASE owed' \subseteq owed
      BY <3>1 DEF TypeOK
    <3>2. CASE Forward(j) /\ owed' = owed \cup Promise(j)
      <4>1. j \in Jobs /\ JobOK(j) /\ j.pc = "forward"
        BY <3>2 DEF Forward, JobsInv, PlacesOK
      <4>2. j.kind \in AllKinds
        BY <4>1, EnteredFacts
      <4>3. j.kind \in OfIP => j.ip \in IPs
        BY <4>1 DEF JobOK
      <4> QED
        BY <3>2, <4>1, <4>2, <4>3, PromiseTyped DEF TypeOK
    <3> QED
      BY <2>1, <3>1, <3>2, HandlerOwed
  <2> QED
    BY <1>1, <2>2, <2>3, <2>4 DEF TypeOK, TablesOK
<1>5. CASE UNCHANGED apiVars
  BY <1>1, <1>5 DEF apiVars, TypeOK
<1> QED
  BY <1>1, <1>2, <1>3, <1>4, <1>5 DEF ApiNext

(***************************************************************************)
(* Blocks and their records                                                *)
(***************************************************************************)

LEMMA RecordsStep ==
  ASSUME RecordsOK, NEW j, NEW R, jobs' = (jobs \ {j}) \cup R, \A k \in R : Stripped(k)',
         row' = row, pend' = pend, hap' \subseteq hap, loose \subseteq loose'
  PROVE  RecordsOK'
BY DEF RecordsOK, Stripped, Unblocked, HasRow

\* The steps of a removal.
LEMMA RecordsRemoval ==
  ASSUME TypeOK, JobsInv, RecordsOK, NEW j \in jobs,
         HapRemove(j) \/ HapSkipped(j) \/ HapFails(j) \/ PersistFails(j)
  PROVE  RecordsOK'
<1>0. /\ hap' \subseteq hap /\ row' = row /\ pend' = pend
      /\ loose' = IF HapSkipped(j) THEN loose \cup {j.ip} ELSE loose
      /\ HapRemove(j) => j.ip \notin hap'
  BY DEF HapRemove, HapSkipped, HapFails, PersistFails, tables
<1>1. CASE HapRemove(j) \/ HapSkipped(j)
  <2>1. PICK k : Moved(j, k, "persist") /\ Replaced(j, {k})
    BY <1>1, HapJobs
  <2>2. Stripped(k)'
    BY <1>0, <1>1, <2>1 DEF RecordsOK, Stripped, Unblocked, Moved, SameWork
  <2> QED
    BY <1>0, <2>1, <2>2, RecordsStep DEF Replaced
<1>2. CASE HapFails(j)
  <2>1. CASE Replaced(j, {})
    BY <1>0, <2>1, RecordsStep DEF Replaced
  <2>2. CASE \E k : Advanced(j, k) /\ Replaced(j, {k}) /\ k.done = j.done
    <3>1. PICK k : Advanced(j, k) /\ Replaced(j, {k}) /\ k.done = j.done
      BY <2>2
    <3>2. Stripped(k)'
      BY <1>0, <3>1 DEF RecordsOK, Stripped, Unblocked, Advanced
    <3> QED
      BY <1>0, <3>1, <3>2, RecordsStep DEF Replaced
  <2> QED
    BY <1>2, <2>1, <2>2, HapFailsJobs
<1>3. CASE PersistFails(j)
  <2>1. CASE Replaced(j, {})
    BY <1>0, <2>1, RecordsStep DEF Replaced
  <2>2. CASE \E k : Moved(j, k, "activity") /\ Replaced(j, {k})
    <3>1. PICK k : Moved(j, k, "activity") /\ Replaced(j, {k})
      BY <2>2
    <3>2. Stripped(k)'
      BY <1>0, <1>3, <3>1 DEF RecordsOK, Stripped, Unblocked, Moved, SameWork, PersistFails
    <3> QED
      BY <1>0, <3>1, <3>2, RecordsStep DEF Replaced
  <2> QED
    BY <1>3, <2>1, <2>2, PersistJobs
<1> QED
  BY <1>1, <1>2, <1>3

\* The steps that take a row away.
LEMMA RecordsPersist ==
  ASSUME TypeOK, JobsInv, RecordsOK, NEW j \in jobs, Persist(j) \/ PersistHalf(j)
  PROVE  RecordsOK'
<1>1. j.node \in Nodes /\ j.ip \in IPs /\ j.pc = "persist"
  BY JobTyped DEF JobsInv, PlacesOK, JobOK, Persist, PersistHalf
<1>2. \A l \in jobs' : l \in jobs \/ Moved(j, l, "activity")
  BY PersistJobs DEF Replaced
<1>3. /\ hap' = hap /\ pend' = pend /\ loose \subseteq loose'
      /\ row' = [row EXCEPT ![j.node][j.ip] = "none"]
      /\ (\E n \in Nodes : j.ip \in pend[n]) => j.ip \in loose'
  BY DEF Persist, PersistHalf
<1>4. Unblocked(j.ip)
  BY <1>1 DEF RecordsOK, Stripped
<1>5. \A i \in IPs : i # j.ip /\ HasRow(i) => HasRow(i)'
  BY <1>1, <1>3 DEF HasRow, TypeOK
<1>6. \A i \in hap' : i \in loose' \/ HasRow(i)'
  BY <1>3, <1>4, <1>5 DEF RecordsOK, Unblocked, TypeOK
<1>7. \A n \in Nodes : \A i \in pend'[n] : i \in loose' \/ HasRow(i)'
  <2> TAKE n \in Nodes
  <2> TAKE i \in pend'[n]
  <2>1. i \in IPs /\ (i \in loose \/ HasRow(i))
    BY <1>3 DEF RecordsOK, TypeOK
  <2>2. CASE i = j.ip
    BY <1>3, <2>2
  <2> QED
    BY <1>3, <1>5, <2>1, <2>2
<1>8. \A l \in jobs' : Stripped(l)'
  BY <1>2, <1>3, <1>4 DEF RecordsOK, Stripped, Unblocked, Moved, SameWork
<1> QED
  BY <1>6, <1>7, <1>8 DEF RecordsOK

LEMMA RecordsClear ==
  ASSUME TypeOK, JobsInv, RecordsOK, NEW j \in jobs, ClearActivity(j)
  PROVE  RecordsOK'
<1>0. hap' = hap /\ row' = row /\ pend' = pend /\ loose' = loose /\ j.pc = "activity"
  BY DEF ClearActivity
<1>1. j \in Jobs /\ {j.ip} \in SUBSET IPs /\ Unblocked(j.ip) /\ \A i \in j.done : Unblocked(i)
  BY <1>0 DEF JobsInv, PlacesOK, JobOK, RecordsOK, Stripped
<1>2. ASSUME NEW w \in BOOLEAN, NEW k \in Broadcast(j, {j.ip}, w)
      PROVE  Stripped(k)'
  <2>1. PICK f \in Followers, i \in {j.ip} : Sent(j, k, f, i)
    BY <1>1, SentFacts
  <2> QED
    BY <1>0, <1>1, <2>1 DEF Sent, Stripped, Unblocked
<1>3. CASE Replaced(j, {})
  BY <1>0, <1>3, RecordsStep DEF Replaced
<1>4. CASE Replaced(j, Broadcast(j, {j.ip}, FALSE))
  BY <1>0, <1>2, <1>4, RecordsStep DEF Replaced
<1>5. ASSUME NEW k, Moved(j, k, "wait"), Replaced(j, {k} \cup Broadcast(j, {j.ip}, TRUE))
      PROVE  RecordsOK'
  <2>1. Stripped(k)'
    BY <1>0, <1>1, <1>5 DEF Stripped, Unblocked, Moved, SameWork
  <2>2. \A l \in {k} \cup Broadcast(j, {j.ip}, TRUE) : Stripped(l)'
    BY <1>2, <2>1
  <2> QED
    BY <1>0, <1>5, <2>2, RecordsStep DEF Replaced
<1>6. ASSUME NEW k, Advanced(j, k), Replaced(j, {k}), k.done = j.done \cup {j.ip}
      PROVE  RecordsOK'
  <2>1. Stripped(k)'
    BY <1>0, <1>1, <1>6 DEF Stripped, Unblocked, Advanced
  <2> QED
    BY <1>0, <1>6, <2>1, RecordsStep DEF Replaced
<1> QED
  BY <1>3, <1>4, <1>5, <1>6, ClearJobs

LEMMA RecordsLists ==
  ASSUME TypeOK, JobsInv, RecordsOK, NEW j \in jobs,
         Collect(j) \/ CollectFails(j) \/ Remove(j) \/ NextIP(j)
  PROVE  RecordsOK'
<1>0. hap' = hap /\ row' = row /\ pend' = pend /\ loose' = loose
  BY DEF Collect, CollectFails, Remove, NextIP, tables
<1>1. j \in Jobs /\ j.done \in SUBSET IPs /\ \A i \in j.done : Unblocked(i)
  BY JobTyped DEF JobsInv, RecordsOK, Stripped
<1>2. ASSUME NEW k, k.done \subseteq j.done, k.pc \notin {"persist", "activity"}
      PROVE  Stripped(k)'
  BY <1>0, <1>1, <1>2 DEF Stripped, Unblocked
<1>3. CASE Collect(j) \/ CollectFails(j)
  <2>1. CASE Replaced(j, {})
    BY <1>0, <2>1, RecordsStep DEF Replaced
  <2>2. ASSUME NEW k, NEW n, NEW ips, Asked(j, k, n, ips), Replaced(j, {k})
        PROVE  RecordsOK'
    <3>1. Stripped(k)'
      BY <1>2, <2>2 DEF Asked
    <3> QED
      BY <1>0, <2>2, <3>1, RecordsStep DEF Replaced
  <2> QED
    BY <1>3, <2>1, <2>2, CollectJobs
<1>4. CASE Remove(j)
  <2>1. PICK R1, R2 :
          /\ Replaced(j, R1 \cup R2)
          /\ R1 = {} \/ \E k : R1 = {k} /\ Advanced(j, k) /\ k.done = {}
          /\ R2 = {} \/ R2 = ToldJobs(j)
    BY <1>4, RemoveJobs
  <2>2. \A k \in R1 : Stripped(k)'
    BY <1>2, <2>1 DEF Advanced
  <2>3. \A k \in ToldJobs(j) : k.done = {} /\ k.pc = "remove"
    BY <1>1, ToldFacts DEF Told
  <2>4. \A k \in R2 : Stripped(k)'
    BY <1>2, <2>1, <2>3
  <2> QED
    BY <1>0, <2>1, <2>2, <2>4, RecordsStep DEF Replaced
<1>5. CASE NextIP(j)
  <2>1. CASE Replaced(j, {})
    BY <1>0, <2>1, RecordsStep DEF Replaced
  <2>2. ASSUME NEW k, k.done = j.done, k.pc = "haproxy", Replaced(j, {k})
        PROVE  RecordsOK'
    <3>1. Stripped(k)'
      BY <1>2, <2>2
    <3> QED
      BY <1>0, <2>2, <3>1, RecordsStep DEF Replaced
  <2>3. CASE Replaced(j, Broadcast(j, j.done, FALSE))
    <3>1. ASSUME NEW k \in Broadcast(j, j.done, FALSE)
          PROVE  Stripped(k)'
      <4>1. PICK f \in Followers, i \in j.done : Sent(j, k, f, i)
        BY <1>1, SentFacts
      <4> QED
        BY <1>0, <1>1, <4>1 DEF Sent, Stripped, Unblocked
    <3> QED
      BY <1>0, <2>3, <3>1, RecordsStep DEF Replaced
  <2> QED
    BY <1>5, <2>1, <2>2, <2>3, NextIPJobs
<1> QED
  BY <1>3, <1>4, <1>5

LEMMA RecordsRest ==
  ASSUME TypeOK, JobsInv, RecordsOK, NEW j \in jobs,
         \/ Forward(j) \/ ForwardFails(j) \/ Lost(j) \/ TimedOut(j) \/ RemoveFails(j)
         \/ Wait(j) \/ Query(j) \/ QueryFails(j) \/ Render(j)
  PROVE  RecordsOK'
<1>0. hap' = hap /\ row' = row /\ pend' = pend /\ loose' = loose
  BY DEF Forward, ForwardFails, Lost, TimedOut, RemoveFails, Wait, Query, QueryFails, Render, tables
<1>1. Stripped(j) /\ j \in Jobs /\ JobOK(j)
  BY DEF RecordsOK, JobsInv, PlacesOK
<1>2. ASSUME NEW k, SameWork(j, k), k.pc \notin {"persist", "activity"} \/ k.pc = j.pc
      PROVE  Stripped(k)'
  BY <1>0, <1>1, <1>2 DEF Stripped, Unblocked, SameWork
<1>3. CASE ForwardFails(j) \/ Lost(j) \/ RemoveFails(j) \/ Render(j)
  <2>1. Replaced(j, {})
    BY <1>3, GoneJobs
  <2> QED
    BY <1>0, <2>1, RecordsStep DEF Replaced
<1>4. CASE TimedOut(j)
  <2>1. PICK k : Moved(j, k, j.pc) /\ Replaced(j, {k})
    BY <1>4, TimedOutJobs
  <2>2. Stripped(k)'
    BY <1>2, <2>1 DEF Moved
  <2> QED
    BY <1>0, <2>1, <2>2, RecordsStep DEF Replaced
<1>5. CASE Wait(j)
  <2>1. PICK k : Moved(j, k, "query") /\ Replaced(j, {k})
    BY <1>5, WaitJobs
  <2>2. Stripped(k)'
    BY <1>2, <2>1 DEF Moved
  <2> QED
    BY <1>0, <2>1, <2>2, RecordsStep DEF Replaced
<1>6. CASE Query(j) \/ QueryFails(j)
  <2>1. PICK k : Answered(j, k, NextNode(j)) /\ Replaced(j, {k})
    BY <1>6, QueryJobs
  <2>2. Stripped(k)'
    BY <1>2, <2>1 DEF Answered
  <2> QED
    BY <1>0, <2>1, <2>2, RecordsStep DEF Replaced
<1>7. CASE Forward(j)
  <2>1. Replaced(j, {Entered(j)})
    BY <1>7, EnterJobs
  <2>2. SameWork(j, Entered(j)) /\ Entered(j).pc \notin {"persist", "activity"}
    BY <1>1, <1>7, EnteredFacts DEF Forward, AllKinds
  <2>3. Stripped(Entered(j))'
    BY <1>2, <2>2
  <2> QED
    BY <1>0, <2>1, <2>3, RecordsStep DEF Replaced
<1> QED
  BY <1>3, <1>4, <1>5, <1>6, <1>7

LEMMA RecordsSubmit ==
  ASSUME TypeOK, JobsInv, RecordsOK, NEW r \in Requests, Submit(r)
  PROVE  RecordsOK'
<1>1. PICK j, k :
        /\ j \in Jobs /\ JobOK(j) /\ j.pc = "forward" /\ j.kind \in AllKinds
        /\ jobs' = jobs \cup {k}
        /\ k = j \/ k = Entered(j)
  BY SubmitJobs
<1>2. hap' = hap /\ row' = row /\ pend' = pend /\ loose' = loose
  BY DEF Submit, tables
<1>3. SameWork(j, k) /\ k.pc \notin {"persist", "activity"}
  BY <1>1, EnteredFacts DEF SameWork, AllKinds
<1>4. Stripped(k)'
  BY <1>1, <1>3 DEF Stripped, SameWork, JobOK
<1> QED
  BY <1>1, <1>2, <1>4 DEF RecordsOK, Stripped, Unblocked, HasRow

\* A decision or a command that a removal overlaps with is loose.
LEMMA RecordsOthers ==
  ASSUME TypeOK, JobsInv, RecordsOK, Others
  PROVE  RecordsOK'
<1>1. ASSUME NEW n \in Nodes, NEW i \in IPs, NEW r \in Reasons, Decide(n, i, r)
      PROVE  RecordsOK'
  <2>1. hap' = hap /\ jobs' = jobs /\ loose \subseteq loose'
    BY <1>1 DEF Decide
  <2>2. \A m \in Nodes : \A l \in IPs : row'[m][l] = row[m][l] \/ row'[m][l] # "none"
    BY <1>1, ApiAssumption DEF Decide, TypeOK
  <2>3. row'[n][i] # "none"
    BY <1>1, ApiAssumption DEF Decide, TypeOK
  <2>4. \A m \in Nodes : pend'[m] \subseteq pend[m] \cup {i}
    BY <1>1 DEF Decide, TypeOK
  <2>5. HasRow(i)' /\ \A l \in IPs : HasRow(l) => HasRow(l)'
    BY <2>2, <2>3 DEF HasRow
  <2> QED
    BY <2>1, <2>4, <2>5 DEF RecordsOK, Stripped, Unblocked, TypeOK
<1>2. ASSUME NEW n \in Nodes, NEW i \in IPs, BlockRuns(n, i)
      PROVE  RecordsOK'
  <2>1. hap' = hap \cup {i} /\ jobs' = jobs /\ row' = row /\ loose \subseteq loose'
    BY <1>2 DEF BlockRuns
  <2>2. \A m \in Nodes : pend'[m] \subseteq pend[m]
    BY <1>2 DEF BlockRuns, TypeOK
  <2>3. i \in loose \/ HasRow(i)
    BY <1>2 DEF BlockRuns, RecordsOK
  <2>4. ASSUME NEW k \in jobs
        PROVE  Stripped(k)'
    <3>1. Stripped(k) /\ JobOK(k)
      BY DEF RecordsOK, JobsInv, PlacesOK
    <3>2. CASE Removing(i)
      <4>1. i \in loose'
        BY <1>2, <3>2 DEF BlockRuns
      <4> QED
        BY <2>1, <3>1, <4>1 DEF Stripped, Unblocked
    <3>3. CASE ~Removing(i)
      <4>1. k.kind = "lookup" \/ (k.ip # i /\ i \notin k.done)
        BY <3>3 DEF Removing
      <4>2. k.kind = "lookup" => k.done = {} /\ k.pc \notin {"persist", "activity"}
        BY <3>1 DEF JobOK, OfIP, PlacesOf
      <4> QED
        BY <2>1, <3>1, <4>1, <4>2 DEF Stripped, Unblocked
    <3> QED
      BY <3>2, <3>3
  <2> QED
    BY <2>1, <2>2, <2>3, <2>4 DEF RecordsOK, HasRow
<1>3. ASSUME NEW n \in Nodes, NEW src \in Nodes, Receive(n, src)
      PROVE  RecordsOK'
  <2>1. hap' = hap /\ jobs' = jobs /\ row' = row /\ loose' = loose /\ pend' = pend
    BY <1>3 DEF Receive, tables
  <2> QED
    BY <2>1 DEF RecordsOK, Stripped, Unblocked, HasRow
<1>4. ASSUME NEW n \in Nodes, NEW rec \in inbox[n], ApplyRow(n, rec)
      PROVE  RecordsOK'
  <2>1. hap' = hap /\ jobs' = jobs /\ loose' = loose /\ pend' = pend
    BY <1>4 DEF ApplyRow
  <2>2. rec[2] \in IPs
    BY DEF TypeOK, Records
  <2>3. \A m \in Nodes : \A l \in IPs : row'[m][l] = row[m][l] \/ row[m][l] = "none"
    BY <1>4, <2>2 DEF ApplyRow, TypeOK
  <2>4. \A l \in IPs : HasRow(l) => HasRow(l)'
    BY <2>3 DEF HasRow
  <2> QED
    BY <2>1, <2>4 DEF RecordsOK, Stripped, Unblocked, TypeOK
<1>5. ASSUME NEW n \in Nodes, NEW rec \in inbox[n], ApplyBadActor(n, rec)
      PROVE  RecordsOK'
  <2> DEFINE i == rec[2]
  <2>1. i \in IPs
    BY DEF TypeOK, Records
  <2>2. CASE bad[n][i] # "none"
    <3>1. hap' = hap /\ jobs' = jobs /\ row' = row /\ loose' = loose /\ pend' = pend
      BY <1>5, <2>2 DEF ApplyBadActor
    <3> QED
      BY <3>1 DEF RecordsOK, Stripped, Unblocked, HasRow
  <2>3. CASE bad[n][i] = "none"
    <3>1. /\ hap' = hap /\ jobs' = jobs /\ loose \subseteq loose'
          /\ row' = [row EXCEPT ![n][i] = "bad-actor"]
          /\ pend' = [pend EXCEPT ![n] = @ \cup {i}]
      BY <1>5, <2>3 DEF ApplyBadActor
    <3> HIDE DEF i
    <3>2. \A m \in Nodes : \A l \in IPs : row'[m][l] = row[m][l] \/ row'[m][l] # "none"
      BY <2>1, <3>1 DEF TypeOK
    <3>3. row'[n][i] # "none" /\ \A m \in Nodes : pend'[m] \subseteq pend[m] \cup {i}
      BY <2>1, <3>1 DEF TypeOK
    <3>4. HasRow(i)' /\ \A l \in IPs : HasRow(l) => HasRow(l)'
      BY <3>2, <3>3 DEF HasRow
    <3> QED
      BY <3>1, <3>3, <3>4 DEF RecordsOK, Stripped, Unblocked, TypeOK
  <2> QED
    BY <2>2, <2>3
<1> QED
  BY <1>1, <1>2, <1>3, <1>4, <1>5 DEF Others

(***************************************************************************)
(* The answer to GET /ip/{ip}/unblock                                      *)
(***************************************************************************)

LEMMA AnswerStays ==
  ASSUME NEW l, AnswerOK(l), late \subseteq late',
         \A w : Owed(l, w)' => Owed(l, w),
         Owed(l, HAProxy)' /\ l.ip \in hap' => l.ip \in hap,
         \A n \in Nodes : Owed(l, n)' /\ act'[n][l.ip] = "blocked" => act[n][l.ip] = "blocked",
         \A n \in Nodes :
           Awaited(l, n) =>
             Awaited(l, n)' \/ ~Owed(l, n)' \/ Late(l, n)' \/ act'[n][l.ip] # "blocked"
  PROVE  AnswerOK(l)'
<1>1. \A n \in Nodes : Late(l, n) => Late(l, n)'
  BY DEF Late
<1> QED
  BY <1>1 DEF AnswerOK

LEMMA PromiseReq ==
  ASSUME NEW j \in Jobs, j.kind \in AllKinds
  PROVE  \A c \in Promise(j) : c[4] = j.req
<1>1. CASE j.kind = "lookup"
  BY <1>1 DEF Promise, OfIP
<1>2. CASE j.kind \in OfIP \ {"lookup"}
  BY <1>2 DEF Promise, OfIP
<1>3. CASE j.kind = "byReason"
  <2>1. Promise(j) = {<<w, i, "all", j.req>> :
                        w \in Everywhere, i \in UNION {RowMatches(n, j.reason) : n \in Nodes}}
    BY <1>3 DEF Promise, OfIP
  <2> QED
    BY <2>1
<1>4. CASE j.kind = "delete"
  <2>1. Promise(j) =
          UNION {{<<n, i, "bad", j.req>> : i \in BadMatches(n, j.reason)} : n \in Nodes}
    BY <1>4 DEF Promise, OfIP
  <2> QED
    BY <2>1
<1>5. CASE j.kind = "deleteUnblock"
  <2>1. Promise(j) =
          UNION {{<<w, i, "all", j.req>> :
                    w \in {n, HAProxy}, i \in BadMatches(n, j.reason)} : n \in Nodes}
    BY <1>5 DEF Promise, OfIP
  <2> QED
    BY <2>1
<1> QED
  BY <1>1, <1>2, <1>3, <1>4, <1>5 DEF AllKinds, OfIP

\* A handler neither promises anything for another request nor blocks anything.
LEMMA HandlerEffects ==
  ASSUME TypeOK, JobsInv, NEW j \in jobs, Handler(j)
  PROVE  /\ late \subseteq late' /\ hap' \subseteq hap
         /\ \A n \in Nodes : \A i \in IPs : act'[n][i] = "blocked" => act[n][i] = "blocked"
         /\ \A c \in owed' : c \in owed \/ (Forward(j) /\ c \in Promise(j) /\ c[4] = j.req)
<1>1. hap' \subseteq hap
  BY HandlerTables
<1>2. late' = late \/ (TimedOut(j) /\ late' = late \cup {<<j.req, j.node>>})
  BY DEF Handler, Forward, ForwardFails, HapRemove, HapSkipped, HapFails, Persist, PersistFails,
         PersistHalf, ClearActivity, Lost, TimedOut, Collect, CollectFails, Remove, RemoveFails, NextIP, Wait,
         Query, QueryFails, Render
<1>3. \A n \in Nodes : \A i \in IPs : act'[n][i] = "blocked" => act[n][i] = "blocked"
  <2>1. act' = act \/ (ClearActivity(j) /\ act' = [act EXCEPT ![j.node][j.ip] = "none"])
    BY DEF Handler, Forward, ForwardFails, HapRemove, HapSkipped, HapFails, Persist, PersistFails,
           PersistHalf, ClearActivity, Lost, TimedOut, Collect, CollectFails, Remove, RemoveFails, NextIP, Wait,
           Query, QueryFails, Render, tables
  <2>2. act \in [Nodes -> [IPs -> {"none", "seen", "blocked"}]]
    BY DEF TypeOK
  <2>3. CASE act' = [act EXCEPT ![j.node][j.ip] = "none"]
    BY <2>2, <2>3
  <2> QED
    BY <2>1, <2>3
<1>4. \A c \in owed' : c \in owed \/ (Forward(j) /\ c \in Promise(j) /\ c[4] = j.req)
  <2>1. CASE owed' \subseteq owed
    BY <2>1
  <2>2. CASE Forward(j) /\ owed' = owed \cup Promise(j)
    <3>1. j \in Jobs /\ JobOK(j) /\ j.pc = "forward"
      BY <2>2 DEF Forward, JobsInv, PlacesOK
    <3>2. j.kind \in AllKinds
      BY <3>1, EnteredFacts
    <3> QED
      BY <2>2, <3>1, <3>2, PromiseReq
  <2> QED
    BY <2>1, <2>2, HandlerOwed
<1> QED
  BY <1>1, <1>2, <1>3, <1>4

\* A job that others wait for goes on until it has answered, failed or been given up.
LEMMA AwaitedStep ==
  ASSUME TypeOK, JobsInv, NEW j \in jobs, Handler(j), NEW l, NEW n \in Nodes, l.ip \in IPs,
         Awaited(l, n)
  PROVE  Awaited(l, n)' \/ ~Owed(l, n)' \/ Late(l, n)' \/ act'[n][l.ip] # "blocked"
<1>1. PICK k \in jobs :
        k.kind = "int" /\ k.req = l.req /\ k.node = n /\ k.ip = l.ip /\ k.waited
  BY DEF Awaited
<1>2. PICK R : jobs' = (jobs \ {j}) \cup R
  BY HandlerJobs DEF Replaced
<1>3. CASE k # j
  BY <1>1, <1>2, <1>3 DEF Awaited
<1>4. CASE k = j
  <2>1. j \in Jobs /\ JobOK(j) /\ j.kind = "int" /\ j.pc \in {"persist", "activity"}
    BY <1>1, <1>4 DEF JobsInv, PlacesOK, JobOK, PlacesOf
  <2>2. \/ Persist(j) \/ PersistFails(j) \/ PersistHalf(j) \/ ClearActivity(j)
        \/ Lost(j) \/ TimedOut(j)
    BY <2>1 DEF Handler, Forward, ForwardFails, HapRemove, HapSkipped, HapFails, Collect,
                CollectFails, Remove, RemoveFails, NextIP, Wait, Query, QueryFails, Render
  <2>3. CASE PersistFails(j) \/ PersistHalf(j)
    <3>1. owed' \subseteq Withdrawn({j.node}, {j.ip})
      BY <2>3 DEF PersistFails, PersistHalf
    <3> QED
      BY <1>1, <1>4, <3>1, WithdrawnFacts DEF Owed
  <2>4. CASE Lost(j)
    <3>1. owed' \subseteq Withdrawn({j.node}, {j.ip})
      BY <2>1, <2>4 DEF Lost
    <3> QED
      BY <1>1, <1>4, <3>1, WithdrawnFacts DEF Owed
  <2>5. CASE ClearActivity(j)
    BY <1>1, <1>4, <2>5 DEF ClearActivity, TypeOK
  <2>6. CASE TimedOut(j)
    BY <1>1, <1>4, <2>6 DEF TimedOut, Late
  <2>7. CASE Persist(j)
    <3>1. PICK m : Moved(j, m, "activity") /\ m.waited = j.waited /\ Replaced(j, {m})
      BY <2>7, PersistJobs
    <3>2. m \in jobs' /\ m.kind = "int" /\ m.req = l.req /\ m.node = n /\ m.ip = l.ip /\ m.waited
      BY <1>1, <1>4, <3>1 DEF Moved, Same, SameWork, Replaced
    <3> QED
      BY <3>2 DEF Awaited
  <2> QED
    BY <2>2, <2>3, <2>4, <2>5, <2>6, <2>7
<1> QED
  BY <1>3, <1>4

LEMMA AnswerOfOther ==
  ASSUME TypeOK, JobsInv, NEW j \in jobs, Handler(j), NEW l \in jobs, l # j,
         l.kind = "unblockGet", AnswerOK(l)
  PROVE  AnswerOK(l)'
<1>1. l.ip \in IPs
  BY DEF JobsInv, PlacesOK, JobOK, OfIP
<1>2. Forward(j) => l.req # j.req
  BY DEF Forward, JobsInv, RequestsOK, First
<1>3. \A w : Owed(l, w)' => Owed(l, w)
  BY <1>2, HandlerEffects DEF Owed
<1>4. \A n \in Nodes :
        Awaited(l, n) =>
          Awaited(l, n)' \/ ~Owed(l, n)' \/ Late(l, n)' \/ act'[n][l.ip] # "blocked"
  BY <1>1, AwaitedStep
<1> QED
  BY <1>1, <1>3, <1>4, HandlerEffects, AnswerStays

\* The answer that j will give, when j itself moves on.
LEMMA AnswerMoves ==
  ASSUME TypeOK, JobsInv, NEW j \in jobs, Handler(j), ~Forward(j), j.kind = "unblockGet",
         AnswerOK(j), NEW k, Same(j, k), SameWork(j, k), k.status = j.status,
         k.pc \in {"persist", "activity", "wait", "query"} /\ Owed(k, HAProxy)' =>
           k.ip \notin hap',
         k.pc \in {"wait", "query"} =>
           \A n \in Nodes :
             \/ ~Owed(k, n)' \/ Late(k, n)' \/ act'[n][k.ip] # "blocked"
             \/ k.pc = "wait" /\ Awaited(k, n)'
  PROVE  AnswerOK(k)'
<1>1. k.ip = j.ip /\ k.req = j.req
  BY DEF Same, SameWork
<1>2. \A w : Owed(k, w)' => Owed(j, w)
  BY <1>1, HandlerEffects DEF Owed
<1>3. \A n \in Nodes : Late(j, n) => Late(k, n)'
  BY <1>1, HandlerEffects DEF Late
<1> QED
  BY <1>2, <1>3 DEF AnswerOK

LEMMA AnswerOfOwn ==
  ASSUME TypeOK, JobsInv, NEW j \in jobs, Handler(j), j.kind = "unblockGet" => AnswerOK(j),
         NEW k \in jobs', k \notin jobs \ {j}, k.kind = "unblockGet"
  PROVE  AnswerOK(k)'
<1>0. j \in Jobs /\ JobOK(j)
  BY DEF JobsInv, PlacesOK
<1>1. CASE Forward(j)
  <2>1. k = Entered(j) /\ j.pc = "forward"
    BY <1>1, EnterJobs DEF Replaced, Forward
  <2>2. SameAnswer(j, k) /\ Same(j, k) /\ (j.kind = "unblockGet" => k.pc = "haproxy")
    BY <1>0, <2>1, EnteredFacts
  <2>3. \A n \in Nodes : k.status[n] = "error"
    BY <1>0, <2>1, <2>2 DEF JobOK, SameAnswer
  <2> QED
    BY <2>2, <2>3 DEF AnswerOK, Same
<1>2. CASE HapRemove(j) \/ HapSkipped(j)
  <2>1. Moved(j, k, "persist")
    BY <1>2, HapJobs DEF Replaced
  <2>2. Same(j, k) /\ SameWork(j, k) /\ k.status = j.status /\ k.pc = "persist"
    BY <2>1 DEF Moved, SameAnswer
  <2>3. ~Forward(j)
    BY <1>2 DEF HapRemove, HapSkipped, Forward
  <2>4. Owed(k, HAProxy)' => k.ip \notin hap'
    <3>1. CASE HapRemove(j)
      BY <2>2, <3>1 DEF HapRemove, SameWork
    <3>2. CASE HapSkipped(j)
      <4>1. owed' = Withdrawn({HAProxy}, {j.ip})
        BY <3>2 DEF HapSkipped
      <4> QED
        BY <2>2, <4>1, WithdrawnFacts DEF Owed, SameWork
    <3> QED
      BY <1>2, <3>1, <3>2
  <2> QED
    BY <2>2, <2>3, <2>4, AnswerMoves DEF Same
<1>3. CASE Persist(j) \/ PersistFails(j) \/ PersistHalf(j)
  <2>1. Moved(j, k, "activity")
    BY <1>3, PersistJobs DEF Replaced
  <2>2. Same(j, k) /\ SameWork(j, k) /\ k.status = j.status /\ k.pc = "activity"
    BY <2>1 DEF Moved, SameAnswer
  <2>3. ~Forward(j) /\ j.pc = "persist"
    BY <1>3 DEF Persist, PersistFails, PersistHalf, Forward
  <2>4. Owed(k, HAProxy)' => k.ip \notin hap'
    BY <2>2, <2>3, HandlerEffects DEF AnswerOK, Owed, Same, SameWork
  <2> QED
    BY <2>2, <2>3, <2>4, AnswerMoves DEF Same
<1>4. CASE ClearActivity(j)
  <2>1. j.kind = "unblockGet" /\ Moved(j, k, "wait")
    <3>1. \A m, f, i : Sent(j, m, f, i) => m.kind # "unblockGet"
      BY DEF Sent
    <3>2. {j.ip} \in SUBSET IPs
      BY <1>0, <1>4 DEF JobOK, ClearActivity
    <3>3. \A w \in BOOLEAN : k \notin Broadcast(j, {j.ip}, w)
      BY <1>0, <3>1, <3>2, SentFacts
    <3> QED
      BY <1>4, <3>3, ClearJobs DEF Replaced, Advanced, Same
  <2>2. Same(j, k) /\ SameWork(j, k) /\ k.status = j.status /\ k.pc = "wait"
    BY <2>1 DEF Moved, SameAnswer
  <2>3. ~Forward(j) /\ j.pc = "activity" /\ j.node = Leader /\ j.ip \in IPs
    BY <1>0, <1>4, <2>1 DEF ClearActivity, Forward, JobOK, OfIP
  <2>4. Owed(k, HAProxy)' => k.ip \notin hap'
    BY <2>1, <2>2, <2>3, HandlerEffects DEF AnswerOK, Owed, Same, SameWork
  <2>5. ASSUME NEW n \in Nodes
        PROVE  act'[n][k.ip] # "blocked" \/ Awaited(k, n)'
    <3>1. CASE n = Leader
      BY <1>4, <2>2, <2>3, <3>1 DEF ClearActivity, TypeOK, SameWork
    <3>2. CASE n # Leader
      <4>1. n \in Followers
        BY <3>2, NodesFacts
      <4>2. {j.ip} \in SUBSET IPs
        BY <2>3
      <4>3. PICK m \in Broadcast(j, {j.ip}, TRUE) : Sent(j, m, n, j.ip) /\ m.waited = TRUE
        BY <1>0, <4>1, <4>2, SentFacts
      <4>4. m \in jobs'
        BY <1>4, <2>1, <4>3, ClearJobs DEF Replaced
      <4> QED
        BY <2>2, <4>3, <4>4 DEF Awaited, Sent, Same, SameWork
    <3> QED
      BY <3>1, <3>2
  <2> QED
    BY <2>1, <2>2, <2>3, <2>4, <2>5, AnswerMoves
<1>5. CASE Wait(j)
  <2>1. Moved(j, k, "query")
    BY <1>5, WaitJobs DEF Replaced
  <2>2. Same(j, k) /\ SameWork(j, k) /\ k.status = j.status /\ k.pc = "query"
    BY <2>1 DEF Moved, SameAnswer
  <2>3. ~Forward(j) /\ j.pc = "wait" /\ j.kind = "unblockGet" /\ j.ip \in IPs
    BY <1>0, <1>5, <2>2 DEF Wait, Forward, Same, JobOK, OfIP
  <2>4. Owed(k, HAProxy)' => k.ip \notin hap'
    BY <2>2, <2>3, HandlerEffects DEF AnswerOK, Owed, Same, SameWork
  <2>5. \A n \in Nodes : ~Awaited(j, n)
    BY <1>5 DEF Wait, Awaited
  <2>6. \A n \in Nodes : ~Owed(k, n)' \/ Late(k, n)' \/ act'[n][k.ip] # "blocked"
    BY <2>2, <2>3, <2>5, HandlerEffects DEF AnswerOK, Owed, Late, Same, SameWork
  <2> QED
    BY <2>2, <2>3, <2>4, <2>6, AnswerMoves
<1>6. CASE Query(j) \/ QueryFails(j)
  <2> DEFINE nn == NextNode(j)
  <2>1. /\ Answered(j, k, nn) /\ j.pc = "query" /\ nn \in Nodes
        /\ \/ k.status[nn] = NodeStatus(nn, j.ip)
           \/ k.status[nn] \in {j.status[nn], "unknown"}
    BY <1>6, QueryJobs DEF Replaced
  <2> HIDE DEF nn
  <2>2. Same(j, k) /\ SameWork(j, k) /\ k.pc = "query"
    BY <2>1 DEF Answered
  <2>3. ~Forward(j) /\ j.kind = "unblockGet" /\ AnswerOK(j) /\ j.ip \in IPs
    BY <1>0, <1>6, <2>2 DEF Query, QueryFails, Forward, Same, JobOK, OfIP
  <2>4. \A w : Owed(k, w)' => Owed(j, w)
    BY <2>2, <2>3, HandlerEffects DEF Owed, Same, SameWork
  <2>5. \A n \in Nodes : Late(j, n) => Late(k, n)'
    BY <2>2, HandlerEffects DEF Late, Same
  <2>6. Owed(k, HAProxy)' => k.ip \notin hap'
    BY <2>1, <2>2, <2>3, <2>4, HandlerEffects DEF AnswerOK, SameWork
  <2>7. \A n \in Nodes : ~Owed(k, n)' \/ Late(k, n)' \/ act'[n][k.ip] # "blocked"
    BY <2>1, <2>2, <2>3, <2>4, <2>5, HandlerEffects DEF AnswerOK, SameWork
  <2>8. ASSUME NEW n \in Nodes, k.status[n] = "blocked"
        PROVE  ~Owed(k, HAProxy)' \/ ~Owed(k, n)' \/ Late(k, n)'
    <3>1. CASE j.status[n] = "blocked"
      BY <2>3, <2>4, <2>5, <3>1 DEF AnswerOK
    <3>2. CASE n = nn /\ NodeStatus(nn, j.ip) = "blocked"
      <4>1. act[nn][j.ip] = "blocked" \/ j.ip \in hap
        BY <3>2, StatusTyped
      <4> QED
        BY <2>1, <2>3, <2>4, <2>5, <3>2, <4>1 DEF AnswerOK
    <3> QED
      BY <2>1, <2>8, <3>1, <3>2 DEF Answered
  <2> QED
    BY <2>2, <2>6, <2>7, <2>8 DEF AnswerOK
<1>7. CASE ForwardFails(j) \/ Lost(j) \/ RemoveFails(j) \/ Render(j)
  BY <1>7, GoneJobs DEF Replaced
<1>8. CASE HapFails(j)
  BY <1>8, HapFailsJobs DEF Replaced, Advanced, Same, OfList
<1>9. CASE TimedOut(j)
  BY <1>9, TimedOutJobs DEF Replaced, Moved, Same
<1>10. CASE Collect(j) \/ CollectFails(j)
  <2>0. j.kind = "byReason"
    BY <1>10, CollectJobs
  <2>1. CASE \E m, ips : Asked(j, m, NextNode(j), ips) /\ Replaced(j, {m})
    BY <2>0, <2>1 DEF Replaced, Asked, Same
  <2>2. CASE Replaced(j, {})
    BY <2>2 DEF Replaced
  <2> QED
    BY <1>10, <2>1, <2>2, CollectJobs
<1>11. CASE Remove(j)
  <2>1. \A m \in ToldJobs(j) : m.kind = j.kind
    BY <1>0, ToldFacts DEF Told, Same
  <2>2. PICK R1, R2 :
          /\ Replaced(j, R1 \cup R2)
          /\ R1 = {} \/ \E m : R1 = {m} /\ Advanced(j, m)
          /\ R2 = {} \/ R2 = ToldJobs(j)
    BY <1>11, RemoveJobs
  <2>3. j.kind # "unblockGet"
    BY <1>11, RemoveJobs
  <2>4. k \in R1 \cup R2
    BY <2>2 DEF Replaced
  <2> QED
    BY <2>1, <2>2, <2>3, <2>4 DEF Advanced, Same
<1>12. CASE NextIP(j)
  <2>1. j.done \in SUBSET IPs
    BY <1>0, JobTyped
  <2>2. \A m \in Broadcast(j, j.done, FALSE) : m.kind = "int"
    BY <1>0, <2>1, SentFits
  <2>3. j.kind \in {"byReason", "deleteUnblock"}
    BY <1>12, NextIPJobs
  <2>4. CASE \E m : Same(j, m) /\ Replaced(j, {m})
    BY <2>3, <2>4 DEF Replaced, Same
  <2>5. CASE Replaced(j, Broadcast(j, j.done, FALSE))
    BY <2>2, <2>5 DEF Replaced
  <2>6. CASE Replaced(j, {})
    BY <2>6 DEF Replaced
  <2> QED
    BY <1>12, <2>4, <2>5, <2>6, NextIPJobs
<1> QED
  BY <1>1, <1>2, <1>3, <1>4, <1>5, <1>6, <1>7, <1>8, <1>9, <1>10, <1>11, <1>12 DEF Handler

LEMMA AnswersHandler ==
  ASSUME TypeOK, JobsInv, AnswersOK, NEW j \in jobs, Handler(j)
  PROVE  AnswersOK'
<1> SUFFICES ASSUME NEW k \in jobs', k.kind = "unblockGet"
             PROVE  AnswerOK(k)'
  BY DEF AnswersOK
<1>1. CASE k \in jobs \ {j}
  BY <1>1, AnswerOfOther DEF AnswersOK
<1>2. CASE k \notin jobs \ {j}
  BY <1>2, AnswerOfOwn DEF AnswersOK
<1> QED
  BY <1>1, <1>2

LEMMA AnswersSubmit ==
  ASSUME TypeOK, JobsInv, AnswersOK, NEW r \in Requests, Submit(r)
  PROVE  AnswersOK'
<1>1. PICK j, k :
        /\ j \in Jobs /\ JobOK(j) /\ j.pc = "forward" /\ j.kind \in AllKinds
        /\ j.req = used.requests /\ k.req = j.req
        /\ jobs' = jobs \cup {k}
        /\ \/ k = j /\ j.node # Leader /\ owed' = owed
           \/ k = Entered(j) /\ j.node = Leader /\ owed' = owed \cup Promise(j)
  BY SubmitJobs
<1>2. hap' = hap /\ act' = act /\ late' = late
  BY DEF Submit, tables
<1> SUFFICES ASSUME NEW l \in jobs', l.kind = "unblockGet"
             PROVE  AnswerOK(l)'
  BY DEF AnswersOK
<1>3. CASE l \in jobs
  <2>1. l.req # j.req
    <3>1. l.req \in Nat /\ used.requests \in Nat /\ l.req < used.requests
      BY <1>3, JobTyped DEF JobsInv, RequestsOK, TypeOK
    <3> QED
      BY <1>1, <3>1
  <2>2. \A w : Owed(l, w)' => Owed(l, w)
    BY <1>1, <2>1, PromiseReq DEF Owed
  <2>3. \A n \in Nodes : Awaited(l, n) => Awaited(l, n)'
    BY <1>1 DEF Awaited
  <2>4. AnswerOK(l)
    BY <1>3 DEF AnswersOK
  <2> QED
    BY <1>2, <2>2, <2>3, <2>4, AnswerStays
<1>4. CASE l = k
  <2>1. \A n \in Nodes : j.status[n] = "error"
    BY <1>1 DEF JobOK
  <2>2. k.status = j.status /\ k.pc \in {"forward", "haproxy", "query", "collect", "remove"}
          /\ k.kind = j.kind
    BY <1>1, EnteredFacts DEF SameAnswer, AllKinds, Same
  <2>3. k.pc \in {"forward", "haproxy"}
    BY <1>1, <1>4, <2>2, EnteredFacts
  <2> QED
    BY <1>4, <2>1, <2>2, <2>3 DEF AnswerOK
<1> QED
  BY <1>1, <1>3, <1>4

LEMMA AnswersOthers ==
  ASSUME TypeOK, JobsInv, AnswersOK, Others
  PROVE  AnswersOK'
<1>0. jobs' = jobs
  BY OthersJobs
<1> SUFFICES ASSUME NEW l \in jobs, l.kind = "unblockGet"
             PROVE  AnswerOK(l)'
  BY <1>0 DEF AnswersOK
<1>1. l.ip \in IPs /\ AnswerOK(l)
  BY DEF JobsInv, PlacesOK, JobOK, OfIP, AnswersOK
<1>2. \A n \in Nodes : Awaited(l, n) => Awaited(l, n)'
  BY <1>0 DEF Awaited
<1>3. \A w : Owed(l, w)' => Owed(l, w)
  BY OthersTables DEF Owed
<1>4. ASSUME NEW n \in Nodes, NEW i \in IPs, NEW r \in Reasons, Decide(n, i, r)
      PROVE  AnswerOK(l)'
  <2>1. hap' = hap /\ late' = late /\ owed' = Redecided(n, i)
          /\ act' = [act EXCEPT ![n][i] = "blocked"]
    BY <1>4 DEF Decide
  <2>2. ASSUME NEW m \in Nodes, Owed(l, m)', act'[m][l.ip] = "blocked"
        PROVE  act[m][l.ip] = "blocked"
    <3>1. ~(m = n /\ l.ip = i)
      BY <2>1, <2>2, RedecidedFacts DEF Owed
    <3> QED
      BY <1>1, <2>1, <2>2, <3>1 DEF TypeOK
  <2> QED
    BY <1>1, <1>2, <1>3, <2>1, <2>2, AnswerStays
<1>5. ASSUME NEW n \in Nodes, NEW i \in IPs, BlockRuns(n, i)
      PROVE  AnswerOK(l)'
  <2>1. hap' = hap \cup {i} /\ late' = late /\ owed' = Withdrawn({HAProxy}, {i}) /\ act' = act
    BY <1>5 DEF BlockRuns
  <2>2. Owed(l, HAProxy)' => l.ip # i
    BY <2>1, WithdrawnFacts DEF Owed
  <2> QED
    BY <1>1, <1>2, <1>3, <2>1, <2>2, AnswerStays
<1>6. ASSUME NEW n \in Nodes, NEW src \in Nodes, Receive(n, src)
      PROVE  AnswerOK(l)'
  <2>1. hap' = hap /\ late' = late /\ act' = act
    BY <1>6 DEF Receive, tables
  <2> QED
    BY <1>1, <1>2, <1>3, <2>1, AnswerStays
<1>7. ASSUME NEW n \in Nodes, NEW rec \in inbox[n], ApplyRow(n, rec) \/ ApplyBadActor(n, rec)
      PROVE  AnswerOK(l)'
  <2>1. hap' = hap /\ late' = late /\ act' = act
    BY <1>7 DEF ApplyRow, ApplyBadActor
  <2> QED
    BY <1>1, <1>2, <1>3, <2>1, AnswerStays
<1> QED
  BY <1>4, <1>5, <1>6, <1>7 DEF Others

(***************************************************************************)
(* Promises                                                                *)
(***************************************************************************)

\* What is done with IP i stays done.
Settled(c) ==
  /\ c[1] = HAProxy /\ c[2] \in hap' => c[2] \in hap
  /\ c[1] # HAProxy =>
       /\ bad[c[1]][c[2]] = "none" => bad'[c[1]][c[2]] = "none"
       /\ row[c[1]][c[2]] = "none" => row'[c[1]][c[2]] = "none"
       /\ act'[c[1]][c[2]] = "blocked" => act[c[1]][c[2]] = "blocked"

\* Job k is still there and will find what it would have found for claim c.
Stays(k, c) ==
  /\ k \in jobs'
  /\ \A n \in Nodes :
       c[1] \in {n, HAProxy} /\ WillRemove(k, n, c[2]) => WillRemove(k, n, c[2])'
  /\ WillFind(k, c[2]) => WillFind(k, c[2])'

\* What j would have done for claim c is done, or is the business of a job of R.
HandsOver(j, R, c) ==
  /\ c[1] = HAProxy /\ WillUnblock(j, c[2]) =>
       c[2] \notin hap' \/ \E m \in R : WillUnblock(m, c[2])'
  /\ c[1] # HAProxy /\ c[3] = "bad" /\ WillRemove(j, c[1], c[2]) =>
       bad'[c[1]][c[2]] = "none" \/ \E m \in R : WillRemove(m, c[1], c[2])'
  /\ c[1] # HAProxy /\ c[3] = "all" /\ WillReach(j, c[1], c[2], Early) =>
       \/ row'[c[1]][c[2]] = "none" /\ bad'[c[1]][c[2]] = "none"
       \/ \E m \in R : WillReach(m, c[1], c[2], Early)'
  /\ c[1] # HAProxy /\ c[3] = "all" /\ WillReach(j, c[1], c[2], Any) =>
       act'[c[1]][c[2]] # "blocked" \/ \E m \in R : WillReach(m, c[1], c[2], Any)'

LEMMA ClaimTyped ==
  ASSUME NEW c \in Claims
  PROVE  /\ c[1] \in Everywhere /\ c[2] \in IPs /\ c[3] \in {"all", "bad"} /\ c[4] \in Nat
         /\ c[1] # HAProxy => c[1] \in Nodes
BY DEF Claims, Everywhere

LEMMA StaysFacts ==
  ASSUME NEW k, NEW c, Stays(k, c)
  PROVE  /\ c[1] = HAProxy => (WillUnblock(k, c[2]) => WillUnblock(k, c[2])')
         /\ c[1] \in Nodes =>
              /\ WillRemove(k, c[1], c[2]) => WillRemove(k, c[1], c[2])'
              /\ WillReach(k, c[1], c[2], Early) => WillReach(k, c[1], c[2], Early)'
              /\ WillReach(k, c[1], c[2], Any) => WillReach(k, c[1], c[2], Any)'
<1>1. \A p : At(k, c[2], p) => At(k, c[2], p)'
  BY DEF At
<1> QED
  BY <1>1 DEF Stays, WillUnblock, WillReach

LEMMA PromiseStays ==
  ASSUME NEW c \in Claims, PromiseOK(c), Settled(c),
         \A k \in jobs : k.req = c[4] => Stays(k, c)
  PROVE  PromiseOK(c)'
<1>1. c[1] = HAProxy => HapOwed(c[2], c[4])'
  <2> HAVE c[1] = HAProxy
  <2> QED
    BY StaysFacts DEF PromiseOK, HapOwed, Settled, Stays
<1>2. c[1] # HAProxy /\ c[3] = "bad" => BadOwed(c[1], c[2], c[4])'
  BY StaysFacts, ClaimTyped DEF PromiseOK, BadOwed, Settled, Stays
<1>3. c[1] # HAProxy /\ c[3] = "all" => RowOwed(c[1], c[2], c[4])'
  BY StaysFacts, ClaimTyped DEF PromiseOK, RowOwed, Settled, Stays
<1>4. c[1] # HAProxy /\ c[3] = "all" => ActOwed(c[1], c[2], c[4])'
  BY StaysFacts, ClaimTyped DEF PromiseOK, ActOwed, Settled, Stays
<1> QED
  BY <1>1, <1>2, <1>3, <1>4 DEF PromiseOK

LEMMA PromiseStep ==
  ASSUME NEW c \in Claims, PromiseOK(c), Settled(c), NEW j, NEW R, R \subseteq jobs',
         \A m \in R : m.req = j.req,
         \A k \in jobs \ {j} : k.req = c[4] => Stays(k, c),
         j.req = c[4] => HandsOver(j, R, c)
  PROVE  PromiseOK(c)'
<1>1. c[1] = HAProxy => HapOwed(c[2], c[4])'
  <2> HAVE c[1] = HAProxy
  <2>1. CASE c[2] \notin hap
    BY <2>1 DEF HapOwed, Settled
  <2>2. CASE \E k \in jobs : k.req = c[4] /\ WillUnblock(k, c[2])
    <3>1. PICK k \in jobs : k.req = c[4] /\ WillUnblock(k, c[2])
      BY <2>2
    <3>2. CASE k = j
      BY <3>1, <3>2 DEF HapOwed, HandsOver
    <3>3. CASE k # j
      BY <3>1, <3>3, StaysFacts DEF HapOwed, Stays
    <3> QED
      BY <3>2, <3>3
  <2> QED
    BY <2>1, <2>2 DEF PromiseOK, HapOwed
<1>2. c[1] # HAProxy /\ c[3] = "bad" => BadOwed(c[1], c[2], c[4])'
  <2> HAVE c[1] # HAProxy /\ c[3] = "bad"
  <2>1. CASE bad[c[1]][c[2]] = "none"
    BY <2>1 DEF BadOwed, Settled
  <2>2. CASE \E k \in jobs : k.req = c[4] /\ WillRemove(k, c[1], c[2])
    <3>1. PICK k \in jobs : k.req = c[4] /\ WillRemove(k, c[1], c[2])
      BY <2>2
    <3>2. CASE k = j
      BY <3>1, <3>2 DEF BadOwed, HandsOver
    <3>3. CASE k # j
      BY <3>1, <3>3, StaysFacts, ClaimTyped DEF BadOwed, Stays
    <3> QED
      BY <3>2, <3>3
  <2> QED
    BY <2>1, <2>2 DEF PromiseOK, BadOwed
<1>3. c[1] # HAProxy /\ c[3] = "all" => RowOwed(c[1], c[2], c[4])'
  <2> HAVE c[1] # HAProxy /\ c[3] = "all"
  <2>1. CASE row[c[1]][c[2]] = "none" /\ bad[c[1]][c[2]] = "none"
    BY <2>1 DEF RowOwed, Settled
  <2>2. CASE \E k \in jobs : k.req = c[4] /\ WillReach(k, c[1], c[2], Early)
    <3>1. PICK k \in jobs : k.req = c[4] /\ WillReach(k, c[1], c[2], Early)
      BY <2>2
    <3>2. CASE k = j
      BY <3>1, <3>2 DEF RowOwed, HandsOver
    <3>3. CASE k # j
      BY <3>1, <3>3, StaysFacts, ClaimTyped DEF RowOwed, Stays
    <3> QED
      BY <3>2, <3>3
  <2> QED
    BY <2>1, <2>2 DEF PromiseOK, RowOwed
<1>4. c[1] # HAProxy /\ c[3] = "all" => ActOwed(c[1], c[2], c[4])'
  <2> HAVE c[1] # HAProxy /\ c[3] = "all"
  <2>1. CASE act[c[1]][c[2]] # "blocked"
    BY <2>1 DEF ActOwed, Settled
  <2>2. CASE \E k \in jobs : k.req = c[4] /\ WillReach(k, c[1], c[2], Any)
    <3>1. PICK k \in jobs : k.req = c[4] /\ WillReach(k, c[1], c[2], Any)
      BY <2>2
    <3>2. CASE k = j
      BY <3>1, <3>2 DEF ActOwed, HandsOver
    <3>3. CASE k # j
      BY <3>1, <3>3, StaysFacts, ClaimTyped DEF ActOwed, Stays
    <3> QED
      BY <3>2, <3>3
  <2> QED
    BY <2>1, <2>2 DEF PromiseOK, ActOwed
<1> QED
  BY <1>1, <1>2, <1>3, <1>4 DEF PromiseOK

\* A handler that leaves the tables of rows and bad actors alone.
LEMMA PlainStep ==
  ASSUME TypeOK, JobsInv, PromisesOK, NEW j \in jobs, Handler(j), row' = row, bad' = bad,
         NEW R, Replaced(j, R), NEW c \in owed, j.req = c[4] => HandsOver(j, R, c)
  PROVE  PromiseOK(c)'
<1>1. c \in Claims /\ PromiseOK(c)
  BY DEF TypeOK, PromisesOK
<1>2. Settled(c)
  BY <1>1, ClaimTyped, HandlerEffects DEF Settled
<1>3. R \subseteq jobs' /\ \A m \in R : m.req = j.req
  BY DEF Replaced, Fits
<1>4. \A k \in jobs \ {j} : Stays(k, c)
  BY DEF Stays, WillRemove, WillFind, Replaced
<1> QED
  BY <1>1, <1>2, <1>3, <1>4, PromiseStep

\* Jobs that are only on their way, or only ask, have nothing to remove.
LEMMA IdleFacts ==
  ASSUME NEW j \in Jobs, JobOK(j), j.pc \in {"forward", "wait", "query"}, NEW R, NEW c
  PROVE  HandsOver(j, R, c)
<1>1. j.todo = {} /\ j.done = {}
  BY JobTyped DEF JobOK, PlacesOf, OfIP, AllKinds
<1> QED
  BY <1>1 DEF HandsOver, WillUnblock, WillReach, WillRemove, WillFind, At, Early, Any

LEMMA PromisesIdle ==
  ASSUME TypeOK, JobsInv, PromisesOK, NEW j \in jobs, Handler(j),
         Forward(j) \/ ForwardFails(j) \/ Wait(j) \/ Query(j) \/ QueryFails(j) \/ Render(j),
         NEW c \in owed
  PROVE  PromiseOK(c)'
<1>1. row' = row /\ bad' = bad
  BY DEF Forward, ForwardFails, Wait, Query, QueryFails, Render, tables
<1>2. j \in Jobs /\ JobOK(j) /\ j.pc \in {"forward", "wait", "query"}
  BY DEF JobsInv, PlacesOK, Forward, ForwardFails, Wait, Query, QueryFails, Render
<1>3. PICK R : Replaced(j, R)
  BY HandlerJobs
<1> QED
  BY <1>1, <1>2, <1>3, IdleFacts, PlainStep

\* HAProxy is done with the IP, or skipped.
LEMMA PromisesHap ==
  ASSUME TypeOK, JobsInv, PromisesOK, NEW j \in jobs, Handler(j),
         HapRemove(j) \/ HapSkipped(j), NEW c \in owed'
  PROVE  PromiseOK(c)'
<1>1. row' = row /\ bad' = bad /\ j.pc = "haproxy"
  BY DEF HapRemove, HapSkipped, tables
<1>2. PICK k : Moved(j, k, "persist") /\ Replaced(j, {k})
  BY HapJobs
<1>3. c \in owed
  BY HandlerEffects DEF Forward, HapRemove, HapSkipped
<1>4. /\ k.kind = j.kind /\ k.node = j.node /\ k.ip = j.ip /\ k.todo = j.todo /\ k.done = j.done
      /\ k.pc = "persist"
  BY <1>2 DEF Moved, Same, SameWork
<1>5. c[1] = HAProxy /\ c[2] = j.ip => c[2] \notin hap'
  <2>1. CASE HapRemove(j)
    BY <2>1 DEF HapRemove
  <2>2. CASE HapSkipped(j)
    <3>1. owed' = Withdrawn({HAProxy}, {j.ip})
      BY <2>2 DEF HapSkipped
    <3> QED
      BY <3>1, WithdrawnFacts
  <2> QED
    BY <2>1, <2>2
<1>6. HandsOver(j, {k}, c)
  BY <1>1, <1>4, <1>5
  DEF HandsOver, WillUnblock, WillReach, WillRemove, WillFind, At, Early, Any
<1> QED
  BY <1>1, <1>2, <1>3, <1>6, PlainStep

LEMMA PromisesHapFails ==
  ASSUME TypeOK, JobsInv, PromisesOK, NEW j \in jobs, Handler(j), HapFails(j), NEW c \in owed'
  PROVE  PromiseOK(c)'
<1>1. row' = row /\ bad' = bad /\ j.pc = "haproxy"
  BY DEF HapFails
<1>2. c \in owed
  BY HandlerEffects DEF Forward, HapFails
<1>3. c[1] \in Everywhere /\ (c[1] # HAProxy => c[1] \in Nodes)
  BY <1>2, ClaimTyped DEF TypeOK
<1>4. \/ c[2] # j.ip
      \/ j.kind = "deleteUnblock" /\ c[1] \notin {j.node, HAProxy}
  <2>1. owed' = Withdrawn(IF j.kind = "deleteUnblock" THEN {j.node, HAProxy} ELSE Everywhere,
                          {j.ip})
    BY DEF HapFails
  <2> QED
    BY <1>3, <2>1, WithdrawnFacts
<1>5. j \in Jobs /\ JobOK(j)
  BY DEF JobsInv, PlacesOK
<1>6. CASE j.kind \notin OfList /\ Replaced(j, {})
  <2>1. j.todo = {} /\ j.done = {}
    BY <1>1, <1>5, <1>6, JobTyped DEF JobOK, PlacesOf, OfIP, OfList, AllKinds
  <2>2. HandsOver(j, {}, c)
    BY <1>1, <1>4, <1>6, <2>1
    DEF HandsOver, WillUnblock, WillReach, WillRemove, WillFind, At, Early, Any, OfList
  <2> QED
    BY <1>1, <1>2, <1>6, <2>2, PlainStep
<1>7. ASSUME NEW k, Advanced(j, k), Replaced(j, {k}), k.todo = j.todo, k.done = j.done
      PROVE  PromiseOK(c)'
  <2>1. k.kind = j.kind /\ k.node = j.node /\ k.pc = "next"
    BY <1>7 DEF Advanced, Same
  <2>2. HandsOver(j, {k}, c)
    BY <1>1, <1>4, <1>7, <2>1
    DEF HandsOver, WillUnblock, WillReach, WillRemove, WillFind, At, Early, Any
  <2> QED
    BY <1>1, <1>2, <1>7, <2>2, PlainStep
<1> QED
  BY <1>6, <1>7, HapFailsJobs

LEMMA PromisesLost ==
  ASSUME TypeOK, JobsInv, PromisesOK, NEW j \in jobs, Handler(j), Lost(j), NEW c \in owed'
  PROVE  PromiseOK(c)'
<1>1. row' = row /\ bad' = bad
  BY DEF Lost, tables
<1>2. j \in Jobs /\ JobOK(j)
  BY DEF JobsInv, PlacesOK
<1>3. c \in owed
  BY <1>2, HandlerEffects DEF Forward, Lost, JobOK, PlacesOf
<1>4. /\ c[1] \in Everywhere /\ c[2] \in IPs /\ c[3] \in {"all", "bad"}
      /\ c[1] # HAProxy => c[1] \in Nodes
  BY <1>3, ClaimTyped DEF TypeOK
<1>5. Replaced(j, {})
  BY GoneJobs
<1>6. CASE j.kind = "int"
  <2>1. owed' = Withdrawn({j.node}, {j.ip})
    BY <1>6 DEF Lost
  <2>2. c[1] = j.node => c[2] # j.ip
    BY <2>1, WithdrawnFacts
  <2>3. j.todo = {} /\ j.done = {} /\ j.pc \in {"persist", "activity"} /\ j.node # Leader
    BY <1>2, <1>6, NodesFacts DEF JobOK, PlacesOf
  <2>4. HandsOver(j, {}, c)
    BY <1>6, <2>2, <2>3
    DEF HandsOver, WillUnblock, WillReach, WillRemove, WillFind, At, Early, Any
  <2> QED
    BY <1>1, <1>3, <1>5, <2>4, PlainStep
<1>7. CASE j.kind # "int"
  <2>1. j.pc = "remove" /\ j.node # Leader
    BY <1>7 DEF Lost
  <2>2. owed' = Withdrawn({j.node, HAProxy}, BadMatches(j.node, j.reason))
    BY <1>7 DEF Lost
  <2>3. c[1] \in {j.node, HAProxy} => c[2] \notin BadMatches(j.node, j.reason)
    BY <2>2, WithdrawnFacts
  <2>4. c[1] \in {j.node, HAProxy} => ~Matches(bad[j.node][c[2]], j.reason)
    BY <1>4, <2>3 DEF BadMatches, Matches
  <2>5. j.todo = {} /\ j.done = {}
    BY <1>2, <2>1 DEF JobOK
  <2>6. HandsOver(j, {}, c)
    BY <2>1, <2>4, <2>5
    DEF HandsOver, WillUnblock, WillReach, WillRemove, WillFind, At, Early, Any
  <2> QED
    BY <1>1, <1>3, <1>5, <2>6, PlainStep
<1> QED
  BY <1>6, <1>7

LEMMA PromisesTimedOut ==
  ASSUME TypeOK, JobsInv, PromisesOK, NEW j \in jobs, Handler(j), TimedOut(j), NEW c \in owed'
  PROVE  PromiseOK(c)'
<1>1. row' = row /\ bad' = bad /\ owed' = owed
  BY DEF TimedOut, tables
<1>2. PICK k : Moved(j, k, j.pc) /\ Replaced(j, {k})
  BY TimedOutJobs
<1>3. /\ k.kind = j.kind /\ k.node = j.node /\ k.ip = j.ip /\ k.todo = j.todo /\ k.done = j.done
      /\ k.pc = j.pc /\ k.reason = j.reason /\ k.asked = j.asked
  BY <1>2 DEF Moved, Same, SameWork, SameAnswer
<1>4. HandsOver(j, {k}, c)
  BY <1>1, <1>3
  DEF HandsOver, WillUnblock, WillReach, WillRemove, WillFind, At, Early, Any
<1> QED
  BY <1>1, <1>2, <1>4, PlainStep

LEMMA PromisesClear ==
  ASSUME TypeOK, JobsInv, PromisesOK, NEW j \in jobs, Handler(j), ClearActivity(j), NEW c \in owed'
  PROVE  PromiseOK(c)'
<1>1. row' = row /\ bad' = bad /\ owed' = owed /\ j.pc = "activity"
  BY DEF ClearActivity
<1>2. j \in Jobs /\ JobOK(j) /\ j.ip \in IPs /\ j.node \in Nodes
  BY <1>1, JobTyped DEF JobsInv, PlacesOK, JobOK
<1>3. c[2] \in IPs /\ (c[1] # HAProxy => c[1] \in Nodes)
  BY <1>1, ClaimTyped DEF TypeOK
<1>4. act'[j.node][j.ip] # "blocked"
  BY <1>2 DEF ClearActivity, TypeOK
<1>5. CASE j.kind = "int" /\ Replaced(j, {})
  <2>1. j.todo = {} /\ j.done = {} /\ j.node # Leader
    BY <1>2, <1>5, NodesFacts DEF JobOK
  <2>2. HandsOver(j, {}, c)
    BY <1>1, <1>4, <1>5, <2>1
    DEF HandsOver, WillUnblock, WillReach, WillRemove, WillFind, At, Early, Any
  <2> QED
    BY <1>1, <1>5, <2>2, PlainStep
<1>6. ASSUME NEW R, NEW w \in BOOLEAN, Broadcast(j, {j.ip}, w) \subseteq R, Replaced(j, R),
             j.kind \in {"unblock", "clear", "unblockGet"}
      PROVE  PromiseOK(c)'
  <2>1. j.todo = {} /\ j.done = {}
    BY <1>2, <1>6 DEF JobOK, OfIP
  <2>2. {j.ip} \in SUBSET IPs
    BY <1>2
  <2>3. ASSUME c[1] # HAProxy, c[1] # Leader, c[2] = j.ip
        PROVE  \E m \in R : m.node = c[1] /\ m.ip = c[2] /\ m.pc = "persist"
    <3>1. c[1] \in Followers
      BY <1>3, <2>3, NodesFacts
    <3>2. PICK m \in Broadcast(j, {j.ip}, w) : Sent(j, m, c[1], j.ip)
      BY <1>2, <2>2, <3>1, SentFacts
    <3> QED
      BY <1>6, <2>3, <3>2 DEF Sent
  <2>4. HandsOver(j, R, c)
    BY <1>1, <1>4, <1>6, <2>1, <2>3
    DEF HandsOver, WillUnblock, WillReach, WillRemove, WillFind, At, Early, Any
  <2> QED
    BY <1>1, <1>6, <2>4, PlainStep
<1>7. CASE /\ j.kind \in {"byReason", "deleteUnblock"}
           /\ \E k : /\ Advanced(j, k) /\ Replaced(j, {k})
                     /\ k.todo = j.todo /\ k.done = j.done \cup {j.ip}
  <2>0. PICK k : /\ Advanced(j, k) /\ Replaced(j, {k})
                 /\ k.todo = j.todo /\ k.done = j.done \cup {j.ip}
    BY <1>7
  <2>1. k.kind = j.kind /\ k.node = j.node /\ k.pc = "next"
    BY <2>0 DEF Advanced, Same
  <2>2. HandsOver(j, {k}, c)
    BY <1>1, <1>4, <1>7, <2>0, <2>1
    DEF HandsOver, WillUnblock, WillReach, WillRemove, WillFind, At, Early, Any
  <2> QED
    BY <1>1, <2>0, <2>2, PlainStep
<1>8. CASE j.kind \in {"unblock", "clear"} /\ Replaced(j, Broadcast(j, {j.ip}, FALSE))
  BY <1>6, <1>8
<1>9. CASE /\ j.kind = "unblockGet"
           /\ \E k : Replaced(j, {k} \cup Broadcast(j, {j.ip}, TRUE))
  <2>0. PICK k : Replaced(j, {k} \cup Broadcast(j, {j.ip}, TRUE))
    BY <1>9
  <2> DEFINE R == {k} \cup Broadcast(j, {j.ip}, TRUE)
  <2>1. Broadcast(j, {j.ip}, TRUE) \subseteq R /\ Replaced(j, R)
    BY <2>0
  <2> HIDE DEF R
  <2> QED
    BY <1>6, <1>9, <2>1
<1> QED
  BY <1>5, <1>7, <1>8, <1>9, ClearJobs

LEMMA PromisesCollect ==
  ASSUME TypeOK, JobsInv, PromisesOK, NEW j \in jobs, Handler(j), Collect(j) \/ CollectFails(j),
         NEW c \in owed'
  PROVE  PromiseOK(c)'
<1> DEFINE n == NextNode(j)
<1>1. row' = row /\ bad' = bad
  BY DEF Collect, CollectFails, tables
<1>2. /\ j.kind = "byReason" /\ j.reason \in Reasons /\ j.pc = "collect"
      /\ n \in Nodes \ j.asked /\ j \in Jobs
  BY CollectJobs DEF JobsInv
<1>3. c \in owed
  BY <1>2, HandlerEffects DEF Forward
<1>4. c[1] \in Everywhere /\ c[2] \in IPs
  BY <1>3, ClaimTyped DEF TypeOK
<1> HIDE DEF n
<1>5. ASSUME NEW k, NEW ips, Asked(j, k, n, ips), Replaced(j, {k}),
             row[n][c[2]] = j.reason => c[2] \in ips
      PROVE  PromiseOK(c)'
  <2>1. /\ k.kind = j.kind /\ k.node = j.node /\ k.ip = j.ip /\ k.done = j.done
        /\ k.reason = j.reason /\ k.asked = j.asked \cup {n} /\ k.todo = j.todo \cup ips
        /\ k.asked # Nodes => k.pc = "collect"
        /\ k.asked \subseteq Nodes
    BY <1>2, <1>5, JobTyped DEF Asked, Same
  <2>2. WillFind(j, c[2]) => WillFind(k, c[2])
    <3>1. CASE c[2] \in j.todo
      BY <2>1, <3>1 DEF WillFind
    <3>2. ASSUME NEW m \in Nodes \ j.asked, row[m][c[2]] = j.reason
          PROVE  WillFind(k, c[2])
      <4>1. CASE m = n
        BY <1>5, <2>1, <3>2, <4>1 DEF WillFind
      <4>2. CASE m # n
        <5>1. m \in Nodes \ k.asked /\ row[m][c[2]] = k.reason
          BY <2>1, <3>2, <4>2
        <5>2. k.pc = "collect"
          BY <2>1, <5>1
        <5> QED
          BY <5>1, <5>2 DEF WillFind
      <4> QED
        BY <4>1, <4>2
    <3> QED
      BY <3>1, <3>2 DEF WillFind
  <2>3. WillFind(k, c[2])' <=> WillFind(k, c[2])
    BY <1>1 DEF WillFind
  <2>4. HandsOver(j, {k}, c)
    BY <1>2, <2>1, <2>2, <2>3
    DEF HandsOver, WillUnblock, WillReach, WillRemove, At, Early, Any
  <2> QED
    BY <1>1, <1>3, <1>5, <2>4, PlainStep
<1>6. ASSUME NEW k, Asked(j, k, n, RowMatches(n, j.reason)), Replaced(j, {k})
      PROVE  PromiseOK(c)'
  <2>1. row[n][c[2]] = j.reason => c[2] \in RowMatches(n, j.reason)
    BY <1>4 DEF RowMatches
  <2> QED
    BY <1>5, <1>6, <2>1
<1>7. CASE CollectFails(j) /\ n = Leader
  <2>1. owed' = Withdrawn(Everywhere, IPs)
    BY <1>7 DEF CollectFails, n
  <2> QED
    BY <1>4, <2>1, WithdrawnFacts
<1>8. ASSUME NEW k, CollectFails(j), n # Leader, Asked(j, k, n, {}), Replaced(j, {k})
      PROVE  PromiseOK(c)'
  <2>1. owed' = Withdrawn(Everywhere, RowMatches(n, j.reason))
    BY <1>8 DEF CollectFails, n
  <2>2. c[2] \notin RowMatches(n, j.reason)
    BY <1>4, <2>1, WithdrawnFacts
  <2>3. row[n][c[2]] # j.reason
    BY <1>4, <2>2 DEF RowMatches
  <2> QED
    BY <1>5, <1>8, <2>3
<1> QED
  BY <1>6, <1>7, <1>8, CollectJobs DEF n

LEMMA PromisesNextIP ==
  ASSUME TypeOK, JobsInv, PromisesOK, NEW j \in jobs, Handler(j), NextIP(j), NEW c \in owed'
  PROVE  PromiseOK(c)'
<1>1. row' = row /\ bad' = bad /\ owed' = owed /\ j.pc = "next"
  BY DEF NextIP, tables
<1>2. j \in Jobs /\ JobOK(j) /\ j.done \in SUBSET IPs
  BY JobTyped DEF JobsInv, PlacesOK
<1>3. c[2] \in IPs /\ (c[1] # HAProxy => c[1] \in Nodes)
  BY <1>1, ClaimTyped DEF TypeOK
<1>4. ASSUME NEW k, k.ip \in j.todo, k.todo = j.todo \ {k.ip}, k.done = j.done, k.pc = "haproxy",
             Same(j, k), k.node = j.node, Replaced(j, {k})
      PROVE  PromiseOK(c)'
  <2>1. c[2] \in j.todo => c[2] \in k.todo \/ c[2] = k.ip
    BY <1>4
  <2>2. k.kind = j.kind
    BY <1>4 DEF Same
  <2>3. HandsOver(j, {k}, c)
    BY <1>1, <1>4, <2>1, <2>2
    DEF HandsOver, WillUnblock, WillReach, WillRemove, WillFind, At, Early, Any
  <2> QED
    BY <1>1, <1>4, <2>3, PlainStep
<1>5. CASE j.todo = {} /\ j.kind = "byReason" /\ Replaced(j, Broadcast(j, j.done, FALSE))
  <2> DEFINE R == Broadcast(j, j.done, FALSE)
  <2>1. ASSUME c[1] # HAProxy, c[1] # Leader, c[2] \in j.done
        PROVE  \E m \in R : m.node = c[1] /\ m.ip = c[2] /\ m.pc = "persist"
    <3>1. c[1] \in Followers
      BY <1>3, <2>1, NodesFacts
    <3>2. PICK m \in R : Sent(j, m, c[1], c[2])
      BY <1>2, <2>1, <3>1, SentFacts
    <3> QED
      BY <3>2 DEF Sent
  <2> HIDE DEF R
  <2>2. HandsOver(j, R, c)
    BY <1>1, <1>5, <2>1
    DEF HandsOver, WillUnblock, WillReach, WillRemove, WillFind, At, Early, Any
  <2> QED
    BY <1>1, <1>5, <2>2, PlainStep DEF R
<1>6. CASE j.todo = {} /\ j.kind = "deleteUnblock" /\ Replaced(j, {})
  <2>1. HandsOver(j, {}, c)
    BY <1>1, <1>6
    DEF HandsOver, WillUnblock, WillReach, WillRemove, WillFind, At, Early, Any
  <2> QED
    BY <1>1, <1>6, <2>1, PlainStep
<1> QED
  BY <1>4, <1>5, <1>6, NextIPJobs

\* When j removes records of some IPs on its node, the lists of other requests that are
\* being made are excused, and the other jobs of the same request look elsewhere.
LEMMA OthersStay ==
  ASSUME JobsInv, NEW j \in jobs, NEW ips,
         \A n \in Nodes : \A i \in IPs :
           n # j.node \/ i \notin ips => row'[n][i] = row[n][i] /\ bad'[n][i] = bad[n][i],
         NEW c \in owed, c \in Claims, c \notin Overlooked(j, ips),
         NEW k \in jobs \ {j}, k \in jobs', k.req = c[4]
  PROVE  Stays(k, c)
<1>1. k \in Jobs /\ JobOK(k) /\ c[2] \in IPs
  BY ClaimTyped DEF JobsInv, PlacesOK
<1>2. CASE c[2] \notin ips
  BY <1>1, <1>2 DEF Stays, WillRemove, WillFind
<1>3. CASE c[2] \in ips
  <2>1. k.pc \in {"collect", "remove"} => k.req = j.req
    BY <1>3 DEF Overlooked
  <2>2. k.pc # "collect"
    BY <2>1 DEF JobsInv, RequestsOK, First
  <2>3. ASSUME NEW n \in Nodes, WillRemove(k, n, c[2])
        PROVE  WillRemove(k, n, c[2])'
    <3>1. k.pc = "remove" /\ k.node \in {n, Leader} /\ k.req = j.req
      BY <2>1, <2>3 DEF WillRemove
    <3>2. k.kind \in Removals
      BY <1>1, <3>1, JobTyped DEF JobOK, PlacesOf, AllKinds, Removals
    <3>3. j.kind = k.kind /\ k.kind # "int"
      BY <3>1, <3>2 DEF JobsInv, RequestsOK, Removals
    <3>4. k.node # Leader /\ k.node # j.node
      BY <3>1, <3>3 DEF JobsInv, RequestsOK, First
    <3>5. bad'[n][c[2]] = bad[n][c[2]]
      BY <1>1, <3>1, <3>4
    <3> QED
      BY <2>3, <3>5 DEF WillRemove
  <2>4. WillFind(k, c[2]) => WillFind(k, c[2])'
    BY <2>2 DEF WillFind
  <2> QED
    BY <2>3, <2>4 DEF Stays
<1> QED
  BY <1>2, <1>3

LEMMA PromisesPersist ==
  ASSUME TypeOK, JobsInv, PromisesOK, NEW j \in jobs, Handler(j), Persist(j), NEW c \in owed'
  PROVE  PromiseOK(c)'
<1>1. j \in Jobs /\ JobOK(j) /\ j.pc = "persist" /\ j.ip \in IPs /\ j.node \in Nodes
  BY JobTyped DEF JobsInv, PlacesOK, JobOK, Persist
<1>2. c \in owed /\ c \in Claims /\ PromiseOK(c) /\ c \notin Overlooked(j, {j.ip})
  BY DEF Persist, TypeOK, PromisesOK
<1>3. c[2] \in IPs /\ (c[1] # HAProxy => c[1] \in Nodes)
  BY <1>2, ClaimTyped
<1>4. PICK k : Moved(j, k, "activity") /\ Replaced(j, {k})
  BY PersistJobs
<1>5. /\ k.kind = j.kind /\ k.node = j.node /\ k.ip = j.ip /\ k.todo = j.todo /\ k.done = j.done
      /\ k.pc = "activity" /\ k.req = j.req /\ k \in jobs'
  BY <1>4 DEF Moved, Same, SameWork, Replaced
<1>6. \A n \in Nodes : \A i \in IPs :
        n # j.node \/ i \notin {j.ip} => row'[n][i] = row[n][i] /\ bad'[n][i] = bad[n][i]
  BY <1>1 DEF Persist, TypeOK
<1>7. row'[j.node][j.ip] = "none" /\ bad'[j.node][j.ip] = "none" /\ act' = act /\ hap' = hap
  BY <1>1 DEF Persist, TypeOK
<1>8. Settled(c)
  BY <1>3, <1>6, <1>7 DEF Settled
<1>9. HandsOver(j, {k}, c)
  BY <1>1, <1>5, <1>7
  DEF HandsOver, WillUnblock, WillReach, WillRemove, WillFind, At, Early, Any
<1>10. \A l \in jobs \ {j} : l.req = c[4] => Stays(l, c)
  <2> SUFFICES ASSUME NEW l \in jobs \ {j}, l.req = c[4] PROVE Stays(l, c)
    OBVIOUS
  <2>1. l \in jobs'
    BY <1>4 DEF Replaced
  <2> QED
    BY <1>2, <1>6, <2>1, OthersStay
<1> QED
  BY <1>2, <1>5, <1>8, <1>9, <1>10, PromiseStep

LEMMA PromisesPersistFails ==
  ASSUME TypeOK, JobsInv, PromisesOK, NEW j \in jobs, Handler(j),
         PersistFails(j) \/ PersistHalf(j), NEW c \in owed'
  PROVE  PromiseOK(c)'
<1>1. j \in Jobs /\ JobOK(j) /\ j.pc = "persist" /\ j.ip \in IPs /\ j.node \in Nodes
  BY JobTyped DEF JobsInv, PlacesOK, JobOK, PersistFails, PersistHalf
<1>2. /\ c \in owed /\ c \in Claims /\ PromiseOK(c) /\ c \notin Overlooked(j, {j.ip})
      /\ c[1] = j.node => c[2] # j.ip
  <2>1. owed' = Withdrawn({j.node}, {j.ip}) \ Overlooked(j, {j.ip})
    BY DEF PersistFails, PersistHalf
  <2> QED
    BY <2>1, WithdrawnFacts DEF TypeOK, PromisesOK
<1>3. c[2] \in IPs /\ (c[1] # HAProxy => c[1] \in Nodes)
  BY <1>2, ClaimTyped
<1>0. /\ bad' \in {bad, [bad EXCEPT ![j.node][j.ip] = "none"]}
      /\ row' \in {row, [row EXCEPT ![j.node][j.ip] = "none"]}
      /\ act' = act /\ hap' = hap
  BY DEF PersistFails, PersistHalf
<1>4. \A n \in Nodes : \A i \in IPs :
        n # j.node \/ i \notin {j.ip} => row'[n][i] = row[n][i] /\ bad'[n][i] = bad[n][i]
  BY <1>0, <1>1 DEF TypeOK
<1>5. act' = act /\ hap' = hap
  BY <1>0
<1>6. Settled(c)
  BY <1>2, <1>3, <1>4, <1>5 DEF Settled
<1>7. ASSUME NEW R, Replaced(j, R), HandsOver(j, R, c)
      PROVE  PromiseOK(c)'
  <2>1. R \subseteq jobs' /\ \A m \in R : m.req = j.req
    BY <1>7 DEF Replaced, Fits
  <2>2. ASSUME NEW l \in jobs \ {j}, l.req = c[4] PROVE Stays(l, c)
    <3>1. l \in jobs'
      BY <1>7 DEF Replaced
    <3> QED
      BY <1>2, <1>4, <2>2, <3>1, OthersStay
  <2> QED
    BY <1>2, <1>6, <1>7, <2>1, <2>2, PromiseStep
<1>8. CASE j.kind = "int" /\ Replaced(j, {})
  <2>1. j.todo = {} /\ j.done = {} /\ j.node # Leader
    BY <1>1, <1>8, NodesFacts DEF JobOK
  <2>2. HandsOver(j, {}, c)
    BY <1>1, <1>2, <1>8, <2>1
    DEF HandsOver, WillUnblock, WillReach, WillRemove, WillFind, At, Early, Any
  <2> QED
    BY <1>7, <1>8, <2>2
<1>9. ASSUME NEW k, Moved(j, k, "activity"), Replaced(j, {k})
      PROVE  PromiseOK(c)'
  <2>1. /\ k.kind = j.kind /\ k.node = j.node /\ k.ip = j.ip /\ k.todo = j.todo
        /\ k.done = j.done /\ k.pc = "activity"
    BY <1>9 DEF Moved, Same, SameWork
  <2>2. HandsOver(j, {k}, c)
    BY <1>1, <1>2, <2>1
    DEF HandsOver, WillUnblock, WillReach, WillRemove, WillFind, At, Early, Any
  <2> QED
    BY <1>7, <1>9, <2>2
<1> QED
  BY <1>8, <1>9, PersistJobs

\* The bad actors that were removed are to be unblocked, and the followers are told.
LEMMA PromisesRemove ==
  ASSUME TypeOK, JobsInv, PromisesOK, NEW j \in jobs, Handler(j), Remove(j), NEW c \in owed'
  PROVE  PromiseOK(c)'
<1> DEFINE removed == BadMatches(j.node, j.reason)
<1>1. j \in Jobs /\ JobOK(j) /\ j.pc = "remove" /\ j.node \in Nodes
  BY JobTyped DEF JobsInv, PlacesOK, Remove
<1>2. c \in owed /\ c \in Claims /\ PromiseOK(c) /\ c \notin Overlooked(j, removed)
  BY DEF Remove, TypeOK, PromisesOK
<1>3. c[2] \in IPs /\ (c[1] # HAProxy => c[1] \in Nodes)
  BY <1>2, ClaimTyped
<1>4. \A i \in IPs : i \in removed <=> Matches(bad[j.node][i], j.reason)
  BY DEF BadMatches, Matches
<1>5. bad' = [bad EXCEPT ![j.node] =
                [i \in IPs |-> IF i \in removed THEN "none" ELSE bad[j.node][i]]]
  BY DEF Remove
<1>6. row' = row /\ act' = act /\ hap' = hap
  BY DEF Remove
<1>7. PICK R1, R2 :
        /\ Replaced(j, R1 \cup R2)
        /\ \/ j.kind = "delete" /\ R1 = {}
           \/ /\ j.kind = "deleteUnblock"
              /\ \E k : R1 = {k} /\ Advanced(j, k) /\ k.todo = removed
        /\ j.node = Leader => R2 = ToldJobs(j)
  BY RemoveJobs
<1> HIDE DEF removed
<1> DEFINE R == R1 \cup R2
<1>8. \A n \in Nodes : \A i \in IPs :
        n # j.node \/ i \notin removed => row'[n][i] = row[n][i] /\ bad'[n][i] = bad[n][i]
  BY <1>1, <1>5, <1>6 DEF TypeOK
<1>9. \A i \in removed : i \in IPs => bad'[j.node][i] = "none"
  BY <1>1, <1>5 DEF TypeOK
<1>10. Settled(c)
  <2>1. c[1] # HAProxy /\ bad[c[1]][c[2]] = "none" => bad'[c[1]][c[2]] = "none"
    BY <1>3, <1>8, <1>9
  <2> QED
    BY <1>6, <2>1 DEF Settled
<1>11. ASSUME NEW n \in Nodes, NEW i \in IPs, WillRemove(j, n, i)
       PROVE  \/ /\ n = j.node /\ bad'[n][i] = "none"
                 /\ j.kind = "deleteUnblock" => \E m \in R : m.node = n /\ WillFind(m, i)'
              \/ \E m \in R : m.kind = j.kind /\ WillRemove(m, n, i)'
  <2>1. CASE n = j.node
    <3>1. i \in removed
      BY <1>4, <1>11, <2>1 DEF WillRemove
    <3>2. ASSUME j.kind = "deleteUnblock" PROVE \E m \in R : m.node = n /\ WillFind(m, i)'
      <4>1. PICK k : R1 = {k} /\ Advanced(j, k) /\ k.todo = removed
        BY <1>7, <3>2
      <4> QED
        BY <2>1, <3>1, <4>1 DEF Advanced, WillFind
    <3> QED
      BY <1>9, <2>1, <3>1, <3>2
  <2>2. CASE n # j.node
    <3>1. j.node = Leader /\ n \in Followers
      BY <1>11, <2>2, NodesFacts DEF WillRemove
    <3>2. PICK m \in ToldJobs(j) : Told(j, m, n)
      BY <1>1, <3>1, ToldFacts
    <3>3. m \in R /\ m.kind = j.kind /\ m.pc = "remove" /\ m.node = n /\ m.reason = j.reason
      BY <1>7, <3>1, <3>2 DEF Told, Same
    <3>4. bad'[n][i] = bad[n][i]
      BY <1>8, <2>2
    <3>5. WillRemove(m, n, i)'
      BY <1>11, <3>3, <3>4 DEF WillRemove, Matches
    <3> QED
      BY <3>3, <3>5
  <2> QED
    BY <2>1, <2>2
<1>12. j.todo = {} /\ j.done = {}
  BY <1>1 DEF JobOK
<1>13. \A i : /\ WillUnblock(j, i) =>
                   j.kind = "deleteUnblock" /\ \E n \in Nodes : WillRemove(j, n, i)
              /\ \A n, p : WillReach(j, n, i, p) /\ p \in {Early, Any} =>
                   j.kind = "deleteUnblock" /\ WillRemove(j, n, i)
  BY <1>1, <1>12 DEF WillUnblock, WillReach, WillFind, At, Early, Any
<1> HIDE DEF R
<1>14. HandsOver(j, R, c)
  <2>1. c[1] = HAProxy /\ WillUnblock(j, c[2]) => \E m \in R : WillUnblock(m, c[2])'
    BY <1>3, <1>11, <1>13 DEF WillUnblock
  <2>2. c[1] # HAProxy /\ WillRemove(j, c[1], c[2]) =>
          bad'[c[1]][c[2]] = "none" \/ \E m \in R : WillRemove(m, c[1], c[2])'
    BY <1>3, <1>11
  <2>3. ASSUME NEW p \in {Early, Any}, c[1] # HAProxy, WillReach(j, c[1], c[2], p)
        PROVE  \E m \in R : WillReach(m, c[1], c[2], p)'
    <3>1. j.kind = "deleteUnblock" /\ WillRemove(j, c[1], c[2])
      BY <1>13, <2>3
    <3>2. \/ \E m \in R : m.node = c[1] /\ WillFind(m, c[2])'
          \/ \E m \in R : m.kind = "deleteUnblock" /\ WillRemove(m, c[1], c[2])'
      BY <1>3, <1>11, <2>3, <3>1
    <3> QED
      BY <3>2 DEF WillReach
  <2> QED
    BY <2>1, <2>2, <2>3 DEF HandsOver
<1>15. R \subseteq jobs' /\ \A m \in R : m.req = j.req
  BY <1>7 DEF Replaced, Fits, R
<1>16. \A l \in jobs \ {j} : l.req = c[4] => Stays(l, c)
  <2> SUFFICES ASSUME NEW l \in jobs \ {j}, l.req = c[4] PROVE Stays(l, c)
    OBVIOUS
  <2>1. l \in jobs'
    BY <1>7 DEF Replaced
  <2> QED
    BY <1>2, <1>8, <2>1, OthersStay
<1> QED
  BY <1>2, <1>10, <1>14, <1>15, <1>16, PromiseStep

\* Nothing is left to keep on the node whose removal failed, and nothing at all if it is
\* the leader's.
LEMMA PromisesRemoveFails ==
  ASSUME TypeOK, JobsInv, PromisesOK, NEW j \in jobs, Handler(j), RemoveFails(j), NEW c \in owed'
  PROVE  PromiseOK(c)'
<1>1. j \in Jobs /\ JobOK(j) /\ j.pc = "remove" /\ j.node \in Nodes
  BY JobTyped DEF JobsInv, PlacesOK, RemoveFails
<1>2. owed' = Withdrawn(IF j.node = Leader THEN Everywhere ELSE {j.node, HAProxy}, IPs)
  BY DEF RemoveFails
<1>3. c \in owed /\ c \in Claims /\ PromiseOK(c)
  BY <1>2, WithdrawnFacts DEF TypeOK, PromisesOK
<1>4. c[2] \in IPs /\ c[1] \in Everywhere
  BY <1>3, ClaimTyped
<1>5. j.node # Leader /\ c[1] \notin {j.node, HAProxy}
  BY <1>2, <1>4, WithdrawnFacts
<1>6. c[1] \in Nodes
  BY <1>3, <1>5, ClaimTyped
<1>7. row' = row /\ act' = act /\ hap' = hap
  BY DEF RemoveFails
<1>8. bad'[c[1]] = bad[c[1]]
  BY <1>1, <1>5, <1>6 DEF RemoveFails, TypeOK
<1>9. Settled(c)
  BY <1>5, <1>7, <1>8 DEF Settled
<1>10. Replaced(j, {})
  BY GoneJobs
<1>11. \A k \in jobs \ {j} : Stays(k, c)
  <2> SUFFICES ASSUME NEW k \in jobs \ {j} PROVE Stays(k, c)
    OBVIOUS
  <2>1. k \in jobs'
    BY <1>10 DEF Replaced
  <2>2. \A n \in Nodes : c[1] \in {n, HAProxy} => n = c[1]
    BY <1>5
  <2> QED
    BY <1>7, <1>8, <2>1, <2>2 DEF Stays, WillRemove, WillFind
<1>12. HandsOver(j, {}, c)
  BY <1>1, <1>5 DEF HandsOver, WillUnblock, WillReach, WillRemove, WillFind, At, Early, Any, JobOK
<1> QED
  BY <1>3, <1>9, <1>11, <1>12, PromiseStep

\* What a request promises when it reaches the leader is the business of its handler.
LEMMA PromisesNew ==
  ASSUME TypeOK, NEW j \in Jobs, JobOK(j), j.pc = "forward", Entered(j) \in jobs',
         UNCHANGED tables, NEW c \in Promise(j)
  PROVE  PromiseOK(c)'
<1> DEFINE k == Entered(j)
<1>1. /\ Same(j, k) /\ k.node = Leader /\ SameWork(j, k) /\ SameAnswer(j, k)
      /\ j.kind \in {"unblock", "unblockGet", "clear"} => k.pc = "haproxy"
      /\ j.kind = "byReason" => k.pc = "collect"
      /\ j.kind \in {"delete", "deleteUnblock"} => k.pc = "remove"
      /\ j.kind \in AllKinds
  BY EnteredFacts
<1>2. k \in jobs' /\ row' = row /\ bad' = bad /\ act' = act /\ hap' = hap
  BY DEF tables
<1> HIDE DEF k
<1>3. k.req = j.req /\ k.kind = j.kind /\ k.reason = j.reason /\ k.ip = j.ip /\ k.asked = {}
  BY <1>1 DEF Same, SameWork, SameAnswer, JobOK
<1>4. Leader \in Nodes /\ HAProxy \notin Nodes
  BY NodesFacts
<1>5. CASE j.kind = "lookup"
  BY <1>5 DEF Promise
<1>6. CASE j.kind \in {"unblock", "unblockGet", "clear"}
  <2>1. PICK w \in Everywhere : c = <<w, j.ip, "all", j.req>>
    BY <1>6 DEF Promise, OfIP
  <2>2. k.pc = "haproxy" /\ k.kind # "deleteUnblock"
    BY <1>1, <1>3, <1>6
  <2>3. WillUnblock(k, j.ip)'
    BY <1>3, <2>2 DEF WillUnblock, At
  <2>4. w \in Nodes => WillReach(k, w, j.ip, Early)' /\ WillReach(k, w, j.ip, Any)'
    BY <1>1, <1>3, <2>2 DEF WillReach, At, Early, Any
  <2> QED
    BY <1>2, <1>3, <2>1, <2>3, <2>4 DEF PromiseOK, HapOwed, RowOwed, ActOwed, Everywhere
<1>7. CASE j.kind = "byReason"
  <2>1. Promise(j) = {<<w, i, "all", j.req>> :
                        w \in Everywhere, i \in UNION {RowMatches(n, j.reason) : n \in Nodes}}
    BY <1>7 DEF Promise, OfIP
  <2>2. PICK w \in Everywhere, n \in Nodes, i \in IPs :
          i \in RowMatches(n, j.reason) /\ c = <<w, i, "all", j.req>>
    BY <2>1 DEF RowMatches
  <2>3. k.pc = "collect" /\ k.kind # "deleteUnblock"
    BY <1>1, <1>3, <1>7
  <2>4. row'[n][i] = k.reason
    BY <1>2, <1>3, <2>2 DEF RowMatches
  <2>5. WillFind(k, i)'
    BY <1>3, <2>3, <2>4 DEF WillFind
  <2>6. WillUnblock(k, i)'
    BY <2>5 DEF WillUnblock
  <2>7. w \in Nodes => WillReach(k, w, i, Early)' /\ WillReach(k, w, i, Any)'
    BY <1>1, <2>3, <2>5 DEF WillReach
  <2> QED
    BY <1>2, <1>3, <2>2, <2>6, <2>7 DEF PromiseOK, HapOwed, RowOwed, ActOwed, Everywhere
<1>8. ASSUME NEW n \in Nodes, NEW i \in BadMatches(n, j.reason), j.kind \in Removals
      PROVE  WillRemove(k, n, i)'
  BY <1>1, <1>2, <1>3, <1>8 DEF WillRemove, BadMatches, Matches, Removals
<1>9. CASE j.kind = "delete"
  <2>1. Promise(j) =
          UNION {{<<n, i, "bad", j.req>> : i \in BadMatches(n, j.reason)} : n \in Nodes}
    BY <1>9 DEF Promise, OfIP
  <2>2. PICK n \in Nodes : \E i \in BadMatches(n, j.reason) : c = <<n, i, "bad", j.req>>
    BY <2>1
  <2>3. PICK i \in BadMatches(n, j.reason) : c = <<n, i, "bad", j.req>>
    BY <2>2
  <2>4. WillRemove(k, n, i)'
    BY <1>8, <1>9 DEF Removals
  <2> QED
    BY <1>2, <1>3, <1>4, <2>3, <2>4 DEF PromiseOK, BadOwed
<1>10. CASE j.kind = "deleteUnblock"
  <2>1. Promise(j) =
          UNION {{<<w, i, "all", j.req>> :
                    w \in {n, HAProxy}, i \in BadMatches(n, j.reason)} : n \in Nodes}
    BY <1>10 DEF Promise, OfIP
  <2>2. PICK n \in Nodes : \E w \in {n, HAProxy}, i \in BadMatches(n, j.reason) :
                             c = <<w, i, "all", j.req>>
    BY <2>1
  <2>3. PICK w \in {n, HAProxy}, i \in BadMatches(n, j.reason) : c = <<w, i, "all", j.req>>
    BY <2>2
  <2>4. WillRemove(k, n, i)' /\ k.kind = "deleteUnblock"
    BY <1>3, <1>8, <1>10 DEF Removals
  <2>5. WillUnblock(k, i)' /\ WillReach(k, n, i, Early)' /\ WillReach(k, n, i, Any)'
    BY <2>4 DEF WillUnblock, WillReach
  <2> QED
    BY <1>2, <1>3, <1>4, <2>3, <2>5 DEF PromiseOK, HapOwed, RowOwed, ActOwed
<1> QED
  BY <1>1, <1>5, <1>6, <1>7, <1>9, <1>10 DEF AllKinds

LEMMA PromisesSubmit ==
  ASSUME TypeOK, JobsInv, PromisesOK, NEW r \in Requests, Submit(r), NEW c \in owed'
  PROVE  PromiseOK(c)'
<1>1. PICK j, k :
        /\ j \in Jobs /\ JobOK(j) /\ j.pc = "forward"
        /\ jobs' = jobs \cup {k}
        /\ \/ k = j /\ owed' = owed
           \/ k = Entered(j) /\ owed' = owed \cup Promise(j)
  BY SubmitJobs
<1>2. UNCHANGED tables
  BY DEF Submit
<1>3. CASE c \in owed
  <2>1. c \in Claims /\ PromiseOK(c)
    BY <1>3 DEF TypeOK, PromisesOK
  <2>2. Settled(c)
    BY <1>2 DEF Settled, tables
  <2>3. \A l \in jobs : Stays(l, c)
    BY <1>1, <1>2 DEF Stays, WillRemove, WillFind, tables
  <2> QED
    BY <2>1, <2>2, <2>3, PromiseStays
<1>4. CASE c \notin owed
  BY <1>1, <1>2, <1>4, PromisesNew
<1> QED
  BY <1>3, <1>4

LEMMA PromisesHandler ==
  ASSUME TypeOK, JobsInv, PromisesOK, NEW j \in jobs, Handler(j)
  PROVE  PromisesOK'
<1> SUFFICES ASSUME NEW c \in owed'
             PROVE  PromiseOK(c)'
  BY DEF PromisesOK
<1>1. CASE Forward(j)
  <2>1. j \in Jobs /\ JobOK(j) /\ j.pc = "forward"
    BY <1>1 DEF Forward, JobsInv, PlacesOK
  <2>2. Entered(j) \in jobs' /\ UNCHANGED tables /\ owed' = owed \cup Promise(j)
    BY <1>1 DEF Forward
  <2>3. CASE c \in owed
    BY <1>1, <2>3, PromisesIdle
  <2>4. CASE c \in Promise(j)
    BY <2>1, <2>2, <2>4, PromisesNew
  <2> QED
    BY <2>2, <2>3, <2>4
<1>2. CASE ForwardFails(j) \/ Wait(j) \/ Query(j) \/ QueryFails(j) \/ Render(j)
  <2>1. owed' = owed
    BY <1>2 DEF ForwardFails, Wait, Query, QueryFails, Render
  <2> QED
    BY <1>2, <2>1, PromisesIdle
<1>3. CASE HapRemove(j) \/ HapSkipped(j)
  BY <1>3, PromisesHap
<1>4. CASE HapFails(j)
  BY <1>4, PromisesHapFails
<1>5. CASE Persist(j)
  BY <1>5, PromisesPersist
<1>6. CASE PersistFails(j) \/ PersistHalf(j)
  BY <1>6, PromisesPersistFails
<1>7. CASE ClearActivity(j)
  BY <1>7, PromisesClear
<1>8. CASE Lost(j)
  BY <1>8, PromisesLost
<1>9. CASE TimedOut(j)
  BY <1>9, PromisesTimedOut
<1>10. CASE Collect(j) \/ CollectFails(j)
  BY <1>10, PromisesCollect
<1>11. CASE Remove(j)
  BY <1>11, PromisesRemove
<1>12. CASE RemoveFails(j)
  BY <1>12, PromisesRemoveFails
<1>13. CASE NextIP(j)
  BY <1>13, PromisesNextIP
<1> QED
  BY <1>1, <1>2, <1>3, <1>4, <1>5, <1>6, <1>7, <1>8, <1>9, <1>10, <1>11, <1>12, <1>13 DEF Handler

\* A record that appears after the request takes its claims back; a list that is being made
\* finds what it would have found.
LEMMA PromisesOthers ==
  ASSUME TypeOK, JobsInv, PromisesOK, Others
  PROVE  PromisesOK'
<1>0. jobs' = jobs
  BY OthersJobs
<1> SUFFICES ASSUME NEW c \in owed'
             PROVE  PromiseOK(c)'
  BY DEF PromisesOK
<1>1. c \in owed /\ c \in Claims /\ PromiseOK(c)
  BY OthersTables DEF TypeOK, PromisesOK
<1>2. c[2] \in IPs /\ (c[1] # HAProxy => c[1] \in Nodes) /\ c[1] \in Everywhere
  BY <1>1, ClaimTyped
<1>3. \A k \in jobs :
        /\ k.pc = "collect" => k.reason \in Reasons
        /\ k.pc = "remove" => k.reason \in Reasons \cup {"all"}
  BY JobTyped DEF JobsInv, PlacesOK, JobOK, PlacesOf, AllKinds
<1>4. ASSUME NEW n \in Nodes, NEW i \in IPs,
             hap' = hap, owed' = Redecided(n, i),
             \A m \in Nodes : \A l \in IPs : ~(m = n /\ l = i) =>
               row'[m][l] = row[m][l] /\ bad'[m][l] = bad[m][l] /\ act'[m][l] = act[m][l]
      PROVE  PromiseOK(c)'
  <2>1. c[1] \in {n, HAProxy} => c[2] # i
    BY <1>4, RedecidedFacts
  <2>2. Settled(c)
    BY <1>2, <1>4, <2>1 DEF Settled
  <2>3. \A k \in jobs : Stays(k, c)
    <3> SUFFICES ASSUME NEW k \in jobs PROVE Stays(k, c)
      OBVIOUS
    <3>1. CASE c[2] # i
      BY <1>0, <1>2, <1>4, <3>1 DEF Stays, WillRemove, WillFind
    <3>2. CASE c[2] = i
      <4>1. k.pc \notin {"collect", "remove"}
        BY <1>2, <1>4, <3>2, RedecidedFacts
      <4> QED
        BY <1>0, <4>1 DEF Stays, WillRemove, WillFind
    <3> QED
      BY <3>1, <3>2
  <2> QED
    BY <1>1, <2>2, <2>3, PromiseStays
<1>5. ASSUME NEW n \in Nodes, NEW i \in IPs, NEW r \in Reasons, Decide(n, i, r)
      PROVE  PromiseOK(c)'
  <2>1. /\ hap' = hap /\ owed' = Redecided(n, i)
        /\ \A m \in Nodes : \A l \in IPs : ~(m = n /\ l = i) =>
             row'[m][l] = row[m][l] /\ bad'[m][l] = bad[m][l] /\ act'[m][l] = act[m][l]
    BY <1>5 DEF Decide, TypeOK
  <2> QED
    BY <1>4, <2>1
<1>6. ASSUME NEW n \in Nodes, NEW i \in IPs, BlockRuns(n, i)
      PROVE  PromiseOK(c)'
  <2>1. /\ hap' = hap \cup {i} /\ owed' = Withdrawn({HAProxy}, {i})
        /\ row' = row /\ bad' = bad /\ act' = act
    BY <1>6 DEF BlockRuns
  <2>2. c[1] = HAProxy => c[2] # i
    BY <2>1, WithdrawnFacts
  <2>3. Settled(c)
    BY <2>1, <2>2 DEF Settled
  <2>4. \A k \in jobs : Stays(k, c)
    BY <1>0, <2>1 DEF Stays, WillRemove, WillFind
  <2> QED
    BY <1>1, <2>3, <2>4, PromiseStays
<1>7. ASSUME NEW n \in Nodes, NEW src \in Nodes, Receive(n, src)
      PROVE  PromiseOK(c)'
  <2>1. hap' = hap /\ row' = row /\ bad' = bad /\ act' = act
    BY <1>7 DEF Receive, tables
  <2>2. Settled(c)
    BY <2>1 DEF Settled
  <2>3. \A k \in jobs : Stays(k, c)
    BY <1>0, <2>1 DEF Stays, WillRemove, WillFind
  <2> QED
    BY <1>1, <2>2, <2>3, PromiseStays
<1>8. ASSUME NEW n \in Nodes, NEW rec \in inbox[n], ApplyRow(n, rec)
      PROVE  PromiseOK(c)'
  <2>1. rec[2] \in IPs
    BY <1>8 DEF TypeOK, Records
  <2>2. /\ hap' = hap /\ bad' = bad /\ act' = act /\ owed' = Withdrawn({n}, {rec[2]})
        /\ \A m \in Nodes : \A l \in IPs :
             /\ ~(m = n /\ l = rec[2]) => row'[m][l] = row[m][l]
             /\ row[m][l] # "none" => row'[m][l] = row[m][l]
    BY <1>8 DEF ApplyRow, TypeOK
  <2>3. c[1] = n => c[2] # rec[2]
    BY <2>2, WithdrawnFacts
  <2>4. Settled(c)
    BY <1>2, <2>2, <2>3 DEF Settled
  <2>5. \A k \in jobs : Stays(k, c)
    <3> SUFFICES ASSUME NEW k \in jobs PROVE Stays(k, c)
      OBVIOUS
    <3>1. k.pc = "collect" => k.reason # "none"
      BY <1>3, ApiAssumption
    <3> QED
      BY <1>0, <1>2, <2>2, <3>1 DEF Stays, WillRemove, WillFind
  <2> QED
    BY <1>1, <2>4, <2>5, PromiseStays
<1>9. ASSUME NEW n \in Nodes, NEW rec \in inbox[n], ApplyBadActor(n, rec)
      PROVE  PromiseOK(c)'
  <2>1. rec[2] \in IPs
    BY <1>9 DEF TypeOK, Records
  <2>2. CASE bad[n][rec[2]] # "none"
    <3>1. hap' = hap /\ row' = row /\ bad' = bad /\ act' = act
      BY <1>9, <2>2 DEF ApplyBadActor
    <3>2. Settled(c)
      BY <3>1 DEF Settled
    <3>3. \A k \in jobs : Stays(k, c)
      BY <1>0, <3>1 DEF Stays, WillRemove, WillFind
    <3> QED
      BY <1>1, <3>2, <3>3, PromiseStays
  <2>3. CASE bad[n][rec[2]] = "none"
    <3>1. /\ hap' = hap /\ owed' = Redecided(n, rec[2])
          /\ \A m \in Nodes : \A l \in IPs : ~(m = n /\ l = rec[2]) =>
               row'[m][l] = row[m][l] /\ bad'[m][l] = bad[m][l] /\ act'[m][l] = act[m][l]
      BY <1>9, <2>3 DEF ApplyBadActor, TypeOK
    <3> QED
      BY <1>4, <2>1, <3>1
  <2> QED
    BY <2>2, <2>3
<1> QED
  BY <1>5, <1>6, <1>7, <1>8, <1>9 DEF Others

(***************************************************************************)
(* The theorems                                                            *)
(***************************************************************************)

LEMMA InitHolds ==
  ApiInit => ApiInv
<1> SUFFICES ASSUME ApiInit PROVE ApiInv
  OBVIOUS
<1>1. /\ hap = {i \in IPs : \E n \in Nodes : row[n][i] # "none"}
      /\ pend = [n \in Nodes |-> {}] /\ inbox = [n \in Nodes |-> {}] /\ jobs = {}
      /\ used = [requests |-> 0, decisions |-> 0, faults |-> 0] /\ owed = {}
  BY DEF ApiInit
<1>2. PICK k \in [Nodes -> [IPs -> Known]] :
        /\ row = [n \in Nodes |-> [i \in IPs |-> k[n][i][1]]]
        /\ bad = [n \in Nodes |-> [i \in IPs |-> k[n][i][2]]]
        /\ act = [n \in Nodes |-> [i \in IPs |-> k[n][i][3]]]
  BY DEF ApiInit
<1>3. \A x \in Known : x[1] \in Words /\ x[2] \in Words /\ x[3] \in {"none", "seen", "blocked"}
  BY DEF Known, Words
<1>4. \A n \in Nodes : \A i \in IPs :
        /\ k[n][i][1] \in Words /\ k[n][i][2] \in Words
        /\ k[n][i][3] \in {"none", "seen", "blocked"}
  BY <1>3
<1>5. /\ row \in [Nodes -> [IPs -> Words]] /\ bad \in [Nodes -> [IPs -> Words]]
      /\ act \in [Nodes -> [IPs -> {"none", "seen", "blocked"}]]
  BY <1>2, <1>4
<1>6. TypeOK
  BY <1>1, <1>5 DEF TypeOK
<1>7. RecordsOK
  BY <1>1 DEF RecordsOK, HasRow
<1> QED
  BY <1>1, <1>6, <1>7 DEF ApiInv, PlacesOK, RequestsOK, AnswersOK, PromisesOK

LEMMA NextHolds ==
  ASSUME ApiInv, [ApiNext]_apiVars
  PROVE  ApiInv'
<1>1. TypeOK /\ JobsInv /\ RecordsOK /\ AnswersOK /\ PromisesOK
  BY DEF ApiInv, JobsInv, TypeOK
<1>2. TypeOK' /\ PlacesOK' /\ RequestsOK'
  BY <1>1, TypeKept DEF JobsInv
<1>3. RecordsOK' /\ AnswersOK' /\ PromisesOK'
  <2>1. CASE Others
    BY <1>1, <2>1, RecordsOthers, AnswersOthers, PromisesOthers
  <2>2. CASE \E r \in Requests : Submit(r)
    <3>1. PICK r \in Requests : Submit(r)
      BY <2>2
    <3>2. PromisesOK'
      BY <1>1, <3>1, PromisesSubmit DEF PromisesOK
    <3> QED
      BY <1>1, <3>1, <3>2, RecordsSubmit, AnswersSubmit
  <2>3. CASE \E j \in jobs : Handler(j)
    <3>1. PICK j \in jobs : Handler(j)
      BY <2>3
    <3>2. RecordsOK'
      BY <1>1, <3>1, RecordsRemoval, RecordsPersist, RecordsClear, RecordsLists, RecordsRest
      DEF Handler
    <3> QED
      BY <1>1, <3>1, <3>2, AnswersHandler, PromisesHandler
  <2>4. CASE UNCHANGED apiVars
    <3>1. RecordsOK'
      BY <1>1, <2>4 DEF apiVars, RecordsOK, HasRow, Stripped, Unblocked
    <3>2. AnswersOK'
      BY <1>1, <2>4 DEF apiVars, AnswersOK, AnswerOK, Owed, Late, Awaited
    <3>3. PromisesOK'
      BY <1>1, <2>4
      DEF apiVars, PromisesOK, PromiseOK, HapOwed, BadOwed, RowOwed, ActOwed, WillUnblock,
          WillReach, WillRemove, WillFind, At
    <3> QED
      BY <3>1, <3>2, <3>3
  <2> QED
    BY <2>1, <2>2, <2>3, <2>4 DEF ApiNext
<1> QED
  BY <1>2, <1>3 DEF ApiInv

\* Every request is always at a place of its handler, what it promised and has not done is
\* the business of a job of its own, and every block has a record or is loose: the inductive
\* invariant holds in every reachable state.
THEOREM Invariance == ApiSpec => []ApiInv
<1>1. ApiInit => ApiInv
  BY InitHolds
<1>2. ApiInv /\ [ApiNext]_apiVars => ApiInv'
  BY NextHolds
<1> QED
  BY <1>1, <1>2, PTL DEF ApiSpec

\* An IP that HAProxy blocks when all handlers and broadcasts have ended has a row on some
\* node, whatever removals, decisions and synchronisations ran side by side, unless a removal
\* overlapped with a block of the IP or HAProxy was skipped without an error.
THEOREM BlocksHaveRecords == ApiSpec => []BlockHasRecord
<1>1. ApiInv => BlockHasRecord
  BY DEF ApiInv, RecordsOK, HasRow, BlockHasRecord
<1> QED
  BY <1>1, Invariance, PTL

\* GET /ip/{ip}/unblock shows a node as blocking the IP it has just unblocked only if the IP
\* was blocked again, or the node's removal failed, was lost or was given up.
THEOREM UnblockIsShown == ApiSpec => []ReadYourUnblock
<1>1. ApiInv => ReadYourUnblock
  <2> SUFFICES ASSUME ApiInv, NEW j \in jobs, j.kind = "unblockGet",
                      ClusterStatus(j.status) \in {"blocked", "mixed"}
               PROVE  \/ <<HAProxy, j.ip, "all", j.req>> \notin owed
                      \/ \E n \in Nodes :
                           /\ j.status[n] = "blocked"
                           /\ <<j.req, n>> \in late \/ <<n, j.ip, "all", j.req>> \notin owed
    BY DEF ReadYourUnblock
  <2>1. PICK n \in Nodes : j.status[n] = "blocked"
    BY DEF ClusterStatus
  <2>2. AnswerOK(j)
    BY DEF ApiInv, AnswersOK
  <2> QED
    BY <2>1, <2>2 DEF AnswerOK, Owed, Late
<1> QED
  BY <1>1, Invariance, PTL

\* When every handler and broadcast has ended, what the requests promised is gone, from
\* HAProxy and from the tables and memory of every node, unless it was taken back: for any
\* number of requests side by side, in any order of their steps.
THEOREM PromisesAreKept == ApiSpec => []PromisesKept
<1>1. ApiInv => PromisesKept
  <2> SUFFICES ASSUME ApiInv, jobs = {}, NEW c \in owed
               PROVE  Honoured(c)
    BY DEF PromisesKept, Quiet
  <2>1. PromiseOK(c) /\ c[3] \in {"all", "bad"}
    BY ClaimTyped DEF ApiInv, PromisesOK, TypeOK
  <2>2. CASE c[1] = HAProxy
    BY <2>1, <2>2 DEF PromiseOK, HapOwed, Honoured
  <2>3. CASE c[1] # HAProxy /\ c[3] = "bad"
    BY <2>1, <2>3 DEF PromiseOK, BadOwed, Honoured
  <2>4. CASE c[1] # HAProxy /\ c[3] = "all"
    BY <2>1, <2>4 DEF PromiseOK, RowOwed, ActOwed, Honoured
  <2> QED
    BY <2>1, <2>2, <2>3, <2>4
<1> QED
  BY <1>1, Invariance, PTL
=============================================================================
