-------------------------- MODULE EnforcementProofs --------------------------
(***************************************************************************)
(* Machine-checked facts about the way from a decision to HAProxy, for any *)
(* number of backends, IPs, tables, decisions, failures, resyncs and ticks *)
(* of the clock.                                                           *)
(***************************************************************************)
EXTENDS Enforcement, TLAPS

(***************************************************************************)
(* The inductive invariant                                                 *)
(*                                                                         *)
(* Its parts take the values they speak of as arguments: ip and b are an   *)
(* IP and a backend, r the row that counts for the IP, u the call of the   *)
(* worker that has still to reach b, q the queue, o the commands that      *)
(* decision makers have still to hand over, rs the resyncs, and e the      *)
(* entries of the IP on b.                                                 *)
(***************************************************************************)

\* What holes may say.
Notes == (IPs \X Causes) \cup Unread

\* None of the causes in holes applies to the IP.
Clean(ip, h) == \A c \in Causes : <<ip, c>> \notin h

\* The decision maker is at work on the IP.
Busy(m, ip, p) == p[m].phase # "idle" /\ p[m].cmd.ip = ip

\* The row that HAProxy is to follow: the one that is there, or the one that the
\* API or a peer's bad actor is about to leave behind.
Row(ip, d, p) ==
  IF Busy("api", ip, p) THEN NoRow
  ELSE IF Busy("peer", ip, p) THEN BlockedRow(BadActorDuration)
  ELSE d[ip]

InForce(r) == r.state = "blocked" /\ r.left > 0

\* A backend that has run the command does what the row says.
Serves(c, ip, r) ==
  /\ c.ip = ip
  /\ r.state = "blocked" => c.kind = "block" /\ Lifetime[TableFor(c.dur)] >= r.left
  /\ r.state = "unblocked" => c.kind = "unblock"

\* The command takes away what the row says.
Contradicts(c, ip, r) ==
  /\ c.ip = ip
  /\ \/ InForce(r) /\ c.kind = "unblock"
     \/ r.state = "unblocked" /\ c.kind = "block"

\* Commands on their way to b, in three places: the worker, the queue, the makers.
Command(call) == [kind |-> call.kind, ip |-> call.ip, dur |-> call.dur]
Under(b, cs) == IF b \in cs["worker"].sent THEN {Command(cs["worker"])} ELSE {}

Owed(ip, p) ==
  {p[m].cmd : m \in {n \in Makers : p[n].phase \in {"queue", "promote"} /\ p[n].cmd.ip = ip}}

\* A command behind the first i of the queue serves the row.
ServedAfter(i, q, o, ip, r) ==
  \/ \E j \in i + 1 .. Len(q) : Serves(q[j], ip, r)
  \/ \E c \in o : Serves(c, ip, r)

\* What contradicts the row has a command behind it that serves the row.
EndsWell(u, q, o, ip, r) ==
  /\ \A c \in u : Contradicts(c, ip, r) => ServedAfter(0, q, o, ip, r)
  /\ \A i \in 1 .. Len(q) : Contradicts(q[i], ip, r) => ServedAfter(i, q, o, ip, r)
  /\ \A c \in o : ~Contradicts(c, ip, r)

Brings(u, q, o, ip, r) ==
  \/ \E c \in u : Serves(c, ip, r)
  \/ ServedAfter(0, q, o, ip, r)

\* A resync of b, x, will send, or clear, the entry; or has yet to read the database.
Sending(x, b, ip, t) == x.b = b /\ x.phase = "block" /\ <<ip, t>> \in x.blocks
Clearing(x, b, ip, t) ==
  x.b = b /\ x.phase \in {"block", "unblock"} /\ <<ip, t>> \in x.unblocks
Asking(x, b) == x.b = b /\ x.phase = "query"

Sends(rs, b, ip, t) == \E s \in Slots : Sending(rs[s], b, ip, t)
Clears(rs, b, ip, t) == \E s \in Slots : Clearing(rs[s], b, ip, t)
Asks(rs, b) == \E s \in Slots : Asking(rs[s], b)

\* No resync of b works against the row.
ResyncsAgree(b, ip, r, rs) ==
  \A t \in Tables :
    /\ r.state = "blocked" => ~Clears(rs, b, ip, t)
    /\ r.state = "unblocked" => ~Sends(rs, b, ip, t)

\* b does what the row says, or something on its way will make it.
WillReflect(b, ip, r, u, q, o, rs, e) ==
  \/ Brings(u, q, o, ip, r)
  \/ /\ InForce(r) => \E t \in Tables :
          e[t] >= r.left \/ (Sends(rs, b, ip, t) /\ Lifetime[t] >= r.left)
     /\ r.state = "unblocked" => \A t \in Tables : e[t] = 0 \/ Clears(rs, b, ip, t)

\* Why b may differ: it is believed unhealthy, missed a command, or is about to be
\* brought up to date.
Behind(b, ip, hl, ms, rs) == ~hl[b].ok \/ ip \in ms[b] \/ Asks(rs, b)

Consistent(b, ip, r, u, q, o, rs, e, behind) ==
  /\ EndsWell(u, q, o, ip, r)
  /\ ResyncsAgree(b, ip, r, rs)
  /\ ~behind => WillReflect(b, ip, r, u, q, o, rs, e)

\* The same of the state the system is in.
Here(b, ip) ==
  Consistent(b, ip, Row(ip, db, pcs), Under(b, calls), queue, Owed(ip, pcs), resync,
             left[b][ip], Behind(b, ip, health, missed, resync))

AllConsistent == \A b \in Backends, ip \in IPs : Clean(ip, holes) => Here(b, ip)

\* Two makers at work on one IP leave a hole.
Alone(ip, p) == \A m, n \in Makers : m # n => ~(Busy(m, ip, p) /\ Busy(n, ip, p))

AllAlone == \A ip \in IPs : Clean(ip, holes) => Alone(ip, pcs)

\* While a promotion waits for its long block, the row is a block.
PromotionOK ==
  \A ip \in IPs :
    Clean(ip, holes) /\ Busy("checker", ip, pcs) /\ pcs["checker"].phase = "promote" =>
      pcs["checker"].cmd.kind = "block" /\ db[ip].state = "blocked"

\* The phases each maker has.
PhasesOK ==
  /\ pcs["checker"].phase \in {"idle", "promote", "queue"}
  /\ pcs["reload"].phase \in {"idle", "queue"}
  /\ pcs["peer"].phase \in {"idle", "write"}
  /\ pcs["api"].phase \in {"idle", "call", "write"}

\* A call of the worker is about the command it took, one of the API about the
\* IP it unblocks.
CallsOK ==
  /\ calls["worker"].busy => inflight # <<>> /\ calls["worker"].kind # "none"
  /\ calls["api"].busy =>
       /\ pcs["api"].phase = "call" /\ pcs["api"].cmd.ip = calls["api"].ip
       /\ calls["api"].kind = "unblock"

EnforcementInv ==
  EnfTypeOK /\ PhasesOK /\ CallsOK /\ AllAlone /\ PromotionOK /\ AllConsistent

(***************************************************************************)
(* Facts about commands on their way                                       *)
(***************************************************************************)

\* A command cannot both serve a row and contradict it.
LEMMA ServersAgree ==
  ASSUME NEW c, NEW ip, NEW r, Serves(c, ip, r)
  PROVE  ~Contradicts(c, ip, r)
BY DEF Serves, Contradicts, InForce

\* A command that serves the row, behind everything else in the queue, settles it.
LEMMA QueuedServerSettles ==
  ASSUME NEW C, NEW q \in Seq(C), NEW c \in C, NEW u, NEW o, NEW ip, NEW r,
         Serves(c, ip, r),
         \A d \in o : ~Contradicts(d, ip, r)
  PROVE  /\ EndsWell(u, Append(q, c), o, ip, r)
         /\ Brings(u, Append(q, c), o, ip, r)
<1> DEFINE p == Append(q, c)
<1>1. Len(p) = Len(q) + 1 /\ Len(q) \in Nat /\ p[Len(q) + 1] = c
  OBVIOUS
<1>2. \A i \in 0 .. Len(q) : ServedAfter(i, p, o, ip, r)
  BY <1>1 DEF ServedAfter
<1>3. ~Contradicts(p[Len(q) + 1], ip, r)
  BY <1>1, ServersAgree
<1> HIDE DEF p
<1>4. \A i \in 1 .. Len(p) : Contradicts(p[i], ip, r) => i \in 0 .. Len(q)
  BY <1>1, <1>3
<1>5. 0 \in 0 .. Len(q)
  BY <1>1
<1> QED
  BY <1>2, <1>4, <1>5 DEF EndsWell, Brings, p

\* So does one that a decision maker has in hand.
LEMMA OwedServerSettles ==
  ASSUME NEW q, NEW c, NEW u, NEW ip, NEW r, Serves(c, ip, r)
  PROVE  /\ EndsWell(u, q, {c}, ip, r)
         /\ Brings(u, q, {c}, ip, r)
BY ServersAgree DEF EndsWell, Brings, ServedAfter

\* A command in hand is handed over: it stays behind all others.
LEMMA HandedOver ==
  ASSUME NEW C, NEW q \in Seq(C), NEW c \in C, NEW u, NEW ip, NEW r
  PROVE  /\ EndsWell(u, q, {c}, ip, r) => EndsWell(u, Append(q, c), {}, ip, r)
         /\ Brings(u, q, {c}, ip, r) => Brings(u, Append(q, c), {}, ip, r)
<1> DEFINE p == Append(q, c)
<1>1. /\ Len(p) = Len(q) + 1 /\ Len(q) \in Nat /\ p[Len(q) + 1] = c
      /\ \A i \in 1 .. Len(q) : p[i] = q[i]
  OBVIOUS
<1> HIDE DEF p
<1>2. ASSUME NEW i \in 0 .. Len(q), ServedAfter(i, q, {c}, ip, r)
      PROVE  ServedAfter(i, p, {}, ip, r)
  BY <1>1, <1>2 DEF ServedAfter
<1>3. 0 \in 0 .. Len(q)
  BY <1>1
<1>4. ASSUME EndsWell(u, q, {c}, ip, r)
      PROVE  EndsWell(u, p, {}, ip, r)
  <2>1. ~Contradicts(c, ip, r)
    BY <1>4 DEF EndsWell
  <2>2. ASSUME NEW i \in 1 .. Len(p), Contradicts(p[i], ip, r)
        PROVE  ServedAfter(i, p, {}, ip, r)
    <3>1. i \in 1 .. Len(q) /\ i \in 0 .. Len(q)
      BY <1>1, <2>1, <2>2
    <3> QED
      BY <1>1, <1>2, <1>4, <2>2, <3>1 DEF EndsWell
  <2> QED
    BY <1>2, <1>3, <1>4, <2>2 DEF EndsWell
<1> QED
  BY <1>2, <1>3, <1>4 DEF Brings, p

\* A command about another IP changes nothing for this one.
LEMMA OthersPass ==
  ASSUME NEW C, NEW q \in Seq(C), NEW c \in C, NEW u, NEW o, NEW ip, NEW r, c.ip # ip
  PROVE  /\ EndsWell(u, q, o, ip, r) => EndsWell(u, Append(q, c), o, ip, r)
         /\ Brings(u, q, o, ip, r) => Brings(u, Append(q, c), o, ip, r)
<1> DEFINE p == Append(q, c)
<1>1. /\ Len(p) = Len(q) + 1 /\ Len(q) \in Nat /\ p[Len(q) + 1] = c
      /\ \A i \in 1 .. Len(q) : p[i] = q[i]
  OBVIOUS
<1> HIDE DEF p
<1>2. ASSUME NEW i \in 0 .. Len(q), ServedAfter(i, q, o, ip, r)
      PROVE  ServedAfter(i, p, o, ip, r)
  BY <1>1, <1>2 DEF ServedAfter
<1>3. 0 \in 0 .. Len(q)
  BY <1>1
<1>4. ASSUME EndsWell(u, q, o, ip, r)
      PROVE  EndsWell(u, p, o, ip, r)
  <2>1. ~Contradicts(c, ip, r)
    BY DEF Contradicts
  <2>2. ASSUME NEW i \in 1 .. Len(p), Contradicts(p[i], ip, r)
        PROVE  ServedAfter(i, p, o, ip, r)
    <3>1. i \in 1 .. Len(q) /\ i \in 0 .. Len(q)
      BY <1>1, <2>1, <2>2
    <3> QED
      BY <1>1, <1>2, <1>4, <2>2, <3>1 DEF EndsWell
  <2> QED
    BY <1>2, <1>3, <1>4, <2>2 DEF EndsWell
<1> QED
  BY <1>2, <1>3, <1>4 DEF Brings, p

\* The worker takes the first command, for b or not.
LEMMA HeadTaken ==
  ASSUME NEW C, NEW q \in Seq(C), q # <<>>, NEW c, NEW o, NEW ip, NEW r,
         c.kind = Head(q).kind, c.ip = Head(q).ip, c.dur = Head(q).dur
  PROVE  /\ EndsWell({}, q, o, ip, r) => EndsWell({}, Tail(q), o, ip, r)
         /\ EndsWell({}, q, o, ip, r) => EndsWell({c}, Tail(q), o, ip, r)
         /\ Brings({}, q, o, ip, r) => Brings({c}, Tail(q), o, ip, r)
         /\ Head(q).ip # ip /\ Brings({}, q, o, ip, r) => Brings({}, Tail(q), o, ip, r)
<1> DEFINE p == Tail(q)
<1>1. /\ Len(p) = Len(q) - 1 /\ Len(q) \in Nat /\ Len(q) # 0 /\ Head(q) = q[1]
      /\ \A i \in 1 .. Len(p) : p[i] = q[i + 1]
  OBVIOUS
<1>2. /\ Contradicts(c, ip, r) <=> Contradicts(q[1], ip, r)
      /\ Serves(c, ip, r) <=> Serves(q[1], ip, r)
  BY <1>1 DEF Contradicts, Serves
<1> HIDE DEF p
<1>3. ASSUME NEW i \in 0 .. Len(p), ServedAfter(i + 1, q, o, ip, r)
      PROVE  ServedAfter(i, p, o, ip, r)
  <2>1. CASE \E d \in o : Serves(d, ip, r)
    BY <2>1 DEF ServedAfter
  <2>2. ASSUME NEW j \in i + 2 .. Len(q), Serves(q[j], ip, r)
        PROVE  ServedAfter(i, p, o, ip, r)
    <3>1. j - 1 \in i + 1 .. Len(p) /\ j - 1 \in 1 .. Len(p) /\ p[j - 1] = q[j]
      BY <1>1
    <3> QED
      BY <2>2, <3>1 DEF ServedAfter
  <2>3. (i + 1) + 1 = i + 2
    BY <1>1
  <2> QED
    BY <1>3, <2>1, <2>2, <2>3 DEF ServedAfter
<1>4. ASSUME EndsWell({}, q, o, ip, r), NEW i \in 1 .. Len(p), Contradicts(p[i], ip, r)
      PROVE  ServedAfter(i, p, o, ip, r)
  <2>1. i + 1 \in 1 .. Len(q) /\ i \in 0 .. Len(p) /\ p[i] = q[i + 1]
    BY <1>1
  <2> QED
    BY <1>3, <1>4, <2>1 DEF EndsWell
<1>5. 0 \in 0 .. Len(p) /\ 1 \in 1 .. Len(q) /\ 0 + 1 = 1
  BY <1>1
<1>6. EndsWell({}, q, o, ip, r) /\ Contradicts(q[1], ip, r) => ServedAfter(0, p, o, ip, r)
  BY <1>3, <1>5 DEF EndsWell
<1>7. ServedAfter(0, q, o, ip, r) => Serves(q[1], ip, r) \/ ServedAfter(0, p, o, ip, r)
  <2>1. ASSUME NEW j \in 0 + 1 .. Len(q), Serves(q[j], ip, r), j # 1
        PROVE  ServedAfter(1, q, o, ip, r)
    <3>1. j \in 1 + 1 .. Len(q)
      BY <1>1, <2>1
    <3> QED
      BY <2>1, <3>1 DEF ServedAfter
  <2>2. ServedAfter(0, q, o, ip, r) => Serves(q[1], ip, r) \/ ServedAfter(1, q, o, ip, r)
    BY <2>1 DEF ServedAfter
  <2> QED
    BY <2>2, <1>3, <1>5
<1>8. Head(q).ip # ip => ~Serves(q[1], ip, r)
  BY <1>1 DEF Serves
<1> QED
  BY <1>2, <1>4, <1>6, <1>7, <1>8 DEF EndsWell, Brings, p

(***************************************************************************)
(* Constants                                                               *)
(***************************************************************************)

\* The commands that decision makers use are live commands, about an IP.
LEMMA CommandFacts ==
  /\ \A ip \in IPs : UnblockCmd(ip) \in LiveCommands
  /\ \A ip \in IPs, d \in BlockDurations \cup {BadActorDuration} :
       BlockCmd(ip, d) \in LiveCommands
  /\ \A c \in LiveCommands : c.ip \in IPs /\ c.kind \in {"block", "unblock"} /\ c.dur \in Nat
<1> DEFINE Durs == BlockDurations \cup {BadActorDuration}
<1>1. Durs \subseteq Nat
  BY EnforcementAssumption DEF EnforcementAssumption
<1>2. LiveCommands = {BlockCmd(ip, d) : ip \in IPs, d \in Durs} \cup {UnblockCmd(ip) : ip \in IPs}
  BY EnforcementAssumption DEF EnforcementAssumption
<1>3. /\ \A ip \in IPs : UnblockCmd(ip) \in LiveCommands
      /\ \A ip \in IPs, d \in Durs : BlockCmd(ip, d) \in LiveCommands
  BY <1>2
<1> HIDE DEF Durs
<1>4. ASSUME NEW c \in LiveCommands
      PROVE  c.ip \in IPs /\ c.kind \in {"block", "unblock"} /\ c.dur \in Nat
  <2>1. CASE \E ip \in IPs, d \in Durs : c = BlockCmd(ip, d)
    BY <1>1, <2>1 DEF BlockCmd
  <2>2. CASE \E ip \in IPs : c = UnblockCmd(ip)
    BY <2>2 DEF UnblockCmd
  <2> QED
    BY <1>2, <2>1, <2>2
<1> QED
  BY <1>3, <1>4 DEF Durs

\* A table lives at least as long as the duration it is chosen for.
LEMMA TableFacts ==
  /\ Fallback \in Tables
  /\ \A t \in Tables : Lifetime[t] \in Nat \ {0}
  /\ \A d \in Nat : TableFor(d) \in Tables
  /\ \A d \in Nat : d <= Lifetime[Fallback] => Lifetime[TableFor(d)] >= d
<1>1. Fallback \in Tables /\ \A t \in Tables : Lifetime[t] \in Nat \ {0}
  BY HAProxyAssumption DEF HAProxyAssumption, Fallback
<1>2. ASSUME NEW d \in Nat
      PROVE  TableFor(d) \in Tables /\ (d <= Lifetime[Fallback] => Lifetime[TableFor(d)] >= d)
  <2>1. CASE \E t \in Tables : Lifetime[t] = d
    BY <2>1 DEF TableFor
  <2>2. CASE ~\E t \in Tables : Lifetime[t] = d
    BY <1>1, <2>2 DEF TableFor
  <2> QED
    BY <2>1, <2>2
<1> QED
  BY <1>1, <1>2

\* A block for a duration of the configuration is a block of that length.
LEMMA DurationFacts ==
  \A d \in BlockDurations \cup {BadActorDuration} :
    /\ d \in Nat \ {0} /\ d <= Lifetime[Fallback]
    /\ \A ip \in IPs : Serves(BlockCmd(ip, d), ip, BlockedRow(d))
<1>1. ASSUME NEW d \in BlockDurations \cup {BadActorDuration}
      PROVE  d \in Nat \ {0} /\ d <= Lifetime[Fallback] /\ Lifetime[TableFor(d)] >= d
  BY EnforcementAssumption, TableFacts DEF EnforcementAssumption
<1> QED
  BY <1>1 DEF Serves, BlockCmd, BlockedRow

(***************************************************************************)
(* Types                                                                   *)
(***************************************************************************)

Shapes == EnfTypeOK /\ PhasesOK /\ CallsOK

\* The queue takes a command, or drops it.
LEMMA HandOverTypes ==
  ASSUME queue \in Seq(LiveCommands), inflight \in Seq(LiveCommands), holes \subseteq Notes,
         NEW c \in LiveCommands, NEW found \in SUBSET Notes,
         HandOver(c, found)
  PROVE  /\ queue' \in Seq(LiveCommands) /\ inflight' = inflight
         /\ holes' \subseteq Notes
<1>1. c.ip \in IPs
  BY CommandFacts
<1>2. CASE Enqueue(c) /\ holes' = holes \cup found
  BY <1>2 DEF Enqueue
<1>3. CASE Drop(c) /\ holes' = holes \cup found \cup {<<c.ip, "dropped">>}
  BY <1>1, <1>3 DEF Drop, Notes, Causes
<1> QED
  BY <1>2, <1>3 DEF HandOver

LEMMA ShapesInit == EnfInit => Shapes
<1> SUFFICES ASSUME EnfInit PROVE Shapes
  OBVIOUS
<1> USE DEF EnfInit, RLBInit, HAPInit
<1>1. First \in Backends /\ \A t \in Tables : Lifetime[t] \in Nat
  BY HAProxyAssumption DEF HAProxyAssumption
<1>2. calls \in [Threads -> CallRecords] /\ \A th \in Threads : ~calls[th].busy /\ calls[th].sent = {}
  BY DEF NoCall, CallRecords
<1>3. resync \in [Slots -> ResyncRecords]
  BY <1>1 DEF NoResync, ResyncRecords
<1>4. pcs = [m \in Makers |-> Idle] /\ Idle.phase = "idle" /\ Idle.cmd = UnblockCmd(AnyIP)
  BY DEF Idle
<1>5. EnfTypeOK
  <2>1. /\ left \in [Backends -> [IPs -> [Tables -> Nat]]]
        /\ \A b \in Backends, ip \in IPs, t \in Tables : left[b][ip][t] <= Lifetime[t]
    BY <1>1
  <2>2. probe \in [state : {"none", "answered", "failed"}, b : Backends, uptime : Nat]
    BY <1>1 DEF NoProbe
  <2>3. db \in [IPs -> [state : States, left : Nat]] /\ \A ip \in IPs : db[ip].left <= Lifetime[Fallback]
    BY TableFacts DEF States
  <2>4. pcs \in [Makers -> [phase : {"idle", "promote", "queue", "write", "call"},
                          cmd : LiveCommands \cup {UnblockCmd(AnyIP)}]]
    BY DEF Idle
  <2>5. /\ link \in [Backends -> {"up", "cut", "down"}] /\ uptime \in [Backends -> Nat]
        /\ health \in [Backends -> [ok : BOOLEAN, uptime : Nat]]
        /\ missed \in [Backends -> SUBSET IPs]
        /\ queue \in Seq(LiveCommands) /\ inflight \in Seq(LiveCommands)
        /\ listing \subseteq IPs /\ holes \subseteq Notes
    OBVIOUS
  <2> QED
    BY <1>2, <1>3, <1>4, <2>1, <2>2, <2>3, <2>4, <2>5 DEF EnfTypeOK
<1>6. Threads = {"worker", "api"}
  BY EnforcementAssumption DEF EnforcementAssumption
<1> QED
  BY <1>2, <1>4, <1>5, <1>6 DEF Shapes, PhasesOK, CallsOK, Makers

\* A decision maker goes to another place.
PlaceTypes(p) ==
  /\ p \in [Makers -> [phase : {"idle", "promote", "queue", "write", "call"},
                      cmd : LiveCommands \cup {UnblockCmd(AnyIP)}]]
  /\ \A m \in Makers : p[m].phase # "idle" => p[m].cmd \in LiveCommands

LEMMA PlaceMoves ==
  ASSUME NEW p, PlaceTypes(p), NEW m \in Makers,
         NEW ph \in {"idle", "promote", "queue", "write", "call"}, NEW c \in LiveCommands
  PROVE  /\ PlaceTypes([p EXCEPT ![m] = [phase |-> ph, cmd |-> c]])
         /\ PlaceTypes([p EXCEPT ![m] = Idle])
         /\ p[m].phase # "idle" => PlaceTypes([p EXCEPT ![m].phase = ph])
BY DEF PlaceTypes, Idle

\* A row is written.
RowTypes(d) ==
  /\ d \in [IPs -> [state : States, left : Nat]]
  /\ \A ip \in IPs : d[ip].left <= Lifetime[Fallback]

LEMMA RowMoves ==
  ASSUME RowTypes(db), holes \subseteq Notes, NEW m, NEW ip \in IPs,
         NEW row \in [state : States, left : Nat], row.left <= Lifetime[Fallback],
         WriteState(m, ip, row)
  PROVE  RowTypes(db') /\ holes' \subseteq Notes
BY DEF RowTypes, WriteState, Notes, Causes

LEMMA RowsHaveTypes ==
  /\ UnblockedRow \in [state : States, left : Nat] /\ UnblockedRow.left <= Lifetime[Fallback]
  /\ NoRow \in [state : States, left : Nat] /\ NoRow.left <= Lifetime[Fallback]
  /\ \A d \in BlockDurations \cup {BadActorDuration} :
       /\ BlockedRow(d) \in [state : States, left : Nat]
       /\ BlockedRow(d).left <= Lifetime[Fallback]
<1>1. Lifetime[Fallback] \in Nat
  BY TableFacts
<1>2. \A d \in BlockDurations \cup {BadActorDuration} : d \in Nat /\ d <= Lifetime[Fallback]
  BY DurationFacts
<1> QED
  BY <1>1, <1>2 DEF UnblockedRow, NoRow, BlockedRow, States

\* The types of the backends and the blocker, and those of the rest.
HapTypes ==
  /\ link \in [Backends -> {"up", "cut", "down"}]
  /\ uptime \in [Backends -> Nat]
  /\ left \in [Backends -> [IPs -> [Tables -> Nat]]]
  /\ \A b \in Backends, ip \in IPs, t \in Tables : left[b][ip][t] <= Lifetime[t]
  /\ health \in [Backends -> [ok : BOOLEAN, uptime : Nat]]
  /\ probe \in [state : {"none", "answered", "failed"}, b : Backends, uptime : Nat]
  /\ calls \in [Threads -> CallRecords]
  /\ \A th \in Threads : IF calls[th].busy THEN calls[th].ip \in IPs ELSE calls[th].sent = {}
  /\ resync \in [Slots -> ResyncRecords]
  /\ missed \in [Backends -> SUBSET IPs]

DecisionTypes ==
  /\ queue \in Seq(LiveCommands) /\ inflight \in Seq(LiveCommands)
  /\ RowTypes(db) /\ PlaceTypes(pcs)
  /\ listing \subseteq IPs /\ holes \subseteq Notes

LEMMA TypesInParts == EnfTypeOK <=> HapTypes /\ DecisionTypes
BY DEF EnfTypeOK, HapTypes, DecisionTypes, RowTypes, PlaceTypes, Notes

LEMMA MakersAndThreads ==
  Makers = {"checker", "reload", "peer", "api"} /\ Threads = {"worker", "api"}
BY EnforcementAssumption DEF EnforcementAssumption, Makers

LEMMA HapTypesKept == HapTypes /\ UNCHANGED hapVars => HapTypes'
BY DEF HapTypes, hapVars

LEMMA DecisionTypesKept ==
  DecisionTypes /\ UNCHANGED <<queueVars, decisionVars>> => DecisionTypes'
BY DEF DecisionTypes, queueVars, decisionVars

\* The steps of the blocker and the backends keep their types.
LEMMA CallStartTypes ==
  ASSUME HapTypes, NEW th \in Threads, NEW c \in LiveCommands, CallStart(th, c)
  PROVE  HapTypes'
<1> DEFINE call == [busy |-> TRUE, ip |-> c.ip, kind |-> c.kind, dur |-> c.dur,
                    sent |-> IF Skips(c) THEN {} ELSE Targets, err |-> FALSE]
<1>1. c.ip \in IPs /\ c.kind \in {"block", "unblock"} /\ c.dur \in Nat
  BY CommandFacts
<1>2. (IF Skips(c) THEN {} ELSE Targets) \in SUBSET Backends
  BY DEF Targets
<1>3. call \in CallRecords /\ call.busy /\ call.ip \in IPs
  BY <1>1, <1>2 DEF CallRecords
<1>4. calls' = [calls EXCEPT ![th] = call]
  BY DEF CallStart
<1> HIDE DEF call
<1>5. /\ calls' \in [Threads -> CallRecords]
      /\ \A t \in Threads : IF calls'[t].busy THEN calls'[t].ip \in IPs ELSE calls'[t].sent = {}
  BY <1>3, <1>4 DEF HapTypes
<1> QED
  BY <1>5 DEF HapTypes, CallStart

LEMMA CallReturnTypes ==
  ASSUME HapTypes, NEW th \in Threads, CallReturn(th)
  PROVE  HapTypes'
<1>1. NoCall \in CallRecords /\ ~NoCall.busy /\ NoCall.sent = {}
  BY DEF NoCall, CallRecords
<1>2. /\ calls' \in [Threads -> CallRecords]
      /\ \A t \in Threads : IF calls'[t].busy THEN calls'[t].ip \in IPs ELSE calls'[t].sent = {}
  BY <1>1 DEF HapTypes, CallReturn
<1> QED
  BY <1>2 DEF HapTypes, CallReturn

\* What a command leaves of the entries of an IP.
LEMMA AppliedTypes ==
  ASSUME NEW e \in [Tables -> Nat], \A t \in Tables : e[t] <= Lifetime[t], NEW k, NEW d
  PROVE  /\ Applied(e, k, d) \in [Tables -> Nat]
         /\ \A t \in Tables : Applied(e, k, d)[t] <= Lifetime[t]
BY TableFacts DEF Applied

LEMMA EntriesWritten ==
  ASSUME HapTypes, NEW b \in Backends, NEW ip \in IPs, NEW e \in [Tables -> Nat],
         \A t \in Tables : e[t] <= Lifetime[t],
         NEW l, l = [left EXCEPT ![b][ip] = e]
  PROVE  /\ l \in [Backends -> [IPs -> [Tables -> Nat]]]
         /\ \A c \in Backends, i \in IPs, t \in Tables : l[c][i][t] <= Lifetime[t]
<1>1. left \in [Backends -> [IPs -> [Tables -> Nat]]]
  BY DEF HapTypes
<1>2. l \in [Backends -> [IPs -> [Tables -> Nat]]]
  BY <1>1
<1>3. \A c \in Backends, i \in IPs : l[c][i] = IF c = b /\ i = ip THEN e ELSE left[c][i]
  BY <1>1
<1> QED
  BY <1>2, <1>3 DEF HapTypes

LEMMA DeliverTypes ==
  ASSUME HapTypes, NEW th \in Threads, NEW b \in Backends, Deliver(th, b) \/ DeliverFails(th, b)
  PROVE  HapTypes'
<1> DEFINE call == calls[th]
           e == Applied(left[b][call.ip], call.kind, call.dur)
<1>1. call \in CallRecords /\ call.busy /\ call.ip \in IPs
  BY DEF HapTypes, Deliver, DeliverFails
<1>2. /\ calls' \in [Threads -> CallRecords]
      /\ \A t \in Threads : IF calls'[t].busy THEN calls'[t].ip \in IPs ELSE calls'[t].sent = {}
  <2>1. CASE calls' = [calls EXCEPT ![th].sent = @ \ {b}]
    BY <1>1, <2>1 DEF HapTypes, CallRecords
  <2>2. CASE calls' = [calls EXCEPT ![th].sent = @ \ {b}, ![th].err = TRUE]
    BY <1>1, <2>2 DEF HapTypes, CallRecords
  <2> QED
    BY <2>1, <2>2 DEF Deliver, DeliverFails
<1>3. left' = left \/ left' = [left EXCEPT ![b][call.ip] = e]
  BY DEF Deliver, DeliverFails
<1>4. left[b][call.ip] \in [Tables -> Nat] /\ \A t \in Tables : left[b][call.ip][t] <= Lifetime[t]
  BY <1>1 DEF HapTypes
<1>5. e \in [Tables -> Nat] /\ \A t \in Tables : e[t] <= Lifetime[t]
  BY <1>4, AppliedTypes
<1> HIDE DEF e
<1>6. /\ left' \in [Backends -> [IPs -> [Tables -> Nat]]]
      /\ \A c \in Backends, i \in IPs, t \in Tables : left'[c][i][t] <= Lifetime[t]
  <2>1. CASE left' = left
    BY <2>1 DEF HapTypes
  <2>2. CASE left' = [left EXCEPT ![b][call.ip] = e]
    BY <1>1, <1>5, <2>2, EntriesWritten
  <2> QED
    BY <1>3, <2>1, <2>2
<1>7. missed' \in [Backends -> SUBSET IPs]
  <2>1. missed' = missed \/ missed' = [missed EXCEPT ![b] = @ \cup {call.ip}]
    BY DEF Deliver, DeliverFails
  <2>2. missed \in [Backends -> SUBSET IPs] /\ {call.ip} \subseteq IPs
    BY <1>1 DEF HapTypes
  <2> HIDE DEF call
  <2> QED
    BY <2>1, <2>2
<1> QED
  BY <1>2, <1>6, <1>7 DEF HapTypes, Deliver, DeliverFails

LEMMA HealthTypes ==
  ASSUME HapTypes, NEW b \in Backends, HealthProbe(b) \/ HealthRecord
  PROVE  HapTypes'
<1>1. CASE HealthProbe(b)
  <2>1. probe' \in [state : {"none", "answered", "failed"}, b : Backends, uptime : Nat]
    BY <1>1 DEF HealthProbe, HapTypes
  <2> QED
    BY <1>1, <2>1 DEF HealthProbe, HapTypes
<1>2. CASE HealthRecord
  <2>1. First \in Backends
    BY HAProxyAssumption DEF HAProxyAssumption
  <2>2. probe.b \in Backends /\ probe.uptime \in Nat
    BY DEF HapTypes
  <2>3. probe' \in [state : {"none", "answered", "failed"}, b : Backends, uptime : Nat]
    BY <1>2, <2>1 DEF HealthRecord, NoProbe
  <2>4. health' \in [Backends -> [ok : BOOLEAN, uptime : Nat]]
    BY <1>2, <2>2 DEF HealthRecord, HapTypes
  <2>5. \/ resync' = resync
        \/ \E s \in Slots : resync' = [resync EXCEPT ![s] = [NoResync EXCEPT !.phase = "query", !.b = probe.b]]
    BY <1>2 DEF HealthRecord
  <2>6. [NoResync EXCEPT !.phase = "query", !.b = probe.b] \in ResyncRecords
    BY <2>2 DEF NoResync, ResyncRecords
  <2>7. resync' \in [Slots -> ResyncRecords]
    BY <2>5, <2>6 DEF HapTypes
  <2> QED
    BY <1>2, <2>3, <2>4, <2>7 DEF HealthRecord, HapTypes
<1> QED
  BY <1>1, <1>2

LEMMA ResyncQueryTypes ==
  ASSUME HapTypes, NEW s \in Slots, NEW blocks \in SUBSET (IPs \X Tables),
         NEW ips \in SUBSET IPs, ResyncQuery(s, blocks, ips)
  PROVE  HapTypes'
<1>1. resync \in [Slots -> ResyncRecords] /\ resync[s].b \in Backends
  BY DEF HapTypes, ResyncRecords
<1>2. ips \X Tables \in SUBSET (IPs \X Tables)
  OBVIOUS
<1>3. resync' \in [Slots -> ResyncRecords]
  <2> DEFINE new == [resync[s] EXCEPT !.phase = "block", !.blocks = blocks,
                                      !.unblocks = ips \X Tables]
  <2>1. resync' = [resync EXCEPT ![s] = new]
    BY DEF ResyncQuery
  <2>2. new \in ResyncRecords
    BY <1>1, <1>2 DEF ResyncRecords
  <2> HIDE DEF new
  <2> QED
    BY <1>1, <2>1, <2>2
<1>4. missed' \in [Backends -> SUBSET IPs]
  BY <1>1 DEF HapTypes, ResyncQuery
<1> QED
  BY <1>3, <1>4 DEF HapTypes, ResyncQuery

LEMMA MissedTypes ==
  ASSUME NEW m \in [Backends -> SUBSET IPs], NEW b \in Backends, NEW ips \in SUBSET IPs
  PROVE  [m EXCEPT ![b] = @ \cup ips] \in [Backends -> SUBSET IPs]
OBVIOUS

LEMMA ResyncQueryFailsTypes ==
  ASSUME HapTypes, NEW s \in Slots, ResyncQueryFails(s)
  PROVE  HapTypes'
<1>1. NoResync \in ResyncRecords
  BY HAProxyAssumption DEF ResyncRecords, HAProxyAssumption, NoResync
<1> QED
  BY <1>1 DEF HapTypes, ResyncQueryFails

LEMMA ResyncTablesTypes ==
  ASSUME HapTypes, NEW s \in Slots, ResyncTables(s)
  PROVE  HapTypes'
<1> DEFINE b == resync[s].b
           ips == {p[1] : p \in resync[s].unblocks}
<1>1. resync \in [Slots -> ResyncRecords] /\ b \in Backends /\ NoResync \in ResyncRecords
  BY HAProxyAssumption DEF HapTypes, ResyncRecords, HAProxyAssumption, NoResync
<1>2. missed \in [Backends -> SUBSET IPs]
  BY DEF HapTypes
<1>3. ips \in SUBSET IPs
  BY <1>1 DEF ResyncRecords
<1>4. missed' = missed \/ missed' = [missed EXCEPT ![b] = @ \cup ips]
  BY DEF ResyncTables
<1> HIDE DEF b, ips
<1>5. missed' \in [Backends -> SUBSET IPs]
  BY <1>1, <1>2, <1>3, <1>4, MissedTypes
<1>6. resync' \in [Slots -> ResyncRecords]
  BY <1>1 DEF ResyncTables, ResyncRecords
<1> QED
  BY <1>5, <1>6 DEF HapTypes, ResyncTables

LEMMA ResyncStepTypes ==
  ASSUME HapTypes, NEW s \in Slots, NEW ip \in IPs, NEW t \in Tables,
         ResyncBlock(s, ip, t) \/ ResyncUnblock(s, ip, t)
  PROVE  HapTypes'
<1> DEFINE b == resync[s].b
<1>1. resync \in [Slots -> ResyncRecords] /\ b \in Backends /\ NoResync \in ResyncRecords
  BY HAProxyAssumption DEF HapTypes, ResyncRecords, HAProxyAssumption, NoResync
<1>2. Lifetime[t] \in Nat
  BY TableFacts
<1>0. /\ missed \in [Backends -> SUBSET IPs]
      /\ left \in [Backends -> [IPs -> [Tables -> Nat]]]
      /\ \A c \in Backends, i \in IPs, u \in Tables : left[c][i][u] <= Lifetime[u]
  BY DEF HapTypes
<1> HIDE DEF b
<1>3. ASSUME NEW n \in Nat, n <= Lifetime[t], left' = [left EXCEPT ![b][ip][t] = n]
      PROVE  /\ left' \in [Backends -> [IPs -> [Tables -> Nat]]]
             /\ \A c \in Backends, i \in IPs, u \in Tables : left'[c][i][u] <= Lifetime[u]
  <2> DEFINE e == [left[b][ip] EXCEPT ![t] = n]
  <2>1. left[b][ip] \in [Tables -> Nat] /\ \A u \in Tables : left[b][ip][u] <= Lifetime[u]
    BY <1>0, <1>1
  <2>2. e \in [Tables -> Nat] /\ \A u \in Tables : e[u] <= Lifetime[u]
    BY <1>3, <2>1
  <2>3. left' = [left EXCEPT ![b][ip] = e]
    BY <1>3
  <2> HIDE DEF e
  <2> QED
    BY <1>1, <2>2, <2>3, EntriesWritten
<1>4. CASE ResyncBlock(s, ip, t)
  <2>1. resync' \in [Slots -> ResyncRecords]
    BY <1>1, <1>4 DEF ResyncBlock, ResyncRecords
  <2>2. missed' = missed \/ missed' = [missed EXCEPT ![b] = @ \cup {ip}]
    BY <1>4 DEF ResyncBlock, b
  <2>3. left' = left \/ left' = [left EXCEPT ![b][ip][t] = Lifetime[t]]
    BY <1>4 DEF ResyncBlock, b
  <2>4. missed' \in [Backends -> SUBSET IPs]
    <3>1. {ip} \in SUBSET IPs
      OBVIOUS
    <3> QED
      BY <1>0, <1>1, <2>2, <3>1, MissedTypes
  <2>5. /\ left' \in [Backends -> [IPs -> [Tables -> Nat]]]
        /\ \A c \in Backends, i \in IPs, u \in Tables : left'[c][i][u] <= Lifetime[u]
    <3>1. CASE left' = left
      BY <1>0, <3>1
    <3>2. CASE left' = [left EXCEPT ![b][ip][t] = Lifetime[t]]
      <4>1. Lifetime[t] \in Nat /\ Lifetime[t] <= Lifetime[t]
        BY <1>2
      <4> QED
        BY <1>3, <3>2, <4>1
    <3> QED
      BY <2>3, <3>1, <3>2
  <2>6. UNCHANGED <<link, uptime, health, probe, calls>>
    BY <1>4 DEF ResyncBlock
  <2> QED
    BY <2>1, <2>4, <2>5, <2>6 DEF HapTypes
<1>5. CASE ResyncUnblock(s, ip, t)
  <2>1. resync' \in [Slots -> ResyncRecords]
    <3> DEFINE old == resync[s]
               new == IF old.unblocks = {<<ip, t>>} THEN NoResync
                      ELSE [old EXCEPT !.unblocks = @ \ {<<ip, t>>}]
    <3>1. resync' = [resync EXCEPT ![s] = new]
      BY <1>5 DEF ResyncUnblock
    <3>2. old \in ResyncRecords
      BY <1>1
    <3> HIDE DEF old
    <3>3. new \in ResyncRecords
      BY <1>1, <3>2 DEF ResyncRecords
    <3> HIDE DEF new
    <3> QED
      BY <1>1, <3>1, <3>3
  <2>2. missed' = missed \/ missed' = [missed EXCEPT ![b] = @ \cup {ip}]
    BY <1>5 DEF ResyncUnblock, b
  <2>3. left' = left \/ left' = [left EXCEPT ![b][ip][t] = 0]
    BY <1>5 DEF ResyncUnblock, b
  <2>4. missed' \in [Backends -> SUBSET IPs]
    <3>1. {ip} \in SUBSET IPs
      OBVIOUS
    <3> QED
      BY <1>0, <1>1, <2>2, <3>1, MissedTypes
  <2>5. /\ left' \in [Backends -> [IPs -> [Tables -> Nat]]]
        /\ \A c \in Backends, i \in IPs, u \in Tables : left'[c][i][u] <= Lifetime[u]
    <3>1. CASE left' = left
      BY <1>0, <3>1
    <3>2. CASE left' = [left EXCEPT ![b][ip][t] = 0]
      <4>1. 0 \in Nat /\ 0 <= Lifetime[t]
        BY <1>2
      <4> QED
        BY <1>3, <3>2, <4>1
    <3> QED
      BY <2>3, <3>1, <3>2
  <2>6. UNCHANGED <<link, uptime, health, probe, calls>>
    BY <1>5 DEF ResyncUnblock
  <2> QED
    BY <2>1, <2>4, <2>5, <2>6 DEF HapTypes
<1> QED
  BY <1>4, <1>5

LEMMA FailureTypes ==
  ASSUME HapTypes, NEW b \in Backends, Cut(b) \/ Crash(b) \/ Restore(b)
  PROVE  HapTypes'
<1>1. CASE Cut(b)
  BY <1>1 DEF Cut, HapTypes
<1>2. CASE Crash(b)
  <2> DEFINE none == [ip \in IPs |-> [t \in Tables |-> 0]]
  <2>1. /\ none \in [IPs -> [Tables -> Nat]]
        /\ \A ip \in IPs, t \in Tables : none[ip][t] <= Lifetime[t]
    BY TableFacts
  <2>2. left' = [left EXCEPT ![b] = none]
    BY <1>2 DEF Crash
  <2> HIDE DEF none
  <2>3. /\ left' \in [Backends -> [IPs -> [Tables -> Nat]]]
        /\ \A c \in Backends, i \in IPs, u \in Tables : left'[c][i][u] <= Lifetime[u]
    BY <2>1, <2>2 DEF HapTypes
  <2>4. /\ link' \in [Backends -> {"up", "cut", "down"}]
        /\ uptime' \in [Backends -> Nat]
        /\ missed' \in [Backends -> SUBSET IPs]
    BY <1>2 DEF Crash, HapTypes
  <2> QED
    BY <1>2, <2>3, <2>4 DEF Crash, HapTypes
<1>3. CASE Restore(b)
  BY <1>3 DEF Restore, HapTypes
<1> QED
  BY <1>1, <1>2, <1>3

LEMMA TickTypes ==
  ASSUME HapTypes, Tick
  PROVE  HapTypes'
<1>1. /\ left' \in [Backends -> [IPs -> [Tables -> Nat]]]
      /\ \A b \in Backends, ip \in IPs, t \in Tables : left'[b][ip][t] <= Lifetime[t]
  <2>1. \A b \in Backends, ip \in IPs, t \in Tables :
          left[b][ip][t] \in Nat /\ left[b][ip][t] <= Lifetime[t] /\ Lifetime[t] \in Nat
    BY TableFacts DEF HapTypes
  <2> QED
    BY <2>1 DEF Tick
<1>2. uptime' \in [Backends -> Nat]
  BY DEF Tick, HapTypes
<1> QED
  BY <1>1, <1>2 DEF Tick, HapTypes

\* The steps of the decision makers keep the types of rows, places and queue.
LEMMA WriterTypes ==
  ASSUME DecisionTypes, NEW m \in Makers, NEW ip \in IPs,
         NEW row \in [state : States, left : Nat], row.left <= Lifetime[Fallback],
         WriteState(m, ip, row), PlaceTypes(pcs'), listing' \subseteq listing,
         UNCHANGED <<queue, inflight>>
  PROVE  DecisionTypes'
<1>1. RowTypes(db') /\ holes' \subseteq Notes
  BY RowMoves DEF DecisionTypes
<1> QED
  BY <1>1 DEF DecisionTypes

LEMMA QueuerTypes ==
  ASSUME DecisionTypes, NEW c \in LiveCommands, NEW found \in SUBSET Notes,
         HandOver(c, found), PlaceTypes(pcs'), RowTypes(db'), UNCHANGED listing
  PROVE  DecisionTypes'
<1>1. queue' \in Seq(LiveCommands) /\ inflight' = inflight /\ holes' \subseteq Notes
  BY HandOverTypes DEF DecisionTypes
<1> QED
  BY <1>1 DEF DecisionTypes

LEMMA DecisionsTypes ==
  ASSUME DecisionTypes, Decisions
  PROVE  DecisionTypes'
<1> USE MakersAndThreads
<1>0. PlaceTypes(pcs) /\ listing \subseteq IPs /\ holes \subseteq Notes
  BY DEF DecisionTypes
<1>1. ASSUME NEW ip \in IPs, NEW d \in BlockDurations, CheckerBlock(ip, d) \/ CheckerPromote(ip, d)
      PROVE  DecisionTypes'
  <2>1. BlockCmd(ip, d) \in LiveCommands
    BY CommandFacts
  <2>2. \/ pcs' = [pcs EXCEPT !["checker"] = [phase |-> "queue", cmd |-> BlockCmd(ip, d)]]
        \/ pcs' = [pcs EXCEPT !["checker"] = [phase |-> "promote", cmd |-> BlockCmd(ip, d)]]
    BY <1>1 DEF CheckerBlock, CheckerPromote
  <2>3. PlaceTypes(pcs')
    <3> DEFINE c == BlockCmd(ip, d)
    <3> HIDE DEF c
    <3>1. /\ PlaceTypes([pcs EXCEPT !["checker"] = [phase |-> "queue", cmd |-> c]])
          /\ PlaceTypes([pcs EXCEPT !["checker"] = [phase |-> "promote", cmd |-> c]])
      BY <1>0, <2>1, PlaceMoves DEF c
    <3> QED
      BY <2>2, <3>1 DEF c
  <2>4. WriteState("checker", ip, BlockedRow(d)) /\ UNCHANGED <<queue, inflight, listing>>
    BY <1>1 DEF CheckerBlock, CheckerPromote, queueVars
  <2> QED
    BY <2>3, <2>4, RowsHaveTypes, WriterTypes
<1>2. ASSUME NEW ip \in IPs, CheckerUnblock(ip)
      PROVE  DecisionTypes'
  <2>1. PlaceTypes(pcs')
    BY <1>0, <1>2, CommandFacts, PlaceMoves DEF CheckerUnblock
  <2>2. WriteState("checker", ip, UnblockedRow) /\ UNCHANGED <<queue, inflight, listing>>
    BY <1>2 DEF CheckerUnblock, queueVars
  <2> QED
    BY <2>1, <2>2, RowsHaveTypes, WriterTypes
<1>3. ASSUME NEW ip \in IPs, ReloadUnblock(ip)
      PROVE  DecisionTypes'
  <2>1. PlaceTypes(pcs')
    BY <1>0, <1>3, CommandFacts, PlaceMoves DEF ReloadUnblock
  <2>2. WriteState("reload", ip, UnblockedRow) /\ UNCHANGED <<queue, inflight>> /\ listing' \subseteq listing
    BY <1>3 DEF ReloadUnblock, queueVars
  <2> QED
    BY <2>1, <2>2, RowsHaveTypes, WriterTypes
<1>4. ASSUME NEW ip \in IPs, PeerBadActor(ip)
      PROVE  DecisionTypes'
  <2> DEFINE c == BlockCmd(ip, BadActorDuration)
             found == IF Overlaps("peer", ip) THEN {<<ip, "overlap">>} ELSE {}
  <2>1. c \in LiveCommands
    BY CommandFacts
  <2>2. found \in SUBSET Notes
    BY DEF Notes, Causes
  <2>3. pcs' = [pcs EXCEPT !["peer"] = [phase |-> "write", cmd |-> c]]
    BY <1>4 DEF PeerBadActor
  <2>4. HandOver(c, found) /\ UNCHANGED <<db, listing>>
    BY <1>4 DEF PeerBadActor
  <2> HIDE DEF c, found
  <2>5. PlaceTypes(pcs')
    BY <1>0, <2>1, <2>3, PlaceMoves
  <2>6. RowTypes(db')
    BY <2>4 DEF DecisionTypes
  <2> QED
    BY <2>1, <2>2, <2>4, <2>5, <2>6, QueuerTypes
<1>5. ASSUME NEW ip \in IPs, ApiUnblock(ip)
      PROVE  DecisionTypes'
  <2>1. PlaceTypes(pcs')
    BY <1>0, <1>5, CommandFacts, PlaceMoves DEF ApiUnblock
  <2>2. holes' \subseteq Notes
    BY <1>0, <1>5 DEF ApiUnblock, Notes, Causes
  <2> QED
    BY <1>5, <2>1, <2>2 DEF ApiUnblock, DecisionTypes, queueVars
<1>6. CASE ReloadList
  BY <1>6 DEF ReloadList, DecisionTypes, queueVars
<1> QED
  BY <1>1, <1>2, <1>3, <1>4, <1>5, <1>6 DEF Decisions

LEMMA CompletionsTypes ==
  ASSUME DecisionTypes, calls \in [Threads -> CallRecords],
         \A th \in Threads : calls[th].busy => calls[th].ip \in IPs,
         calls["api"].busy => pcs["api"].phase = "call",
         Completions
  PROVE  DecisionTypes'
<1> USE MakersAndThreads
<1>0. /\ PlaceTypes(pcs) /\ listing \subseteq IPs /\ holes \subseteq Notes
      /\ queue \in Seq(LiveCommands) /\ inflight \in Seq(LiveCommands) /\ RowTypes(db)
  BY DEF DecisionTypes
<1>1. \A m \in Makers : pcs[m].phase # "idle" => pcs[m].cmd \in LiveCommands
  BY <1>0 DEF PlaceTypes
<1>2. CASE CheckerPromoted
  <2> DEFINE cmd == pcs["checker"].cmd
             c == BlockCmd(cmd.ip, BadActorDuration)
  <2>1. cmd \in LiveCommands /\ cmd.ip \in IPs
    BY <1>1, <1>2, CommandFacts DEF CheckerPromoted
  <2>2. c \in LiveCommands
    BY <2>1, CommandFacts
  <2>3. /\ HandOver(c, {}) /\ UNCHANGED listing
        /\ db' = [db EXCEPT ![cmd.ip] = BlockedRow(BadActorDuration)]
        /\ pcs' = [pcs EXCEPT !["checker"].phase = "queue"]
        /\ pcs["checker"].phase # "idle"
    BY <1>2 DEF CheckerPromoted
  <2> HIDE DEF c
  <2>4. RowTypes(db')
    <3>1. /\ BlockedRow(BadActorDuration) \in [state : States, left : Nat]
          /\ BlockedRow(BadActorDuration).left <= Lifetime[Fallback]
      BY RowsHaveTypes
    <3> QED
      BY <1>0, <2>1, <2>3, <3>1 DEF RowTypes
  <2>5. PlaceTypes(pcs')
    BY <1>0, <2>1, <2>3, PlaceMoves
  <2> QED
    BY <2>2, <2>3, <2>4, <2>5, QueuerTypes
<1>3. ASSUME NEW m \in Makers, HandOverNext(m)
      PROVE  DecisionTypes'
  <2>1. pcs[m].cmd \in LiveCommands
    BY <1>1, <1>3 DEF HandOverNext
  <2>2. PlaceTypes(pcs')
    BY <1>0, <1>3, <2>1, PlaceMoves DEF HandOverNext
  <2>3. HandOver(pcs[m].cmd, {}) /\ RowTypes(db') /\ UNCHANGED listing
    BY <1>0, <1>3 DEF HandOverNext
  <2> QED
    BY <2>1, <2>2, <2>3, QueuerTypes
<1>4. CASE PeerWrite
  <2>1. pcs["peer"].cmd \in LiveCommands /\ pcs["peer"].cmd.ip \in IPs
    BY <1>1, <1>4, CommandFacts DEF PeerWrite
  <2>2. PlaceTypes(pcs')
    BY <1>0, <1>4, <2>1, PlaceMoves DEF PeerWrite
  <2>3. /\ WriteState("peer", pcs["peer"].cmd.ip, BlockedRow(BadActorDuration))
        /\ UNCHANGED <<queue, inflight, listing>>
    BY <1>4 DEF PeerWrite, queueVars
  <2>4. /\ BlockedRow(BadActorDuration) \in [state : States, left : Nat]
        /\ BlockedRow(BadActorDuration).left <= Lifetime[Fallback]
    BY RowsHaveTypes
  <2> QED
    BY <2>1, <2>2, <2>3, <2>4, WriterTypes
<1>5. CASE ApiReturn
  <2>1. calls["api"].ip \in IPs
    BY <1>5 DEF ApiReturn, CallReturn, CallDone
  <2>2. holes' \subseteq Notes
    BY <1>0, <1>5, <2>1 DEF ApiReturn, Notes, Causes
  <2>3. PlaceTypes([pcs EXCEPT !["api"] = Idle])
    BY <1>0 DEF PlaceTypes, Idle
  <2>4. pcs["api"].phase # "idle" => PlaceTypes([pcs EXCEPT !["api"].phase = "write"])
    BY <1>0, <1>1, PlaceMoves
  <2>5. PlaceTypes(pcs')
    BY <1>5, <2>3, <2>4 DEF ApiReturn, CallReturn, CallDone
  <2> QED
    BY <1>0, <1>5, <2>2, <2>5 DEF ApiReturn, DecisionTypes, queueVars
<1>6. CASE ApiRemove
  <2>1. pcs["api"].cmd \in LiveCommands /\ pcs["api"].cmd.ip \in IPs
    BY <1>1, <1>6, CommandFacts DEF ApiRemove
  <2>2. PlaceTypes(pcs')
    BY <1>0, <1>6, <2>1, PlaceMoves DEF ApiRemove
  <2>3. WriteState("api", pcs["api"].cmd.ip, NoRow) /\ UNCHANGED <<queue, inflight, listing>>
    BY <1>6 DEF ApiRemove, queueVars
  <2> QED
    BY <2>1, <2>2, <2>3, RowsHaveTypes, WriterTypes
<1> QED
  BY <1>2, <1>3, <1>4, <1>5, <1>6 DEF Completions

\* Every maker stays within its phases, and the calls belong to what started them.
LEMMA PhasesStep ==
  ASSUME Shapes, EnfNext
  PROVE  PhasesOK' /\ CallsOK'
<1> USE MakersAndThreads
<1>1. /\ pcs \in [Makers -> [phase : {"idle", "promote", "queue", "write", "call"},
                           cmd : LiveCommands \cup {UnblockCmd(AnyIP)}]]
      /\ calls \in [Threads -> CallRecords] /\ queue \in Seq(LiveCommands)
      /\ \A th \in Threads : calls[th].sent # {} => calls[th].busy
      /\ PhasesOK /\ CallsOK
  BY DEF Shapes, EnfTypeOK
<1>2. CASE Decisions
  <2>1. PhasesOK'
    <3>1. CASE UNCHANGED pcs
      BY <1>1, <3>1 DEF PhasesOK
    <3>2. CASE \E m \in Makers, c \in LiveCommands :
                 \/ m = "checker" /\ pcs' = [pcs EXCEPT ![m] = [phase |-> "queue", cmd |-> c]]
                 \/ m = "checker" /\ pcs' = [pcs EXCEPT ![m] = [phase |-> "promote", cmd |-> c]]
                 \/ m = "reload" /\ pcs' = [pcs EXCEPT ![m] = [phase |-> "queue", cmd |-> c]]
                 \/ m = "peer" /\ pcs' = [pcs EXCEPT ![m] = [phase |-> "write", cmd |-> c]]
                 \/ m = "api" /\ pcs' = [pcs EXCEPT ![m] = [phase |-> "call", cmd |-> c]]
      BY <1>1, <3>2 DEF PhasesOK
    <3> QED
      BY <1>2, <3>1, <3>2, CommandFacts
      DEF Decisions, CheckerBlock, CheckerPromote, CheckerUnblock, ReloadUnblock, PeerBadActor,
          ApiUnblock, ReloadList
  <2>2. CallsOK'
    <3>1. ASSUME NEW ip \in IPs, ApiUnblock(ip)
          PROVE  CallsOK'
      <4>1. pcs' = [pcs EXCEPT !["api"] = [phase |-> "call", cmd |-> UnblockCmd(ip)]]
        BY <3>1 DEF ApiUnblock
      <4>2. pcs'["api"].phase = "call" /\ pcs'["api"].cmd.ip = ip
        BY <1>1, <4>1 DEF UnblockCmd
      <4>3. calls'["api"].ip = ip /\ calls'["api"].kind = "unblock" /\ calls'["worker"] = calls["worker"]
        BY <1>1, <3>1 DEF ApiUnblock, CallStart, UnblockCmd
      <4>4. UNCHANGED inflight
        BY <3>1 DEF ApiUnblock, queueVars
      <4> QED
        BY <1>1, <4>2, <4>3, <4>4 DEF CallsOK
    <3>2. CASE UNCHANGED <<calls, inflight>> /\ pcs'["api"] = pcs["api"]
      BY <1>1, <3>2 DEF CallsOK
    <3>3. ASSUME NEW ip \in IPs, NEW d \in BlockDurations,
                 \/ CheckerBlock(ip, d) \/ CheckerPromote(ip, d) \/ CheckerUnblock(ip)
                 \/ ReloadUnblock(ip)
          PROVE  UNCHANGED <<calls, inflight>> /\ pcs'["api"] = pcs["api"]
      BY <1>1, <3>3
      DEF CheckerBlock, CheckerPromote, CheckerUnblock, ReloadUnblock, queueVars, hapVars
    <3>4. ASSUME NEW ip \in IPs, CheckerUnblock(ip) \/ ReloadUnblock(ip)
          PROVE  UNCHANGED <<calls, inflight>> /\ pcs'["api"] = pcs["api"]
      BY <1>1, <3>4 DEF CheckerUnblock, ReloadUnblock, queueVars, hapVars
    <3>5. ASSUME NEW ip \in IPs, PeerBadActor(ip)
          PROVE  UNCHANGED <<calls, inflight>> /\ pcs'["api"] = pcs["api"]
      BY <1>1, <3>5 DEF PeerBadActor, HandOver, Enqueue, Drop, hapVars
    <3>6. ReloadList => UNCHANGED <<calls, inflight>> /\ pcs'["api"] = pcs["api"]
      BY DEF ReloadList, queueVars, hapVars
    <3> QED
      BY <1>2, <3>1, <3>2, <3>3, <3>4, <3>5, <3>6 DEF Decisions
  <2> QED
    BY <2>1, <2>2
<1>3. CASE Completions
  <2>1. CASE CheckerPromoted
    BY <1>1, <2>1 DEF CheckerPromoted, PhasesOK, CallsOK, HandOver, Enqueue, Drop, hapVars
  <2>2. ASSUME NEW m \in Makers, HandOverNext(m)
        PROVE  PhasesOK' /\ CallsOK'
    <3>1. m \in {"checker", "reload"} /\ pcs' = [pcs EXCEPT ![m] = Idle] /\ UNCHANGED <<calls, inflight>>
      BY <1>1, <2>2 DEF HandOverNext, PhasesOK, HandOver, Enqueue, Drop, hapVars
    <3> QED
      BY <1>1, <3>1 DEF PhasesOK, CallsOK, Idle
  <2>3. CASE PeerWrite
    BY <1>1, <2>3 DEF PeerWrite, PhasesOK, CallsOK, Idle, queueVars, hapVars
  <2>4. CASE ApiReturn
    <3>1. calls' = [calls EXCEPT !["api"] = NoCall] /\ UNCHANGED inflight
      BY <2>4 DEF ApiReturn, CallReturn, queueVars
    <3>2. ~calls'["api"].busy /\ calls'["worker"] = calls["worker"]
      BY <1>1, <3>1 DEF NoCall
    <3>3. \/ pcs' = [pcs EXCEPT !["api"] = Idle]
          \/ pcs' = [pcs EXCEPT !["api"].phase = "write"]
      BY <2>4 DEF ApiReturn
    <3> QED
      BY <1>1, <3>1, <3>2, <3>3 DEF PhasesOK, CallsOK, Idle
  <2>5. CASE ApiRemove
    BY <1>1, <2>5 DEF ApiRemove, PhasesOK, CallsOK, Idle, queueVars, hapVars
  <2> QED
    BY <1>3, <2>1, <2>2, <2>3, <2>4, <2>5 DEF Completions
<1>4. CASE Commanding
  <2>1. CASE RunCommand
    <3>0. Head(queue).kind # "none"
      <4>1. Head(queue) \in LiveCommands
        BY <1>1, <2>1 DEF RunCommand, WorkerTake
      <4> QED
        BY <4>1, CommandFacts
    <3>1. /\ calls'["api"] = calls["api"] /\ inflight' # <<>>
          /\ calls'["worker"].kind # "none"
      BY <1>1, <2>1, <3>0 DEF RunCommand, WorkerTake, CallStart
    <3>2. UNCHANGED pcs
      BY <2>1 DEF RunCommand
    <3> QED
      BY <1>1, <3>1, <3>2 DEF PhasesOK, CallsOK
  <2>2. CASE CommandDone
    <3>1. calls'["api"] = calls["api"] /\ ~calls'["worker"].busy
      BY <1>1, <2>2 DEF CommandDone, CallReturn, NoCall
    <3>2. UNCHANGED pcs
      BY <2>2 DEF CommandDone, decisionVars
    <3> QED
      BY <1>1, <3>1, <3>2 DEF PhasesOK, CallsOK
  <2>3. ASSUME NEW th \in Threads, NEW b \in Backends, Deliver(th, b) \/ DeliverFails(th, b),
               UNCHANGED <<queueVars, decisionVars>>
        PROVE  PhasesOK' /\ CallsOK'
    <3>1. \/ calls' = [calls EXCEPT ![th].sent = @ \ {b}]
          \/ calls' = [calls EXCEPT ![th].sent = @ \ {b}, ![th].err = TRUE]
      BY <2>3 DEF Deliver, DeliverFails
    <3>2. \A t \in Threads : /\ calls'[t].busy = calls[t].busy /\ calls'[t].ip = calls[t].ip
                            /\ calls'[t].kind = calls[t].kind
      BY <1>1, <3>1 DEF CallRecords
    <3>3. UNCHANGED <<pcs, inflight>>
      BY <2>3 DEF queueVars, decisionVars
    <3> QED
      BY <1>1, <3>2, <3>3 DEF PhasesOK, CallsOK
  <2> QED
    BY <1>4, <2>1, <2>2, <2>3 DEF Commanding
<1>5. CASE UNCHANGED <<pcs, calls, inflight>>
  BY <1>1, <1>5 DEF PhasesOK, CallsOK
<1>6. ASSUME NEW b \in Backends, Checking(b)
      PROVE  UNCHANGED <<pcs, calls, inflight>>
  BY <1>6 DEF Checking, HealthProbe, HealthRecord, queueVars, decisionVars
<1>7. ASSUME NEW s \in Slots, Resyncs(s)
      PROVE  UNCHANGED <<pcs, calls, inflight>>
  BY <1>7 DEF Resyncs, ResyncRead, ResyncQuery, ResyncReadFails, ResyncQueryFails,
              ResyncTables, ResyncBlock, ResyncUnblock,
              queueVars, decisionVars
<1>8. Failures => UNCHANGED <<pcs, calls, inflight>>
  BY DEF Failures, Cut, Crash, Restore, queueVars, decisionVars
<1>9. Time => UNCHANGED <<pcs, calls, inflight>>
  BY DEF Time, Tick, queueVars
<1> QED
  BY <1>2, <1>3, <1>4, <1>5, <1>6, <1>7, <1>8, <1>9 DEF EnfNext

LEMMA ShapesStep ==
  ASSUME Shapes, [EnfNext]_vars
  PROVE  Shapes'
<1> USE MakersAndThreads
<1>1. HapTypes /\ DecisionTypes /\ PhasesOK /\ CallsOK
  BY TypesInParts DEF Shapes
<1>2. CASE UNCHANGED vars
  <2>1. HapTypes' /\ DecisionTypes'
    BY <1>1, <1>2, HapTypesKept, DecisionTypesKept DEF vars
  <2>2. PhasesOK' /\ CallsOK'
    BY <1>1, <1>2 DEF vars, PhasesOK, CallsOK, queueVars, hapVars, decisionVars
  <2> QED
    BY <2>1, <2>2, TypesInParts DEF Shapes, EnfTypeOK, HapTypes, DecisionTypes, RowTypes, PlaceTypes, Notes
<1>3. CASE EnfNext
  <2>1. PhasesOK' /\ CallsOK'
    BY <1>3, PhasesStep
  <2>2. HapTypes'
    <3>1. CASE UNCHANGED hapVars
      BY <1>1, <3>1, HapTypesKept
    <3>2. Decisions => UNCHANGED hapVars \/ \E ip \in IPs : CallStart("api", UnblockCmd(ip))
      BY DEF Decisions, CheckerBlock, CheckerPromote, CheckerUnblock, ReloadUnblock, PeerBadActor,
             ApiUnblock, ReloadList
    <3>3. Completions => UNCHANGED hapVars \/ CallReturn("api")
      BY DEF Completions, CheckerPromoted, HandOverNext, PeerWrite, ApiReturn, ApiRemove
    <3>4. ASSUME NEW ip \in IPs, CallStart("api", UnblockCmd(ip))
          PROVE  HapTypes'
      BY <1>1, <3>4, CommandFacts, CallStartTypes
    <3>5. CallReturn("api") => HapTypes'
      BY <1>1, CallReturnTypes
    <3>6. CASE Commanding
      <4>1. CASE RunCommand
        <5>1. Head(queue) \in LiveCommands /\ CallStart("worker", Head(queue))
          BY <1>1, <4>1 DEF RunCommand, WorkerTake, DecisionTypes
        <5> QED
          BY <1>1, <5>1, CallStartTypes
      <4>2. CASE CommandDone
        BY <1>1, <4>2, CallReturnTypes DEF CommandDone
      <4> QED
        BY <1>1, <3>6, <4>1, <4>2, DeliverTypes DEF Commanding
    <3>7. ASSUME NEW b \in Backends, Checking(b)
          PROVE  HapTypes'
      BY <1>1, <3>7, HealthTypes DEF Checking
    <3>8. ASSUME NEW s \in Slots, Resyncs(s)
          PROVE  HapTypes'
      <4>1. CASE ResyncRead(s)
        <5>1. ResyncBlocks \in SUBSET (IPs \X Tables)
          <6>1. \A ip \in IPs : db[ip].left \in Nat
            BY <1>1 DEF DecisionTypes, RowTypes
          <6> QED
            BY <6>1, TableFacts DEF ResyncBlocks
        <5>2. {ip \in IPs : db[ip].state = "unblocked"} \in SUBSET IPs
          OBVIOUS
        <5> QED
          BY <1>1, <4>1, <5>1, <5>2, ResyncQueryTypes DEF ResyncRead
      <4>2. CASE ResyncTables(s)
        BY <1>1, <4>2, ResyncTablesTypes
      <4>3. CASE ResyncReadFails(s)
        BY <1>1, <4>3, ResyncQueryFailsTypes DEF ResyncReadFails
      <4> QED
        BY <1>1, <3>8, <4>1, <4>2, <4>3, ResyncStepTypes DEF Resyncs
    <3>9. Failures => HapTypes'
      BY <1>1, FailureTypes DEF Failures
    <3>10. Time => HapTypes'
      BY <1>1, TickTypes DEF Time
    <3> QED
      BY <1>3, <3>1, <3>2, <3>3, <3>4, <3>5, <3>6, <3>7, <3>8, <3>9, <3>10 DEF EnfNext
  <2>3. DecisionTypes'
    <3>1. CASE UNCHANGED <<queueVars, decisionVars>>
      BY <1>1, <3>1, DecisionTypesKept
    <3>2. CASE Decisions
      BY <1>1, <3>2, DecisionsTypes
    <3>3. CASE Completions
      BY <1>1, <3>3, CompletionsTypes DEF HapTypes, CallsOK
    <3>4. CASE RunCommand
      <4>1. /\ queue \in Seq(LiveCommands) /\ queue # <<>>
            /\ queue' = Tail(queue) /\ inflight' = <<Head(queue)>>
            /\ holes' \subseteq holes \cup {<<Head(queue).ip, "discovery">>}
            /\ UNCHANGED <<db, pcs, listing>>
        BY <1>1, <3>4 DEF RunCommand, WorkerTake, DecisionTypes
      <4>2. Head(queue) \in LiveCommands /\ Tail(queue) \in Seq(LiveCommands)
        BY <4>1
      <4>3. Head(queue).ip \in IPs
        BY <4>2, CommandFacts
      <4>4. holes' \subseteq Notes
        BY <1>1, <4>1, <4>3 DEF DecisionTypes, Notes, Causes
      <4> QED
        BY <1>1, <4>1, <4>2, <4>4 DEF DecisionTypes
    <3>5. CASE CommandDone
      BY <1>1, <3>5 DEF CommandDone, WorkerFinish, decisionVars, DecisionTypes
    <3>6. ASSUME NEW b \in Backends, Checking(b)
          PROVE  UNCHANGED <<queueVars, decisionVars>>
      BY <3>6 DEF Checking
    <3>7. EarlyBlocks \subseteq Notes
      BY DEF EarlyBlocks, Notes, Causes
    <3>8. ASSUME NEW s \in Slots, ResyncRead(s)
          PROVE  DecisionTypes'
      BY <1>1, <3>7, <3>8 DEF ResyncRead, DecisionTypes, queueVars
    <3>10. ASSUME NEW s \in Slots, ResyncReadFails(s)
           PROVE  DecisionTypes'
      BY <1>1, <3>10 DEF ResyncReadFails, DecisionTypes, queueVars, Notes
    <3>9. CASE Time
      <4>1. RowTypes(db')
        <5>1. Lifetime[Fallback] \in Nat
          BY TableFacts
        <5>2. \A ip \in IPs : /\ db[ip].state \in States /\ db[ip].left \in Nat
                             /\ db[ip].left <= Lifetime[Fallback]
                             /\ db[ip] = [state |-> db[ip].state, left |-> db[ip].left]
          BY <1>1 DEF DecisionTypes, RowTypes
        <5>3. db' = [ip \in IPs |-> [db[ip] EXCEPT !.left = IF @ > 0 THEN @ - 1 ELSE 0]]
          BY <3>9 DEF Time
        <5>4. ASSUME NEW ip \in IPs
              PROVE  /\ db'[ip] \in [state : States, left : Nat]
                     /\ db'[ip].left <= Lifetime[Fallback]
          <6> DEFINE n == IF db[ip].left > 0 THEN db[ip].left - 1 ELSE 0
          <6>1. db'[ip] = [db[ip] EXCEPT !.left = n]
            BY <5>3
          <6>2. n \in Nat /\ n <= Lifetime[Fallback]
            <7>1. \A k, l \in Nat : k <= l => /\ (IF k > 0 THEN k - 1 ELSE 0) \in Nat
                                            /\ (IF k > 0 THEN k - 1 ELSE 0) <= l
              OBVIOUS
            <7> QED
              BY <5>1, <5>2, <7>1
          <6>3. db[ip] \in [state : States, left : Nat]
            BY <1>1 DEF DecisionTypes, RowTypes
          <6> HIDE DEF n
          <6>4. [db[ip] EXCEPT !.left = n] \in [state : States, left : Nat]
            BY <6>2, <6>3
          <6>5. [db[ip] EXCEPT !.left = n].left = n
            BY <6>3
          <6> QED
            BY <6>1, <6>2, <6>4, <6>5
        <5>5. db' = [ip \in IPs |-> db'[ip]]
          BY <5>3
        <5> QED
          BY <5>4, <5>5 DEF RowTypes
      <4> QED
        BY <1>1, <3>7, <3>9, <4>1 DEF Time, DecisionTypes, queueVars
    <3> QED
      BY <1>3, <3>1, <3>2, <3>3, <3>4, <3>5, <3>6, <3>8, <3>9, <3>10
      DEF EnfNext, Commanding, Resyncs, Failures
  <2> QED
    BY <2>1, <2>2, <2>3 DEF Shapes, EnfTypeOK, HapTypes, DecisionTypes, RowTypes, PlaceTypes, Notes
<1> QED
  BY <1>2, <1>3

(***************************************************************************)
(* Decision makers: who is at work on an IP                                *)
(***************************************************************************)

\* Holes stay.
LEMMA HolesGrow ==
  ASSUME [EnfNext]_vars, NEW ip, Clean(ip, holes')
  PROVE  Clean(ip, holes)
<1>1. holes \subseteq holes'
  <2>1. CASE UNCHANGED holes
    BY <2>1
  <2>2. Decisions => holes \subseteq holes'
    BY DEF Decisions, CheckerBlock, CheckerPromote, CheckerUnblock, ReloadUnblock, PeerBadActor,
           ApiUnblock, ReloadList, WriteState, HandOver
  <2>3. Completions => holes \subseteq holes'
    BY DEF Completions, CheckerPromoted, HandOverNext, PeerWrite, ApiReturn, ApiRemove, WriteState,
           HandOver
  <2>4. Commanding => holes \subseteq holes'
    BY DEF Commanding, RunCommand, CommandDone, decisionVars
  <2>5. \A b \in Backends : Checking(b) => holes \subseteq holes'
    BY DEF Checking, decisionVars
  <2>6. \A r \in Slots : Resyncs(r) => holes \subseteq holes'
    BY DEF Resyncs, ResyncRead, ResyncReadFails, decisionVars
  <2>7. Failures \/ Time => holes \subseteq holes'
    BY DEF Failures, Time, decisionVars
  <2> QED
    BY <2>1, <2>2, <2>3, <2>4, <2>5, <2>6, <2>7 DEF EnfNext, vars, decisionVars
<1> QED
  BY <1>1 DEF Clean

\* A write without a hole has the IP for itself: no other maker, no resync at work.
LEMMA WriteIsAlone ==
  ASSUME NEW m \in Makers, NEW ip, NEW row, WriteState(m, ip, row), Clean(ip, holes')
  PROVE  /\ ~Overlaps(m, ip)
         /\ \A n \in Makers \ {m} : ~Busy(n, ip, pcs)
         /\ \A s \in Slots : resync[s].phase \notin {"block", "unblock"}
BY DEF WriteState, Clean, Causes, Overlaps, Busy

\* A maker that starts on an IP nobody else is at work on keeps it alone.
LEMMA StartAlone ==
  ASSUME NEW p, NEW q, NEW D, p \in [Makers -> D], NEW m \in Makers, NEW place, NEW ip,
         q = [p EXCEPT ![m] = place], Alone(ip, p),
         place.phase # "idle" /\ place.cmd.ip = ip => \A n \in Makers \ {m} : ~Busy(n, ip, p)
  PROVE  Alone(ip, q)
BY DEF Alone, Busy

\* One that goes on, or ends, has been there before.
LEMMA GoesOnAlone ==
  ASSUME NEW p, NEW q, NEW ip, Alone(ip, p), \A m \in Makers : Busy(m, ip, q) => Busy(m, ip, p)
  PROVE  Alone(ip, q)
BY DEF Alone

LEMMA AloneStep ==
  ASSUME Shapes, AllAlone, EnfNext
  PROVE  AllAlone'
<1> USE MakersAndThreads
<1> SUFFICES ASSUME NEW ip \in IPs, Clean(ip, holes')
             PROVE  Alone(ip, pcs')
  BY DEF AllAlone
<1>1. Alone(ip, pcs)
  BY HolesGrow DEF AllAlone
<1>2. PICK D : pcs \in [Makers -> D]
  BY DEF Shapes, EnfTypeOK
<1>3. CASE UNCHANGED pcs
  BY <1>1, <1>3
<1>4. CASE Decisions
  <2>1. ASSUME NEW m \in Makers, NEW i \in IPs, NEW row, NEW ph, NEW c, c.ip = i,
               WriteState(m, i, row), pcs' = [pcs EXCEPT ![m] = [phase |-> ph, cmd |-> c]]
        PROVE  Alone(ip, pcs')
    <3>1. i = ip => \A n \in Makers \ {m} : ~Busy(n, ip, pcs)
      BY <2>1, WriteIsAlone
    <3> QED
      BY <1>1, <1>2, <2>1, <3>1, StartAlone
  <2>2. \A i, d : BlockCmd(i, d).ip = i /\ UnblockCmd(i).ip = i
    BY DEF BlockCmd, UnblockCmd
  <2>3. ASSUME NEW i \in IPs, NEW d \in BlockDurations, CheckerBlock(i, d) \/ CheckerPromote(i, d)
        PROVE  Alone(ip, pcs')
    <3> DEFINE c == BlockCmd(i, d)
    <3>1. c.ip = i
      BY <2>2
    <3>2. \E ph \in {"queue", "promote"} :
            /\ WriteState("checker", i, BlockedRow(d))
            /\ pcs' = [pcs EXCEPT !["checker"] = [phase |-> ph, cmd |-> c]]
      BY <2>3 DEF CheckerBlock, CheckerPromote
    <3> HIDE DEF c
    <3> QED
      BY <2>1, <3>1, <3>2
  <2>4. ASSUME NEW i \in IPs, CheckerUnblock(i) \/ ReloadUnblock(i)
        PROVE  Alone(ip, pcs')
    BY <2>1, <2>2, <2>4 DEF CheckerUnblock, ReloadUnblock
  <2>5. ASSUME NEW i \in IPs, PeerBadActor(i)
        PROVE  Alone(ip, pcs')
    <3>1. i = ip => \A n \in Makers \ {"peer"} : ~Busy(n, ip, pcs)
      BY <2>5 DEF PeerBadActor, HandOver, Clean, Causes, Overlaps, Busy
    <3> DEFINE c == BlockCmd(i, BadActorDuration)
    <3>2. pcs' = [pcs EXCEPT !["peer"] = [phase |-> "write", cmd |-> c]]
      BY <2>5 DEF PeerBadActor
    <3>3. c.ip = i
      BY <2>2
    <3> HIDE DEF c
    <3> QED
      BY <1>1, <1>2, <3>1, <3>2, <3>3, StartAlone
  <2>6. ASSUME NEW i \in IPs, ApiUnblock(i)
        PROVE  Alone(ip, pcs')
    <3>1. i = ip => \A n \in Makers \ {"api"} : ~Busy(n, ip, pcs)
      BY <2>6 DEF ApiUnblock, Clean, Causes, Overlaps, Busy
    <3>2. pcs' = [pcs EXCEPT !["api"] = [phase |-> "call", cmd |-> UnblockCmd(i)]]
      BY <2>6 DEF ApiUnblock
    <3> QED
      BY <1>1, <1>2, <2>2, <3>1, <3>2, StartAlone
  <2>7. ReloadList => UNCHANGED pcs
    BY DEF ReloadList
  <2> QED
    BY <1>3, <1>4, <2>3, <2>4, <2>5, <2>6, <2>7 DEF Decisions
<1>5. CASE Completions
  <2>1. \/ \E m \in Makers : pcs' = [pcs EXCEPT ![m] = Idle]
        \/ \E m \in Makers, ph \in {"queue", "write"} :
             pcs[m].phase # "idle" /\ pcs' = [pcs EXCEPT ![m].phase = ph]
    <3>1. ApiReturn => pcs["api"].phase # "idle"
      BY DEF ApiReturn, CallReturn, CallDone, Shapes, CallsOK
    <3> QED
      BY <1>5, <3>1 DEF Completions, CheckerPromoted, HandOverNext, PeerWrite, ApiReturn, ApiRemove
  <2>2. \A m \in Makers : Busy(m, ip, pcs') => Busy(m, ip, pcs)
    <3>1. pcs \in [Makers -> [phase : {"idle", "promote", "queue", "write", "call"},
                           cmd : LiveCommands \cup {UnblockCmd(AnyIP)}]]
      BY DEF Shapes, EnfTypeOK
    <3>2. CASE \E m \in Makers : pcs' = [pcs EXCEPT ![m] = Idle]
      BY <3>1, <3>2 DEF Busy, Idle
    <3>3. CASE \E m \in Makers, ph \in {"queue", "write"} :
                 pcs[m].phase # "idle" /\ pcs' = [pcs EXCEPT ![m].phase = ph]
      BY <3>1, <3>3 DEF Busy
    <3> QED
      BY <2>1, <3>2, <3>3
  <2> QED
    BY <1>1, <2>2, GoesOnAlone
<1>6. Commanding => UNCHANGED pcs
  BY DEF Commanding, RunCommand, CommandDone, decisionVars
<1>7. \A b \in Backends : Checking(b) => UNCHANGED pcs
  BY DEF Checking, decisionVars
<1>8. \A s \in Slots : Resyncs(s) => UNCHANGED pcs
  BY DEF Resyncs, ResyncRead, ResyncReadFails, decisionVars
<1>9. Failures \/ Time => UNCHANGED pcs
  BY DEF Failures, Time, decisionVars
<1> QED
  BY <1>3, <1>4, <1>5, <1>6, <1>7, <1>8, <1>9 DEF EnfNext

\* A promotion keeps the row a block.
LEMMA PromotionStep ==
  ASSUME Shapes, AllAlone, PromotionOK, EnfNext
  PROVE  PromotionOK'
<1> USE MakersAndThreads
<1> SUFFICES ASSUME NEW ip \in IPs, Clean(ip, holes'), Busy("checker", ip, pcs'),
                    pcs'["checker"].phase = "promote"
             PROVE  pcs'["checker"].cmd.kind = "block" /\ db'[ip].state = "blocked"
  BY DEF PromotionOK
<1>1. Clean(ip, holes) /\ Alone(ip, pcs)
  BY HolesGrow DEF AllAlone
<1>2. PICK D : pcs \in [Makers -> D]
  BY DEF Shapes, EnfTypeOK
<1>3. DOMAIN db = IPs
  BY DEF Shapes, EnfTypeOK
<1>4. ASSUME pcs'["checker"] = pcs["checker"]
      PROVE  /\ Busy("checker", ip, pcs) /\ pcs'["checker"].cmd.kind = "block"
             /\ db[ip].state = "blocked"
  BY <1>1, <1>4 DEF PromotionOK, Busy
<1>5. CASE pcs'["checker"] = pcs["checker"] /\ db'[ip].state = db[ip].state
  BY <1>4, <1>5
<1>6. ASSUME NEW m \in Makers \ {"checker"}, NEW i \in IPs, NEW row, WriteState(m, i, row),
             pcs'["checker"] = pcs["checker"]
      PROVE  pcs'["checker"].cmd.kind = "block" /\ db'[ip].state = "blocked"
  <2>1. i # ip
    BY <1>4, <1>6, WriteIsAlone
  <2>2. db'[ip] = db[ip]
    BY <1>3, <1>6, <2>1 DEF WriteState
  <2> QED
    BY <1>4, <1>6, <2>2
<1>7. CASE Decisions
  <2>1. ASSUME NEW i \in IPs, NEW d \in BlockDurations, CheckerBlock(i, d)
        PROVE  FALSE
    BY <1>2, <2>1 DEF CheckerBlock
  <2>2. ASSUME NEW i \in IPs, NEW d \in BlockDurations, CheckerPromote(i, d)
        PROVE  pcs'["checker"].cmd.kind = "block" /\ db'[ip].state = "blocked"
    <3>1. pcs'["checker"] = [phase |-> "promote", cmd |-> BlockCmd(i, d)]
      BY <1>2, <2>2 DEF CheckerPromote
    <3>2. i = ip
      BY <3>1 DEF Busy, BlockCmd
    <3> QED
      BY <1>3, <2>2, <3>1, <3>2 DEF CheckerPromote, WriteState, BlockedRow, BlockCmd
  <2>3. ASSUME NEW i \in IPs, CheckerUnblock(i)
        PROVE  FALSE
    BY <1>2, <2>3 DEF CheckerUnblock
  <2>4. ASSUME NEW i \in IPs, ReloadUnblock(i)
        PROVE  pcs'["checker"].cmd.kind = "block" /\ db'[ip].state = "blocked"
    <3>1. WriteState("reload", i, UnblockedRow) /\ pcs'["checker"] = pcs["checker"]
      BY <1>2, <2>4 DEF ReloadUnblock
    <3> QED
      BY <1>6, <3>1
  <2>5. ASSUME NEW i \in IPs, PeerBadActor(i) \/ ApiUnblock(i)
        PROVE  pcs'["checker"] = pcs["checker"] /\ db'[ip].state = db[ip].state
    BY <1>2, <2>5 DEF PeerBadActor, ApiUnblock
  <2>6. ReloadList => pcs'["checker"] = pcs["checker"] /\ db'[ip].state = db[ip].state
    BY DEF ReloadList
  <2> QED
    BY <1>5, <1>7, <2>1, <2>2, <2>3, <2>4, <2>5, <2>6 DEF Decisions
<1>8. CASE Completions
  <2>1. CheckerPromoted => pcs'["checker"].phase = "queue"
    <3>1. pcs \in [Makers -> [phase : {"idle", "promote", "queue", "write", "call"},
                           cmd : LiveCommands \cup {UnblockCmd(AnyIP)}]]
      BY DEF Shapes, EnfTypeOK
    <3> QED
      BY <3>1 DEF CheckerPromoted
  <2>2. ASSUME NEW m \in Makers, HandOverNext(m)
        PROVE  pcs'["checker"] = pcs["checker"] /\ db'[ip].state = db[ip].state
    BY <1>2, <2>2 DEF HandOverNext, Busy, Idle
  <2>3. CASE PeerWrite
    <3>1. /\ WriteState("peer", pcs["peer"].cmd.ip, BlockedRow(BadActorDuration))
          /\ pcs'["checker"] = pcs["checker"]
      BY <1>2, <2>3 DEF PeerWrite
    <3>2. pcs["peer"].cmd.ip \in IPs
      BY <2>3, CommandFacts DEF PeerWrite, Shapes, EnfTypeOK
    <3> QED
      BY <1>6, <3>1, <3>2
  <2>4. ApiReturn => pcs'["checker"] = pcs["checker"] /\ db'[ip].state = db[ip].state
    BY <1>2 DEF ApiReturn
  <2>5. CASE ApiRemove
    <3>1. WriteState("api", pcs["api"].cmd.ip, NoRow) /\ pcs'["checker"] = pcs["checker"]
      BY <1>2, <2>5 DEF ApiRemove
    <3>2. pcs["api"].cmd.ip \in IPs
      BY <2>5, CommandFacts DEF ApiRemove, Shapes, EnfTypeOK
    <3> QED
      BY <1>6, <3>1, <3>2
  <2> QED
    BY <1>5, <1>8, <2>1, <2>2, <2>3, <2>4, <2>5 DEF Completions
<1>9. Commanding => UNCHANGED <<pcs, db>>
  BY DEF Commanding, RunCommand, CommandDone, decisionVars
<1>10. \A b \in Backends : Checking(b) => UNCHANGED <<pcs, db>>
  BY DEF Checking, decisionVars
<1>11. \A s \in Slots : Resyncs(s) => UNCHANGED <<pcs, db>>
  BY DEF Resyncs, ResyncRead, ResyncReadFails, decisionVars
<1>12. Failures => UNCHANGED <<pcs, db>>
  BY DEF Failures, decisionVars
<1>13. Time => pcs'["checker"] = pcs["checker"] /\ db'[ip].state = db[ip].state
  <2>1. db \in [IPs -> [state : States, left : Nat]]
    BY DEF Shapes, EnfTypeOK
  <2> QED
    BY <2>1 DEF Time
<1> QED
  BY <1>5, <1>7, <1>8, <1>9, <1>10, <1>11, <1>12, <1>13 DEF EnfNext

(***************************************************************************)
(* Consistency of a backend with a row: the steps of the decision makers   *)
(***************************************************************************)

\* What is already arranged for a row serves as well when b has caught up less.
LEMMA SameHere ==
  ASSUME NEW b, NEW ip, Here(b, ip),
         Row(ip, db', pcs') = Row(ip, db, pcs), Under(b, calls') = Under(b, calls),
         queue' = queue, Owed(ip, pcs') = Owed(ip, pcs), resync' = resync,
         left'[b][ip] = left[b][ip],
         Behind(b, ip, health, missed, resync) => Behind(b, ip, health', missed', resync')
  PROVE  Here(b, ip)'
BY DEF Here, Consistent

\* A maker that is and was not at work on the IP has no influence on its row or on
\* the commands owed to it.
LEMMA NotInvolved ==
  ASSUME Shapes, NEW m \in Makers, NEW place, NEW ip,
         pcs' = [pcs EXCEPT ![m] = place], db'[ip] = db[ip],
         ~Busy(m, ip, pcs), place.phase = "idle" \/ place.cmd.ip # ip
  PROVE  Owed(ip, pcs') = Owed(ip, pcs) /\ Row(ip, db', pcs') = Row(ip, db, pcs)
<1>0. DOMAIN pcs = Makers
  BY DEF Shapes, EnfTypeOK
<1>1. \A n \in Makers : n # m => pcs'[n] = pcs[n]
  BY <1>0
<1>2. pcs'[m] = place
  BY <1>0
<1>3. \A n \in Makers : Busy(n, ip, pcs') <=> Busy(n, ip, pcs)
  BY <1>1, <1>2 DEF Busy
<1>4. Owed(ip, pcs') = Owed(ip, pcs)
  <2>1. /\ ~(pcs'[m].phase \in {"queue", "promote"} /\ pcs'[m].cmd.ip = ip)
        /\ ~(pcs[m].phase \in {"queue", "promote"} /\ pcs[m].cmd.ip = ip)
    BY <1>2 DEF Busy
  <2> QED
    BY <1>1, <2>1 DEF Owed
<1>5. Row(ip, db', pcs') = Row(ip, db, pcs)
  BY <1>3, MakersAndThreads DEF Row
<1> QED
  BY <1>4, <1>5

\* The only command owed to an IP that one maker alone is at work on.
LEMMA OwedAlone ==
  ASSUME NEW p, NEW ip, NEW m \in Makers, \A n \in Makers \ {m} : ~Busy(n, ip, p),
         p[m].cmd.ip = ip
  PROVE  Owed(ip, p) = IF p[m].phase \in {"queue", "promote"} THEN {p[m].cmd} ELSE {}
<1>1. CASE p[m].phase \in {"queue", "promote"}
  <2>1. \A n \in Makers : p[n].phase \in {"queue", "promote"} /\ p[n].cmd.ip = ip <=> n = m
    BY <1>1 DEF Busy
  <2>2. {n \in Makers : p[n].phase \in {"queue", "promote"} /\ p[n].cmd.ip = ip} = {m}
    BY <2>1
  <2> QED
    BY <1>1, <2>2 DEF Owed
<1>2. CASE ~(p[m].phase \in {"queue", "promote"})
  <2>1. \A n \in Makers : ~(p[n].phase \in {"queue", "promote"} /\ p[n].cmd.ip = ip)
    BY <1>2 DEF Busy
  <2> QED
    BY <1>2, <2>1 DEF Owed
<1> QED
  BY <1>1, <1>2

\* A maker writes the row, with the command in hand or handed over next.
LEMMA DecisionHere ==
  ASSUME Shapes, NEW m \in {"checker", "reload"}, NEW i \in IPs, NEW row, NEW c, c.ip = i,
         NEW ph \in {"queue", "promote"}, row.state \in {"blocked", "unblocked"},
         WriteState(m, i, row), pcs[m].phase = "idle",
         pcs' = [pcs EXCEPT ![m] = [phase |-> ph, cmd |-> c]],
         UNCHANGED <<queueVars, hapVars>>, Serves(c, i, row),
         NEW b \in Backends, NEW ip \in IPs, Clean(ip, holes'), Here(b, ip)
  PROVE  Here(b, ip)'
<1> USE MakersAndThreads
<1>1. PICK D : pcs \in [Makers -> D]
  BY DEF Shapes, EnfTypeOK
<1>2. DOMAIN db = IPs /\ db' = [db EXCEPT ![i] = row]
  BY DEF Shapes, EnfTypeOK, WriteState
<1>3. UNCHANGED <<queue, calls, resync, left, health, missed>>
  BY DEF queueVars, hapVars
<1>4. CASE ip # i
  <2>1. PICK place : place = [phase |-> ph, cmd |-> c]
    OBVIOUS
  <2>2. pcs' = [pcs EXCEPT ![m] = place] /\ m \in Makers
    BY <2>1
  <2>3. db'[ip] = db[ip] /\ ~Busy(m, ip, pcs)
    BY <1>2, <1>4 DEF Busy
  <2>4. place.phase = "idle" \/ place.cmd.ip # ip
    BY <1>4, <2>1
  <2>5. Owed(ip, pcs') = Owed(ip, pcs) /\ Row(ip, db', pcs') = Row(ip, db, pcs)
    BY ONLY Shapes, <2>2, <2>3, <2>4, NotInvolved
  <2> QED
    BY <1>3, <2>5, SameHere
<1>5. CASE ip = i
  <2>1. /\ \A n \in Makers \ {m} : ~Busy(n, ip, pcs)
        /\ \A s \in Slots : resync[s].phase \notin {"block", "unblock"}
    BY <1>5, WriteIsAlone
  <2>2. /\ pcs'[m] = [phase |-> ph, cmd |-> c]
        /\ \A n \in Makers \ {m} : pcs'[n] = pcs[n]
    BY <1>1
  <2>3. \A n \in Makers \ {m} : ~Busy(n, ip, pcs')
    BY <2>1, <2>2 DEF Busy
  <2>4. Row(ip, db', pcs') = row
    BY <1>2, <1>5, <2>3 DEF Row
  <2>5. Owed(ip, pcs') = {c}
    <3>1. m \in Makers /\ pcs'[m].cmd.ip = ip /\ pcs'[m].phase \in {"queue", "promote"}
      BY <1>5, <2>2
    <3>2. pcs'[m].cmd = c
      BY <2>2
    <3> QED
      BY ONLY <2>3, <3>1, <3>2, OwedAlone
  <2>6. /\ EndsWell(Under(b, calls'), queue', {c}, ip, row)
        /\ Brings(Under(b, calls'), queue', {c}, ip, row)
    BY <1>5, OwedServerSettles
  <2>7. ResyncsAgree(b, ip, row, resync')
    BY <1>3, <2>1 DEF ResyncsAgree, Sends, Clears, Sending, Clearing
  <2> QED
    BY <2>4, <2>5, <2>6, <2>7 DEF Here, Consistent, WillReflect
<1> QED
  BY <1>4, <1>5

\* A command about another IP changes nothing here.
LEMMA OtherQueued ==
  ASSUME NEW b, NEW ip, Here(b, ip), queue \in Seq(LiveCommands), NEW c \in LiveCommands, c.ip # ip,
         queue' = queue \/ queue' = Append(queue, c),
         Row(ip, db', pcs') = Row(ip, db, pcs), Under(b, calls') = Under(b, calls),
         Owed(ip, pcs') = Owed(ip, pcs), resync' = resync, left'[b][ip] = left[b][ip],
         Behind(b, ip, health', missed', resync') = Behind(b, ip, health, missed, resync)
  PROVE  Here(b, ip)'
<1>1. CASE queue' = queue
  BY <1>1, SameHere
<1>2. CASE queue' = Append(queue, c)
  BY <1>2, OthersPass DEF Here, Consistent, WillReflect
<1> QED
  BY <1>1, <1>2

\* A command in hand gets into the queue, behind all others.
LEMMA HandOverHere ==
  ASSUME Shapes, AllAlone, NEW m \in Makers, HandOverNext(m),
         NEW b \in Backends, NEW ip \in IPs, Clean(ip, holes'), Clean(ip, holes), Here(b, ip)
  PROVE  Here(b, ip)'
<1> USE MakersAndThreads
<1> DEFINE c == pcs[m].cmd
<1>1. /\ pcs \in [Makers -> [phase : {"idle", "promote", "queue", "write", "call"},
                           cmd : LiveCommands \cup {UnblockCmd(AnyIP)}]]
      /\ queue \in Seq(LiveCommands) /\ c \in LiveCommands
  BY DEF Shapes, EnfTypeOK, HandOverNext
<1>2. /\ UNCHANGED <<calls, resync, left, health, missed, db>>
      /\ pcs' = [pcs EXCEPT ![m] = Idle] /\ pcs[m].phase = "queue"
  BY DEF HandOverNext, hapVars
<1>3. \/ queue' = Append(queue, c)
      \/ queue' = queue /\ <<c.ip, "dropped">> \in holes'
  BY DEF HandOverNext, HandOver, Enqueue, Drop
<1>4. CASE c.ip # ip
  <2>1. Idle.phase = "idle" /\ ~Busy(m, ip, pcs) /\ db'[ip] = db[ip]
    BY <1>2, <1>4 DEF Busy, Idle
  <2>2. Owed(ip, pcs') = Owed(ip, pcs) /\ Row(ip, db', pcs') = Row(ip, db, pcs)
    BY <1>2, <2>1, NotInvolved
  <2> HIDE DEF c
  <2> QED
    BY <1>1, <1>2, <1>3, <1>4, <2>2, OtherQueued
<1>5. CASE c.ip = ip
  <2>1. queue' = Append(queue, c)
    BY <1>3, <1>5 DEF Clean, Causes
  <2>2. \A n \in Makers \ {m} : ~Busy(n, ip, pcs)
    BY <1>2, <1>5 DEF Busy, AllAlone, Alone
  <2>3. Owed(ip, pcs) = {c}
    BY <1>2, <1>5, <2>2, OwedAlone
  <2>4. pcs'[m].phase = "idle" /\ \A n \in Makers \ {m} : pcs'[n] = pcs[n]
    BY <1>1, <1>2 DEF Idle
  <2>5. \A n \in Makers : ~Busy(n, ip, pcs')
    BY <2>2, <2>4 DEF Busy
  <2>6. Owed(ip, pcs') = {}
    BY <2>5 DEF Owed, Busy
  <2>7. Row(ip, db', pcs') = Row(ip, db, pcs)
    <3>1. m \notin {"api", "peer"}
      BY <1>2 DEF Shapes, PhasesOK
    <3> QED
      BY <1>2, <2>2, <2>5, <3>1 DEF Row
  <2> DEFINE u == Under(b, calls)
             r == Row(ip, db, pcs)
  <2> HIDE DEF c, u, r
  <2>8. /\ EndsWell(u, queue, {c}, ip, r) => EndsWell(u, queue', {}, ip, r)
        /\ Brings(u, queue, {c}, ip, r) => Brings(u, queue', {}, ip, r)
    BY <1>1, <2>1, HandedOver
  <2>9. Under(b, calls') = u
    BY <1>2 DEF u
  <2> QED
    BY <1>2, <2>3, <2>6, <2>7, <2>8, <2>9 DEF Here, Consistent, WillReflect, r, u
<1> QED
  BY <1>4, <1>5

\* An IP that the database does not list asks for nothing.
LEMMA NothingAsked ==
  ASSUME NEW b, NEW ip, NEW u, NEW q, NEW o, NEW rs, NEW e, NEW behind
  PROVE  Consistent(b, ip, NoRow, u, q, o, rs, e, behind)
BY DEF Consistent, EndsWell, ResyncsAgree, WillReflect, Contradicts, InForce, NoRow

\* A promotion hands over its long block, with the first block still in hand.
LEMMA PromotedHere ==
  ASSUME Shapes, AllAlone, PromotionOK, CheckerPromoted,
         NEW b \in Backends, NEW ip \in IPs, Clean(ip, holes'), Clean(ip, holes), Here(b, ip)
  PROVE  Here(b, ip)'
<1> USE MakersAndThreads
<1>0. PICK c : c = pcs["checker"].cmd
  OBVIOUS
<1>1. PICK long : long = BlockCmd(c.ip, BadActorDuration)
  OBVIOUS
<1>2. /\ pcs \in [Makers -> [phase : {"idle", "promote", "queue", "write", "call"},
                           cmd : LiveCommands \cup {UnblockCmd(AnyIP)}]]
      /\ db \in [IPs -> [state : States, left : Nat]]
      /\ queue \in Seq(LiveCommands) /\ c \in LiveCommands /\ c.ip \in IPs
  BY <1>0, CommandFacts DEF Shapes, EnfTypeOK, CheckerPromoted
<1>3. long \in LiveCommands /\ long.ip = c.ip /\ Serves(long, c.ip, BlockedRow(BadActorDuration))
  BY <1>1, <1>2, CommandFacts, DurationFacts DEF BlockCmd
<1>4. PICK place : place = [phase |-> "queue", cmd |-> c]
  OBVIOUS
<1>5. pcs' = [pcs EXCEPT !["checker"] = place]
  <2>1. pcs["checker"] = [phase |-> pcs["checker"].phase, cmd |-> c]
    BY <1>0, <1>2
  <2>2. pcs' = [pcs EXCEPT !["checker"] = [pcs["checker"] EXCEPT !.phase = "queue"]]
    BY <1>2 DEF CheckerPromoted
  <2>3. [pcs["checker"] EXCEPT !.phase = "queue"] = place
    BY <1>4, <2>1
  <2> QED
    BY <2>2, <2>3
<1>6. /\ UNCHANGED <<calls, resync, left, health, missed>> /\ pcs["checker"].phase = "promote"
      /\ db' = [db EXCEPT ![c.ip] = BlockedRow(BadActorDuration)]
  BY <1>0 DEF CheckerPromoted, hapVars
<1>7. \/ queue' = Append(queue, long)
      \/ queue' = queue /\ <<long.ip, "dropped">> \in holes'
  BY <1>0, <1>1 DEF CheckerPromoted, HandOver, Enqueue, Drop
<1>8. CASE c.ip # ip
  <2>1. /\ place.phase = "idle" \/ place.cmd.ip # ip
        /\ ~Busy("checker", ip, pcs) /\ db'[ip] = db[ip] /\ "checker" \in Makers
    BY <1>0, <1>2, <1>4, <1>6, <1>8 DEF Busy
  <2>2. Owed(ip, pcs') = Owed(ip, pcs) /\ Row(ip, db', pcs') = Row(ip, db, pcs)
    BY ONLY Shapes, <1>5, <2>1, NotInvolved
  <2> QED
    BY <1>2, <1>3, <1>6, <1>7, <1>8, <2>2, OtherQueued
<1>9. CASE c.ip = ip
  <2>1. queue' = Append(queue, long)
    BY <1>3, <1>7, <1>9 DEF Clean, Causes
  <2>2. Busy("checker", ip, pcs) /\ \A n \in Makers \ {"checker"} : ~Busy(n, ip, pcs)
    BY <1>0, <1>6, <1>9 DEF Busy, AllAlone, Alone
  <2>3. c.kind = "block" /\ db[ip].state = "blocked"
    BY <1>0, <1>6, <2>2 DEF PromotionOK
  <2>4. pcs'["checker"] = place /\ \A n \in Makers \ {"checker"} : pcs'[n] = pcs[n]
    BY <1>2, <1>5
  <2>5. \A n \in Makers \ {"checker"} : ~Busy(n, ip, pcs')
    BY <2>2, <2>4 DEF Busy
  <2>6. Owed(ip, pcs') = {c}
    <3>1. /\ pcs'["checker"].cmd.ip = ip /\ pcs'["checker"].phase \in {"queue", "promote"}
          /\ pcs'["checker"].cmd = c /\ "checker" \in Makers
      BY <1>4, <1>9, <2>4
    <3> QED
      BY ONLY <2>5, <3>1, OwedAlone
  <2>7. Row(ip, db', pcs') = BlockedRow(BadActorDuration) /\ Row(ip, db, pcs) = db[ip]
    BY <1>2, <1>6, <1>9, <2>2, <2>5 DEF Row
  <2>8. \A d \in {c} : ~Contradicts(d, ip, BlockedRow(BadActorDuration))
    BY <2>3 DEF Contradicts, BlockedRow
  <2>9. /\ EndsWell(Under(b, calls'), queue', {c}, ip, BlockedRow(BadActorDuration))
        /\ Brings(Under(b, calls'), queue', {c}, ip, BlockedRow(BadActorDuration))
    BY <1>2, <1>3, <1>9, <2>1, <2>8, QueuedServerSettles
  <2>10. ResyncsAgree(b, ip, BlockedRow(BadActorDuration), resync')
    BY <1>6, <2>3, <2>7 DEF Here, Consistent, ResyncsAgree, BlockedRow
  <2> QED
    BY <2>6, <2>7, <2>9, <2>10 DEF Here, Consistent, WillReflect
<1> QED
  BY <1>8, <1>9

\* A peer's bad actor: the command is queued and the row to come counts.
LEMMA PeerBadActorHere ==
  ASSUME Shapes, NEW i \in IPs, PeerBadActor(i),
         NEW b \in Backends, NEW ip \in IPs, Clean(ip, holes'), Here(b, ip)
  PROVE  Here(b, ip)'
<1> USE MakersAndThreads
<1>1. PICK long : long = BlockCmd(i, BadActorDuration)
  OBVIOUS
<1>2. DOMAIN pcs = Makers /\ queue \in Seq(LiveCommands)
  BY DEF Shapes, EnfTypeOK
<1>3. long \in LiveCommands /\ long.ip = i /\ Serves(long, i, BlockedRow(BadActorDuration))
  BY <1>1, CommandFacts, DurationFacts DEF BlockCmd
<1>4. PICK place : place = [phase |-> "write", cmd |-> long]
  OBVIOUS
<1>5. pcs' = [pcs EXCEPT !["peer"] = place]
  BY <1>1, <1>4 DEF PeerBadActor
<1>6. UNCHANGED <<calls, resync, left, health, missed, db>> /\ pcs["peer"].phase = "idle"
  BY DEF PeerBadActor, hapVars
<1>7. /\ \/ queue' = Append(queue, long)
         \/ queue' = queue /\ <<i, "dropped">> \in holes'
      /\ Overlaps("peer", i) => <<i, "overlap">> \in holes'
  BY <1>1, <1>3 DEF PeerBadActor, HandOver, Enqueue, Drop
<1>8. CASE i # ip
  <2>1. /\ place.phase = "idle" \/ place.cmd.ip # ip
        /\ ~Busy("peer", ip, pcs) /\ db'[ip] = db[ip] /\ "peer" \in Makers
    BY <1>3, <1>4, <1>6, <1>8 DEF Busy
  <2>2. Owed(ip, pcs') = Owed(ip, pcs) /\ Row(ip, db', pcs') = Row(ip, db, pcs)
    BY ONLY Shapes, <1>5, <2>1, NotInvolved
  <2> QED
    BY <1>2, <1>3, <1>6, <1>7, <1>8, <2>2, OtherQueued
<1>9. CASE i = ip
  <2>1. queue' = Append(queue, long) /\ ~Overlaps("peer", ip)
    BY <1>7, <1>9 DEF Clean, Causes
  <2>2. /\ \A n \in Makers \ {"peer"} : ~Busy(n, ip, pcs)
        /\ \A s \in Slots : resync[s].phase \notin {"block", "unblock"}
    BY <2>1 DEF Overlaps, Busy
  <2>3. pcs'["peer"] = place /\ \A n \in Makers \ {"peer"} : pcs'[n] = pcs[n]
    BY <1>2, <1>5
  <2>4. Busy("peer", ip, pcs') /\ \A n \in Makers \ {"peer"} : ~Busy(n, ip, pcs')
    BY <1>3, <1>4, <1>9, <2>2, <2>3 DEF Busy
  <2>5. Owed(ip, pcs') = {}
    <3>1. /\ pcs'["peer"].cmd.ip = ip /\ pcs'["peer"].phase \notin {"queue", "promote"}
          /\ "peer" \in Makers
      BY <1>3, <1>4, <1>9, <2>3
    <3> QED
      BY ONLY <2>4, <3>1, OwedAlone
  <2>6. Row(ip, db', pcs') = BlockedRow(BadActorDuration)
    BY <2>4 DEF Row
  <2>7. /\ EndsWell(Under(b, calls'), queue', {}, ip, BlockedRow(BadActorDuration))
        /\ Brings(Under(b, calls'), queue', {}, ip, BlockedRow(BadActorDuration))
    BY <1>2, <1>3, <1>9, <2>1, QueuedServerSettles
  <2>8. ResyncsAgree(b, ip, BlockedRow(BadActorDuration), resync')
    BY <1>6, <2>2 DEF ResyncsAgree, Sends, Clears, Sending, Clearing
  <2> QED
    BY <2>5, <2>6, <2>7, <2>8 DEF Here, Consistent, WillReflect
<1> QED
  BY <1>8, <1>9

\* ... and the row that comes is that row.
LEMMA PeerWriteHere ==
  ASSUME Shapes, PeerWrite, NEW b \in Backends, NEW ip \in IPs, Clean(ip, holes'), Here(b, ip)
  PROVE  Here(b, ip)'
<1> USE MakersAndThreads
<1>1. PICK i : i = pcs["peer"].cmd.ip
  OBVIOUS
<1>2. /\ DOMAIN pcs = Makers /\ DOMAIN db = IPs
      /\ pcs' = [pcs EXCEPT !["peer"] = Idle] /\ pcs["peer"].phase = "write"
      /\ WriteState("peer", i, BlockedRow(BadActorDuration))
      /\ UNCHANGED <<queue, calls, resync, left, health, missed>>
  BY <1>1 DEF Shapes, EnfTypeOK, PeerWrite, queueVars, hapVars
<1>3. db' = [db EXCEPT ![i] = BlockedRow(BadActorDuration)]
  BY <1>2 DEF WriteState
<1>4. Owed(ip, pcs') = Owed(ip, pcs) /\ Row(ip, db', pcs') = Row(ip, db, pcs)
  <2>1. CASE i # ip
    <3>1. Idle.phase = "idle" /\ ~Busy("peer", ip, pcs) /\ db'[ip] = db[ip] /\ "peer" \in Makers
      BY <1>1, <1>2, <1>3, <2>1 DEF Busy, Idle
    <3> QED
      BY ONLY Shapes, <1>2, <3>1, NotInvolved
  <2>2. CASE i = ip
    <3>1. \A n \in Makers \ {"peer"} : ~Busy(n, ip, pcs)
      BY <1>2, <2>2, WriteIsAlone
    <3>2. pcs'["peer"].phase = "idle" /\ \A n \in Makers \ {"peer"} : pcs'[n] = pcs[n]
      BY <1>2 DEF Idle
    <3>3. \A n \in Makers : ~Busy(n, ip, pcs')
      BY <3>1, <3>2 DEF Busy
    <3>4. Busy("peer", ip, pcs)
      BY <1>1, <1>2, <2>2 DEF Busy
    <3>5. Owed(ip, pcs') = {} /\ Owed(ip, pcs) = {}
      <4>1. \A n \in Makers : ~(pcs[n].phase \in {"queue", "promote"} /\ pcs[n].cmd.ip = ip)
        BY <1>2, <3>1 DEF Busy
      <4>2. \A n \in Makers : ~(pcs'[n].phase \in {"queue", "promote"} /\ pcs'[n].cmd.ip = ip)
        BY <3>3 DEF Busy
      <4> QED
        BY <4>1, <4>2 DEF Owed
    <3>6. db'[ip] = BlockedRow(BadActorDuration)
      BY <1>2, <1>3, <2>2
    <3>7. ~Busy("api", ip, pcs) /\ ~Busy("api", ip, pcs') /\ ~Busy("peer", ip, pcs')
      BY <3>1, <3>3
    <3> QED
      BY <3>4, <3>5, <3>6, <3>7 DEF Row
  <2> QED
    BY <2>1, <2>2
<1> QED
  BY <1>2, <1>4, SameHere

\* While the API unblocks an IP, nothing is asked for it.
LEMMA ApiBusyHere ==
  ASSUME NEW b, NEW ip, Busy("api", ip, pcs')
  PROVE  Here(b, ip)'
<1>1. Row(ip, db', pcs') = NoRow
  BY DEF Row
<1> QED
  BY <1>1, NothingAsked DEF Here

LEMMA ApiUnblockHere ==
  ASSUME Shapes, NEW i \in IPs, ApiUnblock(i),
         NEW b \in Backends, NEW ip \in IPs, Here(b, ip)
  PROVE  Here(b, ip)'
<1> USE MakersAndThreads
<1>1. PICK place : place = [phase |-> "call", cmd |-> UnblockCmd(i)]
  OBVIOUS
<1>2. /\ DOMAIN pcs = Makers
      /\ pcs' = [pcs EXCEPT !["api"] = place] /\ pcs["api"].phase = "idle"
      /\ UNCHANGED <<queue, db, resync, left, health, missed>>
      /\ calls'["worker"] = calls["worker"]
  BY <1>1 DEF Shapes, EnfTypeOK, ApiUnblock, CallStart, queueVars
<1>3. place.phase = "call" /\ place.cmd.ip = i
  BY <1>1 DEF UnblockCmd
<1>4. CASE i = ip
  <2>1. Busy("api", ip, pcs')
    BY <1>2, <1>3, <1>4 DEF Busy
  <2> QED
    BY <2>1, ApiBusyHere
<1>5. CASE i # ip
  <2>1. /\ place.phase = "idle" \/ place.cmd.ip # ip
        /\ ~Busy("api", ip, pcs) /\ db'[ip] = db[ip] /\ "api" \in Makers
    BY <1>2, <1>3, <1>5 DEF Busy
  <2>2. Owed(ip, pcs') = Owed(ip, pcs) /\ Row(ip, db', pcs') = Row(ip, db, pcs)
    BY ONLY Shapes, <1>2, <2>1, NotInvolved
  <2>3. Under(b, calls') = Under(b, calls)
    BY <1>2 DEF Under
  <2> QED
    BY <1>2, <2>2, <2>3, SameHere
<1> QED
  BY <1>4, <1>5

LEMMA ApiReturnHere ==
  ASSUME Shapes, ApiReturn, NEW b \in Backends, NEW ip \in IPs, Clean(ip, holes'), Here(b, ip)
  PROVE  Here(b, ip)'
<1> USE MakersAndThreads
<1>1. /\ pcs["api"].phase = "call" /\ pcs["api"].cmd.ip = calls["api"].ip
      /\ pcs \in [Makers -> [phase : {"idle", "promote", "queue", "write", "call"},
                           cmd : LiveCommands \cup {UnblockCmd(AnyIP)}]]
      /\ UNCHANGED <<queue, db, resync, left, health, missed>>
      /\ calls'["worker"] = calls["worker"]
  BY DEF Shapes, EnfTypeOK, CallsOK, ApiReturn, CallReturn, CallDone, queueVars
<1>2. Under(b, calls') = Under(b, calls)
  BY <1>1 DEF Under
<1>3. PICK place : place = IF calls["api"].err THEN Idle ELSE [pcs["api"] EXCEPT !.phase = "write"]
  OBVIOUS
<1>4. pcs' = [pcs EXCEPT !["api"] = place]
  BY <1>1, <1>3 DEF ApiReturn
<1>5. CASE calls["api"].ip = ip
  <2>1. ~calls["api"].err
    BY <1>5 DEF ApiReturn, Clean, Causes
  <2>2. place.phase = "write" /\ place.cmd.ip = ip
    BY <1>1, <1>3, <1>5, <2>1
  <2>3. Busy("api", ip, pcs')
    BY <1>1, <1>4, <2>2 DEF Busy
  <2> QED
    BY <2>3, ApiBusyHere
<1>6. CASE calls["api"].ip # ip
  <2>1. place.phase = "idle" \/ place.cmd.ip # ip
    BY <1>1, <1>3, <1>6 DEF Idle
  <2>2. ~Busy("api", ip, pcs) /\ db'[ip] = db[ip] /\ "api" \in Makers
    BY <1>1, <1>6 DEF Busy
  <2>3. Owed(ip, pcs') = Owed(ip, pcs) /\ Row(ip, db', pcs') = Row(ip, db, pcs)
    BY ONLY Shapes, <1>4, <2>1, <2>2, NotInvolved
  <2> QED
    BY <1>1, <1>2, <2>3, SameHere
<1> QED
  BY <1>5, <1>6

LEMMA ApiRemoveHere ==
  ASSUME Shapes, ApiRemove, NEW b \in Backends, NEW ip \in IPs, Clean(ip, holes'), Here(b, ip)
  PROVE  Here(b, ip)'
<1> USE MakersAndThreads
<1>1. PICK i : i = pcs["api"].cmd.ip
  OBVIOUS
<1>2. /\ DOMAIN pcs = Makers /\ DOMAIN db = IPs
      /\ pcs' = [pcs EXCEPT !["api"] = Idle] /\ pcs["api"].phase = "write"
      /\ WriteState("api", i, NoRow)
      /\ UNCHANGED <<queue, calls, resync, left, health, missed>>
  BY <1>1 DEF Shapes, EnfTypeOK, ApiRemove, queueVars, hapVars
<1>3. db' = [db EXCEPT ![i] = NoRow]
  BY <1>2 DEF WriteState
<1>4. CASE i # ip
  <2>1. Idle.phase = "idle" /\ ~Busy("api", ip, pcs) /\ db'[ip] = db[ip] /\ "api" \in Makers
    BY <1>1, <1>2, <1>3, <1>4 DEF Busy, Idle
  <2>2. Owed(ip, pcs') = Owed(ip, pcs) /\ Row(ip, db', pcs') = Row(ip, db, pcs)
    BY ONLY Shapes, <1>2, <2>1, NotInvolved
  <2> QED
    BY <1>2, <2>2, SameHere
<1>5. CASE i = ip
  <2>1. \A n \in Makers \ {"api"} : ~Busy(n, ip, pcs)
    BY <1>2, <1>5, WriteIsAlone
  <2>2. ~Busy("peer", ip, pcs')
    BY <1>2, <2>1 DEF Busy
  <2>3. Row(ip, db', pcs') = NoRow
    BY <1>2, <1>3, <1>5, <2>2 DEF Row
  <2> QED
    BY <2>3, NothingAsked DEF Here
<1> QED
  BY <1>4, <1>5

(***************************************************************************)
(* ... of the worker and its calls                                         *)
(***************************************************************************)

\* The worker takes a command: for b it is under way, unless b is believed unhealthy.
LEMMA RunCommandHere ==
  ASSUME Shapes, RunCommand, NEW b \in Backends, NEW ip \in IPs, Clean(ip, holes'), Here(b, ip)
  PROVE  Here(b, ip)'
<1> USE MakersAndThreads
<1>1. PICK cmd : cmd = Head(queue)
  OBVIOUS
<1>2. /\ queue \in Seq(LiveCommands) /\ queue # <<>> /\ queue' = Tail(queue)
      /\ CallStart("worker", cmd)
      /\ UNCHANGED <<db, pcs, resync, left, health, missed>>
  BY <1>1 DEF Shapes, EnfTypeOK, RunCommand, WorkerTake, CallStart
<1>3. Under(b, calls) = {}
  BY <1>2 DEF Shapes, EnfTypeOK, CallStart, Under
<1>4. PICK call : call = [busy |-> TRUE, ip |-> cmd.ip, kind |-> cmd.kind, dur |-> cmd.dur,
                          sent |-> IF Skips(cmd) THEN {} ELSE Targets, err |-> FALSE]
  OBVIOUS
<1>5. calls'["worker"] = call
  <2>1. calls' = [calls EXCEPT !["worker"] = call]
    BY <1>2, <1>4 DEF CallStart
  <2>2. DOMAIN calls = Threads
    BY DEF Shapes, EnfTypeOK
  <2> QED
    BY <2>1, <2>2
<1>6. PICK c : c = Command(call)
  OBVIOUS
<1>7. c.kind = cmd.kind /\ c.ip = cmd.ip /\ c.dur = cmd.dur
  BY <1>4, <1>6 DEF Command
<1>8. Under(b, calls') = IF ~Skips(cmd) /\ health[b].ok THEN {c} ELSE {}
  <2>1. Under(b, calls') = IF b \in call.sent THEN {c} ELSE {}
    BY <1>5, <1>6 DEF Under
  <2>2. call.sent = IF Skips(cmd) THEN {} ELSE Targets
    BY <1>4
  <2>3. b \in Targets <=> health[b].ok
    BY DEF Targets
  <2> QED
    BY <2>1, <2>2, <2>3
<1>9. PICK o : o = Owed(ip, pcs)
  OBVIOUS
<1>10. PICK r : r = Row(ip, db, pcs)
  OBVIOUS
<1>11. /\ EndsWell({}, queue, o, ip, r) => EndsWell({}, queue', o, ip, r)
       /\ EndsWell({}, queue, o, ip, r) => EndsWell({c}, queue', o, ip, r)
       /\ Brings({}, queue, o, ip, r) => Brings({c}, queue', o, ip, r)
       /\ cmd.ip # ip /\ Brings({}, queue, o, ip, r) => Brings({}, queue', o, ip, r)
  BY <1>1, <1>2, <1>7, HeadTaken
<1>12. Skips(cmd) => cmd.ip # ip
  BY <1>1 DEF RunCommand, Clean, Causes
<1>13. Row(ip, db', pcs') = r /\ Owed(ip, pcs') = o
  BY <1>2, <1>9, <1>10
<1>14. EndsWell({}, queue, o, ip, r) /\ ResyncsAgree(b, ip, r, resync')
  BY <1>2, <1>3, <1>9, <1>10 DEF Here, Consistent
<1>15. EndsWell(Under(b, calls'), queue', o, ip, r)
  BY <1>8, <1>11, <1>14
<1>16. ASSUME ~Behind(b, ip, health, missed, resync)
       PROVE  WillReflect(b, ip, r, Under(b, calls'), queue', o, resync', left'[b][ip])
  <2>1. health[b].ok
    BY <1>16 DEF Behind
  <2>2. WillReflect(b, ip, r, {}, queue, o, resync, left[b][ip])
    BY <1>3, <1>9, <1>10, <1>16 DEF Here, Consistent
  <2>3. Brings({}, queue, o, ip, r) => Brings(Under(b, calls'), queue', o, ip, r)
    BY <1>8, <1>11, <1>12, <2>1
  <2> QED
    BY <1>2, <2>2, <2>3 DEF WillReflect
<1> QED
  BY <1>2, <1>13, <1>14, <1>15, <1>16 DEF Here, Consistent

LEMMA CommandDoneHere ==
  ASSUME Shapes, CommandDone, NEW b \in Backends, NEW ip \in IPs, Here(b, ip)
  PROVE  Here(b, ip)'
<1> USE MakersAndThreads
<1>1. /\ UNCHANGED <<queue, db, pcs, resync, left, health, missed>>
      /\ calls["worker"].sent = {} /\ calls' = [calls EXCEPT !["worker"] = NoCall]
      /\ DOMAIN calls = Threads
  BY DEF Shapes, EnfTypeOK, CommandDone, CallReturn, CallDone, WorkerFinish, decisionVars
<1>2. Under(b, calls') = {} /\ Under(b, calls) = {}
  BY <1>1 DEF Under, NoCall
<1> QED
  BY <1>1, <1>2, SameHere

\* The call for b is over, whatever became of it; here it may have changed the
\* entries of the IP.
LEMMA CallOver ==
  ASSUME NEW b, NEW ip, NEW r, NEW q, NEW o, NEW c
  PROVE  /\ EndsWell({c}, q, o, ip, r) => EndsWell({}, q, o, ip, r)
         /\ Brings({c}, q, o, ip, r) /\ ~Serves(c, ip, r) => Brings({}, q, o, ip, r)
         /\ EndsWell({c}, q, o, ip, r) /\ Contradicts(c, ip, r) => Brings({}, q, o, ip, r)
BY DEF EndsWell, Brings

\* What b does with a command: it serves the row, contradicts it, or leaves alone
\* what the row asks for.
LEMMA AppliedReflects ==
  ASSUME NEW b, NEW ip, NEW r, InForce(r) => r.left \in Nat, NEW q, NEW o, NEW rs,
         NEW e \in [Tables -> Nat], \A t \in Tables : e[t] <= Lifetime[t],
         NEW c, c.ip = ip, c.kind \in {"block", "unblock"}, c.dur \in Nat,
         EndsWell({c}, q, o, ip, r), WillReflect(b, ip, r, {c}, q, o, rs, e)
  PROVE  WillReflect(b, ip, r, {}, q, o, rs, Applied(e, c.kind, c.dur))
<1>1. PICK f : f = Applied(e, c.kind, c.dur)
  OBVIOUS
<1>2. \A t \in Tables : f[t] = IF c.kind = "unblock" THEN 0
                               ELSE IF t = TableFor(c.dur) THEN Lifetime[t] ELSE e[t]
  BY <1>1 DEF Applied
<1>3. \A t \in Tables : e[t] \in Nat /\ f[t] \in Nat /\ (c.kind = "block" => f[t] >= e[t])
  BY <1>2, TableFacts
<1>4. CASE Serves(c, ip, r)
  <2>1. ASSUME InForce(r)
        PROVE  \E t \in Tables : f[t] >= r.left
    <3>1. c.kind = "block" /\ Lifetime[TableFor(c.dur)] >= r.left /\ TableFor(c.dur) \in Tables
      BY <1>4, <2>1, TableFacts DEF Serves, InForce
    <3> QED
      BY <1>2, <3>1
  <2>2. ASSUME r.state = "unblocked"
        PROVE  \A t \in Tables : f[t] = 0
    BY <1>2, <1>4, <2>2 DEF Serves
  <2> QED
    BY <1>1, <2>1, <2>2 DEF WillReflect
<1>5. CASE Brings({}, q, o, ip, r)
  BY <1>5 DEF WillReflect
<1>6. CASE ~Serves(c, ip, r) /\ ~Contradicts(c, ip, r) /\ ~Brings({}, q, o, ip, r)
  <2>1. ~Brings({c}, q, o, ip, r)
    BY <1>6, CallOver
  <2>2. ASSUME InForce(r)
        PROVE  \E t \in Tables : f[t] >= r.left \/ (Sends(rs, b, ip, t) /\ Lifetime[t] >= r.left)
    <3>1. c.kind = "block"
      BY <1>6, <2>2 DEF Contradicts
    <3>2. PICK t \in Tables : e[t] >= r.left \/ (Sends(rs, b, ip, t) /\ Lifetime[t] >= r.left)
      BY <2>1, <2>2 DEF WillReflect
    <3>3. r.left \in Nat /\ f[t] >= e[t] /\ f[t] \in Nat /\ e[t] \in Nat
      BY <1>3, <2>2, <3>1
    <3> QED
      BY <3>2, <3>3
  <2>3. r.state # "unblocked"
    BY <1>6 DEF Contradicts, Serves
  <2> QED
    BY <1>1, <2>2, <2>3 DEF WillReflect
<1> QED
  BY <1>4, <1>5, <1>6, CallOver

\* A call of the worker or the API reaches a backend, or fails for it.
LEMMA DeliverHere ==
  ASSUME Shapes, NEW th \in Threads, NEW d \in Backends, Deliver(th, d) \/ DeliverFails(th, d),
         UNCHANGED <<queueVars, decisionVars>>,
         NEW b \in Backends, NEW ip \in IPs, Here(b, ip)
  PROVE  Here(b, ip)'
<1> USE MakersAndThreads
<1>1. PICK call : call = calls[th]
  OBVIOUS
<1>2. /\ calls \in [Threads -> CallRecords] /\ call \in CallRecords
      /\ d \in call.sent /\ call.busy /\ call.ip \in IPs
      /\ UNCHANGED <<queue, db, pcs, resync, health>>
  BY <1>1 DEF Shapes, EnfTypeOK, Deliver, DeliverFails, queueVars, decisionVars
<1>3. /\ left \in [Backends -> [IPs -> [Tables -> Nat]]] /\ missed \in [Backends -> SUBSET IPs]
      /\ \A t \in Tables : left[b][ip][t] <= Lifetime[t]
  BY DEF Shapes, EnfTypeOK
<1>4. PICK f : f = Applied(left[d][call.ip], call.kind, call.dur)
  OBVIOUS
<1>5. /\ \A n \in Threads \ {th} : calls'[n] = calls[n]
      /\ Command(calls'[th]) = Command(calls[th])
      /\ calls'[th].sent = call.sent \ {d}
  <2>1. CASE calls' = [calls EXCEPT ![th].sent = @ \ {d}]
    BY <1>1, <1>2, <2>1 DEF CallRecords, Command
  <2>2. CASE calls' = [calls EXCEPT ![th].sent = @ \ {d}, ![th].err = TRUE]
    BY <1>1, <1>2, <2>2 DEF CallRecords, Command
  <2> QED
    BY <2>1, <2>2 DEF Deliver, DeliverFails
<1>6. Under(b, calls') = IF th = "worker" /\ b = d THEN {} ELSE Under(b, calls)
  BY <1>1, <1>5 DEF Under
<1>7. /\ left' = left \/ left' = [left EXCEPT ![d][call.ip] = f]
      /\ \/ missed' = missed /\ left' = [left EXCEPT ![d][call.ip] = f]
         \/ missed' = [missed EXCEPT ![d] = @ \cup {call.ip}]
  BY <1>1, <1>4 DEF Deliver, DeliverFails
<1>8. CASE b # d
  <2>1. left'[b][ip] = left[b][ip] /\ missed'[b] = missed[b]
    BY <1>3, <1>7, <1>8
  <2>2. Under(b, calls') = Under(b, calls)
    BY <1>6, <1>8
  <2> QED
    BY <1>2, <2>1, <2>2, SameHere DEF Behind
<1>9. CASE b = d
  <2>0. PICK o : o = Owed(ip, pcs)
    OBVIOUS
  <2>1. PICK r : r = Row(ip, db, pcs)
    OBVIOUS
  <2>2. Row(ip, db', pcs') = r /\ Owed(ip, pcs') = o
    BY <1>2, <2>0, <2>1
  <2>3. CASE th = "api" /\ call.ip = ip
    <3>1. Busy("api", ip, pcs')
      BY <1>1, <1>2, <2>3 DEF Shapes, CallsOK, Busy
    <3> QED
      BY <3>1, ApiBusyHere
  <2>4. CASE th = "api" /\ call.ip # ip
    <3>1. left'[b][ip] = left[b][ip] /\ (ip \in missed[b] => ip \in missed'[b])
      BY <1>3, <1>7, <2>4
    <3>2. Under(b, calls') = Under(b, calls)
      BY <1>6, <2>4
    <3> QED
      BY <1>2, <3>1, <3>2, SameHere DEF Behind
  <2>5. CASE th = "worker"
    <3>1. PICK c : c = Command(call)
      OBVIOUS
    <3>2. Under(b, calls) = {c} /\ Under(b, calls') = {}
      BY <1>1, <1>2, <1>6, <1>9, <2>5, <3>1 DEF Under
    <3>3. c.ip = call.ip /\ c.kind = call.kind /\ c.dur = call.dur /\ c.dur \in Nat
      BY <1>2, <3>1 DEF Command, CallRecords
    <3>4. /\ EndsWell({c}, queue, o, ip, r) /\ ResyncsAgree(b, ip, r, resync)
          /\ ~Behind(b, ip, health, missed, resync) =>
               WillReflect(b, ip, r, {c}, queue, o, resync, left[b][ip])
      BY <2>0, <2>1, <3>2 DEF Here, Consistent
    <3>5. EndsWell({}, queue, o, ip, r)
      BY <3>4, CallOver
    <3>6. CASE call.ip # ip
      <4>1. left'[b][ip] = left[b][ip] /\ (ip \in missed[b] => ip \in missed'[b])
        BY <1>3, <1>7, <3>6
      <4>2. Brings({c}, queue, o, ip, r) => Brings({}, queue, o, ip, r)
        BY <3>3, <3>6, CallOver DEF Serves
      <4>3. Behind(b, ip, health, missed, resync) => Behind(b, ip, health', missed', resync')
        BY <1>2, <4>1 DEF Behind
      <4> QED
        BY <1>2, <2>2, <3>2, <3>4, <3>5, <4>1, <4>2, <4>3 DEF Here, Consistent, WillReflect
    <3>7. CASE call.ip = ip /\ missed' = missed /\ left' = [left EXCEPT ![d][call.ip] = f]
      <4>1. left' = [left EXCEPT ![d][ip] = f]
        BY <3>7
      <4>2. left'[b][ip] = Applied(left[b][ip], c.kind, c.dur)
        BY <1>3, <1>4, <1>9, <3>3, <3>7, <4>1
      <4>3. c.kind \in {"block", "unblock"}
        <5>1. call.kind # "none"
          BY <1>1, <1>2, <2>5 DEF Shapes, CallsOK
        <5> QED
          BY <1>2, <3>3, <5>1 DEF CallRecords
      <4>4. r.left \in Nat
        BY <2>1, EnforcementAssumption
        DEF Shapes, EnfTypeOK, Row, NoRow, BlockedRow, EnforcementAssumption
      <4>5. PICK e : e = left[b][ip]
        OBVIOUS
      <4>6. e \in [Tables -> Nat] /\ \A t \in Tables : e[t] <= Lifetime[t]
        BY <1>3, <4>5
      <4>7. c.ip = ip /\ (InForce(r) => r.left \in Nat) /\ c.dur \in Nat
        BY <3>3, <3>7, <4>4
      <4>8. WillReflect(b, ip, r, {c}, queue, o, resync, e) =>
              WillReflect(b, ip, r, {}, queue, o, resync, Applied(e, c.kind, c.dur))
        BY ONLY <3>4, <4>3, <4>6, <4>7, AppliedReflects
      <4>9. ~Behind(b, ip, health, missed, resync) =>
              WillReflect(b, ip, r, {}, queue, o, resync, left'[b][ip])
        BY <3>4, <4>2, <4>5, <4>8
      <4> QED
        BY <1>2, <2>2, <3>2, <3>4, <3>5, <3>7, <4>9 DEF Here, Consistent, Behind
    <3>8. CASE call.ip = ip /\ missed' = [missed EXCEPT ![d] = @ \cup {call.ip}]
      <4>1. Behind(b, ip, health', missed', resync')
        BY <1>3, <1>9, <3>8 DEF Behind
      <4> QED
        BY <1>2, <2>2, <3>2, <3>4, <3>5, <4>1 DEF Here, Consistent
    <3> QED
      BY <1>7, <3>6, <3>7, <3>8
  <2> QED
    BY <2>3, <2>4, <2>5
<1> QED
  BY <1>8, <1>9

(***************************************************************************)
(* ... of the health check and the resyncs                                 *)
(***************************************************************************)

\* One slot changes: what the others do stays.
LEMMA SlotChanged ==
  ASSUME Shapes, NEW s \in Slots, NEW old, old = resync[s], NEW new,
         resync' = [resync EXCEPT ![s] = new], NEW b, NEW ip, NEW t
  PROVE  /\ Sends(resync', b, ip, t) => Sends(resync, b, ip, t) \/ Sending(new, b, ip, t)
         /\ Sends(resync, b, ip, t) => Sends(resync', b, ip, t) \/ Sending(old, b, ip, t)
         /\ Sending(new, b, ip, t) => Sends(resync', b, ip, t)
         /\ Clears(resync', b, ip, t) => Clears(resync, b, ip, t) \/ Clearing(new, b, ip, t)
         /\ Clears(resync, b, ip, t) => Clears(resync', b, ip, t) \/ Clearing(old, b, ip, t)
         /\ Clearing(new, b, ip, t) => Clears(resync', b, ip, t)
         /\ Asks(resync, b) => Asks(resync', b) \/ Asking(old, b)
         /\ Asking(new, b) => Asks(resync', b)
<1>1. DOMAIN resync = Slots
  BY DEF Shapes, EnfTypeOK
<1>2. resync'[s] = new /\ \A n \in Slots \ {s} : resync'[n] = resync[n]
  BY <1>1
<1>3. /\ Sends(resync', b, ip, t) => Sends(resync, b, ip, t) \/ Sending(new, b, ip, t)
      /\ Sends(resync, b, ip, t) => Sends(resync', b, ip, t) \/ Sending(old, b, ip, t)
      /\ Sending(new, b, ip, t) => Sends(resync', b, ip, t)
  BY <1>2 DEF Sends
<1>4. /\ Clears(resync', b, ip, t) => Clears(resync, b, ip, t) \/ Clearing(new, b, ip, t)
      /\ Clears(resync, b, ip, t) => Clears(resync', b, ip, t) \/ Clearing(old, b, ip, t)
      /\ Clearing(new, b, ip, t) => Clears(resync', b, ip, t)
  BY <1>2 DEF Clears
<1>5. /\ Asks(resync, b) => Asks(resync', b) \/ Asking(old, b)
      /\ Asking(new, b) => Asks(resync', b)
  BY <1>2 DEF Asks
<1> QED
  BY <1>3, <1>4, <1>5

\* Rows, commands and entries stay; the resyncs go on, doing no more than before
\* against the row, and what they give up leaves b behind.
LEMMA ResyncsGoOn ==
  ASSUME NEW b, NEW ip, Here(b, ip), UNCHANGED <<queue, db, pcs, calls>>, left'[b][ip] = left[b][ip],
         \A t \in Tables : /\ Sends(resync', b, ip, t) => Sends(resync, b, ip, t)
                           /\ Clears(resync', b, ip, t) => Clears(resync, b, ip, t),
         \/ Behind(b, ip, health', missed', resync')
         \/ /\ ~Behind(b, ip, health, missed, resync)
            /\ \A t \in Tables : /\ Sends(resync, b, ip, t) => Sends(resync', b, ip, t)
                                 /\ Clears(resync, b, ip, t) => Clears(resync', b, ip, t)
  PROVE  Here(b, ip)'
<1>1. PICK r : r = Row(ip, db, pcs)
  OBVIOUS
<1>2. Row(ip, db', pcs') = r /\ Under(b, calls') = Under(b, calls) /\ Owed(ip, pcs') = Owed(ip, pcs)
  BY <1>1
<1>3. ResyncsAgree(b, ip, r, resync')
  BY <1>1 DEF Here, Consistent, ResyncsAgree
<1>4. ASSUME ~Behind(b, ip, health', missed', resync')
      PROVE  WillReflect(b, ip, r, Under(b, calls), queue, Owed(ip, pcs), resync', left[b][ip])
  <2>1. WillReflect(b, ip, r, Under(b, calls), queue, Owed(ip, pcs), resync, left[b][ip])
    BY <1>1, <1>4 DEF Here, Consistent
  <2> QED
    BY <1>4, <2>1 DEF WillReflect
<1> QED
  BY <1>1, <1>2, <1>3, <1>4 DEF Here, Consistent

LEMMA HealthHere ==
  ASSUME Shapes, NEW d \in Backends, HealthProbe(d) \/ HealthRecord,
         UNCHANGED <<queueVars, decisionVars>>,
         NEW b \in Backends, NEW ip \in IPs, Here(b, ip)
  PROVE  Here(b, ip)'
<1>1. UNCHANGED <<queue, db, pcs, calls, left, missed>>
  BY DEF HealthProbe, HealthRecord, queueVars, decisionVars
<1>2. CASE HealthProbe(d)
  BY <1>1, <1>2, SameHere DEF HealthProbe
<1>3. CASE HealthRecord
  <2>1. PICK a : a = probe.b
    OBVIOUS
  <2>2. /\ \A n \in Backends \ {a} : health'[n] = health[n]
        /\ a \in Backends /\ health'[a].ok = (probe.state = "answered")
    BY <1>3, <2>1 DEF HealthRecord, Shapes, EnfTypeOK
  <2>3. CASE resync' = resync /\ ~(probe.state = "answered" /\ NeedsResync(a, probe.uptime))
    <3>1. probe.state = "answered" => health[a].ok
      BY <2>3 DEF NeedsResync
    <3>2. Behind(b, ip, health, missed, resync) => Behind(b, ip, health', missed', resync')
      BY <1>1, <2>2, <2>3, <3>1 DEF Behind
    <3> QED
      BY <1>1, <2>3, <3>2, SameHere
  <2>4. CASE \E s \in Slots : /\ resync[s].phase = "idle"
                              /\ resync' = [resync EXCEPT ![s] = [NoResync EXCEPT !.phase = "query", !.b = a]]
    <3>1. PICK s \in Slots : /\ resync[s].phase = "idle"
                             /\ resync' = [resync EXCEPT ![s] = [NoResync EXCEPT !.phase = "query", !.b = a]]
      BY <2>4
    <3>2. PICK new : new = [NoResync EXCEPT !.phase = "query", !.b = a]
      OBVIOUS
    <3>3. PICK old : old = resync[s]
      OBVIOUS
    <3>4. new.phase = "query" /\ new.b = a /\ old.phase = "idle"
      BY <3>1, <3>2, <3>3 DEF NoResync
    <3>5. resync' = [resync EXCEPT ![s] = new]
      BY <3>1, <3>2
    <3>6. \A t \in Tables : /\ Sends(resync', b, ip, t) <=> Sends(resync, b, ip, t)
                            /\ Clears(resync', b, ip, t) <=> Clears(resync, b, ip, t)
      <4>1. \A t : /\ ~Sending(old, b, ip, t) /\ ~Sending(new, b, ip, t)
                   /\ ~Clearing(old, b, ip, t) /\ ~Clearing(new, b, ip, t)
        BY <3>4 DEF Sending, Clearing
      <4> QED
        BY <3>3, <3>5, <4>1, SlotChanged
    <3>7. Asks(resync, b) => Asks(resync', b)
      BY <3>3, <3>4, <3>5, SlotChanged DEF Asking
    <3>8. b = a => Asks(resync', b)
      BY <3>3, <3>4, <3>5, SlotChanged DEF Asking
    <3>9. Behind(b, ip, health, missed, resync) => Behind(b, ip, health', missed', resync')
      BY <1>1, <2>2, <3>7, <3>8 DEF Behind
    <3> QED
      BY <1>1, <3>6, <3>9, ResyncsGoOn
  <2> QED
    BY <1>3, <2>1, <2>3, <2>4 DEF HealthRecord
<1> QED
  BY <1>2, <1>3

\* A resync reads the database: what it will do settles every row.
LEMMA ResyncReadHere ==
  ASSUME Shapes, NEW s \in Slots, ResyncRead(s),
         NEW b \in Backends, NEW ip \in IPs, Clean(ip, holes'), Here(b, ip)
  PROVE  Here(b, ip)'
<1> USE MakersAndThreads
<1>1. PICK old : old = resync[s]
  OBVIOUS
<1>2. PICK new : new = [resync[s] EXCEPT !.phase = "block", !.blocks = ResyncBlocks,
                          !.unblocks = {i \in IPs : db[i].state = "unblocked"} \X Tables]
  OBVIOUS
<1>3. resync \in [Slots -> ResyncRecords] /\ missed \in [Backends -> SUBSET IPs]
  BY DEF Shapes, EnfTypeOK
<1>4. /\ old.phase = "query" /\ new.phase = "block" /\ new.b = old.b
      /\ new.blocks = ResyncBlocks
      /\ new.unblocks = {i \in IPs : db[i].state = "unblocked"} \X Tables
  BY <1>1, <1>2, <1>3 DEF ResyncRead, ResyncQuery, ResyncRecords
<1>5. /\ resync' = [resync EXCEPT ![s] = new]
      /\ missed' = [missed EXCEPT ![old.b] = {}]
      /\ UNCHANGED <<queue, db, pcs, calls, left, health>>
  BY <1>1, <1>2 DEF ResyncRead, ResyncQuery, queueVars
<1>6. CASE b # old.b
  <2>1. \A t \in Tables : /\ Sends(resync', b, ip, t) <=> Sends(resync, b, ip, t)
                          /\ Clears(resync', b, ip, t) <=> Clears(resync, b, ip, t)
    <3>1. \A t : /\ ~Sending(old, b, ip, t) /\ ~Sending(new, b, ip, t)
                 /\ ~Clearing(old, b, ip, t) /\ ~Clearing(new, b, ip, t)
      BY <1>4, <1>6 DEF Sending, Clearing
    <3> QED
      BY <1>1, <1>5, <3>1, SlotChanged
  <2>2. Asks(resync, b) => Asks(resync', b)
    <3>1. ~Asking(old, b)
      BY <1>6 DEF Asking
    <3> QED
      BY <1>1, <1>5, <3>1, SlotChanged
  <2>3. missed'[b] = missed[b]
    BY <1>3, <1>5, <1>6
  <2> QED
    BY <1>5, <2>1, <2>2, <2>3, ResyncsGoOn DEF Behind
<1>7. CASE b = old.b /\ Busy("api", ip, pcs')
  BY <1>7, ApiBusyHere
<1>8. CASE b = old.b /\ ~Busy("api", ip, pcs')
  <2>1. ~Busy("peer", ip, pcs)
    <3>1. <<ip, "peer">> \notin holes'
      BY DEF Clean, Causes
    <3>2. ~(pcs["peer"].phase = "write" /\ pcs["peer"].cmd.ip = ip)
      BY <3>1 DEF ResyncRead, EarlyBlocks
    <3> QED
      BY <3>2 DEF Busy, Shapes, PhasesOK
  <2>2. PICK r : r = db[ip]
    OBVIOUS
  <2>3. Row(ip, db, pcs) = r /\ Row(ip, db', pcs') = r
    BY <1>5, <1>8, <2>1, <2>2 DEF Row
  <2>4. /\ \A t \in Tables : <<ip, t>> \in new.blocks => r.state = "blocked"
        /\ InForce(r) => <<ip, TableFor(r.left)>> \in new.blocks
        /\ \A t \in Tables : <<ip, t>> \in new.unblocks <=> r.state = "unblocked"
    BY <1>4, <2>2 DEF ResyncBlocks, InForce
  <2>5. ResyncsAgree(b, ip, r, resync')
    <3>1. ASSUME NEW t \in Tables
          PROVE  /\ r.state = "blocked" => ~Clears(resync', b, ip, t)
                 /\ r.state = "unblocked" => ~Sends(resync', b, ip, t)
      <4>1. /\ r.state = "blocked" => ~Clears(resync, b, ip, t)
            /\ r.state = "unblocked" => ~Sends(resync, b, ip, t)
        BY <2>3 DEF Here, Consistent, ResyncsAgree
      <4> QED
        BY <1>1, <1>5, <2>4, <4>1, SlotChanged DEF Sending, Clearing
    <3> QED
      BY <3>1 DEF ResyncsAgree
  <2>6. InForce(r) => \E t \in Tables : Sends(resync', b, ip, t) /\ Lifetime[t] >= r.left
    <3>1. r.left \in Nat /\ r.left <= Lifetime[Fallback]
      BY <2>2 DEF Shapes, EnfTypeOK
    <3>2. TableFor(r.left) \in Tables /\ Lifetime[TableFor(r.left)] >= r.left
      BY <3>1, TableFacts
    <3>3. InForce(r) => Sending(new, b, ip, TableFor(r.left))
      BY <1>4, <1>8, <2>4 DEF Sending
    <3>4. InForce(r) => Sends(resync', b, ip, TableFor(r.left))
      BY <1>1, <1>5, <3>3, SlotChanged
    <3> QED
      BY <3>2, <3>4
  <2>7. r.state = "unblocked" => \A t \in Tables : Clears(resync', b, ip, t)
    <3>1. ASSUME r.state = "unblocked", NEW t \in Tables
          PROVE  Clears(resync', b, ip, t)
      <4>1. Clearing(new, b, ip, t)
        BY <1>4, <1>8, <2>4, <3>1 DEF Clearing
      <4> QED
        BY <1>1, <1>5, <4>1, SlotChanged
    <3> QED
      BY <3>1
  <2>8. EndsWell(Under(b, calls'), queue', Owed(ip, pcs'), ip, r)
    BY <1>5, <2>3 DEF Here, Consistent
  <2> QED
    BY <2>3, <2>5, <2>6, <2>7, <2>8 DEF Here, Consistent, WillReflect
<1> QED
  BY <1>6, <1>7, <1>8

\* A resync that cannot read it: the backend lacks whatever it was not sent.
LEMMA ResyncReadFailsHere ==
  ASSUME Shapes, NEW s \in Slots, ResyncReadFails(s),
         NEW b \in Backends, NEW ip \in IPs, Here(b, ip)
  PROVE  Here(b, ip)'
<1>1. PICK old : old = resync[s]
  OBVIOUS
<1>2. missed \in [Backends -> SUBSET IPs]
  BY DEF Shapes, EnfTypeOK
<1>3. /\ UNCHANGED <<queue, db, pcs, calls, left, health>>
      /\ resync' = [resync EXCEPT ![s] = NoResync]
      /\ missed' = [missed EXCEPT ![old.b] = IPs]
      /\ old.phase = "query"
  BY <1>1 DEF ResyncReadFails, ResyncQueryFails, queueVars
<1>4. \A t : /\ ~Sending(old, b, ip, t) /\ ~Sending(NoResync, b, ip, t)
             /\ ~Clearing(old, b, ip, t) /\ ~Clearing(NoResync, b, ip, t)
  BY <1>3 DEF Sending, Clearing, NoResync
<1>5. \A t \in Tables : /\ Sends(resync', b, ip, t) <=> Sends(resync, b, ip, t)
                        /\ Clears(resync', b, ip, t) <=> Clears(resync, b, ip, t)
  BY <1>1, <1>3, <1>4, SlotChanged
<1>6. CASE b = old.b
  <2>1. ip \in missed'[b]
    BY <1>2, <1>3, <1>6
  <2> QED
    BY <1>3, <1>5, <2>1, ResyncsGoOn DEF Behind
<1>7. CASE b # old.b
  <2>1. missed'[b] = missed[b]
    BY <1>2, <1>3, <1>7
  <2>2. Asks(resync, b) => Asks(resync', b)
    <3>1. ~Asking(old, b)
      BY <1>7 DEF Asking
    <3> QED
      BY <1>1, <1>3, <3>1, SlotChanged
  <2> QED
    BY <1>3, <1>5, <2>1, <2>2, ResyncsGoOn DEF Behind
<1> QED
  BY <1>6, <1>7

LEMMA ResyncTablesHere ==
  ASSUME Shapes, NEW s \in Slots, ResyncTables(s), UNCHANGED <<queueVars, decisionVars>>,
         NEW b \in Backends, NEW ip \in IPs, Here(b, ip)
  PROVE  Here(b, ip)'
<1>1. PICK old : old = resync[s]
  OBVIOUS
<1>2. PICK ips : ips = {p[1] : p \in old.unblocks}
  OBVIOUS
<1>3. resync \in [Slots -> ResyncRecords] /\ missed \in [Backends -> SUBSET IPs]
  BY DEF Shapes, EnfTypeOK
<1>4. /\ UNCHANGED <<queue, db, pcs, calls, left, health>>
      /\ old.phase = "block" /\ old.blocks = {} /\ old.b \in Backends
  BY <1>1, <1>3 DEF ResyncTables, queueVars, decisionVars, ResyncRecords
<1>5. \A t : ~Sending(old, b, ip, t)
  BY <1>4 DEF Sending
<1>6. ~Asking(old, b)
  BY <1>4 DEF Asking
<1>7. \A t \in Tables : Clearing(old, b, ip, t) => b = old.b /\ ip \in ips
  BY <1>2 DEF Clearing
<1>8. PICK new : resync' = [resync EXCEPT ![s] = new]
                 /\ (\/ new = [old EXCEPT !.phase = "unblock"] /\ missed' = missed
                     \/ new = NoResync /\ missed' = [missed EXCEPT ![old.b] = @ \cup ips])
  <2>1. CASE resync' = [resync EXCEPT ![s].phase = "unblock"] /\ missed' = missed
    BY <1>1, <2>1
  <2>2. CASE resync' = [resync EXCEPT ![s] = NoResync] /\ missed' = [missed EXCEPT ![old.b] = @ \cup ips]
    BY <2>2
  <2> QED
    BY <1>1, <1>2, <2>1, <2>2 DEF ResyncTables
<1>9. CASE new = [old EXCEPT !.phase = "unblock"] /\ missed' = missed
  <2>1. new.phase = "unblock" /\ new.b = old.b /\ new.unblocks = old.unblocks
    BY <1>1, <1>3, <1>9 DEF ResyncRecords
  <2>2. \A t : ~Sending(new, b, ip, t) /\ (Clearing(new, b, ip, t) <=> Clearing(old, b, ip, t))
    BY <1>4, <2>1 DEF Sending, Clearing
  <2>3. \A t \in Tables : /\ Sends(resync', b, ip, t) <=> Sends(resync, b, ip, t)
                          /\ Clears(resync', b, ip, t) <=> Clears(resync, b, ip, t)
    <3>1. ASSUME NEW t \in Tables
          PROVE  /\ Sends(resync', b, ip, t) <=> Sends(resync, b, ip, t)
                 /\ Clears(resync', b, ip, t) => Clears(resync, b, ip, t)
                 /\ Clears(resync, b, ip, t) => Clears(resync', b, ip, t)
      <4>1. Clearing(old, b, ip, t) => Clears(resync, b, ip, t)
        BY <1>1 DEF Clears
      <4>2. /\ Sends(resync', b, ip, t) => Sends(resync, b, ip, t) \/ Sending(new, b, ip, t)
            /\ Sends(resync, b, ip, t) => Sends(resync', b, ip, t) \/ Sending(old, b, ip, t)
            /\ Clears(resync', b, ip, t) => Clears(resync, b, ip, t) \/ Clearing(new, b, ip, t)
            /\ Clears(resync, b, ip, t) => Clears(resync', b, ip, t) \/ Clearing(old, b, ip, t)
            /\ Clearing(new, b, ip, t) => Clears(resync', b, ip, t)
        BY ONLY Shapes, <1>1, <1>8, SlotChanged
      <4> QED
        BY <1>5, <2>2, <4>1, <4>2
    <3> QED
      BY <3>1
  <2>4. Behind(b, ip, health, missed, resync) => Behind(b, ip, health', missed', resync')
    <3>1. Asks(resync, b) => Asks(resync', b)
      BY <1>1, <1>6, <1>8, SlotChanged
    <3> QED
      BY <1>4, <1>9, <3>1 DEF Behind
  <2> QED
    BY <1>4, <2>3, <2>4, ResyncsGoOn
<1>10. CASE new = NoResync /\ missed' = [missed EXCEPT ![old.b] = @ \cup ips]
  <2>1. \A t : ~Sending(new, b, ip, t) /\ ~Clearing(new, b, ip, t)
    BY <1>10 DEF Sending, Clearing, NoResync
  <2>2. ip \in missed[b] => ip \in missed'[b]
    BY <1>3, <1>4, <1>10
  <2>3. b = old.b /\ ip \in ips => ip \in missed'[b]
    BY <1>3, <1>4, <1>10
  <2>4. \A t \in Tables : /\ Sends(resync', b, ip, t) <=> Sends(resync, b, ip, t)
                          /\ Clears(resync', b, ip, t) => Clears(resync, b, ip, t)
                          /\ Clears(resync, b, ip, t) => Clears(resync', b, ip, t)
                                                         \/ (b = old.b /\ ip \in ips)
    <3>1. ASSUME NEW t \in Tables
          PROVE  /\ Sends(resync', b, ip, t) <=> Sends(resync, b, ip, t)
                 /\ Clears(resync', b, ip, t) => Clears(resync, b, ip, t)
                 /\ Clears(resync, b, ip, t) => Clears(resync', b, ip, t) \/ Clearing(old, b, ip, t)
      <4>1. /\ Sends(resync', b, ip, t) => Sends(resync, b, ip, t) \/ Sending(new, b, ip, t)
            /\ Sends(resync, b, ip, t) => Sends(resync', b, ip, t) \/ Sending(old, b, ip, t)
            /\ Clears(resync', b, ip, t) => Clears(resync, b, ip, t) \/ Clearing(new, b, ip, t)
            /\ Clears(resync, b, ip, t) => Clears(resync', b, ip, t) \/ Clearing(old, b, ip, t)
        BY ONLY Shapes, <1>1, <1>8, SlotChanged
      <4> QED
        BY <1>5, <2>1, <4>1
    <3> QED
      BY <1>7, <3>1
  <2>5. Asks(resync, b) => Asks(resync', b)
    BY <1>1, <1>6, <1>8, SlotChanged
  <2>6. Behind(b, ip, health, missed, resync) => Behind(b, ip, health', missed', resync')
    BY <1>4, <2>2, <2>5 DEF Behind
  <2>7. ip \in missed'[b] => Behind(b, ip, health', missed', resync')
    BY DEF Behind
  <2> QED
    BY <1>4, <2>3, <2>4, <2>6, <2>7, ResyncsGoOn
<1> QED
  BY <1>8, <1>9, <1>10

\* A resync sends the next of its entries, or the next of its removals.
LEMMA ResyncStepHere ==
  ASSUME Shapes, NEW s \in Slots, NEW i \in IPs, NEW u \in Tables,
         ResyncBlock(s, i, u) \/ ResyncUnblock(s, i, u), UNCHANGED <<queueVars, decisionVars>>,
         NEW b \in Backends, NEW ip \in IPs, Here(b, ip)
  PROVE  Here(b, ip)'
<1>1. PICK old : old = resync[s]
  OBVIOUS
<1>2. /\ resync \in [Slots -> ResyncRecords] /\ missed \in [Backends -> SUBSET IPs]
      /\ left \in [Backends -> [IPs -> [Tables -> Nat]]]
      /\ \A t \in Tables : left[b][ip][t] <= Lifetime[t]
      /\ old \in ResyncRecords /\ old.b \in Backends
  BY <1>1 DEF Shapes, EnfTypeOK, ResyncRecords
<1>3. UNCHANGED <<queue, db, pcs, calls, health>>
  BY DEF ResyncBlock, ResyncUnblock, queueVars, decisionVars
<1>4. PICK new : /\ resync' = [resync EXCEPT ![s] = new]
                 /\ \A t \in Tables : /\ Sending(new, b, ip, t) => Sending(old, b, ip, t)
                                      /\ Clearing(new, b, ip, t) => Clearing(old, b, ip, t)
                 /\ \A t \in Tables : t # u \/ ip # i \/ b # old.b =>
                      /\ Sending(old, b, ip, t) => Sending(new, b, ip, t)
                      /\ Clearing(old, b, ip, t) => Clearing(new, b, ip, t)
                 /\ ~Asking(old, b)
                 /\ \/ /\ ResyncBlock(s, i, u)
                       /\ \A t : Clearing(old, b, ip, t) => Clearing(new, b, ip, t)
                    \/ /\ ResyncUnblock(s, i, u)
                       /\ \A t : ~Sending(old, b, ip, t)
  <2>1. CASE ResyncBlock(s, i, u)
    <3>1. PICK new : new = [old EXCEPT !.blocks = @ \ {<<i, u>>}]
      OBVIOUS
    <3>2. resync' = [resync EXCEPT ![s] = new]
      BY <1>1, <2>1, <3>1 DEF ResyncBlock
    <3>3. /\ new.b = old.b /\ new.phase = old.phase /\ new.unblocks = old.unblocks
          /\ new.blocks = old.blocks \ {<<i, u>>} /\ old.phase = "block"
      BY <1>1, <1>2, <2>1, <3>1 DEF ResyncBlock, ResyncRecords
    <3>4. /\ \A t : /\ Sending(new, b, ip, t) => Sending(old, b, ip, t)
                    /\ Clearing(new, b, ip, t) <=> Clearing(old, b, ip, t)
          /\ \A t : t # u \/ ip # i \/ b # old.b =>
               (Sending(old, b, ip, t) => Sending(new, b, ip, t))
          /\ ~Asking(old, b)
      BY <3>3 DEF Sending, Clearing, Asking
    <3> QED
      BY <2>1, <3>2, <3>4
  <2>2. CASE ResyncUnblock(s, i, u)
    <3>1. PICK new : new = IF old.unblocks = {<<i, u>>} THEN NoResync
                           ELSE [old EXCEPT !.unblocks = @ \ {<<i, u>>}]
      OBVIOUS
    <3>2. resync' = [resync EXCEPT ![s] = new]
      BY <1>1, <2>2, <3>1 DEF ResyncUnblock
    <3>3. old.phase = "unblock"
      BY <1>1, <2>2 DEF ResyncUnblock
    <3>4. \A t : ~Sending(new, b, ip, t) /\ ~Sending(old, b, ip, t) /\ ~Asking(old, b)
      BY <1>2, <3>1, <3>3 DEF Sending, Asking, NoResync, ResyncRecords
    <3>5. CASE old.unblocks = {<<i, u>>}
      <4>1. \A t : /\ ~Clearing(new, b, ip, t)
                   /\ t # u \/ ip # i \/ b # old.b => ~Clearing(old, b, ip, t)
        BY <3>1, <3>5 DEF Clearing, NoResync
      <4> QED
        BY <2>2, <3>2, <3>4, <4>1
    <3>6. CASE old.unblocks # {<<i, u>>}
      <4>1. /\ new.b = old.b /\ new.phase = old.phase
            /\ new.unblocks = old.unblocks \ {<<i, u>>}
        BY <1>2, <3>1, <3>6 DEF ResyncRecords
      <4>2. \A t : /\ Clearing(new, b, ip, t) => Clearing(old, b, ip, t)
                   /\ t # u \/ ip # i \/ b # old.b =>
                        (Clearing(old, b, ip, t) => Clearing(new, b, ip, t))
        BY <4>1 DEF Clearing
      <4> QED
        BY <2>2, <3>2, <3>4, <4>2
    <3> QED
      BY <3>5, <3>6
  <2> QED
    BY <2>1, <2>2
<1>5. \A t \in Tables : /\ Sending(old, b, ip, t) => Sends(resync, b, ip, t)
                        /\ Clearing(old, b, ip, t) => Clears(resync, b, ip, t)
  BY <1>1 DEF Sends, Clears
<1>6. /\ \A t \in Tables : /\ Sends(resync', b, ip, t) => Sends(resync, b, ip, t)
                           /\ Clears(resync', b, ip, t) => Clears(resync, b, ip, t)
                           /\ t # u \/ ip # i \/ b # old.b =>
                                /\ Sends(resync, b, ip, t) => Sends(resync', b, ip, t)
                                /\ Clears(resync, b, ip, t) => Clears(resync', b, ip, t)
      /\ Asks(resync, b) => Asks(resync', b)
  BY <1>1, <1>4, <1>5, SlotChanged
<1>7. \/ missed' = missed
      \/ missed' = [missed EXCEPT ![old.b] = @ \cup {i}] /\ left' = left
  BY <1>1 DEF ResyncBlock, ResyncUnblock
<1>8. ip \in missed[b] => ip \in missed'[b]
  BY <1>2, <1>7
<1>9. Behind(b, ip, health, missed, resync) => Behind(b, ip, health', missed', resync')
  BY <1>3, <1>6, <1>8 DEF Behind
<1>10. PICK e : e = left[b][ip]
  OBVIOUS
<1>11. e \in [Tables -> Nat] /\ \A t \in Tables : e[t] <= Lifetime[t]
  BY <1>2, <1>10
<1>12. CASE ip # i \/ b # old.b
  <2>1. left'[b][ip] = left[b][ip]
    BY <1>1, <1>2, <1>12 DEF ResyncBlock, ResyncUnblock
  <2> QED
    BY <1>3, <1>6, <1>9, <1>12, <2>1, ResyncsGoOn
<1>13. CASE missed' = [missed EXCEPT ![old.b] = @ \cup {i}] /\ left' = left /\ ip = i /\ b = old.b
  <2>1. Behind(b, ip, health', missed', resync')
    BY <1>2, <1>13 DEF Behind
  <2> QED
    BY <1>3, <1>6, <1>13, <2>1, ResyncsGoOn
<1>14. PICK r : r = Row(ip, db, pcs)
  OBVIOUS
<1>15. /\ Row(ip, db', pcs') = r /\ Under(b, calls') = Under(b, calls)
       /\ Owed(ip, pcs') = Owed(ip, pcs)
  BY <1>3, <1>14
<1>16. /\ EndsWell(Under(b, calls), queue, Owed(ip, pcs), ip, r)
       /\ ResyncsAgree(b, ip, r, resync)
       /\ ~Behind(b, ip, health, missed, resync) =>
            WillReflect(b, ip, r, Under(b, calls), queue, Owed(ip, pcs), resync, e)
  BY <1>10, <1>14 DEF Here, Consistent
<1>17. ResyncsAgree(b, ip, r, resync')
  BY <1>6, <1>16 DEF ResyncsAgree
<1>18. r.left \in Nat
  BY <1>14, EnforcementAssumption DEF Shapes, EnfTypeOK, Row, NoRow, BlockedRow, EnforcementAssumption
<1>19. PICK f : f = left'[b][ip]
  OBVIOUS
<1>20. ASSUME WillReflect(b, ip, r, Under(b, calls), queue, Owed(ip, pcs), resync', f)
              \/ Behind(b, ip, health', missed', resync')
       PROVE  Here(b, ip)'
  BY <1>3, <1>15, <1>16, <1>17, <1>19, <1>20 DEF Here, Consistent
<1>21. CASE missed' = missed /\ ip = i /\ b = old.b /\ ResyncBlock(s, i, u)
            /\ left' = [left EXCEPT ![b][ip][u] = Lifetime[u]]
  <2>1. f = [e EXCEPT ![u] = Lifetime[u]]
    BY <1>2, <1>10, <1>19, <1>21
  <2>2. \A t \in Tables : f[t] = (IF t = u THEN Lifetime[u] ELSE e[t])
    BY <1>11, <2>1
  <2>3. Sends(resync, b, ip, u)
    BY <1>1, <1>5, <1>21 DEF ResyncBlock, Sending
  <2>4. r.state # "unblocked"
    BY <1>16, <2>3 DEF ResyncsAgree
  <2>5. ASSUME InForce(r), NEW t \in Tables,
               e[t] >= r.left \/ (Sends(resync, b, ip, t) /\ Lifetime[t] >= r.left)
        PROVE  \E v \in Tables : f[v] >= r.left \/ (Sends(resync', b, ip, v) /\ Lifetime[v] >= r.left)
    <3>1. CASE t = u
      <4>1. f[u] >= r.left
        BY <1>11, <1>18, <2>2, <2>5, <3>1, TableFacts
      <4> QED
        BY <4>1
    <3>2. CASE t # u
      BY <1>6, <2>2, <2>5, <3>2
    <3> QED
      BY <3>1, <3>2
  <2> QED
    BY <1>9, <1>16, <1>20, <2>4, <2>5 DEF WillReflect
<1>22. CASE missed' = missed /\ ip = i /\ b = old.b /\ ResyncUnblock(s, i, u)
            /\ left' = [left EXCEPT ![b][ip][u] = 0]
  <2>1. f = [e EXCEPT ![u] = 0]
    BY <1>2, <1>10, <1>19, <1>22
  <2>2. \A t \in Tables : f[t] = (IF t = u THEN 0 ELSE e[t])
    BY <1>11, <2>1
  <2>3. Clears(resync, b, ip, u)
    BY <1>1, <1>5, <1>22 DEF ResyncUnblock, Clearing
  <2>4. r.state # "blocked"
    BY <1>16, <2>3 DEF ResyncsAgree
  <2>5. ~InForce(r)
    BY <2>4 DEF InForce
  <2>6. ASSUME \A t \in Tables : e[t] = 0 \/ Clears(resync, b, ip, t)
        PROVE  \A t \in Tables : f[t] = 0 \/ Clears(resync', b, ip, t)
    BY <1>6, <2>2, <2>6
  <2> QED
    BY <1>9, <1>16, <1>20, <2>5, <2>6 DEF WillReflect
<1>23. ip = i /\ b = old.b =>
         \/ missed' = [missed EXCEPT ![old.b] = @ \cup {i}] /\ left' = left
         \/ missed' = missed /\ ResyncBlock(s, i, u) /\ left' = [left EXCEPT ![b][ip][u] = Lifetime[u]]
         \/ missed' = missed /\ ResyncUnblock(s, i, u) /\ left' = [left EXCEPT ![b][ip][u] = 0]
  BY <1>1 DEF ResyncBlock, ResyncUnblock
<1> QED
  BY <1>12, <1>13, <1>21, <1>22, <1>23

(***************************************************************************)
(* ... of failures and of time                                             *)
(***************************************************************************)

\* A backend that lost its tables is behind.
LEMMA FailureHere ==
  ASSUME Shapes, NEW d \in Backends, Cut(d) \/ Crash(d) \/ Restore(d),
         UNCHANGED <<queueVars, decisionVars>>,
         NEW b \in Backends, NEW ip \in IPs, Here(b, ip)
  PROVE  Here(b, ip)'
<1>1. UNCHANGED <<queue, db, pcs, calls, resync, health>>
  BY DEF Cut, Crash, Restore, queueVars, decisionVars
<1>2. DOMAIN left = Backends /\ DOMAIN missed = Backends
  BY DEF Shapes, EnfTypeOK
<1>3. CASE left'[b] = left[b] /\ missed'[b] = missed[b]
  BY <1>1, <1>3, SameHere DEF Behind
<1>4. CASE Crash(d) /\ b = d
  <2>1. Behind(b, ip, health', missed', resync')
    BY <1>2, <1>4 DEF Crash, Behind
  <2> QED
    BY <1>1, <2>1 DEF Here, Consistent
<1>5. Cut(d) \/ Restore(d) \/ (Crash(d) /\ b # d) => left'[b] = left[b] /\ missed'[b] = missed[b]
  BY <1>2 DEF Cut, Restore, Crash
<1> QED
  BY <1>3, <1>4, <1>5

\* A row with less time left asks for less.
Shorter(r, q) == q.state = r.state /\ r.left \in Nat /\ q.left = IF r.left > 0 THEN r.left - 1 ELSE 0

LEMMA ShorterAsksLess ==
  ASSUME NEW r, NEW q, Shorter(r, q), NEW ip,
         NEW c, c.kind = "block" => TableFor(c.dur) \in Tables
  PROVE  /\ InForce(q) => InForce(r)
         /\ Contradicts(c, ip, q) => Contradicts(c, ip, r)
         /\ Serves(c, ip, r) => Serves(c, ip, q)
<1>1. InForce(q) => InForce(r)
  BY DEF InForce, Shorter
<1>2. Contradicts(c, ip, q) => Contradicts(c, ip, r)
  BY <1>1 DEF Contradicts, Shorter
<1>3. Serves(c, ip, r) => Serves(c, ip, q)
  <2>1. ASSUME c.kind = "block", Lifetime[TableFor(c.dur)] >= r.left
        PROVE  Lifetime[TableFor(c.dur)] >= q.left
    <3>1. Lifetime[TableFor(c.dur)] \in Nat
      BY <2>1, TableFacts
    <3>2. \A n, l \in Nat : n >= l => n >= IF l > 0 THEN l - 1 ELSE 0
      OBVIOUS
    <3> QED
      BY <2>1, <3>1, <3>2 DEF Shorter
  <2> QED
    BY <2>1 DEF Serves, Shorter
<1> QED
  BY <1>1, <1>2, <1>3

\* So commands on their way that settle a row still do.
LEMMA ShorterSettled ==
  ASSUME NEW r, NEW s, Shorter(r, s), NEW ip, NEW u, NEW q, NEW o,
         \A c \in u \cup o : c.kind = "block" => TableFor(c.dur) \in Tables,
         \A i \in 1 .. Len(q) : q[i].kind = "block" => TableFor(q[i].dur) \in Tables, Len(q) \in Nat
  PROVE  /\ EndsWell(u, q, o, ip, r) => EndsWell(u, q, o, ip, s)
         /\ Brings(u, q, o, ip, r) => Brings(u, q, o, ip, s)
<1>1. \A c \in u \cup o : /\ Contradicts(c, ip, s) => Contradicts(c, ip, r)
                          /\ Serves(c, ip, r) => Serves(c, ip, s)
  BY ShorterAsksLess
<1>2. \A i \in 1 .. Len(q) : /\ Contradicts(q[i], ip, s) => Contradicts(q[i], ip, r)
                             /\ Serves(q[i], ip, r) => Serves(q[i], ip, s)
  BY ShorterAsksLess
<1>3. ASSUME NEW i \in 0 .. Len(q), ServedAfter(i, q, o, ip, r)
      PROVE  ServedAfter(i, q, o, ip, s)
  <2>1. \A j \in i + 1 .. Len(q) : j \in 1 .. Len(q)
    OBVIOUS
  <2> QED
    BY <1>1, <1>2, <1>3, <2>1 DEF ServedAfter
<1>4. 0 \in 0 .. Len(q) /\ \A i \in 1 .. Len(q) : i \in 0 .. Len(q)
  OBVIOUS
<1> QED
  BY <1>1, <1>2, <1>3, <1>4 DEF EndsWell, Brings

LEMMA TimeHere ==
  ASSUME Shapes, Time, NEW b \in Backends, NEW ip \in IPs, Clean(ip, holes'), Here(b, ip)
  PROVE  Here(b, ip)'
<1> USE MakersAndThreads
<1>1. /\ UNCHANGED <<queue, pcs, calls, resync, health, missed>>
      /\ db'[ip] = [db[ip] EXCEPT !.left = IF @ > 0 THEN @ - 1 ELSE 0]
      /\ \A t \in Tables : left'[b][ip][t] = IF left[b][ip][t] > 0 THEN left[b][ip][t] - 1 ELSE 0
  BY DEF Time, Tick, queueVars
<1>2. CASE Busy("api", ip, pcs')
  BY <1>2, ApiBusyHere
<1>3. CASE ~Busy("api", ip, pcs')
  <2>1. ~Busy("peer", ip, pcs)
    <3>1. <<ip, "peer">> \notin holes'
      BY DEF Clean, Causes
    <3>2. ~(pcs["peer"].phase = "write" /\ pcs["peer"].cmd.ip = ip)
      BY <3>1 DEF Time, EarlyBlocks
    <3> QED
      BY <3>2 DEF Busy, Shapes, PhasesOK
  <2>2. PICK r : r = db[ip]
    OBVIOUS
  <2>3. PICK s : s = db'[ip]
    OBVIOUS
  <2>4. Row(ip, db, pcs) = r /\ Row(ip, db', pcs') = s
    BY <1>1, <1>3, <2>1, <2>2, <2>3 DEF Row
  <2>5. Shorter(r, s)
    <3>1. r \in [state : States, left : Nat]
      BY <2>2 DEF Shapes, EnfTypeOK
    <3>2. s = [r EXCEPT !.left = IF r.left > 0 THEN r.left - 1 ELSE 0]
      BY <1>1, <2>2, <2>3
    <3> QED
      BY <3>1, <3>2 DEF Shorter
  <2>6. PICK u : u = Under(b, calls)
    OBVIOUS
  <2>7. PICK o : o = Owed(ip, pcs)
    OBVIOUS
  <2>8. Under(b, calls') = u /\ Owed(ip, pcs') = o
    BY <1>1, <2>6, <2>7
  <2>9. /\ \A c \in u \cup o : c.kind = "block" => TableFor(c.dur) \in Tables
        /\ \A i \in 1 .. Len(queue) : queue[i].kind = "block" => TableFor(queue[i].dur) \in Tables
        /\ Len(queue) \in Nat
    <3>1. \A c \in u : c.dur \in Nat
      BY <2>6 DEF Under, Command, Shapes, EnfTypeOK, CallRecords
    <3>2. \A c \in o : c \in LiveCommands
      BY <2>7 DEF Owed, Shapes, EnfTypeOK
    <3>3. queue \in Seq(LiveCommands)
      BY DEF Shapes, EnfTypeOK
    <3>4. Len(queue) \in Nat /\ \A i \in 1 .. Len(queue) : queue[i] \in LiveCommands
      BY <3>3
    <3> QED
      BY <3>1, <3>2, <3>4, CommandFacts, TableFacts
  <2>10. /\ EndsWell(u, queue, o, ip, r) => EndsWell(u, queue, o, ip, s)
         /\ Brings(u, queue, o, ip, r) => Brings(u, queue, o, ip, s)
    BY ONLY <2>5, <2>9, ShorterSettled
  <2>11. EndsWell(u, queue, o, ip, r) /\ ResyncsAgree(b, ip, r, resync)
    BY <2>4, <2>6, <2>7 DEF Here, Consistent
  <2>12. ResyncsAgree(b, ip, s, resync)
    BY <2>5, <2>11 DEF ResyncsAgree, Shorter
  <2>13. ASSUME ~Behind(b, ip, health, missed, resync)
         PROVE  WillReflect(b, ip, s, u, queue, o, resync, left'[b][ip])
    <3>1. WillReflect(b, ip, r, u, queue, o, resync, left[b][ip])
      BY <2>4, <2>6, <2>7, <2>13 DEF Here, Consistent
    <3>0. \A t \in Tables : Lifetime[t] \in Nat
      BY TableFacts
    <3>2. \A t \in Tables : left[b][ip][t] \in Nat /\ Lifetime[t] \in Nat
      <4>1. left \in [Backends -> [IPs -> [Tables -> Nat]]]
        BY DEF Shapes, EnfTypeOK
      <4> QED
        BY <3>0, <4>1
    <3>3. ASSUME InForce(s), NEW t \in Tables,
                 left[b][ip][t] >= r.left \/ (Sends(resync, b, ip, t) /\ Lifetime[t] >= r.left)
          PROVE  left'[b][ip][t] >= s.left \/ (Sends(resync, b, ip, t) /\ Lifetime[t] >= s.left)
      <4>1. \A n, l \in Nat : n >= l => /\ n >= (IF l > 0 THEN l - 1 ELSE 0)
                                        /\ (IF n > 0 THEN n - 1 ELSE 0) >= (IF l > 0 THEN l - 1 ELSE 0)
        OBVIOUS
      <4>2. r.left \in Nat /\ s.left = IF r.left > 0 THEN r.left - 1 ELSE 0
        BY <2>5 DEF Shorter
      <4> QED
        BY <1>1, <3>2, <3>3, <4>1, <4>2
    <3>4. \A t \in Tables : left[b][ip][t] = 0 => left'[b][ip][t] = 0
      BY <1>1
    <3>5. (InForce(s) => InForce(r)) /\ r.state = s.state
      BY <2>5 DEF InForce, Shorter
    <3> QED
      BY <2>10, <3>1, <3>3, <3>4, <3>5 DEF WillReflect
  <2> QED
    BY <1>1, <2>4, <2>8, <2>10, <2>11, <2>12, <2>13 DEF Here, Consistent
<1> QED
  BY <1>2, <1>3

(***************************************************************************)
(* The invariant, and what it says at rest                                 *)
(***************************************************************************)

LEMMA EnforcementInit == EnfInit => EnforcementInv
<1> USE MakersAndThreads
<1> SUFFICES ASSUME EnfInit PROVE EnforcementInv
  OBVIOUS
<1>1. Shapes
  BY ShapesInit
<1>2. \A m \in Makers : pcs[m].phase = "idle"
  BY DEF EnfInit, Idle
<1>3. \A m \in Makers, ip \in IPs : ~Busy(m, ip, pcs)
  BY <1>2 DEF Busy
<1>4. AllAlone /\ PromotionOK
  BY <1>3 DEF AllAlone, Alone, PromotionOK
<1>5. ASSUME NEW b \in Backends, NEW ip \in IPs
      PROVE  Here(b, ip)
  <2>1. Row(ip, db, pcs) = NoRow
    BY <1>3 DEF Row, EnfInit, NoRow
  <2> QED
    BY <2>1, NothingAsked DEF Here
<1> QED
  BY <1>1, <1>4, <1>5 DEF EnforcementInv, Shapes, AllConsistent

LEMMA DecisionsHere ==
  ASSUME Shapes, Decisions, NEW b \in Backends, NEW ip \in IPs, Clean(ip, holes'), Here(b, ip)
  PROVE  Here(b, ip)'
<1>1. ASSUME NEW i \in IPs, NEW d \in BlockDurations, CheckerBlock(i, d) \/ CheckerPromote(i, d)
      PROVE  Here(b, ip)'
  <2>1. PICK c : c = BlockCmd(i, d)
    OBVIOUS
  <2>2. PICK row : row = BlockedRow(d)
    OBVIOUS
  <2>3. c.ip = i /\ row.state = "blocked" /\ Serves(c, i, row)
    BY <2>1, <2>2, DurationFacts DEF BlockCmd, BlockedRow
  <2>4. PICK ph \in {"queue", "promote"} : pcs' = [pcs EXCEPT !["checker"] = [phase |-> ph, cmd |-> c]]
    BY <1>1, <2>1 DEF CheckerBlock, CheckerPromote
  <2>5. /\ WriteState("checker", i, row) /\ pcs["checker"].phase = "idle"
        /\ UNCHANGED <<queueVars, hapVars>>
    BY <1>1, <2>2 DEF CheckerBlock, CheckerPromote
  <2> QED
    BY <2>3, <2>4, <2>5, DecisionHere
<1>2. ASSUME NEW i \in IPs, CheckerUnblock(i) \/ ReloadUnblock(i)
      PROVE  Here(b, ip)'
  <2>1. PICK c : c = UnblockCmd(i)
    OBVIOUS
  <2>2. PICK row : row = UnblockedRow
    OBVIOUS
  <2>3. c.ip = i /\ row.state = "unblocked" /\ Serves(c, i, row)
    BY <2>1, <2>2 DEF UnblockCmd, UnblockedRow, Serves
  <2>4. PICK m \in {"checker", "reload"} :
          /\ pcs' = [pcs EXCEPT ![m] = [phase |-> "queue", cmd |-> c]]
          /\ WriteState(m, i, row) /\ pcs[m].phase = "idle"
    BY <1>2, <2>1, <2>2 DEF CheckerUnblock, ReloadUnblock
  <2>5. UNCHANGED <<queueVars, hapVars>>
    BY <1>2 DEF CheckerUnblock, ReloadUnblock
  <2> QED
    BY <2>3, <2>4, <2>5, DecisionHere
<1>3. ASSUME NEW i \in IPs, PeerBadActor(i) \/ ApiUnblock(i)
      PROVE  Here(b, ip)'
  BY <1>3, PeerBadActorHere, ApiUnblockHere
<1>4. ReloadList => Here(b, ip)'
  BY SameHere DEF ReloadList, queueVars, hapVars
<1> QED
  BY <1>1, <1>2, <1>3, <1>4 DEF Decisions

LEMMA ConsistentStep ==
  ASSUME Shapes, AllAlone, PromotionOK, AllConsistent, [EnfNext]_vars
  PROVE  AllConsistent'
<1> SUFFICES ASSUME NEW b \in Backends, NEW ip \in IPs, Clean(ip, holes')
             PROVE  Here(b, ip)'
  BY DEF AllConsistent
<1>1. Clean(ip, holes) /\ Here(b, ip)
  BY HolesGrow DEF AllConsistent
<1>2. CASE UNCHANGED vars
  BY <1>1, <1>2, SameHere DEF vars, queueVars, hapVars, decisionVars
<1>3. CASE Decisions
  BY <1>1, <1>3, DecisionsHere
<1>4. CASE Completions
  BY <1>1, <1>4, PromotedHere, HandOverHere, PeerWriteHere, ApiReturnHere, ApiRemoveHere
  DEF Completions
<1>5. CASE Commanding
  BY <1>1, <1>5, RunCommandHere, CommandDoneHere, DeliverHere DEF Commanding
<1>6. ASSUME NEW d \in Backends, Checking(d)
      PROVE  Here(b, ip)'
  BY <1>1, <1>6, HealthHere DEF Checking
<1>7. ASSUME NEW s \in Slots, Resyncs(s)
      PROVE  Here(b, ip)'
  BY <1>1, <1>7, ResyncReadHere, ResyncReadFailsHere, ResyncTablesHere, ResyncStepHere DEF Resyncs
<1>8. CASE Failures
  BY <1>1, <1>8, FailureHere DEF Failures
<1>9. CASE Time
  BY <1>1, <1>9, TimeHere
<1> QED
  BY <1>2, <1>3, <1>4, <1>5, <1>6, <1>7, <1>8, <1>9 DEF EnfNext

LEMMA EnforcementInvariance == EnfSpec => []EnforcementInv
<1>1. EnforcementInv /\ [EnfNext]_vars => EnforcementInv'
  <2> SUFFICES ASSUME EnforcementInv, [EnfNext]_vars PROVE EnforcementInv'
    OBVIOUS
  <2>1. Shapes /\ AllAlone /\ PromotionOK /\ AllConsistent
    BY DEF EnforcementInv, Shapes
  <2>2. Shapes' /\ AllConsistent'
    BY <2>1, ShapesStep, ConsistentStep
  <2>3. AllAlone' /\ PromotionOK'
    <3>1. CASE EnfNext
      BY <2>1, <3>1, AloneStep, PromotionStep
    <3>2. CASE UNCHANGED vars
      BY <2>1, <3>2 DEF vars, decisionVars, AllAlone, PromotionOK
    <3> QED
      BY <3>1, <3>2
  <2> QED
    BY <2>2, <2>3 DEF EnforcementInv, Shapes
<1> QED
  BY <1>1, EnforcementInit, PTL DEF EnfSpec

\* At rest nothing is on its way, so a backend that will reflect the database does.
LEMMA AtRestReflects ==
  ASSUME Shapes, NEW b \in Backends, NEW ip \in IPs, Here(b, ip), AtRest(b), health[b].ok,
         ip \notin missed[b]
  PROVE  Reflects(b, ip)
<1> USE MakersAndThreads
<1>1. \A m \in Makers : pcs[m].phase = "idle"
  BY DEF AtRest
<1>2. Owed(ip, pcs) = {} /\ Row(ip, db, pcs) = db[ip]
  BY <1>1 DEF Owed, Row, Busy
<1>3. Under(b, calls) = {}
  BY DEF AtRest, Shapes, CallsOK, EnfTypeOK, Under
<1>4. \A s \in Slots : resync[s].b = b => resync[s].phase = "idle"
  BY DEF AtRest, Resyncing
<1>5. /\ \A t \in Tables : ~Sends(resync, b, ip, t) /\ ~Clears(resync, b, ip, t)
      /\ ~Asks(resync, b)
  BY <1>4 DEF Sends, Clears, Asks, Sending, Clearing, Asking
<1>6. ~Behind(b, ip, health, missed, resync)
  BY <1>5 DEF Behind
<1>7. queue = <<>>
  BY DEF AtRest
<1>8. ~Brings({}, queue, {}, ip, db[ip])
  <2>1. Len(queue) = 0 /\ \A j \in 0 + 1 .. 0 : FALSE
    BY <1>7
  <2> QED
    BY <2>1 DEF Brings, ServedAfter
<1>9. WillReflect(b, ip, db[ip], {}, queue, {}, resync, left[b][ip])
  BY <1>2, <1>3, <1>6 DEF Here, Consistent
<1> QED
  BY <1>5, <1>8, <1>9 DEF WillReflect, InForce, Reflects, Blocked

\* HAProxy enforces the database.  At rest a healthy backend blocks an IP for as long
\* as its row says, and does not block one whose row says unblocked, unless it missed
\* a command or one of the causes in holes applies: executeBlock, CheckChains, the
\* reload, ApplyBadActorFromPeer and unblockIP write their rows, the worker runs its
\* commands, backends fail and resyncs run in any order, under no common lock.
THEOREM DatabaseIsEnforced == EnfSpec => []Agreement
<1>1. EnforcementInv => Agreement
  <2> SUFFICES ASSUME EnforcementInv, NEW b \in Backends, NEW ip \in IPs, AtRest(b),
                      link[b] = "up" /\ health[b].ok, ip \notin missed[b],
                      \A c \in Causes : <<ip, c>> \notin holes
               PROVE  Reflects(b, ip)
    BY DEF Agreement
  <2>1. Shapes /\ Here(b, ip)
    BY DEF EnforcementInv, Shapes, AllConsistent, Clean
  <2> QED
    BY <2>1, AtRestReflects
<1> QED
  BY <1>1, EnforcementInvariance, PTL

\* The database, the queue, the calls, the resyncs and the backends keep their types:
\* what an entry lives is bounded by its table, a call that ended waits for nobody.
THEOREM EnforcementIsTyped == EnfSpec => []EnfTypeOK
<1>1. EnforcementInv => EnfTypeOK
  BY DEF EnforcementInv
<1> QED
  BY <1>1, EnforcementInvariance, PTL
=============================================================================
