---------------------------- MODULE BackendQueries ----------------------------
(***************************************************************************)
(* The calls of internal/blocker/haproxy.go that read the stick tables of  *)
(* all backends while commands of others, expiry and failures change them: *)
(* CompareHAProxyBackends, DumpBackends and GetCurrentState, which read    *)
(* every backend in a goroutine of its own, GetIPDetails and IsIPBlocked,  *)
(* which read one table after the other, and ClearIP, which reads, sends   *)
(* the clear commands and reads again until the IP is gone.                *)
(*                                                                         *)
(* One call about one IP is followed from its start to its answer.  A cell *)
(* <<b, t>> is the entry of the IP in table t of backend b, given by gpc0  *)
(* and by exp, the time it has left; an absent entry has exp = 0.  The     *)
(* tables are those with the suffix of the version of the IP, the same on  *)
(* every backend.  The addresses sort like the numbers that stand for them.*)
(***************************************************************************)
EXTENDS Integers, Sequences, FiniteSets, FiniteSetsExt, SequencesExt

CONSTANTS
  Addresses,   \* blockers.backends.haproxy.addresses, in their order: numbers
  TableNames,  \* the answer to "show table", in its order
  Lifetime,    \* what a command sets the exp of an entry to
  Tolerance,   \* expTolerance
  MaxRetries,  \* blockers.max_retries
  MaxEvents    \* bound of the model: ticks, commands of others and failures together

Backends == ToSet(Addresses)
Tables == ToSet(TableNames)
First == Head(Addresses)
Cells == Backends \X Tables

\* A read that asks for the table names.
Names == "names"

ASSUME QueriesAssumption ==
  /\ Addresses \in Seq(Nat) /\ IsInjective(Addresses) /\ Cardinality(Backends) >= 2
  /\ TableNames \in Seq(Tables) /\ IsInjective(TableNames) /\ Names \notin Tables
  /\ {Lifetime, MaxRetries} \subseteq Nat \ {0}
  /\ {Tolerance, MaxEvents} \subseteq Nat

VARIABLES
  entry,     \* external: the cells
  up,        \* external: the backends that answer
  healthy,   \* backends that backendHealth says are healthy
  events,    \* events so far, for the bound
  call,      \* the call: operation, phase, attempt, error, what it has merged
  todo,      \* per goroutine, the reads it has still to do
  got,       \* what the call has read of each cell
  targets,   \* backends whose goroutine still has the clear command to send
  answer,    \* what the call returned
  start,     \* history: the cells when the call began
  elapsed,   \* history: ticks since
  touched,   \* history: cells written by others since, or, for a cell that
             \* ClearIP has verified, since that read
  trouble    \* history: backends down or held unhealthy at some time since

queryVars == <<entry, up, healthy, events, call, todo, got, targets, answer,
               start, elapsed, touched, trouble>>
envVars == <<entry, up, healthy, events, start, elapsed, touched, trouble>>

Entries == [gpc0 : {0, 1}, exp : 1 .. Lifetime]
Absent == [gpc0 |-> 0, exp |-> 0]
Present(e) == e.exp > 0
Ops == {"compare", "dump", "state", "details", "blocked", "clear"}
Concurrent == {"compare", "dump", "state"}

NoAnswer == [ok |-> TRUE, report |-> {}, value |-> -1, found |-> {}]

(***************************************************************************)
(* The backends and their health (external; HAProxyBlocker has the rest)   *)
(***************************************************************************)

Running == call.phase # "done"

Age(e) == IF e.exp <= 1 THEN Absent ELSE [e EXCEPT !.exp = @ - 1]

Tick ==
  /\ Running /\ events < MaxEvents
  /\ entry' = [c \in Cells |-> Age(entry[c])]
  /\ events' = events + 1
  /\ elapsed' = elapsed + 1
  /\ UNCHANGED <<up, healthy, call, todo, got, targets, answer, start, touched, trouble>>

\* A block (gpc0 = 1) or an unblock (gpc0 = 0) of another goroutine or node.
Write(c, g) ==
  /\ Running /\ events < MaxEvents /\ c[1] \in up
  /\ entry' = [entry EXCEPT ![c] = [gpc0 |-> g, exp |-> Lifetime]]
  /\ events' = events + 1
  /\ touched' = touched \cup {c}
  /\ UNCHANGED <<up, healthy, call, todo, got, targets, answer, start, elapsed, trouble>>

Cut(b) ==
  /\ Running /\ events < MaxEvents /\ b \in up
  /\ up' = up \ {b}
  /\ events' = events + 1
  /\ trouble' = trouble \cup {b}
  /\ UNCHANGED <<entry, healthy, call, todo, got, targets, answer, start, elapsed, touched>>

Mend(b) ==
  /\ Running /\ b \notin up
  /\ up' = up \cup {b}
  /\ UNCHANGED <<entry, healthy, events, call, todo, got, targets, answer, start, elapsed,
                 touched, trouble>>

\* performHealthChecks records what it finds; only ClearIP looks at it, once.
HealthCheck(b) ==
  /\ call.op = "clear" /\ call.phase = "read"
  /\ (b \in healthy) # (b \in up)
  /\ healthy' = IF b \in up THEN healthy \cup {b} ELSE healthy \ {b}
  /\ UNCHANGED <<entry, up, events, call, todo, got, targets, answer, start, elapsed,
                 touched, trouble>>

(***************************************************************************)
(* The start of a call                                                     *)
(***************************************************************************)

ReadsOf(b) == [i \in DOMAIN TableNames |-> <<b, TableNames[i]>>]

\* Faulty variant: GetIPDetails and the verification ask the first address only.
AllReadsOfFirst == ReadsOf(First)

\* One address after the other, and on each one table after the other.
AllReads ==
  LET n == Len(TableNames) IN
  [i \in 1 .. Len(Addresses) * n |->
     <<Addresses[((i - 1) \div n) + 1], TableNames[((i - 1) % n) + 1]>>]

\* getRelevantTables asks the first address for the names of the tables; the
\* operations that read whole tables ask each backend for its own.
Reads(op) ==
  [b \in Backends |->
     CASE op \in Concurrent -> <<<<b, Names>>>> \o ReadsOf(b)
       [] op = "blocked" /\ b = First -> <<<<b, Names>>>> \o ReadsOf(b)
       [] op \in {"details", "clear"} /\ b = First -> <<<<b, Names>>>> \o AllReads
       [] OTHER -> <<>>]

QueriesInit ==
  /\ entry \in [Cells -> Entries \cup {Absent}]
  /\ up = Backends
  /\ healthy = Backends
  /\ events = 0
  /\ \E op \in Ops :
       /\ call = [op |-> op, phase |-> "read", attempt |-> 0, err |-> FALSE, seen |-> -1,
                  still |-> FALSE]
       /\ todo = Reads(op)
  /\ got = [c \in Cells |-> Absent]
  /\ targets = {}
  /\ answer = NoAnswer
  /\ start = entry
  /\ elapsed = 0
  /\ touched = {}
  /\ trouble = {}

(***************************************************************************)
(* Reading                                                                 *)
(***************************************************************************)

\* Faulty variant: GetCurrentState keeps the last value it reads.
MergedLast(op, seen, e) == IF Present(e) THEN e.gpc0 ELSE seen

\* GetCurrentState keeps the largest gpc0 it reads, DumpBackends the last one.
Merged(op, seen, e) ==
  CASE Present(e) /\ op = "state" -> Max({seen, e.gpc0})
    [] Present(e) /\ op # "state" -> e.gpc0
    [] OTHER -> seen

\* IsIPBlocked returns at the first entry that blocks; a verification ends at
\* the first entry that is still there.
Stops(e) ==
  \/ call.op = "blocked" /\ e.gpc0 = 1
  \/ call.phase = "verify" /\ Present(e)

Read(th) ==
  /\ Running /\ todo[th] # <<>>
  /\ LET c == Head(todo[th]) IN
     /\ c[1] \in up
     /\ IF c[2] = Names
        THEN /\ todo' = [todo EXCEPT ![th] = Tail(@)]
             /\ UNCHANGED <<call, got, touched>>
        ELSE /\ todo' = [todo EXCEPT ![th] = IF Stops(entry[c]) THEN <<>> ELSE Tail(@)]
             /\ call' = [call EXCEPT !.seen = Merged(call.op, @, entry[c]),
                                     !.still = @ \/ (call.phase = "verify" /\ Present(entry[c]))]
             /\ got' = [got EXCEPT ![c] = IF call.phase = "verify" THEN @ ELSE entry[c]]
             /\ touched' = IF call.phase = "verify" THEN touched \ {c} ELSE touched
  /\ UNCHANGED <<entry, up, healthy, events, targets, answer, start, elapsed, trouble>>

\* CompareHAProxyBackends and DumpBackends note the error and give up this
\* backend; GetCurrentState gives it up when it has no table names and else goes
\* on with the next table; the others ignore a table they cannot read.
ReadFails(th) ==
  /\ Running /\ todo[th] # <<>>
  /\ LET c == Head(todo[th]) IN
     /\ c[1] \notin up
     /\ LET givesUp == c[2] = Names \/ call.op \in {"compare", "dump"} IN
        /\ todo' = [todo EXCEPT ![th] = IF givesUp THEN <<>> ELSE Tail(@)]
        /\ call' = [call EXCEPT !.err = @ \/ (givesUp /\ call.op # "state")]
  /\ UNCHANGED <<envVars, got, targets, answer>>

(***************************************************************************)
(* The answers                                                             *)
(***************************************************************************)

Abs(n) == IF n < 0 THEN -n ELSE n

PresentIn(t) == {b \in Backends : Present(got[<<b, t>>])}

\* Faulty variant: only the first two backends that have the entry are compared.
ComparedTwo(t) ==
  {p \in PresentIn(t) \X PresentIn(t) :
     /\ p[1] < p[2]
     /\ p[1] = Min(PresentIn(t)) /\ p[2] = Min(PresentIn(t) \ {p[1]})}

\* The first backend that has the entry is compared with each other that has it.
Compared(t) ==
  {p \in PresentIn(t) \X PresentIn(t) : p[1] < p[2] /\ p[1] = Min(PresentIn(t))}

\* Faulty variant: a difference of the tolerance is a mismatch.
EndsDifferStrictly(x, y) == Abs(x.exp - y.exp) >= Tolerance

EndsDiffer(x, y) == Abs(x.exp - y.exp) > Tolerance

Discrepancies(t) ==
  (IF PresentIn(t) \notin {{}, Backends} THEN {<<"Presence Mismatch", t>>} ELSE {})
  \cup {<<"Gpc0 Mismatch", t, p>> :
          p \in {q \in Compared(t) : got[<<q[1], t>>].gpc0 # got[<<q[2], t>>].gpc0}}
  \cup {<<"Expiration Mismatch", t, p>> :
          p \in {q \in Compared(t) : EndsDiffer(got[<<q[1], t>>], got[<<q[2], t>>])}}

CompareHAProxyBackends ==
  IF call.err THEN [NoAnswer EXCEPT !.ok = FALSE]
  ELSE [NoAnswer EXCEPT !.report = UNION {Discrepancies(t) : t \in Tables}]

\* 1 for "B", 0 for "U", -1 when the IP is not listed.
DumpBackends ==
  IF call.err THEN [NoAnswer EXCEPT !.ok = FALSE] ELSE [NoAnswer EXCEPT !.value = call.seen]

GetCurrentState == [NoAnswer EXCEPT !.value = call.seen]

\* An error of getRelevantTables is swallowed: nothing is found.
GetIPDetails ==
  [NoAnswer EXCEPT !.found = IF call.err THEN {} ELSE {c \in Cells : Present(got[c])}]

IsIPBlocked ==
  IF call.err THEN [NoAnswer EXCEPT !.ok = FALSE]
  ELSE [NoAnswer EXCEPT !.value = IF \E t \in Tables : got[<<First, t>>].gpc0 = 1 THEN 1 ELSE 0]

ReadingDone == \A th \in Backends : todo[th] = <<>>

Return ==
  /\ call.phase = "read" /\ ReadingDone
  /\ \/ call.op # "clear"
     \/ GetIPDetails.found = {}  \* the early returns of ClearIP, without an error
  /\ answer' = CASE call.op = "compare" -> CompareHAProxyBackends
                 [] call.op = "dump" -> DumpBackends
                 [] call.op = "state" -> GetCurrentState
                 [] call.op = "blocked" -> IsIPBlocked
                 [] OTHER -> GetIPDetails
  /\ call' = [call EXCEPT !.phase = "done"]
  /\ UNCHANGED <<envVars, todo, got, targets>>

(***************************************************************************)
(* The rest of ClearIP                                                     *)
(***************************************************************************)

\* executeCommandsConcurrently starts a goroutine per backend held healthy.
ClearStart ==
  /\ call.op = "clear" /\ call.phase = "read" /\ ReadingDone
  /\ GetIPDetails.found # {}
  /\ call' = [call EXCEPT !.phase = "send"]
  /\ targets' = healthy
  /\ trouble' = trouble \cup (Backends \ healthy)
  /\ UNCHANGED <<entry, up, healthy, events, todo, got, answer, start, elapsed, touched>>

ClearSend(b) ==
  /\ b \in targets /\ b \in up
  /\ entry' = [c \in Cells |-> IF c[1] = b THEN Absent ELSE entry[c]]
  /\ targets' = targets \ {b}
  /\ UNCHANGED <<up, healthy, events, call, todo, got, answer, start, elapsed, touched, trouble>>

ClearSendFails(b) ==
  /\ b \in targets /\ b \notin up
  /\ targets' = targets \ {b}
  /\ call' = [call EXCEPT !.err = TRUE]
  /\ UNCHANGED <<envVars, todo, got, answer>>

VerifyReads == [b \in Backends |-> IF b = First THEN AllReads ELSE <<>>]

VerifyStart ==
  /\ call.phase = "send" /\ targets = {} /\ ~call.err
  /\ call' = [call EXCEPT !.phase = "verify", !.still = FALSE]
  /\ todo' = VerifyReads
  /\ UNCHANGED <<envVars, got, targets, answer>>

VerifyAgain ==
  /\ call.phase = "verify" /\ ReadingDone
  /\ call.still /\ call.attempt < MaxRetries - 1
  /\ call' = [call EXCEPT !.attempt = @ + 1, !.still = FALSE]
  /\ todo' = VerifyReads
  /\ UNCHANGED <<envVars, got, targets, answer>>

\* An error of a command or of the last verification is returned with what was found.
ClearReturn ==
  /\ \/ call.phase = "send" /\ targets = {} /\ call.err
     \/ /\ call.phase = "verify" /\ ReadingDone
        /\ ~call.still \/ call.attempt = MaxRetries - 1
  /\ answer' = [NoAnswer EXCEPT !.ok = ~call.err /\ ~call.still,
                                !.found = {c \in Cells : Present(got[c])}]
  /\ call' = [call EXCEPT !.phase = "done"]
  /\ UNCHANGED <<envVars, todo, got, targets>>

(***************************************************************************)
(* Specification                                                           *)
(***************************************************************************)

Environment ==
  \/ Tick
  \/ \E c \in Cells, g \in {0, 1} : Write(c, g)
  \/ \E b \in Backends : Cut(b) \/ Mend(b) \/ HealthCheck(b)

Caller ==
  \/ \E th \in Backends : Read(th) \/ ReadFails(th)
  \/ Return
  \/ ClearStart
  \/ \E b \in Backends : ClearSend(b) \/ ClearSendFails(b)
  \/ VerifyStart \/ VerifyAgain \/ ClearReturn

QueriesNext == Environment \/ Caller
QueriesSpec == QueriesInit /\ [][QueriesNext]_queryVars

(***************************************************************************)
(* Properties                                                              *)
(***************************************************************************)

Answered(op) == call.phase = "done" /\ call.op = op

\* A cell nobody wrote during the call and whose entry outlived it.
Steady(c) == c \notin touched /\ start[c].exp > elapsed

\* CompareHAProxyBackends without an error and without a discrepancy: every
\* entry that outlived the comparison is on all backends, with the same gpc0,
\* and any two ends differ by at most twice the tolerance (each is compared
\* with the first only) and the time the comparison took.
NothingMissed ==
  Answered("compare") /\ answer.ok /\ answer.report = {} /\ touched = {} =>
    \A t \in Tables : \A a, b \in Backends :
      Steady(<<a, t>>) =>
        LET x == start[<<a, t>>]
            y == start[<<b, t>>]
        IN /\ Present(y)
           /\ Steady(<<b, t>>) => x.gpc0 = y.gpc0
           /\ Abs(x.exp - y.exp) <= 2 * Tolerance + elapsed

\* Backends that hold the same, whose entries do not run out meanwhile, and
\* which are compared within the tolerance, give no discrepancy, although they
\* are read at different times.
NoFalseAlarm ==
  Answered("compare") /\ touched = {} /\ elapsed <= Tolerance
  /\ (\A t \in Tables : \A a, b \in Backends : start[<<a, t>>] = start[<<b, t>>])
  /\ (\A c \in Cells : Present(start[c]) => start[c].exp > elapsed)
  => answer.report = {}

\* ClearIP without an error: a backend that was reachable and held healthy all
\* the time has the IP in no table, unless a command came after the table was
\* verified.  This fails when the first backend did not give the table names:
\* then nothing is cleared anywhere and no error is returned.
ClearedIsGone ==
  Answered("clear") /\ answer.ok /\ First \notin trouble =>
    \A c \in Cells : c[1] \notin trouble /\ c \notin touched => ~Present(entry[c])

\* What a lookup says of an entry that nobody changed during it.  GetCurrentState
\* reports a block that any backend without trouble holds, and none that no
\* backend holds; IsIPBlocked does so for the first backend; GetIPDetails lists
\* every entry; DumpBackends lists the IP when some backend has it, but may show
\* it unblocked while another table blocks it.
LookupsTruthful ==
  /\ Answered("state") =>
       /\ (\E c \in Cells : Steady(c) /\ c[1] \notin trouble /\ start[c].gpc0 = 1)
            => answer.value = 1
       /\ answer.value = 1 => \E c \in Cells : c \in touched \/ start[c].gpc0 = 1
  /\ Answered("blocked") /\ answer.ok =>
       /\ (\E t \in Tables : Steady(<<First, t>>) /\ start[<<First, t>>].gpc0 = 1)
          /\ First \notin trouble => answer.value = 1
       /\ answer.value = 1 =>
            \E t \in Tables : <<First, t>> \in touched \/ start[<<First, t>>].gpc0 = 1
  /\ Answered("details") /\ First \notin trouble =>
       {c \in Cells : Steady(c) /\ c[1] \notin trouble} \subseteq answer.found
  /\ Answered("dump") /\ answer.ok =>
       /\ (\E c \in Cells : Steady(c)) => answer.value # -1
       /\ answer.value = 1 => \E c \in Cells : c \in touched \/ start[c].gpc0 = 1
=============================================================================
