---------------------------- MODULE TailerManager ----------------------------
(***************************************************************************)
(* The tailers of the websites' logs in one running process, and how the   *)
(* process ends: start of cmd/bot-detector/main.go from where signals are  *)
(* caught, MultiWebsiteTailerManager and liveLogTailerWithPath of          *)
(* internal/processor, and the part of ReloadConfiguration that replaces   *)
(* the websites.  What a tailer does with its file is Tailer.              *)
(*                                                                         *)
(* A list of websites is a function from names to log paths; the order in  *)
(* which the loops go through it is left open.  A tailer that has ended is *)
(* Off, unless it is still in the manager's map, and its place is used     *)
(* again.                                                                  *)
(***************************************************************************)
EXTENDS Naturals, FiniteSets, Functions

CONSTANTS
  Configs,     \* lists of websites that a configuration may hold
  LogPath,     \* --log-path
  Receivers,   \* the goroutines that receive from p.SignalCh on this node
  MaxTailers,  \* bound: tailers at once
  MaxReloads,  \* bound: reloads
  MaxSignals,  \* bound: SIGINT and SIGTERM that get into the channel
  MaxEvents    \* bound: both together

None == <<>>  \* an empty list of websites
Reloaders == {"watcher", "signal"}
Ids == 1..MaxTailers
Names == UNION {DOMAIN c : c \in Configs} \cup {LogPath}

ASSUME ManagerAssumption ==
  /\ LogPath \in STRING
  /\ \A c \in Configs : DOMAIN c \subseteq STRING /\ c \in [DOMAIN c -> STRING]
  /\ {"closer", "manager"} \subseteq Receivers
  /\ {MaxTailers, MaxReloads, MaxSignals, MaxEvents} \subseteq Nat

VARIABLES
  exitOnEOF,  \* --exit-on-eof
  websites,   \* p.Websites
  shared,     \* p.LogPath and the website for which p.ProcessLogLine works
  tailer,     \* the tailers' goroutines and their channels
  current,    \* m.tailers: from the name of a website to a tailer
  mu,         \* who holds m.mu
  work,       \* per thread that changes tailers: place, its list, names to do, and
              \* the name whose tailer it is restarting
  main,       \* place of the main goroutine
  signalCh,   \* p.SignalCh, of size 1: full, closed
  got,        \* the receivers whose receive is over
  stopCh,     \* m.stopCh is closed
  delivered, reloads,  \* signals that got into the channel and reloads, for the bounds
  crossed,    \* history: the last reloads replaced the websites side by side
  emptied     \* history: a reload kept none of the tailers there were, or left none to start

managerVars == <<exitOnEOF, websites, shared, tailer, current, mu, work, main, signalCh, got,
                 stopCh, delivered, reloads, crossed, emptied>>
signalVars == <<signalCh, got, stopCh, delivered>>
histories == <<reloads, crossed, emptied>>

Off == [pc |-> "off", name |-> LogPath, path |-> LogPath, stop |-> FALSE,
        got |-> <<LogPath, LogPath>>, rivals |-> {}]
Resting == [pc |-> "idle", arg |-> None, todo |-> {}, at |-> "no"]

\* Some other list than None may be in force, or None with --log-path.
ManagerInit ==
  /\ exitOnEOF \in BOOLEAN
  /\ websites \in Configs
  /\ shared = <<LogPath, "none">>
  /\ tailer = [i \in Ids |-> Off]
  /\ current = None
  /\ mu = "free"
  /\ work = [r \in Reloaders \cup {"main"} |-> Resting]
  /\ main = "mode"
  /\ signalCh = [full |-> FALSE, closed |-> FALSE]
  /\ got = {}
  /\ stopCh = FALSE
  /\ delivered = 0
  /\ reloads = 0
  /\ crossed = FALSE
  /\ emptied = FALSE

Ended == main \in {"shutdown", "panic"}

-----------------------------------------------------------------------------
(* The manager.                                                            *)

\* The tailers that the wait group counts.
Live == {i \in Ids : tailer[i].pc \in {"set", "read", "tail"}}

\* close(tailer.StopCh) and delete, for the tailers of these names.
Stopped(names) ==
  [i \in Ids |->
     IF \E n \in names : current[n] = i
     THEN IF i \in Live THEN [tailer[i] EXCEPT !.stop = TRUE] ELSE Off
     ELSE tailer[i]]

Without(names) == Restrict(current, DOMAIN current \ names)

\* startTailerLocked for a name that is not in the map.
StartTailerLocked(n, path) ==
  \E i \in Ids :
    /\ tailer[i] = Off /\ \A j \in Ids : tailer[j] = Off => i <= j
    /\ tailer' = [tailer EXCEPT ![i] = [Off EXCEPT !.pc = "set", !.name = n, !.path = path]]
    /\ current' = [m \in DOMAIN current \cup {n} |-> IF m = n THEN i ELSE current[m]]

\* The loop over the list goes on, or ends and m.mu is given back.
Done(r, n) ==
  LET todo == work[r].todo \ {n} IN
  /\ work' = [work EXCEPT ![r] = IF todo = {} THEN Resting
                                 ELSE [@ EXCEPT !.todo = todo, !.at = "no"]]
  /\ mu' = IF todo = {} THEN "free" ELSE mu

\* Faulty variant: every tailer is stopped first, and started again later.
UpdateBeginAll(r) ==
  /\ work[r].pc = "update"
  /\ mu = "free"
  /\ LET gone == DOMAIN current \ DOMAIN work[r].arg
         kept == {n \in DOMAIN current \ gone : tailer[current[n]].path = work[r].arg[n]}
     IN emptied' = (emptied \/ kept = {})
  /\ tailer' = Stopped(DOMAIN current)
  /\ current' = None
  /\ IF work[r].arg = None
     THEN work' = [work EXCEPT ![r] = Resting] /\ UNCHANGED mu
     ELSE /\ work' = [work EXCEPT ![r].pc = "each", ![r].todo = DOMAIN work[r].arg]
          /\ mu' = r
  /\ UNCHANGED <<exitOnEOF, websites, shared, main, signalVars, reloads, crossed>>

\* UpdateWebsites until the tailers of removed websites are told to stop.
UpdateBegin(r) ==
  /\ work[r].pc = "update"
  /\ mu = "free"
  /\ LET gone == DOMAIN current \ DOMAIN work[r].arg
         kept == {n \in DOMAIN current \ gone : tailer[current[n]].path = work[r].arg[n]}
     IN /\ tailer' = Stopped(gone)
        /\ current' = Without(gone)
        /\ emptied' = (emptied \/ kept = {})
  /\ IF work[r].arg = None
     THEN work' = [work EXCEPT ![r] = Resting] /\ UNCHANGED mu
     ELSE /\ work' = [work EXCEPT ![r].pc = "each", ![r].todo = DOMAIN work[r].arg]
          /\ mu' = r
  /\ UNCHANGED <<exitOnEOF, websites, shared, main, signalVars, reloads, crossed>>

\* A website without a tailer: Start, UpdateWebsites for a new one or one restarted.
StartNew(r, n) ==
  /\ work[r].pc = "each"
  /\ n \in work[r].todo /\ work[r].at \in {"no", n}
  /\ n \notin DOMAIN current
  /\ StartTailerLocked(n, work[r].arg[n])
  /\ Done(r, n)
  /\ UNCHANGED <<exitOnEOF, websites, shared, main, signalVars, histories>>

\* A website that has one already; Start does not look at the path.
KeepOld(r, n) ==
  /\ work[r].pc = "each"
  /\ n \in work[r].todo /\ work[r].at = "no"
  /\ n \in DOMAIN current
  /\ r = "main" \/ tailer[current[n]].path = work[r].arg[n]
  /\ Done(r, n)
  /\ UNCHANGED <<exitOnEOF, websites, shared, tailer, current, main, signalVars, histories>>

\* Faulty variant: the tailer of the old path is forgotten and not stopped.
StopChangedNot(r, n) ==
  /\ work[r].pc = "each"
  /\ n \in work[r].todo /\ work[r].at = "no"
  /\ n \in DOMAIN current
  /\ r # "main" /\ tailer[current[n]].path # work[r].arg[n]
  /\ current' = Without({n})
  /\ work' = [work EXCEPT ![r].at = n]
  /\ UNCHANGED <<exitOnEOF, websites, shared, tailer, mu, main, signalVars, histories>>

\* One whose log path changed: its tailer is stopped, then StartNew.
StopChanged(r, n) ==
  /\ work[r].pc = "each"
  /\ n \in work[r].todo /\ work[r].at = "no"
  /\ n \in DOMAIN current
  /\ r # "main" /\ tailer[current[n]].path # work[r].arg[n]
  /\ tailer' = Stopped({n})
  /\ current' = Without({n})
  /\ work' = [work EXCEPT ![r].at = n]
  /\ UNCHANGED <<exitOnEOF, websites, shared, mu, main, signalVars, histories>>

-----------------------------------------------------------------------------
(* A reload.                                                               *)

\* ReloadConfiguration replaces the websites.
SwapWebsites(r) ==
  /\ work[r].pc = "idle"
  /\ reloads < MaxReloads /\ reloads + delivered < MaxEvents
  /\ \E c \in Configs : websites' = c
  /\ work' = [work EXCEPT ![r].pc = "swapped"]
  /\ reloads' = reloads + 1
  /\ crossed' = (\E s \in Reloaders : work[s].pc # "idle")
  /\ UNCHANGED <<exitOnEOF, shared, tailer, current, mu, main, signalVars, emptied>>

\* It hands p.Websites, read without a lock, to the manager, if there is one yet.
CallUpdate(r) ==
  /\ work[r].pc = "swapped"
  /\ work' = [work EXCEPT ![r] = IF main \in {"mode", "single", "create"} THEN Resting
                                 ELSE [@ EXCEPT !.pc = "update", !.arg = websites]]
  /\ UNCHANGED <<exitOnEOF, websites, shared, tailer, current, mu, main, signalVars, histories>>

-----------------------------------------------------------------------------
(* A tailer's goroutine.                                                   *)

\* liveLogTailerWithPath sets LogPath and ProcessLogLine.
SetPath(i) ==
  /\ tailer[i].pc = "set"
  /\ shared' = <<tailer[i].path, tailer[i].name>>
  /\ tailer' = [j \in Ids |->
       CASE j = i -> [tailer[j] EXCEPT !.pc = "read"]
         [] j # i /\ tailer[j].pc = "read" -> [tailer[j] EXCEPT !.rivals = @ \cup {shared'}]
         [] OTHER -> tailer[j]]
  /\ UNCHANGED <<exitOnEOF, websites, current, mu, work, main, signalVars, histories>>

\* Faulty variant: the path is captured, ProcessLogLine is looked up for the tailer itself.
ReadPathOnly(i) ==
  /\ tailer[i].pc = "read"
  /\ tailer' = [tailer EXCEPT ![i].pc = "tail", ![i].rivals = {},
                              ![i].got = <<shared[1], tailer[i].name>>]
  /\ UNCHANGED <<exitOnEOF, websites, shared, current, mu, work, main, signalVars, histories>>

\* LiveLogTailer captures both, under a lock of its own.
ReadPath(i) ==
  /\ tailer[i].pc = "read"
  /\ tailer' = [tailer EXCEPT ![i].pc = "tail", ![i].rivals = {}, ![i].got = shared]
  /\ UNCHANGED <<exitOnEOF, websites, shared, current, mu, work, main, signalVars, histories>>

\* LiveLogTailer returns: told to stop, by either channel, or at the end of the file.
\* The last one lets Wait return.
Return(i) ==
  /\ tailer[i].pc = "tail"
  /\ tailer[i].stop \/ stopCh \/ exitOnEOF
  /\ tailer' = [tailer EXCEPT ![i] = IF i \in Range(current) THEN [@ EXCEPT !.pc = "done"] ELSE Off]
  /\ main' = IF main = "wait" /\ Live = {i} THEN "released" ELSE main
  /\ UNCHANGED <<exitOnEOF, websites, shared, current, mu, work, signalVars, histories>>

-----------------------------------------------------------------------------
(* The main goroutine.                                                     *)

\* IsMultiWebsiteMode
Mode ==
  /\ main = "mode"
  /\ main' = IF websites = None THEN "single" ELSE "create"
  /\ UNCHANGED <<exitOnEOF, websites, shared, tailer, current, mu, work, signalVars, histories>>

\* Without websites in the configuration, one that is called after --log-path.
Single ==
  /\ main = "single"
  /\ websites' = [n \in {LogPath} |-> LogPath]
  /\ main' = "create"
  /\ UNCHANGED <<exitOnEOF, shared, tailer, current, mu, work, signalVars, histories>>

\* NewMultiWebsiteTailerManager, stored in p.WebsiteTailerMgr.
Create ==
  /\ main = "create"
  /\ main' = "start"
  /\ UNCHANGED <<exitOnEOF, websites, shared, tailer, current, mu, work, signalVars, histories>>

\* Start: StartNew or KeepOld for every website, under m.mu.
Start ==
  /\ main = "start"
  /\ mu = "free"
  /\ main' = "starting"
  /\ IF websites = None
     THEN UNCHANGED <<work, mu>>
     ELSE /\ work' = [work EXCEPT !["main"] = [pc |-> "each", arg |-> websites,
                                            todo |-> DOMAIN websites, at |-> "no"]]
          /\ mu' = "main"
  /\ emptied' = (emptied \/ websites = None)
  /\ UNCHANGED <<exitOnEOF, websites, shared, tailer, current, signalVars, reloads, crossed>>

\* Wait, and its return, after which performGracefulShutdown ends the process.  A wait
\* group that is in use again when Wait wakes up panics.
Wait ==
  /\ \/ /\ main = "starting" /\ work["main"].pc = "idle"
        /\ main' = IF Live = {} THEN "shutdown" ELSE "wait"
     \/ main = "released" /\ main' = IF Live = {} THEN "shutdown" ELSE "panic"
  /\ UNCHANGED <<exitOnEOF, websites, shared, tailer, current, mu, work, signalVars, histories>>

-----------------------------------------------------------------------------
(* Signals.                                                                *)

\* signal.Notify drops a signal when the channel is full.
Signal ==
  /\ delivered < MaxSignals /\ reloads + delivered < MaxEvents
  /\ ~signalCh.full /\ ~signalCh.closed
  /\ signalCh' = [signalCh EXCEPT !.full = TRUE]
  /\ delivered' = delivered + 1
  /\ UNCHANGED <<exitOnEOF, websites, shared, tailer, current, mu, work, main,
                 got, stopCh, histories>>

\* One of the receivers takes a signal, or finds the channel closed.  The manager closes
\* m.stopCh; the server, the poller, the collector or the synchronisation only end.
Receive(g) ==
  /\ g \in Receivers \ got
  /\ g = "manager" => main \notin {"mode", "single", "create"}
  /\ signalCh.full \/ signalCh.closed
  /\ signalCh' = [signalCh EXCEPT !.full = FALSE]
  /\ got' = got \cup {g}
  /\ stopCh' = (stopCh \/ g = "manager")
  /\ UNCHANGED <<exitOnEOF, websites, shared, tailer, current, mu, work, main,
                 delivered, histories>>

\* Faulty variant: signal.Stop without the close.
CloseSignalsNot ==
  /\ "closer" \in got
  /\ UNCHANGED managerVars

\* What the first of them does next: signal.Stop and close.
CloseSignals ==
  /\ "closer" \in got
  /\ ~signalCh.closed
  /\ signalCh' = [signalCh EXCEPT !.closed = TRUE]
  /\ UNCHANGED <<exitOnEOF, websites, shared, tailer, current, mu, work, main,
                 got, stopCh, delivered, histories>>

-----------------------------------------------------------------------------
MainStep ==
  \/ Mode \/ Single \/ Create \/ Start \/ Wait
  \/ \E n \in Names : StartNew("main", n) \/ KeepOld("main", n)

ReloadStep(r) ==
  \/ CallUpdate(r) \/ UpdateBegin(r)
  \/ \E n \in Names : StartNew(r, n) \/ KeepOld(r, n) \/ StopChanged(r, n)

TailerStep(i) == SetPath(i) \/ ReadPath(i) \/ Return(i)

Goroutines ==
  /\ ~Ended
  /\ \/ MainStep
     \/ \E r \in Reloaders : ReloadStep(r)
     \/ \E i \in Ids : TailerStep(i)
     \/ CloseSignals
     \/ \E g \in Receivers : Receive(g)

Outside == ~Ended /\ (Signal \/ \E r \in Reloaders : SwapWebsites(r))

ManagerNext == Goroutines \/ Outside

\* The scheduler always runs some goroutine that can run.  Reloads and signals need not
\* come.  No goroutine waits for another by running, so that none needs more.
ManagerFairness == WF_managerVars(Goroutines)

ManagerSpec == ManagerInit /\ [][ManagerNext]_managerVars /\ ManagerFairness

-----------------------------------------------------------------------------
(* Properties.                                                             *)

\* No line of a log is taken for another website's (liveLogTailerWithPath,
\* LiveLogTailer): what a tailer captures is its own file and website or, as a pair,
\* those of a tailer that was started while it was starting.
CapturedTogether ==
  [][\A i \in Ids :
       tailer[i].pc = "read" /\ tailer'[i].pc = "tail" =>
         tailer'[i].got \in {<<tailer[i].path, tailer[i].name>>} \cup tailer[i].rivals]_managerVars

\* UpdateWebsites leaves no tailer behind: one that was not told to stop is in the
\* manager's map, and once no reload is under way there is a tailer with the right path
\* for each of p.Websites, and no other, unless two reloads went side by side.
TailersMatch ==
  /\ \A i \in Live : ~tailer[i].stop => i \in Range(current)
  /\ (main = "wait" /\ ~crossed /\ \A r \in Reloaders : work[r].pc = "idle") =>
       /\ DOMAIN current = DOMAIN websites
       /\ \A n \in DOMAIN current :
            /\ tailer[current[n]].name = n
            /\ tailer[current[n]].path = websites[n]

\* The process goes on (Wait, UpdateWebsites): it leaves the tailing loop only when the
\* manager got a signal, at the end of the files with --exit-on-eof, or after a reload
\* that kept none of the websites that were followed until then.
StaysUp ==
  main \in {"released", "shutdown", "panic"} => stopCh \/ exitOnEOF \/ emptied

\* Enough signals end the process (start, NewMultiWebsiteTailerManager): every receiver
\* swallows one at most, so that it does end when the channel took one less than there
\* are receivers, and always after the channel is closed.
SignalStops ==
  (delivered >= Cardinality(Receivers) - 1 \/ signalCh.closed) ~> Ended
=============================================================================
