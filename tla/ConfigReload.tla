----------------------------- MODULE ConfigReload -----------------------------
(***************************************************************************)
(* How a changed configuration comes in force on a node: the reloaders of  *)
(* internal/app/configmanager.go, LoadConfigFromYAML with one file         *)
(* dependency, start and crash.  On a leader an editor changes the files;  *)
(* on a follower the poller of internal/cluster does (or Bootstrap), from  *)
(* the archive that its leader serves, which is what a node like this has  *)
(* in force (Archive).                                                     *)
(*                                                                         *)
(* config.yaml and the dependency are versions, 0 for a file that is cut   *)
(* off by a write under way and -1 for one that is absent.  A checksum is  *)
(* the content.  Every write of config.yaml has a later modification time; *)
(* times are only ever compared with that of the file as it is, so that a  *)
(* LastModTime is kept as fresh (the time of the file now) or not.  The    *)
(* archive's tag also covers times, which is left out: it makes followers  *)
(* fetch the same content again.  What a swap of the configuration does    *)
(* besides is in TailerManager and Enforcement.                            *)
(***************************************************************************)
EXTENDS Integers

CONSTANTS
  MainVersions, DepVersions,  \* contents that an editor writes
  BadMain,     \* versions of config.yaml that do not load
  NoDep,       \* versions that do not refer to the dependency
  BadDep,      \* versions of the dependency that do not compile
  MaxEdits, MaxServed, MaxFaults, MaxSignals  \* bounds of the model

Cut == 0
Absent == -1
Reloaders == {"watcher", "signal", "poll", "start"}

ASSUME ReloadAssumption ==
  /\ MainVersions \subseteq Nat \ {0} /\ DepVersions \subseteq Nat \ {0}
  /\ BadMain \cup NoDep \subseteq MainVersions /\ BadDep \subseteq DepVersions
  /\ 1 \in (MainVersions \ (BadMain \cup NoDep)) \cap (DepVersions \ BadDep)
  /\ {MaxEdits, MaxServed, MaxFaults, MaxSignals} \subseteq Nat

VARIABLES
  role,      \* "leader" or "follower"; a change of FOLLOW needs a restart
  reloadOn,  \* --reload-on: "watcher", "hup" or "", which is both
  disk,      \* config.yaml and the dependency
  served,    \* the archive that the follower's leader serves
  state,     \* "down", "starting" or "up"
  force,     \* p.Config: config.yaml, LastModTime (fresh), and of the dependency
             \* whether it is known, the checksum of CurrentStatus and Content
  thread,    \* per reloader: ReloadConfiguration, or the load at the start
  hup,       \* the channel of reload signals
  poller,    \* the follower's poller or Bootstrap: place, archive, lastETag
  reloadCh,  \* the channel of size 1 from the poller to its reloader
  used,      \* edits, faults and signals so far, for the bounds
  missed,    \* history: a change of the dependency was noted that the content in
             \* force does not show
  overtaken  \* history: what is in force was loaded by a reload that began before
             \* the configuration was last replaced

reloadVars ==
  <<role, reloadOn, disk, served, state, force, thread, hup, poller, reloadCh, used, missed,
    overtaken>>
setup == <<role, reloadOn>>
follows == <<served, poller, reloadCh>>

Nothing == [main |-> Absent, fresh |-> FALSE, known |-> FALSE, sum |-> Absent, dep |-> Cut]
Idle == [pc |-> "idle", isMain |-> TRUE, late |-> FALSE, old |-> Nothing, new |-> Nothing]
PollerIdle == [pc |-> "idle", got |-> <<>>, etag |-> <<>>]

\* DetermineIdentity: FOLLOW decides the role.  A follower begins without files.
ReloadInit ==
  /\ role \in {"leader", "follower"}
  /\ reloadOn \in {"", "watcher", "hup"}
  /\ disk = IF role = "leader" THEN [main |-> 1, dep |-> 1] ELSE [main |-> Absent, dep |-> Absent]
  /\ served = <<1, 1>>
  /\ state = "down"
  /\ force = Nothing
  /\ thread = [t \in Reloaders |-> Idle]
  /\ hup = FALSE
  /\ poller = PollerIdle
  /\ reloadCh = FALSE
  /\ used = [edits |-> 0, faults |-> 0, signals |-> 0]
  /\ missed = FALSE
  /\ overtaken = FALSE

Goes(t, th) == thread' = [thread EXCEPT ![t] = th]
Refers(main) == main \in MainVersions \ NoDep
Loadable(main) == main \in MainVersions \ BadMain
Lines(dep) == IF dep = Absent THEN Cut ELSE dep
Mishap == used.faults < MaxFaults /\ used' = [used EXCEPT !.faults = @ + 1]

\* A write makes every LastModTime that was taken of the file older than it.
WriteMain(v) ==
  /\ disk' = [disk EXCEPT !.main = v]
  /\ force' = [force EXCEPT !.fresh = FALSE]
  /\ thread' = [t \in Reloaders |->
                  [thread[t] EXCEPT !.old.fresh = FALSE, !.new.fresh = FALSE]]

WriteDep(v) == disk' = [disk EXCEPT !.dep = v] /\ UNCHANGED <<force, thread>>

(***************************************************************************)
(* The editor, the leader and signals                                      *)
(***************************************************************************)

Edits(max) == used.edits < max /\ used' = [used EXCEPT !.edits = @ + 1]

EditMain(v) ==
  /\ role = "leader" /\ Edits(MaxEdits)
  /\ disk.main # v /\ WriteMain(v)
  /\ UNCHANGED <<setup, follows, state, hup, missed, overtaken>>

EditDep(v) ==
  /\ role = "leader" /\ Edits(MaxEdits)
  /\ disk.dep # v /\ WriteDep(v)
  /\ UNCHANGED <<setup, follows, state, hup, missed, overtaken>>

\* GetConfigForArchive and archiveHandler: what a leader has in force.  The dependency
\* is in it only if its status is that of a file that is there.
Archive == <<force.main, IF force.known /\ force.sum # Absent THEN force.dep ELSE Absent>>

\* What a leader can have in force.
Archives == (MainVersions \ BadMain) \X ((DepVersions \ BadDep) \cup {Cut, Absent})

Serve(a) ==
  /\ role = "follower" /\ Edits(MaxServed)
  /\ served' = a
  /\ UNCHANGED <<setup, disk, state, force, thread, hup, poller, reloadCh, missed, overtaken>>

Signal ==
  /\ used.signals < MaxSignals /\ state = "up" /\ reloadOn # "watcher"
  /\ used' = [used EXCEPT !.signals = @ + 1]
  /\ hup' = TRUE
  /\ UNCHANGED <<setup, follows, disk, state, force, thread, missed, overtaken>>

(***************************************************************************)
(* What starts a reload                                                    *)
(***************************************************************************)

\* What a reload uses of the configuration before: LastModTime, if config.yaml has not
\* changed, and the dependency.
Clone == [force EXCEPT !.main = Absent]

\* ConfigWatcher, at a tick: the configuration is cloned first.  A tick that finds
\* nothing changes nothing, and is left out unless another reloader may replace the
\* configuration meanwhile.
WatchClone ==
  /\ state = "up" /\ reloadOn # "hup" /\ thread["watcher"].pc = "idle"
  /\ \/ ~force.fresh
     \/ force.known /\ disk.dep # force.sum
     \/ \E t \in Reloaders : thread[t].pc = "swap"
  /\ Goes("watcher", [Idle EXCEPT !.pc = "check", !.old = Clone])
  /\ UNCHANGED <<setup, follows, disk, state, force, hup, used, missed, overtaken>>

\* Then the modification time of config.yaml is compared with the configuration in
\* force, or else the status of the dependency there is brought up to date.
WatchCheck ==
  LET th == thread["watcher"]
      changed == force.known /\ disk.dep # force.sum
  IN
  /\ th.pc = "check"
  /\ UNCHANGED <<setup, follows, disk, state, hup, used, overtaken>>
  /\ \/ /\ ~force.fresh
        /\ Goes("watcher", [th EXCEPT !.pc = "stat", !.old.fresh = FALSE])
        /\ UNCHANGED <<force, missed>>
     \/ /\ force.fresh /\ changed
        /\ force' = [force EXCEPT !.sum = disk.dep]
        /\ missed' = TRUE
        /\ Goes("watcher", [th EXCEPT !.pc = "stat", !.isMain = FALSE])
     \/ /\ force.fresh /\ ~changed
        /\ Goes("watcher", Idle)
        /\ UNCHANGED <<force, missed>>

BeginReload(t) == Goes(t, [Idle EXCEPT !.pc = "stat", !.old = [Clone EXCEPT !.fresh = FALSE]])

\* SignalReloader takes a signal.
SignalReload ==
  /\ state = "up" /\ hup /\ thread["signal"].pc = "idle"
  /\ hup' = FALSE
  /\ BeginReload("signal")
  /\ UNCHANGED <<setup, follows, disk, state, force, used, missed, overtaken>>

\* The goroutine behind the poller takes its signal.
PollReload ==
  /\ state = "up" /\ reloadCh /\ thread["poll"].pc = "idle"
  /\ reloadCh' = FALSE
  /\ BeginReload("poll")
  /\ UNCHANGED <<setup, disk, served, state, force, hup, poller, used, missed, overtaken>>

(***************************************************************************)
(* ReloadConfiguration and LoadConfigFromYAML                              *)
(***************************************************************************)

\* Faulty variant: LastModTime is never renewed.
StatMainNever(t) ==
  /\ thread[t].pc = "stat"
  /\ Goes(t, [thread[t] EXCEPT !.pc = "main", !.new.fresh = thread[t].old.fresh])
  /\ UNCHANGED <<setup, follows, disk, state, force, hup, used, missed, overtaken>>

\* LastModTime of the new configuration, taken before the file is read.
StatMain(t) ==
  LET th == thread[t] IN
  /\ th.pc = "stat"
  /\ Goes(t, [th EXCEPT !.pc = "main", !.new.fresh = th.isMain \/ th.old.fresh])
  /\ UNCHANGED <<setup, follows, disk, state, force, hup, used, missed, overtaken>>

\* A reload that fails leaves everything as it is; at the start the process ends.
GivesUp(t) ==
  /\ Goes(t, Idle)
  /\ state' = IF t = "start" THEN "down" ELSE state

\* config.yaml is read; a dependency that it does not refer to is carried over from
\* the old configuration as it was.
ReadMain(t) ==
  LET th == thread[t]
      kept == [th.old EXCEPT !.main = disk.main, !.fresh = th.new.fresh]
  IN
  /\ th.pc = "main"
  /\ UNCHANGED <<setup, follows, disk, force, hup, used, missed, overtaken>>
  /\ \/ /\ Loadable(disk.main)
        /\ Goes(t, [Idle EXCEPT !.pc = IF Refers(disk.main) THEN "status" ELSE "swap",
                                !.late = th.late, !.new = kept])
        /\ UNCHANGED state
     \/ ~Loadable(disk.main) /\ GivesUp(t)

\* UpdateStatus of the dependency.
ReadStatus(t) ==
  /\ thread[t].pc = "status"
  /\ Goes(t, [thread[t] EXCEPT !.pc = "content", !.new.sum = disk.dep, !.new.known = TRUE])
  /\ UNCHANGED <<setup, follows, disk, state, force, hup, used, missed, overtaken>>

\* ReadLinesFromFile and the matcher compiled from it.  A file that is missing is an
\* empty list.
ReadContent(t) ==
  LET th == thread[t]
      dep == IF th.new.sum = Absent THEN Cut ELSE Lines(disk.dep)
  IN
  /\ th.pc = "content"
  /\ UNCHANGED <<setup, follows, disk, force, hup, used, missed, overtaken>>
  /\ \/ /\ dep \notin BadDep
        /\ Goes(t, [th EXCEPT !.pc = "swap", !.new.dep = dep])
        /\ UNCHANGED state
     \/ dep \in BadDep /\ GivesUp(t)

\* Faulty variant: LastModTime is taken after the file was read.
SwapAndStat(t) ==
  LET new == [thread[t].new EXCEPT !.fresh = TRUE] IN
  /\ thread[t].pc = "swap"
  /\ force' = new
  /\ missed' = (Refers(new.main) /\ new.dep # Lines(new.sum))
  /\ overtaken' = thread[t].late
  /\ state' = "up"
  /\ thread' = [u \in Reloaders |->
                  IF u = t THEN Idle
                  ELSE [thread[u] EXCEPT !.late = thread[u].pc \notin {"idle", "check"}]]
  /\ UNCHANGED <<setup, follows, disk, hup, used>>

\* The configuration is replaced under ConfigMutex; at the start it is the first one.
Swap(t) ==
  LET new == thread[t].new IN
  /\ thread[t].pc = "swap"
  /\ force' = new
  /\ missed' = (Refers(new.main) /\ new.dep # Lines(new.sum))
  /\ overtaken' = thread[t].late
  /\ state' = "up"
  /\ thread' = [u \in Reloaders |->
                  IF u = t THEN Idle
                  ELSE [thread[u] EXCEPT !.late = thread[u].pc \notin {"idle", "check"}]]
  /\ UNCHANGED <<setup, follows, disk, hup, used>>

(***************************************************************************)
(* The poller and Bootstrap                                                *)
(***************************************************************************)

Fetch == poller' = [poller EXCEPT !.pc = "cutMain", !.got = served]

\* Faulty variant: the tag is kept before the archive is extracted.
PollKeepsTag ==
  /\ role = "follower" /\ state = "up" /\ poller.pc = "idle"
  /\ served # poller.etag
  /\ poller' = [pc |-> "cutMain", got |-> served, etag |-> served]
  /\ UNCHANGED <<setup, disk, served, state, force, thread, hup, reloadCh, used, missed, overtaken>>

\* poll: nothing is done if the tag of the archive is the last one.  A poll that does
\* not reach the leader changes nothing either.
Poll ==
  /\ role = "follower" /\ state = "up" /\ poller.pc = "idle"
  /\ served # poller.etag
  /\ Fetch
  /\ UNCHANGED <<setup, disk, served, state, force, thread, hup, reloadCh, used, missed, overtaken>>

\* extractTarGz, file by file: a file is cut off, then written.
Extract ==
  LET goto(pc) == poller' = [poller EXCEPT !.pc = pc]
      afterMain == IF poller.got[2] # Absent THEN "cutDep" ELSE "extracted"
  IN
  /\ \/ poller.pc = "cutMain" /\ WriteMain(Cut) /\ goto("writeMain")
     \/ poller.pc = "writeMain" /\ WriteMain(poller.got[1]) /\ goto(afterMain)
     \/ poller.pc = "cutDep" /\ WriteDep(Cut) /\ goto("writeDep")
     \/ poller.pc = "writeDep" /\ WriteDep(poller.got[2]) /\ goto("extracted")
  /\ UNCHANGED <<setup, served, state, hup, reloadCh, used, missed, overtaken>>

\* A file cannot be written: the poller tries again at its next tick, as the tag is
\* the old one; Bootstrap ends the process.
ExtractFails ==
  /\ poller.pc \in {"writeMain", "writeDep"} /\ Mishap
  /\ poller' = [poller EXCEPT !.pc = "idle", !.got = <<>>]
  /\ state' = IF state = "up" THEN "up" ELSE "down"
  /\ UNCHANGED <<setup, disk, served, force, thread, hup, reloadCh, missed, overtaken>>

\* The tag is kept and the reload signalled, unless a signal is waiting.
Extracted ==
  /\ poller.pc = "extracted" /\ state = "up"
  /\ poller' = [PollerIdle EXCEPT !.etag = poller.got]
  /\ reloadCh' = TRUE
  /\ UNCHANGED <<setup, disk, served, state, force, thread, hup, used, missed, overtaken>>

(***************************************************************************)
(* Start and crash                                                         *)
(***************************************************************************)

\* execute: a follower without a config.yaml fetches one first.
Start ==
  /\ state = "down"
  /\ state' = "starting"
  /\ IF disk.main = Absent
     THEN Fetch /\ UNCHANGED thread
     ELSE BeginReload("start") /\ UNCHANGED poller
  /\ UNCHANGED <<setup, disk, served, force, hup, reloadCh, used, missed, overtaken>>

Bootstrapped ==
  /\ poller.pc = "extracted" /\ state = "starting"
  /\ poller' = PollerIdle
  /\ BeginReload("start")
  /\ UNCHANGED <<setup, disk, served, state, force, hup, reloadCh, used, missed, overtaken>>

Crash ==
  /\ state # "down" /\ Mishap
  /\ state' = "down"
  /\ force' = Nothing
  /\ thread' = [t \in Reloaders |-> Idle]
  /\ hup' = FALSE
  /\ missed' = FALSE
  /\ overtaken' = FALSE
  /\ poller' = PollerIdle
  /\ reloadCh' = FALSE
  /\ UNCHANGED <<setup, disk, served>>

(***************************************************************************)
(* Specification                                                           *)
(***************************************************************************)

Reload(t) == StatMain(t) \/ ReadMain(t) \/ ReadStatus(t) \/ ReadContent(t) \/ Swap(t)

ReloadNext ==
  \/ \E v \in MainVersions : EditMain(v)
  \/ \E v \in DepVersions \cup {Absent} : EditDep(v)
  \/ \E a \in Archives : Serve(a)
  \/ Signal \/ WatchClone \/ WatchCheck \/ SignalReload \/ PollReload
  \/ \E t \in Reloaders : Reload(t)
  \/ Poll \/ Extract \/ ExtractFails \/ Extracted
  \/ Start \/ Bootstrapped \/ Crash

\* Tickers fire, goroutines that can go on do, the leader is reached at last, and a
\* process that ended is started again.
ReloadFairness ==
  /\ WF_reloadVars(WatchClone) /\ WF_reloadVars(WatchCheck)
  /\ WF_reloadVars(SignalReload) /\ WF_reloadVars(PollReload)
  /\ \A t \in Reloaders : WF_reloadVars(Reload(t))
  /\ WF_reloadVars(Poll) /\ WF_reloadVars(Extract) /\ WF_reloadVars(Extracted)
  /\ WF_reloadVars(Start) /\ WF_reloadVars(Bootstrapped)

ReloadSpec == ReloadInit /\ [][ReloadNext]_reloadVars /\ ReloadFairness

(***************************************************************************)
(* Properties                                                              *)
(***************************************************************************)

\* A configuration that the watcher takes for current is: if config.yaml is not newer
\* than LastModTime, its content is in force, and if the checksum of the dependency
\* is the noted one, so is its content; and what is in force can be loaded by a
\* follower.  The exceptions for the dependency are in missed: a change is noted
\* before the reload that is to bring it in force, which may fail or be under way,
\* and checksum and content are read one after the other.
CurrentIsInForce ==
  state = "up" =>
    /\ force.fresh => force.main = disk.main
    /\ Refers(force.main) /\ force.sum = disk.dep => force.dep = Lines(disk.dep) \/ missed
    /\ Archive \in Archives

\* The files of a leader do not load.
Broken ==
  \/ role = "leader" /\ ~Loadable(disk.main)
  \/ role = "leader" /\ Refers(disk.main) /\ disk.dep \in BadDep

\* A follower was stopped with config.yaml cut off: it does not load, and Bootstrap is
\* only for a file that is absent.
Stranded == role = "follower" /\ state # "up" /\ disk.main = Cut

\* The leader's dependency was deleted, or is not known to it: the archive does not
\* have it, and the follower keeps its own.
Left == role = "follower" /\ served[2] = Absent /\ disk.dep # Absent

Target == IF role = "leader" THEN <<disk.main, disk.dep>> ELSE served

\* Without a watcher, a leader reloads when it is told to, and nobody sees that a
\* signal's reload replaced what the poller's had loaded later.
Unwatched == reloadOn = "hup" /\ (role = "leader" \/ overtaken)

\* The last configuration written on a leader, or served to a follower, comes in force,
\* whatever signals are dropped, reloads overtake each other, extractions fail and
\* processes crash.
Converges ==
  <>[](\/ Broken \/ Stranded \/ Left \/ Unwatched \/ missed
       \/ /\ state = "up"
          /\ force.main = Target[1]
          /\ Refers(force.main) => force.dep = Lines(Target[2]))

\* A dependency that config.yaml no longer refers to and that changed.  Its status is
\* carried over from before the change was noted, so that every tick of the watcher
\* notes the change again and reloads.
Forgotten ==
  /\ ~Refers(force.main)
  /\ \E c \in {force} \cup UNION {{thread[t].old, thread[t].new} : t \in Reloaders} :
       c.known /\ c.sum # disk.dep

\* Reloading comes to an end: once files stop changing no reloader is at work, unless
\* config.yaml does not load or a changed dependency is Forgotten.
Settles ==
  <>[](\/ Broken \/ Stranded \/ Forgotten
       \/ \A t \in Reloaders : thread[t].pc = "idle")
=============================================================================
