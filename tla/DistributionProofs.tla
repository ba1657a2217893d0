------------------------- MODULE DistributionProofs -------------------------
(***************************************************************************)
(* Machine-checked facts about what nodes take over from a file or from a  *)
(* peer: the reload of the configuration, for every set of versions, good  *)
(* and bad, and any number of edits, archives, signals and faults; and the *)
(* spreading of bad actors, for every number of followers, every set of    *)
(* IPs and any number of rounds, collections, failures and restarts.       *)
(***************************************************************************)
EXTENDS ConfigReload, BadActorSync, TLAPS

(***************************************************************************)
(* Configuration: the inductive invariant                                  *)
(***************************************************************************)

Mains == MainVersions \cup {Cut, Absent}
Deps == DepVersions \cup {Cut, Absent}
Configs == [main : Mains, fresh : BOOLEAN, known : BOOLEAN, sum : Deps,
            dep : (DepVersions \ BadDep) \cup {Cut}]
Loads == [pc : {"idle", "check", "stat", "main", "status", "content", "swap"},
          isMain : BOOLEAN, late : BOOLEAN, old : Configs, new : Configs]
Pollers == [pc : {"idle", "cutMain", "writeMain", "cutDep", "writeDep", "extracted"},
            got : Archives \cup {<<>>}, etag : Archives \cup {<<>>}]

\* Every variable that the argument is about has its type; the poller has an archive in
\* hand while it extracts.
TypeOK ==
  /\ disk \in [main : Mains, dep : Deps]
  /\ served \in Archives
  /\ force \in Configs
  /\ thread \in [Reloaders -> Loads]
  /\ poller \in Pollers
  /\ poller.pc # "idle" => poller.got \in Archives

\* What is in force loads, is that of the file if it is as new, and has the dependency that
\* its checksum is of unless that was noted as missed.
ForceOK ==
  /\ force.fresh => force.main = disk.main
  /\ Refers(force.main) => force.dep = Lines(force.sum) \/ missed
  /\ state = "up" => Loadable(force.main)

\* The same of a configuration that a reload has in hand, from when it has read config.yaml.
LoadOK(th) ==
  th.pc \in {"status", "content", "swap"} =>
    /\ Loadable(th.new.main)
    /\ th.new.fresh => th.new.main = disk.main

LoadsOK == \A t \in Reloaders : LoadOK(thread[t])

\* The inductive invariant.
ReloadInv == TypeOK /\ ForceOK /\ LoadsOK

(***************************************************************************)
(* Groups of steps                                                         *)
(***************************************************************************)

\* The constants of the records have their types.
LEMMA Constants ==
  /\ Nothing \in Configs /\ Idle \in Loads /\ PollerIdle \in Pollers
  /\ <<1, 1>> \in Archives
  /\ \A a \in Archives : a[1] \in MainVersions /\ a[1] \in Mains /\ a[2] \in Deps
  /\ 1 \in Mains /\ Absent \in Mains /\ Cut \in Mains
  /\ 1 \in Deps /\ Absent \in Deps /\ Cut \in Deps
<1>1. Nothing \in Configs
  BY DEF Nothing, Configs, Mains, Deps
<1>2. Idle \in Loads
  BY <1>1 DEF Idle, Loads
<1>3. PollerIdle \in Pollers
  BY DEF PollerIdle, Pollers
<1>4. <<1, 1>> \in Archives
  BY ReloadAssumption DEF Archives
<1>5. \A a \in Archives : a[1] \in MainVersions /\ a[1] \in Mains /\ a[2] \in Deps
  BY DEF Archives, Mains, Deps
<1>6. 1 \in Mains /\ 1 \in Deps
  BY ReloadAssumption DEF Mains, Deps
<1> QED
  BY <1>1, <1>2, <1>3, <1>4, <1>5, <1>6 DEF Mains, Deps

\* One reload moves on and nothing else that the invariant is about changes.
LEMMA LoadStep ==
  ASSUME ReloadInv, NEW t \in Reloaders, NEW th \in Loads, Goes(t, th), LoadOK(th),
         UNCHANGED <<disk, served, force, missed>>,
         poller' \in Pollers, poller'.pc # "idle" => poller'.got \in Archives,
         state' = "up" => state = "up"
  PROVE  ReloadInv'
<1>1. /\ thread' \in [Reloaders -> Loads]
      /\ thread'[t] = th /\ \A u \in Reloaders : u # t => thread'[u] = thread[u]
  BY DEF ReloadInv, TypeOK, Goes
<1>2. TypeOK'
  BY <1>1 DEF ReloadInv, TypeOK
<1>3. ForceOK'
  BY DEF ReloadInv, ForceOK
<1>4. LoadsOK'
  <2> SUFFICES ASSUME NEW u \in Reloaders PROVE LoadOK(thread[u])'
    BY DEF LoadsOK
  <2>1. CASE u = t
    BY <1>1, <2>1 DEF LoadOK
  <2>2. CASE u # t
    BY <1>1, <2>2 DEF ReloadInv, LoadsOK, LoadOK
  <2> QED
    BY <2>1, <2>2
<1> QED
  BY <1>2, <1>3, <1>4 DEF ReloadInv

\* config.yaml is written: no LastModTime is that of the file any more.
LEMMA MainWritten ==
  ASSUME ReloadInv, NEW v \in Mains, WriteMain(v),
         UNCHANGED <<served, state, missed>>,
         poller' \in Pollers, poller'.pc # "idle" => poller'.got \in Archives
  PROVE  ReloadInv'
<1>1. /\ disk' \in [main : Mains, dep : Deps]
      /\ force' \in Configs /\ ~force'.fresh /\ force'.main = force.main
      /\ force'.sum = force.sum /\ force'.dep = force.dep
  BY DEF ReloadInv, TypeOK, WriteMain, Configs
<1>2. ASSUME NEW u \in Reloaders
      PROVE  /\ thread'[u] \in Loads /\ ~thread'[u].new.fresh
             /\ thread'[u].pc = thread[u].pc /\ thread'[u].new.main = thread[u].new.main
  <2>1. /\ thread[u] \in Loads
        /\ thread'[u] = [thread[u] EXCEPT !.old.fresh = FALSE, !.new.fresh = FALSE]
    BY DEF ReloadInv, TypeOK, WriteMain
  <2>2. thread[u].old \in Configs /\ thread[u].new \in Configs
    BY <2>1 DEF Loads
  <2>3. /\ [thread[u].old EXCEPT !.fresh = FALSE] \in Configs
        /\ [thread[u].new EXCEPT !.fresh = FALSE] \in Configs
    BY <2>2 DEF Configs
  <2>4. /\ thread'[u].old = [thread[u].old EXCEPT !.fresh = FALSE]
        /\ thread'[u].new = [thread[u].new EXCEPT !.fresh = FALSE]
        /\ thread'[u].pc = thread[u].pc
    BY <2>1 DEF Loads
  <2>5. ~thread'[u].new.fresh /\ thread'[u].new.main = thread[u].new.main
    BY <2>2, <2>4 DEF Configs
  <2>6. thread'[u] \in Loads
    BY <2>1, <2>3, <2>4 DEF Loads
  <2> QED
    BY <2>4, <2>5, <2>6
<1>3. thread' \in [Reloaders -> Loads]
  BY <1>2 DEF WriteMain
<1>4. TypeOK'
  BY <1>1, <1>3 DEF ReloadInv, TypeOK
<1>5. ForceOK'
  BY <1>1 DEF ReloadInv, ForceOK
<1>6. LoadsOK'
  BY <1>2 DEF ReloadInv, LoadsOK, LoadOK
<1> QED
  BY <1>4, <1>5, <1>6 DEF ReloadInv

\* No configuration changes, in force or in hand.
LEMMA Elsewhere ==
  ASSUME ReloadInv, UNCHANGED <<force, thread, missed>>,
         disk' \in [main : Mains, dep : Deps], disk'.main = disk.main, served' \in Archives,
         poller' \in Pollers, poller'.pc # "idle" => poller'.got \in Archives,
         state' = "up" => state = "up"
  PROVE  ReloadInv'
<1>1. TypeOK'
  BY DEF ReloadInv, TypeOK
<1>2. ForceOK'
  BY DEF ReloadInv, ForceOK
<1>3. LoadsOK'
  BY DEF ReloadInv, LoadsOK, LoadOK
<1> QED
  BY <1>1, <1>2, <1>3 DEF ReloadInv


(***************************************************************************)
(* The actions                                                             *)
(***************************************************************************)

\* The node has not started: nothing is in force.
LEMMA InitInv == ReloadInit => ReloadInv
<1> SUFFICES ASSUME ReloadInit PROVE ReloadInv
  OBVIOUS
<1>1. TypeOK
  <2>1. disk \in [main : Mains, dep : Deps]
    BY Constants DEF ReloadInit
  <2>2. poller \in Pollers /\ poller.pc = "idle"
    BY Constants DEF ReloadInit, PollerIdle
  <2> QED
    BY <2>1, <2>2, Constants DEF ReloadInit, TypeOK
<1>2. ForceOK
  <2>1. force = Nothing /\ state = "down"
    BY DEF ReloadInit
  <2> QED
    BY <2>1, ReloadAssumption DEF ForceOK, Nothing, Refers, Absent
<1>3. LoadsOK
  BY DEF ReloadInit, LoadsOK, LoadOK, Idle
<1> QED
  BY <1>1, <1>2, <1>3 DEF ReloadInv

\* Editors, the leader of a follower, signals and the poller, which write files and start
\* reloads but do not load.
LEMMA OutsideInv ==
  ASSUME ReloadInv,
         \/ \E v \in MainVersions : EditMain(v)
         \/ \E v \in DepVersions \cup {Absent} : EditDep(v)
         \/ \E a \in Archives : Serve(a)
         \/ Signal \/ Poll \/ Extract \/ ExtractFails \/ Extracted
  PROVE  ReloadInv'
<1>0. TypeOK
  BY DEF ReloadInv
<1>1. ASSUME NEW v \in MainVersions, EditMain(v) PROVE ReloadInv'
  BY <1>0, <1>1, MainWritten DEF EditMain, Mains, follows, TypeOK
<1>2. ASSUME NEW v \in DepVersions \cup {Absent}, EditDep(v) PROVE ReloadInv'
  <2>1. disk' \in [main : Mains, dep : Deps] /\ disk'.main = disk.main
    BY <1>0, <1>2 DEF EditDep, WriteDep, TypeOK, Deps
  <2> QED
    BY <1>0, <1>2, <2>1, Elsewhere DEF EditDep, WriteDep, follows, TypeOK
<1>3. ASSUME NEW a \in Archives, Serve(a) PROVE ReloadInv'
  BY <1>0, <1>3, Elsewhere DEF Serve, TypeOK
<1>4. ASSUME Signal PROVE ReloadInv'
  BY <1>0, <1>4, Elsewhere DEF Signal, follows, TypeOK
<1>5. ASSUME Poll PROVE ReloadInv'
  <2>1. poller' \in Pollers /\ poller'.got \in Archives
    BY <1>0, <1>5 DEF Poll, Fetch, TypeOK, Pollers
  <2> QED
    BY <1>0, <1>5, <2>1, Elsewhere DEF Poll, TypeOK
<1>6. ASSUME Extract PROVE ReloadInv'
  <2>1. poller.pc \in {"cutMain", "writeMain", "cutDep", "writeDep"} /\ poller.got \in Archives
    BY <1>0, <1>6 DEF Extract, TypeOK
  <2>2. poller' \in Pollers /\ poller'.got = poller.got
    BY <1>0, <1>6 DEF Extract, TypeOK, Pollers
  <2>3. UNCHANGED <<served, state, missed>>
    BY <1>6 DEF Extract
  <2>4. \/ WriteMain(Cut) \/ WriteMain(poller.got[1])
        \/ WriteDep(Cut) \/ WriteDep(poller.got[2])
    BY <1>6 DEF Extract
  <2>5. ASSUME NEW v \in Mains, WriteMain(v) PROVE ReloadInv'
    BY <2>1, <2>2, <2>3, <2>5, MainWritten
  <2>6. ASSUME NEW v \in Deps, WriteDep(v) PROVE ReloadInv'
    <3>1. disk' \in [main : Mains, dep : Deps] /\ disk'.main = disk.main
      BY <1>0, <2>6 DEF WriteDep, TypeOK
    <3> QED
      BY <1>0, <2>1, <2>2, <2>3, <2>6, <3>1, Elsewhere DEF WriteDep, TypeOK
  <2>7. poller.got[1] \in Mains /\ poller.got[2] \in Deps
    BY <2>1, Constants
  <2> QED
    BY <2>4, <2>5, <2>6, <2>7, Constants
<1>7. ASSUME ExtractFails PROVE ReloadInv'
  <2>1. poller' \in Pollers /\ poller'.pc = "idle"
    BY <1>0, <1>7 DEF ExtractFails, TypeOK, Pollers
  <2> QED
    BY <1>0, <1>7, <2>1, Elsewhere DEF ExtractFails, TypeOK
<1>8. ASSUME Extracted PROVE ReloadInv'
  <2>1. poller' \in Pollers /\ poller'.pc = "idle"
    BY <1>0, <1>8, Constants DEF Extracted, TypeOK, Pollers, PollerIdle
  <2> QED
    BY <1>0, <1>8, <2>1, Elsewhere DEF Extracted, TypeOK
<1> QED
  BY <1>1, <1>2, <1>3, <1>4, <1>5, <1>6, <1>7, <1>8

\* A reload that begins has read nothing.
LEMMA BeginsInv ==
  ASSUME ReloadInv, WatchClone \/ SignalReload \/ PollReload \/ Start \/ Bootstrapped
  PROVE  ReloadInv'
<1>0. TypeOK
  BY DEF ReloadInv
<1>1. Clone \in Configs /\ [Clone EXCEPT !.fresh = FALSE] \in Configs
  BY <1>0, Constants DEF Clone, TypeOK, Configs
<1> DEFINE begun == [Idle EXCEPT !.pc = "stat", !.old = [Clone EXCEPT !.fresh = FALSE]]
           watch == [Idle EXCEPT !.pc = "check", !.old = Clone]
<1>2. begun \in Loads /\ begun.pc = "stat" /\ watch \in Loads /\ watch.pc = "check"
  BY <1>1, Constants DEF Idle, Loads
<1>3. LoadOK(begun) /\ LoadOK(watch)
  BY <1>2 DEF LoadOK
<1>4. \A t \in Reloaders : BeginReload(t) <=> Goes(t, begun)
  BY DEF BeginReload
<1>5. WatchClone => Goes("watcher", watch)
  BY DEF WatchClone
<1> HIDE DEF begun, watch
<1>6. {"watcher", "signal", "poll", "start"} \subseteq Reloaders
  BY DEF Reloaders
<1>7. ASSUME WatchClone PROVE ReloadInv'
  BY <1>0, <1>2, <1>3, <1>5, <1>6, <1>7, LoadStep DEF WatchClone, follows, TypeOK
<1>8. ASSUME SignalReload PROVE ReloadInv'
  BY <1>0, <1>2, <1>3, <1>4, <1>6, <1>8, LoadStep DEF SignalReload, follows, TypeOK
<1>9. ASSUME PollReload PROVE ReloadInv'
  BY <1>0, <1>2, <1>3, <1>4, <1>6, <1>9, LoadStep DEF PollReload, TypeOK
<1>10. ASSUME Start PROVE ReloadInv'
  <2>1. state' # "up" /\ UNCHANGED <<disk, served, force, missed>>
    BY <1>10 DEF Start
  <2>2. CASE Fetch /\ UNCHANGED thread
    <3>1. poller' \in Pollers /\ poller'.got \in Archives
      BY <1>0, <2>2 DEF Fetch, TypeOK, Pollers
    <3> QED
      BY <1>0, <2>1, <2>2, <3>1, Elsewhere DEF TypeOK
  <2>3. CASE BeginReload("start") /\ UNCHANGED poller
    BY <1>0, <1>2, <1>3, <1>4, <1>6, <2>1, <2>3, LoadStep DEF TypeOK
  <2> QED
    BY <1>10, <2>2, <2>3 DEF Start
<1>11. ASSUME Bootstrapped PROVE ReloadInv'
  <2>1. poller' \in Pollers /\ poller'.pc = "idle"
    BY <1>11, Constants DEF Bootstrapped, PollerIdle
  <2> QED
    BY <1>2, <1>3, <1>4, <1>6, <1>11, <2>1, LoadStep DEF Bootstrapped
<1> QED
  BY <1>7, <1>8, <1>9, <1>10, <1>11

\* The watcher compares with what is in force, and notes a change of the dependency there.
LEMMA WatchCheckInv ==
  ASSUME ReloadInv, WatchCheck
  PROVE  ReloadInv'
<1>0. TypeOK /\ ForceOK /\ LoadsOK
  BY DEF ReloadInv
<1> DEFINE th == thread["watcher"]
           found == [th EXCEPT !.pc = "stat", !.old.fresh = FALSE]
           noted == [th EXCEPT !.pc = "stat", !.isMain = FALSE]
<1>1. "watcher" \in Reloaders /\ th \in Loads /\ th.pc = "check" /\ th.old \in Configs
  BY <1>0 DEF Reloaders, TypeOK, WatchCheck, Loads
<1>2. /\ UNCHANGED <<disk, served, poller, state>>
      /\ \/ Goes("watcher", found) /\ UNCHANGED <<force, missed>>
         \/ /\ force' = [force EXCEPT !.sum = disk.dep] /\ missed' = TRUE
            /\ Goes("watcher", noted)
         \/ Goes("watcher", Idle) /\ UNCHANGED <<force, missed>>
  BY DEF WatchCheck, follows
<1> HIDE DEF th
<1>3. found \in Loads /\ found.pc = "stat" /\ noted \in Loads /\ noted.pc = "stat"
  <2>1. [th.old EXCEPT !.fresh = FALSE] \in Configs
    BY <1>1 DEF Configs
  <2> QED
    BY <1>1, <2>1 DEF Loads
<1>4. LoadOK(found) /\ LoadOK(noted) /\ LoadOK(Idle)
  BY <1>3 DEF LoadOK, Idle
<1> HIDE DEF found, noted
<1>5. CASE Goes("watcher", found) /\ UNCHANGED <<force, missed>>
  BY <1>0, <1>1, <1>2, <1>3, <1>4, <1>5, LoadStep DEF TypeOK
<1>6. CASE Goes("watcher", Idle) /\ UNCHANGED <<force, missed>>
  BY <1>0, <1>1, <1>2, <1>4, <1>6, LoadStep, Constants DEF TypeOK
<1>7. CASE force' = [force EXCEPT !.sum = disk.dep] /\ missed' = TRUE /\ Goes("watcher", noted)
  <2>1. /\ thread' \in [Reloaders -> Loads] /\ thread'["watcher"] = noted
        /\ \A u \in Reloaders : u # "watcher" => thread'[u] = thread[u]
    BY <1>0, <1>1, <1>3, <1>7 DEF TypeOK, Goes
  <2>2. force' \in Configs /\ force'.main = force.main /\ force'.fresh = force.fresh
    BY <1>0, <1>7 DEF TypeOK, Configs
  <2>3. TypeOK'
    BY <1>0, <1>2, <2>1, <2>2 DEF TypeOK
  <2>4. ForceOK'
    BY <1>0, <1>2, <1>7, <2>2 DEF ForceOK
  <2>5. LoadsOK'
    BY <1>0, <1>2, <1>4, <2>1 DEF LoadsOK, LoadOK
  <2> QED
    BY <2>3, <2>4, <2>5 DEF ReloadInv
<1> QED
  BY <1>2, <1>5, <1>6, <1>7

\* The steps of a reload up to the swap; one that fails leaves everything as it was.
LEMMA LoadingInv ==
  ASSUME ReloadInv, NEW t \in Reloaders,
         StatMain(t) \/ ReadMain(t) \/ ReadStatus(t) \/ ReadContent(t)
  PROVE  ReloadInv'
<1>0. TypeOK /\ LoadsOK
  BY DEF ReloadInv
<1> DEFINE th == thread[t]
<1>1. th \in Loads /\ th.old \in Configs /\ th.new \in Configs /\ LoadOK(th)
  BY <1>0 DEF TypeOK, Loads, LoadsOK
<1>2. disk.main \in Mains /\ disk.dep \in Deps
  BY <1>0 DEF TypeOK
<1>3. ASSUME NEW next \in Loads, Goes(t, next), LoadOK(next), state' = "up" => state = "up",
             UNCHANGED <<disk, served, force, missed, poller>>
      PROVE  ReloadInv'
  BY <1>0, <1>3, LoadStep DEF TypeOK
<1>4. ASSUME GivesUp(t), UNCHANGED <<disk, served, force, missed, poller>> PROVE ReloadInv'
  <2>1. Idle \in Loads /\ LoadOK(Idle)
    BY Constants DEF LoadOK, Idle
  <2> QED
    BY <1>3, <1>4, <2>1 DEF GivesUp
<1>5. ASSUME StatMain(t) PROVE ReloadInv'
  <2> DEFINE next == [th EXCEPT !.pc = "main", !.new.fresh = th.isMain \/ th.old.fresh]
  <2>1. Goes(t, next) /\ UNCHANGED <<disk, served, force, missed, poller, state>>
    BY <1>5 DEF StatMain, follows
  <2> HIDE DEF th
  <2>2. (th.isMain \/ th.old.fresh) \in BOOLEAN
    BY <1>1
  <2>3. [th.new EXCEPT !.fresh = th.isMain \/ th.old.fresh] \in Configs
    BY <1>1, <2>2 DEF Configs
  <2>4. next \in Loads /\ next.pc = "main"
    BY <1>1, <2>3 DEF Loads
  <2>5. LoadOK(next)
    BY <2>4 DEF LoadOK
  <2> HIDE DEF next
  <2> QED
    BY <1>3, <2>1, <2>4, <2>5
<1>6. ASSUME ReadMain(t) PROVE ReloadInv'
  <2> DEFINE kept == [th.old EXCEPT !.main = disk.main, !.fresh = th.new.fresh]
             next == [Idle EXCEPT !.pc = IF Refers(disk.main) THEN "status" ELSE "swap",
                                  !.late = th.late, !.new = kept]
  <2>1. UNCHANGED <<disk, served, force, missed, poller>>
    BY <1>6 DEF ReadMain, follows
  <2>2. \/ Loadable(disk.main) /\ Goes(t, next) /\ UNCHANGED state
        \/ GivesUp(t)
    BY <1>6 DEF ReadMain
  <2> HIDE DEF th
  <2>3. kept \in Configs /\ kept.main = disk.main
    BY <1>1, <1>2 DEF Configs
  <2> HIDE DEF kept
  <2>4. next \in Loads /\ next.new = kept
    BY <1>1, <2>3, Constants DEF Loads, Idle
  <2> HIDE DEF next
  <2>5. Loadable(disk.main) => LoadOK(next)
    BY <2>3, <2>4 DEF LoadOK
  <2> QED
    BY <1>3, <1>4, <2>1, <2>2, <2>4, <2>5
<1>7. ASSUME ReadStatus(t) PROVE ReloadInv'
  <2> DEFINE next == [th EXCEPT !.pc = "content", !.new.sum = disk.dep, !.new.known = TRUE]
  <2>1. Goes(t, next) /\ UNCHANGED <<disk, served, force, missed, poller, state>>
    BY <1>7 DEF ReadStatus, follows
  <2>2. th.pc = "status"
    BY <1>7 DEF ReadStatus
  <2> HIDE DEF th
  <2> DEFINE new == [th.new EXCEPT !.sum = disk.dep, !.known = TRUE]
  <2>3. new \in Configs /\ new.main = th.new.main /\ new.fresh = th.new.fresh
    BY <1>1, <1>2 DEF Configs
  <2>4. next.new = new /\ next.pc = "content"
    BY <1>1 DEF Loads, Configs
  <2>5. next \in Loads
    BY <1>1, <2>3, <2>4 DEF Loads
  <2> HIDE DEF next, new
  <2>6. LoadOK(next)
    BY <1>1, <2>2, <2>3, <2>4 DEF LoadOK
  <2> QED
    BY <1>3, <2>1, <2>5, <2>6
<1>8. ASSUME ReadContent(t) PROVE ReloadInv'
  <2> DEFINE dep == IF th.new.sum = Absent THEN Cut ELSE Lines(disk.dep)
             next == [th EXCEPT !.pc = "swap", !.new.dep = dep]
  <2>1. UNCHANGED <<disk, served, force, missed, poller>> /\ th.pc = "content"
    BY <1>8 DEF ReadContent, follows
  <2>2. \/ dep \notin BadDep /\ Goes(t, next) /\ UNCHANGED state
        \/ GivesUp(t)
    BY <1>8 DEF ReadContent
  <2> HIDE DEF th
  <2>3. dep \notin BadDep => dep \in (DepVersions \ BadDep) \cup {Cut}
    BY <1>2 DEF Lines, Deps
  <2> HIDE DEF dep
  <2> DEFINE new == [th.new EXCEPT !.dep = dep]
  <2>4. dep \notin BadDep => new \in Configs /\ new.main = th.new.main /\ new.fresh = th.new.fresh
    BY <1>1, <2>3 DEF Configs
  <2>5. next.new = new /\ next.pc = "swap"
    BY <1>1 DEF Loads
  <2>6. dep \notin BadDep => next \in Loads
    BY <1>1, <2>4, <2>5 DEF Loads
  <2> HIDE DEF next, new
  <2>7. dep \notin BadDep => LoadOK(next)
    BY <1>1, <2>1, <2>4, <2>5 DEF LoadOK
  <2> QED
    BY <1>3, <1>4, <2>1, <2>2, <2>6, <2>7
<1> QED
  BY <1>5, <1>6, <1>7, <1>8

\* What a reload has in hand comes in force, whatever others have in hand.
LEMMA SwapInv ==
  ASSUME ReloadInv, NEW t \in Reloaders, Swap(t)
  PROVE  ReloadInv'
<1>0. TypeOK /\ LoadsOK
  BY DEF ReloadInv
<1>1. thread[t] \in Loads /\ thread[t].new \in Configs /\ LoadOK(thread[t])
  BY <1>0 DEF TypeOK, Loads, LoadsOK
<1>2. /\ thread[t].pc = "swap" /\ force' = thread[t].new
      /\ missed' = (Refers(force'.main) /\ force'.dep # Lines(force'.sum))
      /\ UNCHANGED <<disk, served, poller>>
  BY DEF Swap, follows
<1>3. ASSUME NEW u \in Reloaders
      PROVE  thread'[u] \in Loads /\ LoadOK(thread[u])'
  <2>1. CASE u = t
    <3>1. thread'[u] = Idle
      BY <2>1 DEF Swap
    <3> QED
      BY <3>1, Constants DEF LoadOK, Idle
  <2>2. CASE u # t
    <3>1. thread'[u] = [thread[u] EXCEPT !.late = thread[u].pc \notin {"idle", "check"}]
      BY <2>2 DEF Swap
    <3>2. thread[u] \in Loads /\ LoadOK(thread[u])
      BY <1>0 DEF TypeOK, LoadsOK
    <3>3. /\ thread'[u] \in Loads
          /\ thread'[u].pc = thread[u].pc /\ thread'[u].new = thread[u].new
      BY <3>1, <3>2 DEF Loads
    <3> QED
      BY <1>2, <3>2, <3>3 DEF LoadOK
  <2> QED
    BY <2>1, <2>2
<1>4. thread' \in [Reloaders -> Loads]
  BY <1>3 DEF Swap
<1>5. TypeOK'
  BY <1>0, <1>1, <1>2, <1>4 DEF TypeOK
<1>6. ForceOK'
  BY <1>1, <1>2 DEF ForceOK, LoadOK
<1>7. LoadsOK'
  BY <1>3 DEF LoadsOK
<1> QED
  BY <1>5, <1>6, <1>7 DEF ReloadInv

\* A process that ends keeps only its files.
LEMMA CrashInv ==
  ASSUME ReloadInv, Crash
  PROVE  ReloadInv'
<1>0. TypeOK
  BY DEF ReloadInv
<1>1. /\ force' = Nothing /\ thread' = [t \in Reloaders |-> Idle] /\ poller' = PollerIdle
      /\ state' = "down" /\ UNCHANGED <<disk, served>>
  BY DEF Crash
<1>2. TypeOK'
  <2>1. poller' \in Pollers /\ poller'.pc = "idle"
    BY <1>1, Constants DEF PollerIdle
  <2> QED
    BY <1>0, <1>1, <2>1, Constants DEF TypeOK
<1>3. ForceOK'
  BY <1>1, ReloadAssumption DEF ForceOK, Nothing, Refers, Absent
<1>4. LoadsOK'
  BY <1>1 DEF LoadsOK, LoadOK, Idle
<1> QED
  BY <1>2, <1>3, <1>4 DEF ReloadInv

(***************************************************************************)
(* Configuration: theorems                                                 *)
(***************************************************************************)

\* Every step of the reloaders, of the poller and of those who change the files keeps the
\* invariant.
THEOREM ReloadInvariance == ReloadSpec => []ReloadInv
<1>1. ReloadInv /\ [ReloadNext]_reloadVars => ReloadInv'
  <2> SUFFICES ASSUME ReloadInv, [ReloadNext]_reloadVars PROVE ReloadInv'
    OBVIOUS
  <2>1. CASE \/ \E v \in MainVersions : EditMain(v)
             \/ \E v \in DepVersions \cup {Absent} : EditDep(v)
             \/ \E a \in Archives : Serve(a)
             \/ Signal \/ Poll \/ Extract \/ ExtractFails \/ Extracted
    BY <2>1, OutsideInv
  <2>2. CASE WatchClone \/ SignalReload \/ PollReload \/ Start \/ Bootstrapped
    BY <2>2, BeginsInv
  <2>3. CASE WatchCheck
    BY <2>3, WatchCheckInv
  <2>4. CASE \E t \in Reloaders : Reload(t)
    BY <2>4, LoadingInv, SwapInv DEF Reload
  <2>5. CASE Crash
    BY <2>5, CrashInv
  <2>6. CASE UNCHANGED reloadVars
    <3>1. TypeOK' /\ ForceOK'
      BY <2>6 DEF reloadVars, ReloadInv, TypeOK, ForceOK
    <3>2. LoadsOK'
      BY <2>6 DEF reloadVars, ReloadInv, LoadsOK, LoadOK
    <3> QED
      BY <3>1, <3>2 DEF ReloadInv
  <2> QED
    BY <2>1, <2>2, <2>3, <2>4, <2>5, <2>6 DEF ReloadNext
<1> QED
  BY <1>1, InitInv, PTL DEF ReloadSpec

\* ConfigWatcher's test is sound: with files written at any moment, reloads of the watcher,
\* of signals and of the poller side by side, failures and restarts, a configuration that
\* it takes for current is the one in the files, and an archive that a node serves loads.
THEOREM CurrentConfigIsInForce == ReloadSpec => []CurrentIsInForce
<1>1. ReloadInv => CurrentIsInForce
  <2> SUFFICES ASSUME ReloadInv, state = "up" PROVE CurrentIsInForce
    BY DEF CurrentIsInForce
  <2>1. force \in Configs /\ Loadable(force.main)
    BY DEF ReloadInv, TypeOK, ForceOK
  <2>2. Archive \in Archives
    <3>1. force.main \in MainVersions \ BadMain
      BY <2>1 DEF Loadable
    <3>2. (IF force.known /\ force.sum # Absent THEN force.dep ELSE Absent)
            \in (DepVersions \ BadDep) \cup {Cut, Absent}
      BY <2>1 DEF Configs
    <3> QED
      BY <3>1, <3>2 DEF Archive, Archives
  <2>3. force.fresh => force.main = disk.main
    BY DEF ReloadInv, ForceOK
  <2>4. Refers(force.main) /\ force.sum = disk.dep => force.dep = Lines(disk.dep) \/ missed
    BY DEF ReloadInv, ForceOK
  <2> QED
    BY <2>2, <2>3, <2>4 DEF CurrentIsInForce
<1> QED
  BY <1>1, ReloadInvariance, PTL

(***************************************************************************)
(* Bad actors: the inductive invariant                                     *)
(***************************************************************************)

\* No time is in the future, and the leader gets no record before the promotion.
Dated ==
  /\ learned \in [IPs -> Times]
  /\ \A ip \in IPs : learned[ip] <= now
  /\ \A n \in Nodes, ip \in IPs : bad[n][ip] <= now
  /\ collection.started <= now
  /\ cache.read <= now /\ (cache.ts # 0 => cache.ts \in cache.read .. now)
  /\ \A f \in Followers : rounds[f].answer.read <= now
  /\ \A ip \in IPs : cache.bad[ip] <= now /\ \A f \in Followers : rounds[f].answer.bad[ip] <= now

\* An answer a to a request with watermark since has every record that the leader, with
\* the table b, had got before the table was read (l says when it did), and no other.
HoldsOf(b, l, a, since) ==
  \A ip \in IPs :
    /\ a.bad[ip] # 0 => b[ip] # 0
    /\ b[ip] > since /\ l[ip] < a.read => a.bad[ip] # 0

Holds(a, since) == HoldsOf(bad[Leader], learned, a, since)

\* The answers on their way and in the file do so, and a round that is under way was
\* asked for with the watermark that the follower still has.
AnswersHold ==
  /\ Holds(cache, 0)
  /\ \A f \in Followers :
       rounds[f].phase # "idle" =>
         /\ Holds(rounds[f].answer, rounds[f].since)
         /\ rounds[f].since # 0 => rounds[f].since = last[f]

\* A follower that has had its turn has no promotion between the watermark and the start of
\* the collection that the leader neither knows nor missed.
CollectionHolds ==
  collection.on =>
    \A f \in Followers \ collection.todo, ip \in IPs :
      /\ <<f, ip>> \notin collection.missed
      /\ bad[f][ip] > LeaderSince /\ bad[f][ip] < collection.started
      => bad[Leader][ip] # 0

SyncInv ==
  /\ BadActorSyncTypeOK
  /\ Dated
  /\ AnswersHold
  /\ CollectionHolds
  /\ LeaderKnows
  /\ FollowerKnows

(***************************************************************************)
(* Types and dates                                                         *)
(***************************************************************************)

\* The leader is a node and no follower.
LEMMA LeaderApart == Leader \in Nodes /\ Leader \notin Followers /\ Followers \subseteq Nodes
BY BadActorSyncAssumption DEF Nodes

\* What the records for "none" are made of.
LEMMA NoneTypes ==
  /\ NoAnswer \in Answers /\ NoRound \in Rounds
  /\ NoRound.answer = NoAnswer /\ NoRound.phase = "idle"
  /\ NoAnswer.read = 0 /\ NoAnswer.ts = 0 /\ \A ip \in IPs : NoAnswer.bad[ip] = 0
BY BadActorSyncAssumption DEF NoAnswer, NoRound, NoBad, Answers, Rounds, Times

\* The invariant holds when the nodes have started.
LEMMA InitHolds == BadActorSyncInit => SyncInv
<1> SUFFICES ASSUME BadActorSyncInit
             PROVE  SyncInv
  OBVIOUS
<1> USE LeaderApart, NoneTypes, BadActorSyncAssumption DEF BadActorSyncInit, NoBad, NoCollection
<1>1. BadActorSyncTypeOK
  BY DEF BadActorSyncTypeOK, Times
<1>2. Dated
  BY DEF Dated, Times
<1>3. AnswersHold
  BY DEF AnswersHold, Holds, HoldsOf
<1>4. CollectionHolds
  BY DEF CollectionHolds
<1>5. LeaderKnows
  BY DEF LeaderKnows
<1>6. FollowerKnows
  BY DEF FollowerKnows
<1> QED
  BY <1>1, <1>2, <1>3, <1>4, <1>5, <1>6 DEF SyncInv

\* Records that a node takes over are times up to now.
LEMMA SetBadType ==
  ASSUME BadActorSyncTypeOK, Dated, NEW n \in Nodes, NEW S \in SUBSET IPs,
         NEW p \in [IPs -> Times], \A ip \in S : p[ip] <= now, SetBad(n, S, p)
  PROVE  /\ bad' \in [Nodes -> [IPs -> Times]]
         /\ \A m \in Nodes, ip \in IPs : bad'[m][ip] <= now
         /\ learned' \in [IPs -> Times]
         /\ \A ip \in IPs : learned'[ip] <= now
         /\ \A m \in Nodes, ip \in IPs :
              bad'[m][ip] = IF m = n /\ ip \in S THEN p[ip] ELSE bad[m][ip]
         /\ \A ip \in IPs :
              learned'[ip] = IF n = Leader /\ ip \in S THEN now ELSE learned[ip]
<1> USE DEF BadActorSyncTypeOK, Dated, SetBad, Times
<1>1. bad' \in [Nodes -> [IPs -> Times]]
  OBVIOUS
<1>2. \A m \in Nodes, ip \in IPs :
        bad'[m][ip] = IF m = n /\ ip \in S THEN p[ip] ELSE bad[m][ip]
  OBVIOUS
<1>3. learned' \in [IPs -> Times]
  OBVIOUS
<1>4. \A ip \in IPs : learned'[ip] = IF n = Leader /\ ip \in S THEN now ELSE learned[ip]
  OBVIOUS
<1> QED
  BY <1>1, <1>2, <1>3, <1>4

\* What the leader fetches from a node.
LEMMA FetchedFacts ==
  ASSUME BadActorSyncTypeOK, NEW n \in Followers
  PROVE  /\ Fetched(n) \in [IPs -> Times]
         /\ \A ip \in IPs :
              Fetched(n)[ip] = IF bad[n][ip] > LeaderSince THEN bad[n][ip] ELSE 0
<1>1. bad[n] \in [IPs -> Times] /\ 0 \in Times
  BY LeaderApart, BadActorSyncAssumption DEF BadActorSyncTypeOK, Times
<1> QED
  BY <1>1 DEF Fetched, PromotedSince

\* Every step keeps the types, and no step dates anything after now.
LEMMA TypeStep == SyncInv /\ [BadActorSyncNext]_vars => BadActorSyncTypeOK' /\ Dated'
<1> SUFFICES ASSUME SyncInv, [BadActorSyncNext]_vars
             PROVE  BadActorSyncTypeOK' /\ Dated'
  OBVIOUS
<1>0. BadActorSyncTypeOK /\ Dated
  BY DEF SyncInv
<1> USE <1>0, LeaderApart, BadActorSyncAssumption, NoneTypes
<1>a. \A f \in Followers :
        /\ rounds[f].answer \in Answers /\ rounds[f].since \in Times
        /\ rounds[f].answer.bad \in [IPs -> Times]
        /\ rounds[f].answer.ts \in Times /\ rounds[f].answer.read \in Times
  BY DEF BadActorSyncTypeOK, Rounds, Answers
<1>1. ASSUME NEW n \in Nodes, NEW ip \in IPs, Promote(n, ip)
      PROVE  BadActorSyncTypeOK' /\ Dated'
  <2> DEFINE p == [i \in IPs |-> now]
  <2>1. p \in [IPs -> Times] /\ \A i \in {ip} : p[i] <= now
    BY DEF BadActorSyncTypeOK, Times
  <2>2. SetBad(n, {ip}, p) /\ {ip} \in SUBSET IPs
    BY <1>1 DEF Promote
  <2> HIDE DEF p
  <2>3. /\ bad' \in [Nodes -> [IPs -> Times]] /\ learned' \in [IPs -> Times]
        /\ \A m \in Nodes, i \in IPs : bad'[m][i] <= now
        /\ \A i \in IPs : learned'[i] <= now
    BY <2>1, <2>2, SetBadType
  <2> QED
    BY <1>1, <2>3 DEF Promote, BadActorSyncTypeOK, Dated
<1>2. ASSUME NEW f \in Followers, Request(f)
      PROVE  BadActorSyncTypeOK' /\ Dated'
  <2> DEFINE a == [NoAnswer EXCEPT !.bad = PromotedSince(Leader, Since(f)), !.read = now]
  <2>1. Since(f) \in Times
    <3>1. f \in Nodes /\ last[f] \in Times
      BY DEF BadActorSyncTypeOK
    <3> QED
      BY <3>1 DEF Since, Times
  <2>2. /\ PromotedSince(Leader, Since(f)) \in [IPs -> Times]
        /\ \A ip \in IPs : PromotedSince(Leader, Since(f))[ip] <= now
    BY DEF PromotedSince, BadActorSyncTypeOK, Times, Dated
  <2>3. a \in Answers /\ a.read = now /\ \A ip \in IPs : a.bad[ip] <= now
    BY <2>2 DEF Answers, BadActorSyncTypeOK
  <2>4. CASE Read(f, Since(f))
    <3>1. [phase |-> "read", since |-> Since(f), answer |-> a] \in Rounds
      BY <2>1, <2>3 DEF Rounds
    <3>2. rounds' = [rounds EXCEPT ![f] = [phase |-> "read", since |-> Since(f), answer |-> a]]
      BY <2>4 DEF Read
    <3>3. BadActorSyncTypeOK'
      BY <1>2, <3>1, <3>2 DEF Request, BadActorSyncTypeOK
    <3> QED
      BY <1>2, <2>3, <3>2, <3>3 DEF Request, BadActorSyncTypeOK, Dated, Times
  <2>5. CASE FromCache(f)
    <3>1. [phase |-> "apply", since |-> 0, answer |-> cache] \in Rounds
      BY DEF Rounds, BadActorSyncTypeOK, Times
    <3>2. rounds' = [rounds EXCEPT ![f] = [phase |-> "apply", since |-> 0, answer |-> cache]]
      BY <2>5 DEF FromCache
    <3>3. BadActorSyncTypeOK'
      BY <1>2, <2>5, <3>1, <3>2 DEF Request, FromCache, BadActorSyncTypeOK, Dated
    <3> QED
      BY <1>2, <3>2, <3>3 DEF Request, BadActorSyncTypeOK, Dated
  <2> QED
    BY <1>2, <2>4, <2>5 DEF Request
<1>3. ASSUME NEW f \in Followers, Respond(f)
      PROVE  BadActorSyncTypeOK' /\ Dated'
  <2> DEFINE a == [rounds[f].answer EXCEPT !.ts = now]
             r == [rounds[f] EXCEPT !.phase = "apply", !.answer = a]
  <2>1. /\ a \in Answers /\ a.ts = now
        /\ a.read = rounds[f].answer.read /\ a.bad = rounds[f].answer.bad
    BY <1>a DEF Answers, BadActorSyncTypeOK
  <2>2. r \in Rounds /\ r.answer = a
    BY <2>1 DEF Rounds, BadActorSyncTypeOK
  <2>3. rounds' = [rounds EXCEPT ![f] = r] /\ cache' \in {a, cache}
    BY <1>3 DEF Respond
  <2>4. BadActorSyncTypeOK'
    BY <1>3, <1>a, <2>1, <2>2, <2>3 DEF Respond, BadActorSyncTypeOK, Dated, Times
  <2> HIDE DEF a, r
  <2>5. \A g \in Followers : rounds'[g].answer \in {a, rounds[g].answer}
    BY <1>a, <2>2, <2>3 DEF BadActorSyncTypeOK
  <2>6. /\ a.read <= now /\ \A ip \in IPs : a.bad[ip] <= now
        /\ a.ts # 0 => a.ts \in a.read .. now
    BY <1>a, <2>1 DEF Dated, BadActorSyncTypeOK, Times, Answers, Rounds
  <2>7. UNCHANGED <<learned, now, bad, collection>>
    BY <1>3 DEF Respond
  <2> QED
    BY <1>a, <2>3, <2>4, <2>5, <2>6, <2>7 DEF Dated
<1>4. ASSUME NEW f \in Followers, RoundFails(f)
      PROVE  BadActorSyncTypeOK' /\ Dated'
  BY <1>4 DEF RoundFails, BadActorSyncTypeOK, Dated, Times
<1>5. ASSUME NEW f \in Followers, NEW lost \in SUBSET IPs, FollowerApply(f, lost)
      PROVE  BadActorSyncTypeOK' /\ Dated'
  <2>1. SetBad(f, New(f, rounds[f].answer.bad) \ lost, rounds[f].answer.bad)
    BY <1>5 DEF FollowerApply, ApplyBadActors
  <2>2. /\ New(f, rounds[f].answer.bad) \ lost \in SUBSET IPs
        /\ \A ip \in IPs : rounds[f].answer.bad[ip] <= now
    BY DEF New, Dated
  <2>3. /\ bad' \in [Nodes -> [IPs -> Times]] /\ learned' \in [IPs -> Times]
        /\ \A m \in Nodes, i \in IPs : bad'[m][i] <= now
        /\ \A i \in IPs : learned'[i] <= now
    BY <1>a, <2>1, <2>2, SetBadType
  <2>4. rounds' = [rounds EXCEPT ![f] = NoRound]
    BY <1>5 DEF FollowerApply
  <2>5. rounds' \in [Followers -> Rounds]
    BY <2>4 DEF BadActorSyncTypeOK
  <2>6. last' = [last EXCEPT ![f] = rounds[f].answer.ts] /\ up' = up \cup {f}
    BY <1>5 DEF FollowerApply, Watermark
  <2>a. last' \in [Nodes -> Times]
    BY <1>a, <2>6 DEF BadActorSyncTypeOK
  <2>b. /\ up' \subseteq Nodes /\ Leader \in up'
        /\ \A g \in Followers : g \notin up' => last'[g] = 0
    BY <2>6 DEF BadActorSyncTypeOK
  <2>c. \A g \in Followers : rounds'[g].phase = "apply" => rounds'[g] = rounds[g]
    BY <2>4 DEF BadActorSyncTypeOK
  <2>7. BadActorSyncTypeOK'
    BY <1>5, <2>3, <2>5, <2>a, <2>b, <2>c DEF FollowerApply, BadActorSyncTypeOK
  <2>8. Dated'
    BY <1>5, <1>a, <2>3, <2>4 DEF FollowerApply, BadActorSyncTypeOK, Dated, Times
  <2> QED
    BY <2>7, <2>8
<1>6. ASSUME NEW f \in Followers, Stop(f)
      PROVE  BadActorSyncTypeOK' /\ Dated'
  <2>1. /\ rounds' = [rounds EXCEPT ![f] = NoRound] /\ last' = [last EXCEPT ![f] = 0]
        /\ up' = up \ {f} /\ UNCHANGED <<now, incremental, bad, collection, cache, learned>>
    BY <1>6 DEF Stop
  <2>2. rounds' \in [Followers -> Rounds] /\ last' \in [Nodes -> Times]
    BY <2>1 DEF BadActorSyncTypeOK, Times
  <2>3. \A g \in Followers :
          rounds'[g] \in {NoRound, rounds[g]} /\ last'[g] \in {0, last[g]}
    BY <2>1 DEF BadActorSyncTypeOK
  <2>4. last'[f] = 0
    BY <2>1 DEF BadActorSyncTypeOK
  <2>5. \A g \in Followers : g \notin up' => last'[g] = 0
    BY <2>1, <2>3, <2>4 DEF BadActorSyncTypeOK
  <2>6. Dated'
    BY <2>1, <2>3 DEF Dated, BadActorSyncTypeOK, Times
  <2>7. BadActorSyncTypeOK'
    BY <2>1, <2>2, <2>3, <2>5 DEF BadActorSyncTypeOK
  <2> QED
    BY <2>6, <2>7
<1>7. CASE LeaderStart
  <2>1. /\ collection' = [on |-> TRUE, started |-> now, todo |-> Followers, missed |-> {}]
        /\ UNCHANGED <<now, incremental, bad, up, last, rounds, cache, learned>>
    BY <1>7 DEF LeaderStart
  <2>2. /\ collection' \in [on : BOOLEAN, started : Times, todo : SUBSET Followers,
                            missed : SUBSET (Followers \X IPs)]
        /\ collection'.started = now
    BY <2>1 DEF BadActorSyncTypeOK
  <2>3. now <= now
    BY DEF BadActorSyncTypeOK, Times
  <2>4. BadActorSyncTypeOK'
    BY <2>1, <2>2 DEF BadActorSyncTypeOK
  <2>a. UNCHANGED <<now, bad, rounds, cache, learned>>
    BY <2>1
  <2>5. Dated'
    BY <2>2, <2>3, <2>a DEF Dated
  <2> QED
    BY <2>4, <2>5
<1>8. ASSUME NEW n \in Followers, NEW lost \in SUBSET IPs, LeaderFetch(n, lost)
      PROVE  BadActorSyncTypeOK' /\ Dated'
  <2>1. Fetched(n) \in [IPs -> Times]
    BY FetchedFacts
  <2>2. \A ip \in IPs : Fetched(n)[ip] <= now
    BY FetchedFacts DEF BadActorSyncTypeOK, Times, Dated
  <2>3. New(Leader, Fetched(n)) \ lost \in SUBSET IPs
    BY DEF New
  <2>4. SetBad(Leader, New(Leader, Fetched(n)) \ lost, Fetched(n))
    BY <1>8 DEF LeaderFetch, ApplyBadActors
  <2>5. /\ bad' \in [Nodes -> [IPs -> Times]] /\ learned' \in [IPs -> Times]
        /\ \A m \in Nodes, i \in IPs : bad'[m][i] <= now
        /\ \A i \in IPs : learned'[i] <= now
    BY <2>1, <2>2, <2>3, <2>4, SetBadType
  <2>6. /\ collection' = [collection EXCEPT !.todo = @ \ {n}, !.missed = @ \cup {n} \X lost]
        /\ {n} \X lost \subseteq Followers \X IPs
    BY <1>8 DEF LeaderFetch
  <2>7. collection' \in [on : BOOLEAN, started : Times, todo : SUBSET Followers,
                         missed : SUBSET (Followers \X IPs)]
    BY <2>6 DEF BadActorSyncTypeOK
  <2>8. collection'.started = collection.started
    BY <2>6 DEF BadActorSyncTypeOK
  <2>9. UNCHANGED <<now, incremental, up, last, rounds, cache>>
    BY <1>8 DEF LeaderFetch
  <2>10. BadActorSyncTypeOK'
    BY <2>5, <2>7, <2>9 DEF BadActorSyncTypeOK
  <2>11. Dated'
    BY <2>5, <2>8, <2>9 DEF Dated
  <2> QED
    BY <2>10, <2>11
<1>9. ASSUME NEW n \in Followers, LeaderFetchFails(n)
      PROVE  BadActorSyncTypeOK' /\ Dated'
  <2>1. New(Leader, Fetched(n)) \subseteq IPs
    BY DEF New
  <2>2. collection' = [collection EXCEPT !.todo = @ \ {n},
                                         !.missed = @ \cup {n} \X New(Leader, Fetched(n))]
    BY <1>9 DEF LeaderFetchFails
  <2>3. /\ collection' \in [on : BOOLEAN, started : Times, todo : SUBSET Followers,
                            missed : SUBSET (Followers \X IPs)]
        /\ collection'.started = collection.started
    BY <2>1, <2>2 DEF BadActorSyncTypeOK
  <2>4. UNCHANGED <<now, incremental, bad, up, last, rounds, cache, learned>>
    BY <1>9 DEF LeaderFetchFails
  <2>5. BadActorSyncTypeOK'
    BY <2>3, <2>4 DEF BadActorSyncTypeOK
  <2>6. Dated'
    BY <2>3, <2>4 DEF Dated
  <2> QED
    BY <2>5, <2>6
<1>10. CASE LeaderDone
  BY <1>10 DEF LeaderDone, LeaderWatermark, BadActorSyncTypeOK, Dated, Times, NoCollection
<1>11. CASE LeaderRestart
  <2>0. \A f \in Followers : rounds'[f] \in {NoRound, rounds[f]}
    BY <1>11 DEF LeaderRestart
  <2>a. rounds' \in [Followers -> Rounds]
    BY <1>11 DEF LeaderRestart, BadActorSyncTypeOK
  <2>b. last' \in [Nodes -> Times] /\ \A f \in Followers : last'[f] = last[f]
    BY <1>11 DEF LeaderRestart, BadActorSyncTypeOK, Times
  <2>c. up \subseteq up' /\ up' \subseteq Nodes
    BY <1>11 DEF LeaderRestart, BadActorSyncTypeOK
  <2>1. BadActorSyncTypeOK'
    BY <1>11, <2>0, <2>a, <2>b, <2>c
    DEF LeaderRestart, BadActorSyncTypeOK, Times, NoCollection
  <2>2. Dated'
    BY <1>11, <2>0 DEF LeaderRestart, BadActorSyncTypeOK, Dated, Times, NoCollection
  <2> QED
    BY <2>1, <2>2
<1>12. CASE Tick
  BY <1>12, <1>a DEF Tick, BadActorSyncTypeOK, Dated, Times, Answers
<1>13. CASE UNCHANGED vars
  BY <1>13 DEF vars, BadActorSyncTypeOK, Dated
<1> QED
  BY <1>1, <1>2, <1>3, <1>4, <1>5, <1>6, <1>7, <1>8, <1>9, <1>10, <1>11, <1>12, <1>13
  DEF BadActorSyncNext

(***************************************************************************)
(* Answers                                                                 *)
(***************************************************************************)

\* A record of the leader stays as it is, and one that it gets, it gets now; a record of
\* a follower stays as it is.
LEMMA RecordsStay ==
  ASSUME SyncInv, [BadActorSyncNext]_vars
  PROVE  /\ \A ip \in IPs :
              \/ bad'[Leader][ip] = bad[Leader][ip] /\ learned'[ip] = learned[ip]
              \/ bad[Leader][ip] = 0 /\ learned'[ip] = now
         /\ \A n \in Nodes, ip \in IPs : bad[n][ip] # 0 => bad'[n][ip] = bad[n][ip]
<1>0. BadActorSyncTypeOK /\ Dated
  BY DEF SyncInv
<1> USE <1>0, LeaderApart, BadActorSyncAssumption
<1> DEFINE Stay ==
      /\ \A ip \in IPs :
           \/ bad'[Leader][ip] = bad[Leader][ip] /\ learned'[ip] = learned[ip]
           \/ bad[Leader][ip] = 0 /\ learned'[ip] = now
      /\ \A n \in Nodes, ip \in IPs : bad[n][ip] # 0 => bad'[n][ip] = bad[n][ip]
<1>1. ASSUME NEW n \in Nodes, NEW S \in SUBSET IPs, NEW p, SetBad(n, S, p),
             \A ip \in S : bad[n][ip] = 0
      PROVE  Stay
  BY <1>1 DEF SetBad, BadActorSyncTypeOK, Dated
<1>2. ASSUME NEW n \in Nodes, NEW ip \in IPs, Promote(n, ip)
      PROVE  Stay
  <2> DEFINE p == [i \in IPs |-> now]
  <2>1. SetBad(n, {ip}, p) /\ {ip} \in SUBSET IPs /\ \A i \in {ip} : bad[n][i] = 0
    BY <1>2 DEF Promote
  <2> HIDE DEF p, Stay
  <2> QED
    BY <1>1, <2>1
<1>3. ASSUME NEW n \in Nodes, NEW p, NEW lost \in SUBSET IPs, ApplyBadActors(n, p, lost)
      PROVE  Stay
  <2>1. /\ New(n, p) \ lost \in SUBSET IPs
        /\ \A ip \in New(n, p) \ lost : bad[n][ip] = 0
    BY DEF New
  <2> HIDE DEF Stay
  <2> QED
    BY <1>1, <1>3, <2>1 DEF ApplyBadActors
<1>4. ASSUME NEW f \in Followers, NEW lost \in SUBSET IPs, FollowerApply(f, lost)
      PROVE  Stay
  <2> HIDE DEF Stay
  <2> QED
    BY <1>3, <1>4 DEF FollowerApply
<1>5. ASSUME NEW n \in Followers, NEW lost \in SUBSET IPs, LeaderFetch(n, lost)
      PROVE  Stay
  <2> HIDE DEF Stay
  <2> QED
    BY <1>3, <1>5 DEF LeaderFetch
<1>6. CASE UNCHANGED <<bad, learned>>
  BY <1>6
<1> QED
  BY <1>2, <1>4, <1>5, <1>6
  DEF BadActorSyncNext, Request, Respond, RoundFails, Stop, LeaderStart, LeaderFetchFails,
      LeaderDone, LeaderRestart, Tick, vars

\* What an answer holds, it holds after every step: later records are learned after the
\* table was read.
LEMMA HoldsStays ==
  ASSUME SyncInv, [BadActorSyncNext]_vars,
         NEW a \in Answers, a.read <= now, NEW since \in Times, Holds(a, since)
  PROVE  HoldsOf(bad'[Leader], learned', a, since)
<1>1. now \in Nat /\ a.read \in Nat /\ \A ip \in IPs : learned[ip] \in Nat
  BY BadActorSyncAssumption DEF SyncInv, BadActorSyncTypeOK, Dated, Answers, Times
<1> QED
  BY <1>1, RecordsStay DEF Holds, HoldsOf

\* Every step keeps the promise of the answers on their way and of the file.
LEMMA AnswersStep == SyncInv /\ [BadActorSyncNext]_vars => AnswersHold'
<1> SUFFICES ASSUME SyncInv, [BadActorSyncNext]_vars
             PROVE  AnswersHold'
  OBVIOUS
<1>0. BadActorSyncTypeOK /\ Dated /\ AnswersHold
  BY DEF SyncInv
<1> USE <1>0, LeaderApart, BadActorSyncAssumption, NoneTypes
<1> DEFINE After(a, since) == HoldsOf(bad'[Leader], learned', a, since)
<1>a. After(cache, 0)
  <2>1. 0 \in Times /\ cache \in Answers /\ cache.read <= now /\ Holds(cache, 0)
    BY DEF Times, BadActorSyncTypeOK, Dated, AnswersHold
  <2> QED
    BY <2>1, HoldsStays
<1>b. \A f \in Followers :
        rounds[f].phase # "idle" => After(rounds[f].answer, rounds[f].since)
  <2> SUFFICES ASSUME NEW f \in Followers, rounds[f].phase # "idle"
               PROVE  After(rounds[f].answer, rounds[f].since)
    OBVIOUS
  <2>1. /\ rounds[f].since \in Times /\ rounds[f].answer \in Answers
        /\ rounds[f].answer.read <= now /\ Holds(rounds[f].answer, rounds[f].since)
    BY DEF Rounds, BadActorSyncTypeOK, Dated, AnswersHold
  <2> QED
    BY <2>1, HoldsStays
<1> HIDE DEF After
<1> DEFINE Kept(f) ==
      rounds'[f].phase # "idle" =>
        /\ After(rounds'[f].answer, rounds'[f].since)
        /\ rounds'[f].since # 0 => rounds'[f].since = last'[f]
<1>c. ASSUME NEW f \in Followers, rounds'[f] = rounds[f], last'[f] = last[f]
      PROVE  Kept(f)
  BY <1>b, <1>c DEF AnswersHold
<1>d. ASSUME NEW f \in Followers, rounds'[f] = NoRound
      PROVE  Kept(f)
  BY <1>d
<1>e. ASSUME After(cache', 0), \A f \in Followers : Kept(f)
      PROVE  AnswersHold'
  BY <1>e DEF AnswersHold, Holds, After
<1> HIDE DEF Kept
<1>1. CASE UNCHANGED <<rounds, last, cache>>
  BY <1>1, <1>a, <1>c, <1>e
<1>2. ASSUME NEW f \in Followers, Request(f)
      PROVE  AnswersHold'
  <2> DEFINE a == [NoAnswer EXCEPT !.bad = PromotedSince(Leader, Since(f)), !.read = now]
             r == [phase |-> "read", since |-> Since(f), answer |-> a]
             c == [phase |-> "apply", since |-> 0, answer |-> cache]
  <2>0. UNCHANGED <<bad, learned, last, cache>>
    BY <1>2 DEF Request
  <2>1. f \in Nodes /\ last[f] \in Times /\ Since(f) \in Times
    BY DEF Since, BadActorSyncTypeOK, Times
  <2>2. a.bad = PromotedSince(Leader, Since(f)) /\ a.read = now
    BY DEF NoAnswer
  <2>3. After(a, Since(f))
    BY <2>0, <2>1, <2>2 DEF After, HoldsOf, PromotedSince, BadActorSyncTypeOK, Times
  <2>4. CASE rounds' = [rounds EXCEPT ![f] = r]
    <3>1. rounds'[f] = r
      BY <2>4 DEF BadActorSyncTypeOK
    <3>2. r.answer = a /\ r.since = Since(f)
      OBVIOUS
    <3>3. Since(f) # 0 => Since(f) = last'[f]
      BY <2>0 DEF Since
    <3>4. Kept(f)
      <4> HIDE DEF r, a
      <4> QED
        BY <2>3, <3>1, <3>2, <3>3 DEF Kept
    <3>5. \A g \in Followers \ {f} : rounds'[g] = rounds[g] /\ last'[g] = last[g]
      BY <2>0, <2>4 DEF BadActorSyncTypeOK
    <3> QED
      BY <1>a, <1>c, <1>e, <2>0, <3>4, <3>5
  <2>5. CASE rounds' = [rounds EXCEPT ![f] = c]
    <3>1. rounds'[f] = c
      BY <2>5 DEF BadActorSyncTypeOK
    <3>2. Kept(f)
      BY <1>a, <3>1 DEF Kept
    <3>3. \A g \in Followers \ {f} : rounds'[g] = rounds[g] /\ last'[g] = last[g]
      BY <2>0, <2>5 DEF BadActorSyncTypeOK
    <3> QED
      BY <1>a, <1>c, <1>e, <2>0, <3>2, <3>3
  <2> QED
    BY <1>2, <2>4, <2>5 DEF Request, Read, FromCache
<1>3. ASSUME NEW f \in Followers, Respond(f)
      PROVE  AnswersHold'
  <2> DEFINE a == [rounds[f].answer EXCEPT !.ts = now]
             r == [rounds[f] EXCEPT !.phase = "apply", !.answer = a]
  <2>0. rounds[f].phase = "read" /\ UNCHANGED last
    BY <1>3 DEF Respond
  <2>1. rounds[f] \in Rounds /\ rounds[f].answer \in Answers
    BY DEF BadActorSyncTypeOK, Rounds
  <2>2. a.read = rounds[f].answer.read /\ a.bad = rounds[f].answer.bad
    BY <2>1 DEF Answers
  <2>3. r.answer = a /\ r.since = rounds[f].since
    BY <2>1 DEF Rounds
  <2>4. After(rounds[f].answer, rounds[f].since)
    BY <1>b, <2>0
  <2>5. After(a, rounds[f].since)
    <3> HIDE DEF a
    <3> QED
      BY <2>2, <2>4 DEF After, HoldsOf
  <2>6. rounds' = [rounds EXCEPT ![f] = r] /\ cache' = IF rounds[f].since = 0 THEN a ELSE cache
    BY <1>3 DEF Respond
  <2> HIDE DEF a, r
  <2>7. rounds'[f] = r
    BY <2>6 DEF BadActorSyncTypeOK
  <2>8. Kept(f)
    BY <2>0, <2>3, <2>5, <2>7 DEF Kept, AnswersHold
  <2>9. \A g \in Followers \ {f} : rounds'[g] = rounds[g] /\ last'[g] = last[g]
    BY <2>0, <2>6 DEF BadActorSyncTypeOK
  <2>10. After(cache', 0)
    BY <1>a, <2>5, <2>6
  <2> QED
    BY <1>c, <1>e, <2>8, <2>9, <2>10
<1>4. ASSUME NEW f \in Followers, NEW lost \in SUBSET IPs,
             RoundFails(f) \/ FollowerApply(f, lost) \/ Stop(f)
      PROVE  AnswersHold'
  <2>1. rounds' = [rounds EXCEPT ![f] = NoRound] /\ cache' = cache
    BY <1>4 DEF RoundFails, FollowerApply, Stop
  <2>2. \A g \in Followers \ {f} : last'[g] = last[g] /\ rounds'[g] = rounds[g]
    BY <1>4, <2>1 DEF RoundFails, FollowerApply, Stop, BadActorSyncTypeOK
  <2>3. rounds'[f] = NoRound
    BY <2>1 DEF BadActorSyncTypeOK
  <2> QED
    BY <1>a, <1>c, <1>d, <1>e, <2>1, <2>2, <2>3
<1>5. CASE LeaderDone
  <2>1. UNCHANGED <<rounds, cache>> /\ \A f \in Followers : last'[f] = last[f]
    BY <1>5 DEF LeaderDone, BadActorSyncTypeOK
  <2> QED
    BY <1>a, <1>c, <1>e, <2>1
<1>6. CASE LeaderRestart
  <2>1. \A f \in Followers : last'[f] = last[f] /\ rounds'[f] \in {NoRound, rounds[f]}
    BY <1>6 DEF LeaderRestart, BadActorSyncTypeOK
  <2>2. cache' = NoAnswer /\ UNCHANGED <<bad, learned>>
    BY <1>6 DEF LeaderRestart
  <2>3. After(cache', 0)
    BY <2>2 DEF After, HoldsOf, Dated, Times
  <2> QED
    BY <1>c, <1>d, <1>e, <2>1, <2>3
<1> QED
  BY <1>1, <1>2, <1>3, <1>4, <1>5, <1>6
  DEF BadActorSyncNext, Promote, LeaderStart, LeaderFetch, LeaderFetchFails, Tick, vars

(***************************************************************************)
(* Watermarks                                                              *)
(***************************************************************************)

\* Which records an application adds: the new ones, but for those that are lost.
LEMMA Applied ==
  ASSUME BadActorSyncTypeOK, NEW n \in Nodes, NEW p \in [IPs -> Times],
         NEW lost \in SUBSET IPs, ApplyBadActors(n, p, lost)
  PROVE  /\ \A m \in Nodes, ip \in IPs :
              bad'[m][ip] = IF m = n /\ bad[n][ip] = 0 /\ ip \notin lost THEN p[ip]
                                                                       ELSE bad[m][ip]
         /\ \A ip \in lost : p[ip] # 0 /\ bad[n][ip] = 0
BY DEF ApplyBadActors, SetBad, New, BadActorSyncTypeOK

\* What a follower applies is what the leader has.
LEMMA FromTheLeader ==
  ASSUME SyncInv, NEW f \in Followers, NEW lost \in SUBSET IPs, FollowerApply(f, lost)
  PROVE  /\ \A ip \in IPs : rounds[f].answer.bad[ip] # 0 => bad[Leader][ip] # 0
         /\ \A n \in Nodes, ip \in IPs :
              bad'[n][ip] = IF n = f /\ bad[f][ip] = 0 /\ ip \notin lost
                            THEN rounds[f].answer.bad[ip] ELSE bad[n][ip]
<1>1. BadActorSyncTypeOK /\ AnswersHold
  BY DEF SyncInv
<1>2. rounds[f].answer.bad \in [IPs -> Times] /\ f \in Nodes
  BY <1>1, LeaderApart DEF BadActorSyncTypeOK, Rounds, Answers
<1>3. ApplyBadActors(f, rounds[f].answer.bad, lost)
  BY DEF FollowerApply
<1>4. rounds[f].phase # "idle"
  BY DEF FollowerApply
<1>5. \A ip \in IPs : rounds[f].answer.bad[ip] # 0 => bad[Leader][ip] # 0
  BY <1>1, <1>4 DEF AnswersHold, Holds, HoldsOf
<1> QED
  BY <1>1, <1>2, <1>3, <1>5, Applied

\* A follower that has had its turn stays covered: what it promotes later is promoted after the
\* start, and what it gets comes from the leader.
LEMMA CollectionStep == SyncInv /\ [BadActorSyncNext]_vars => CollectionHolds'
<1> SUFFICES ASSUME SyncInv, [BadActorSyncNext]_vars, collection'.on,
                    NEW f \in Followers, f \notin collection'.todo,
                    NEW ip \in IPs, <<f, ip>> \notin collection'.missed,
                    bad'[f][ip] > LeaderSince', bad'[f][ip] < collection'.started
             PROVE  bad'[Leader][ip] # 0
  BY DEF CollectionHolds
<1>0. BadActorSyncTypeOK /\ Dated /\ CollectionHolds
  BY DEF SyncInv
<1>a. \A n \in Nodes, i \in IPs : bad[n][i] # 0 => bad'[n][i] = bad[n][i]
  BY RecordsStay
<1> USE <1>0, LeaderApart, BadActorSyncAssumption
<1>b. f \in Nodes /\ last[Leader] \in Nat /\ LeaderSince \in Nat
  BY DEF LeaderSince, BadActorSyncTypeOK, Times
<1>1. ASSUME UNCHANGED <<incremental, last, collection>>, bad'[f][ip] = bad[f][ip]
      PROVE  bad'[Leader][ip] # 0
  BY <1>1, <1>a DEF CollectionHolds, LeaderSince
<1>2. ASSUME NEW n \in Nodes, NEW i \in IPs, Promote(n, i)
      PROVE  bad'[Leader][ip] # 0
  <2>1. UNCHANGED <<incremental, last, collection>>
    BY <1>2 DEF Promote
  <2>2. bad'[f][ip] \in {bad[f][ip], now}
    BY <1>2, <1>b DEF Promote, SetBad, BadActorSyncTypeOK
  <2>3. bad'[f][ip] # now
    BY <2>1 DEF Dated, BadActorSyncTypeOK, Times
  <2> QED
    BY <1>1, <2>1, <2>2, <2>3
<1>3. ASSUME NEW g \in Followers, NEW lost \in SUBSET IPs, FollowerApply(g, lost)
      PROVE  bad'[Leader][ip] # 0
  <2>1. UNCHANGED <<incremental, collection>> /\ last'[Leader] = last[Leader]
    BY <1>3 DEF FollowerApply, BadActorSyncTypeOK
  <2>2. bad'[Leader][ip] = bad[Leader][ip]
    BY <1>3, FromTheLeader
  <2>3. CASE bad'[f][ip] = bad[f][ip]
    BY <2>1, <2>2, <2>3 DEF CollectionHolds, LeaderSince
  <2>4. CASE f = g /\ bad'[f][ip] = rounds[f].answer.bad[ip]
    BY <1>3, <1>b, <2>1, <2>2, <2>4, FromTheLeader DEF LeaderSince
  <2> QED
    BY <1>3, <1>b, <2>3, <2>4, FromTheLeader
<1>4. ASSUME NEW g \in Followers, Stop(g)
      PROVE  bad'[Leader][ip] # 0
  BY <1>4, <1>a DEF Stop, CollectionHolds, LeaderSince, BadActorSyncTypeOK
<1>5. CASE LeaderStart
  BY <1>5
  DEF LeaderStart
<1>6. ASSUME NEW n \in Followers, NEW lost \in SUBSET IPs, LeaderFetch(n, lost)
      PROVE  bad'[Leader][ip] # 0
  <2>1. /\ Fetched(n) \in [IPs -> Times]
        /\ Fetched(n)[ip] = IF bad[n][ip] > LeaderSince THEN bad[n][ip] ELSE 0
    BY FetchedFacts
  <2>2. ApplyBadActors(Leader, Fetched(n), lost)
    BY <1>6 DEF LeaderFetch
  <2>3. /\ bad'[f][ip] = bad[f][ip]
        /\ bad'[Leader][ip] = IF bad[Leader][ip] = 0 /\ ip \notin lost THEN Fetched(n)[ip]
                                                                 ELSE bad[Leader][ip]
    BY <1>b, <2>1, <2>2, Applied
  <2>4. /\ LeaderSince' = LeaderSince
        /\ collection' = [collection EXCEPT !.todo = @ \ {n}, !.missed = @ \cup {n} \X lost]
    BY <1>6 DEF LeaderFetch, LeaderSince
  <2>5. /\ collection'.todo = collection.todo \ {n}
        /\ collection'.missed = collection.missed \cup {n} \X lost
        /\ collection'.on = collection.on /\ collection'.started = collection.started
    BY <2>4 DEF BadActorSyncTypeOK
  <2>6. CASE f = n
    <3>1. ip \notin lost
      BY <2>5, <2>6
    <3> QED
      BY <1>b, <2>1, <2>3, <2>4, <2>6, <3>1
  <2>7. CASE f # n
    BY <2>3, <2>4, <2>5, <2>7, <1>a DEF CollectionHolds
  <2> QED
    BY <2>6, <2>7
<1>7. ASSUME NEW n \in Followers, LeaderFetchFails(n)
      PROVE  bad'[Leader][ip] # 0
  <2>1. /\ UNCHANGED <<bad, incremental, last>>
        /\ collection' = [collection EXCEPT !.todo = @ \ {n},
                                            !.missed = @ \cup {n} \X New(Leader, Fetched(n))]
    BY <1>7 DEF LeaderFetchFails
  <2>2. /\ collection'.todo = collection.todo \ {n}
        /\ collection'.missed = collection.missed \cup {n} \X New(Leader, Fetched(n))
        /\ collection'.on = collection.on /\ collection'.started = collection.started
        /\ LeaderSince' = LeaderSince
    BY <2>1 DEF BadActorSyncTypeOK, LeaderSince
  <2>3. CASE f = n
    <3>1. Fetched(n)[ip] # 0
      BY <1>b, <2>1, <2>2, <2>3, FetchedFacts
    <3>2. ip \notin New(Leader, Fetched(n))
      BY <2>2, <2>3
    <3> QED
      BY <2>1, <3>1, <3>2 DEF New
  <2>4. CASE f # n
    BY <2>1, <2>2, <2>4 DEF CollectionHolds
  <2> QED
    BY <2>3, <2>4
<1>8. CASE LeaderDone \/ LeaderRestart
  BY <1>8 DEF LeaderDone, LeaderRestart, NoCollection
<1>9. CASE UNCHANGED <<bad, incremental, last, collection>>
  BY <1>1, <1>9
<1> QED
  BY <1>2, <1>3, <1>4, <1>5, <1>6, <1>7, <1>8, <1>9
  DEF BadActorSyncNext, Request, Respond, RoundFails, Tick, vars

\* The leader's watermark never covers a promotion of a follower that the leader does not
\* know, unless it was passed over.
LEMMA LeaderStep == SyncInv /\ [BadActorSyncNext]_vars => LeaderKnows'
<1> SUFFICES ASSUME SyncInv, [BadActorSyncNext]_vars, NEW f \in Followers, NEW ip \in IPs,
                    bad'[f][ip] \in 1 .. last'[Leader], <<Leader, f, ip>> \notin passed'
             PROVE  bad'[Leader][ip] # 0
  BY DEF LeaderKnows
<1>0. BadActorSyncTypeOK /\ Dated /\ CollectionHolds /\ LeaderKnows
  BY DEF SyncInv
<1>a. \A n \in Nodes, i \in IPs : bad[n][i] # 0 => bad'[n][i] = bad[n][i]
  BY RecordsStay
<1> USE <1>0, LeaderApart, BadActorSyncAssumption
<1>b. /\ f \in Nodes /\ last[Leader] \in Nat /\ LeaderSince \in Nat
      /\ bad[f][ip] \in Nat
  BY DEF LeaderSince, BadActorSyncTypeOK, Times
<1>1. ASSUME bad'[f][ip] = bad[f][ip], last'[Leader] = last[Leader],
             <<Leader, f, ip>> \notin passed
      PROVE  bad'[Leader][ip] # 0
  BY <1>1, <1>a DEF LeaderKnows
<1>2. ASSUME NEW n \in Nodes, NEW i \in IPs, Promote(n, i)
      PROVE  bad'[Leader][ip] # 0
  <2> DEFINE p == [j \in IPs |-> now]
  <2>1. last' = last /\ passed' = passed \cup TooLate(n, {i}, p)
    BY <1>2 DEF Promote
  <2>2. bad'[f][ip] = IF f = n /\ ip = i THEN now ELSE bad[f][ip]
    BY <1>2, <1>b DEF Promote, SetBad, BadActorSyncTypeOK
  <2>3. CASE f = n /\ ip = i /\ bad[Leader][ip] = 0
    <3>1. <<Leader, f, ip>> \in {Leader} \X {n} \X {i}
      BY <2>3
    <3>2. p[ip] = now /\ last[Leader] >= now
      BY <2>1, <2>2, <2>3, <1>b DEF BadActorSyncTypeOK, Times
    <3>3. <<Leader, f, ip>> \in TooLate(n, {i}, p)
      BY <2>3, <3>1, <3>2 DEF TooLate
    <3> QED
      BY <2>1, <3>3
  <2>4. CASE bad[Leader][ip] # 0
    BY <1>a, <2>4
  <2> QED
    BY <1>1, <2>1, <2>2, <2>3, <2>4
<1>3. ASSUME NEW g \in Followers, NEW lost \in SUBSET IPs, FollowerApply(g, lost)
      PROVE  bad'[Leader][ip] # 0
  <2>1. last'[Leader] = last[Leader]
    BY <1>3 DEF FollowerApply, BadActorSyncTypeOK
  <2>2. <<Leader, f, ip>> \notin passed
    BY <1>3 DEF FollowerApply, PassedByAnswer
  <2>3. CASE bad'[f][ip] = bad[f][ip]
    BY <1>1, <2>1, <2>2, <2>3
  <2>4. CASE f = g /\ bad'[f][ip] = rounds[f].answer.bad[ip]
    BY <1>3, <1>b, <2>1, <2>4, FromTheLeader
  <2> QED
    BY <1>3, <1>b, <2>3, <2>4, FromTheLeader
<1>4. ASSUME NEW g \in Followers, Stop(g)
      PROVE  bad'[Leader][ip] # 0
  BY <1>1, <1>4 DEF Stop, BadActorSyncTypeOK
<1>5. ASSUME NEW n \in Followers, NEW lost \in SUBSET IPs, LeaderFetch(n, lost)
      PROVE  bad'[Leader][ip] # 0
  <2>1. Fetched(n) \in [IPs -> Times]
    BY FetchedFacts
  <2>2. ApplyBadActors(Leader, Fetched(n), lost)
    BY <1>5 DEF LeaderFetch
  <2>3. bad'[f][ip] = bad[f][ip]
    BY <1>b, <2>1, <2>2, Applied
  <2>4. last' = last /\ passed \subseteq passed'
    BY <1>5 DEF LeaderFetch
  <2> QED
    BY <1>1, <2>3, <2>4
<1>6. CASE LeaderDone
  <2>1. bad' = bad /\ last'[Leader] = collection.started /\ collection.started \in Nat
    BY <1>6 DEF LeaderDone, LeaderWatermark, BadActorSyncTypeOK, Times
  <2>2. passed' = PassedByCollection(LeaderSince, collection)
    BY <1>6 DEF LeaderDone
  <2>3. <<Leader, f, ip>> \in {Leader} \X Followers \X IPs
    OBVIOUS
  <2>4. bad[Leader][ip] = 0 =>
          bad[f][ip] \notin (IF <<f, ip>> \in collection.missed THEN LeaderSince + 1
                                                               ELSE collection.started)
                            .. collection.started
    BY <2>2, <2>3 DEF PassedByCollection
  <2>5. CASE bad[f][ip] <= LeaderSince
    <3>1. LeaderSince # 0 /\ LeaderSince = last[Leader]
      BY <1>b, <2>1, <2>5 DEF LeaderSince
    <3>2. <<Leader, f, ip>> \notin passed
      BY <2>2, <3>1 DEF PassedByCollection
    <3> QED
      BY <1>b, <2>1, <2>5, <3>1, <3>2 DEF LeaderKnows
  <2>6. CASE bad[f][ip] > LeaderSince /\ bad[Leader][ip] = 0
    <3>1. <<f, ip>> \notin collection.missed /\ bad[f][ip] < collection.started
      BY <1>b, <2>1, <2>4, <2>6
    <3>2. collection.on /\ collection.todo = {}
      BY <1>6 DEF LeaderDone
    <3> QED
      BY <2>1, <2>6, <3>1, <3>2 DEF CollectionHolds
  <2> QED
    BY <1>b, <2>1, <2>5, <2>6
<1>7. CASE LeaderRestart
  BY <1>7 DEF LeaderRestart, BadActorSyncTypeOK
<1>8. CASE UNCHANGED <<bad, last, passed>>
  BY <1>1, <1>8
<1> QED
  BY <1>2, <1>3, <1>4, <1>5, <1>6, <1>7, <1>8
  DEF BadActorSyncNext, Request, Respond, RoundFails, LeaderStart, LeaderFetchFails, Tick, vars

\* A follower's watermark never covers a promotion that the leader knows and the follower
\* does not, unless it was passed over.
LEMMA FollowerStep == SyncInv /\ [BadActorSyncNext]_vars => FollowerKnows'
<1> SUFFICES ASSUME SyncInv, [BadActorSyncNext]_vars, NEW f \in Followers, NEW ip \in IPs,
                    bad'[Leader][ip] \in 1 .. last'[f], <<f, Leader, ip>> \notin passed'
             PROVE  bad'[f][ip] # 0
  BY DEF FollowerKnows
<1>0. BadActorSyncTypeOK /\ Dated /\ AnswersHold /\ FollowerKnows
  BY DEF SyncInv
<1>a. \A n \in Nodes, i \in IPs : bad[n][i] # 0 => bad'[n][i] = bad[n][i]
  BY RecordsStay
<1> USE <1>0, LeaderApart, BadActorSyncAssumption
<1>b. f \in Nodes /\ last[f] \in Nat /\ bad[Leader][ip] \in Nat
  BY DEF BadActorSyncTypeOK, Times
<1>1. ASSUME bad'[Leader][ip] = bad[Leader][ip], last'[f] = last[f],
             <<f, Leader, ip>> \notin passed
      PROVE  bad'[f][ip] # 0
  BY <1>1, <1>a, <1>b DEF FollowerKnows
<1>2. ASSUME NEW n \in Nodes, NEW i \in IPs, Promote(n, i)
      PROVE  bad'[f][ip] # 0
  <2> DEFINE p == [j \in IPs |-> now]
  <2>1. last' = last /\ passed' = passed \cup TooLate(n, {i}, p)
    BY <1>2 DEF Promote
  <2>2. bad'[Leader][ip] = IF Leader = n /\ ip = i THEN now ELSE bad[Leader][ip]
    BY <1>2 DEF Promote, SetBad, BadActorSyncTypeOK
  <2>3. CASE Leader = n /\ ip = i /\ bad[f][ip] = 0
    <3>1. <<f, Leader, ip>> \in Followers \X {n} \X {i}
      BY <2>3
    <3>2. p[ip] = now /\ last[f] >= now
      BY <2>1, <2>2, <2>3, <1>b DEF BadActorSyncTypeOK, Times
    <3>3. <<f, Leader, ip>> \in TooLate(n, {i}, p)
      BY <2>3, <3>1, <3>2 DEF TooLate
    <3> QED
      BY <2>1, <3>3
  <2>4. CASE bad[f][ip] # 0
    BY <1>a, <1>b, <2>4
  <2> QED
    BY <1>1, <2>1, <2>2, <2>3, <2>4
<1>3. ASSUME NEW g \in Followers, NEW lost \in SUBSET IPs, FollowerApply(g, lost)
      PROVE  bad'[f][ip] # 0
  <2> DEFINE a == rounds[g].answer
             since == rounds[g].since
  <2>1. /\ last' = [last EXCEPT ![g] = a.ts]
        /\ passed' = PassedByAnswer(g, since, a) \cup {g} \X {Leader} \X lost
        /\ rounds[g].phase # "idle"
    BY <1>3 DEF FollowerApply, Watermark
  <2>2. /\ bad'[Leader][ip] = bad[Leader][ip]
        /\ bad'[g][ip] = IF bad[g][ip] = 0 /\ ip \notin lost THEN a.bad[ip] ELSE bad[g][ip]
    <3>1. g \in Nodes /\ g # Leader
      OBVIOUS
    <3> QED
      BY <1>3, <3>1, FromTheLeader
  <2>3. since \in Nat /\ a.read \in Nat /\ learned[ip] \in Nat
    BY DEF BadActorSyncTypeOK, Rounds, Answers, Dated, Times
  <2>4. /\ bad[Leader][ip] > since /\ learned[ip] < a.read => a.bad[ip] # 0
        /\ since # 0 => since = last[g]
    BY <2>1 DEF AnswersHold, Holds, HoldsOf
  <2> HIDE DEF a, since
  <2>5. CASE f # g
    <3>1. <<f, Leader, ip>> \notin passed
      BY <2>1, <2>5 DEF PassedByAnswer
    <3>2. last'[f] = last[f]
      BY <2>1, <2>5 DEF BadActorSyncTypeOK
    <3> QED
      BY <1>1, <2>2, <3>1, <3>2
  <2>6. CASE f = g
    <3>1. <<f, Leader, ip>> \in {f} \X {Leader} \X IPs
      OBVIOUS
    <3>2. last'[f] = a.ts
      BY <1>b, <2>1, <2>6 DEF BadActorSyncTypeOK
    <3>0. ip \notin lost
      BY <2>1, <2>6
    <3>3. bad[f][ip] = 0 /\ a.bad[ip] = 0 => learned[ip] < a.read
      BY <2>1, <2>2, <2>3, <2>6, <3>1, <3>2 DEF PassedByAnswer
    <3>4. CASE bad[Leader][ip] > since
      BY <2>2, <2>4, <2>6, <3>0, <3>3, <3>4
    <3>5. CASE bad[Leader][ip] <= since
      <4>1. since # 0
        BY <1>b, <2>2, <2>3, <3>5
      <4>2. <<f, Leader, ip>> \notin passed
        BY <2>1, <4>1 DEF PassedByAnswer
      <4>3. bad[Leader][ip] \in 1 .. last[f]
        BY <1>b, <2>2, <2>4, <2>6, <3>5, <4>1
      <4> QED
        BY <1>a, <1>b, <4>2, <4>3 DEF FollowerKnows
    <3> QED
      BY <1>b, <2>3, <3>4, <3>5
  <2> QED
    BY <2>5, <2>6
<1>4. ASSUME NEW g \in Followers, Stop(g)
      PROVE  bad'[f][ip] # 0
  <2>1. UNCHANGED <<bad, passed>> /\ last' = [last EXCEPT ![g] = 0]
    BY <1>4 DEF Stop
  <2>2. f # g
    BY <1>b, <2>1 DEF BadActorSyncTypeOK
  <2> QED
    BY <1>1, <2>1, <2>2 DEF BadActorSyncTypeOK
<1>5. ASSUME NEW n \in Followers, NEW lost \in SUBSET IPs, LeaderFetch(n, lost)
      PROVE  bad'[f][ip] # 0
  <2> DEFINE p == Fetched(n)
  <2>1. p \in [IPs -> Times]
    BY FetchedFacts
  <2>2. /\ ApplyBadActors(Leader, p, lost) /\ last' = last
        /\ passed' = passed \cup TooLate(Leader, New(Leader, p) \ lost, p)
    BY <1>5 DEF LeaderFetch
  <2> HIDE DEF p
  <2>3. bad'[Leader][ip] = IF bad[Leader][ip] = 0 /\ ip \notin lost THEN p[ip]
                                                            ELSE bad[Leader][ip]
    BY <2>1, <2>2, Applied
  <2>4. CASE bad[Leader][ip] = 0 /\ ip \notin lost /\ bad[f][ip] = 0
    <3>1. ip \in New(Leader, p) \ lost /\ last[f] >= p[ip]
      BY <1>b, <2>2, <2>3, <2>4 DEF New
    <3>2. <<f, Leader, ip>> \in Followers \X {Leader} \X (New(Leader, p) \ lost)
      BY <3>1
    <3>3. <<f, Leader, ip>> \in TooLate(Leader, New(Leader, p) \ lost, p)
      BY <2>4, <3>1, <3>2 DEF TooLate
    <3> QED
      BY <2>2, <3>3
  <2>5. CASE bad[f][ip] # 0
    BY <1>a, <1>b, <2>5
  <2> QED
    BY <1>1, <2>2, <2>3, <2>4, <2>5
<1>6. CASE LeaderDone
  <2>1. <<f, Leader, ip>> \notin passed
    BY <1>6 DEF LeaderDone, PassedByCollection
  <2>2. last'[f] = last[f] /\ bad' = bad
    BY <1>6 DEF LeaderDone, BadActorSyncTypeOK
  <2> QED
    BY <1>1, <2>1, <2>2
<1>7. CASE LeaderRestart
  BY <1>1, <1>7 DEF LeaderRestart, BadActorSyncTypeOK
<1>8. CASE UNCHANGED <<bad, last, passed>>
  BY <1>1, <1>8
<1> QED
  BY <1>2, <1>3, <1>4, <1>5, <1>6, <1>7, <1>8
  DEF BadActorSyncNext, Request, Respond, RoundFails, LeaderStart, LeaderFetchFails, Tick, vars

(***************************************************************************)
(* Bad actors: theorems                                                    *)
(***************************************************************************)

\* The inductive invariant holds in every behaviour.
LEMMA SyncInvariance == BadActorSyncSpec => []SyncInv
<1>1. SyncInv /\ [BadActorSyncNext]_vars => SyncInv'
  BY TypeStep, AnswersStep, CollectionStep, LeaderStep, FollowerStep DEF SyncInv
<1> QED
  BY InitHolds, <1>1, PTL DEF BadActorSyncSpec

\* Every state has its types, a node that starts has no watermark, and an answer is dated
\* between the reading of the leader's table and now.
THEOREM TypeCorrect == BadActorSyncSpec => []BadActorSyncTypeOK
<1>1. SyncInv => BadActorSyncTypeOK
  BY DEF SyncInv
<1> QED
  BY SyncInvariance, <1>1, PTL

\* The leader's collections miss no bad actor of a follower, however collections, failed
\* requests, promotions and restarts interleave, but for those that LeaderKnows names.
THEOREM LeaderMissesNone == BadActorSyncSpec => []LeaderKnows
<1>1. SyncInv => LeaderKnows
  BY DEF SyncInv
<1> QED
  BY SyncInvariance, <1>1, PTL

\* A follower's rounds, served from the tables or from the file, miss no bad actor of the
\* leader but for those that the leader learned of too late, and those that the follower failed
\* to record.
THEOREM FollowerMissesNone == BadActorSyncSpec => []FollowerKnows
<1>1. SyncInv => FollowerKnows
  BY DEF SyncInv
<1> QED
  BY SyncInvariance, <1>1, PTL

\* The watermark never hides a record that the leader already had when it answered: a bad
\* actor that is in no list of those passed over has reached every node whose watermark
\* covers its promotion.
THEOREM SpreadsToAll ==
  BadActorSyncSpec =>
    [](\A f, g \in Followers, ip \in IPs :
         /\ bad[f][ip] \in 1 .. last[Leader] /\ <<Leader, f, ip>> \notin passed
         /\ bad[Leader][ip] <= last[g] /\ <<g, Leader, ip>> \notin passed
         => bad[g][ip] # 0)
<1>1. ASSUME SyncInv, NEW f \in Followers, NEW g \in Followers, NEW ip \in IPs,
             bad[f][ip] \in 1 .. last[Leader], <<Leader, f, ip>> \notin passed,
             bad[Leader][ip] <= last[g], <<g, Leader, ip>> \notin passed
      PROVE  bad[g][ip] # 0
  <2>1. bad[Leader][ip] # 0
    BY <1>1 DEF SyncInv, LeaderKnows
  <2>2. bad[Leader][ip] \in Nat /\ last[g] \in Nat
    <3>1. g \in Nodes /\ BadActorSyncTypeOK
      BY <1>1, LeaderApart DEF SyncInv
    <3> QED
      BY <3>1, LeaderApart, BadActorSyncAssumption DEF BadActorSyncTypeOK, Times
  <2>3. bad[Leader][ip] \in 1 .. last[g]
    BY <1>1, <2>1, <2>2
  <2> QED
    BY <1>1, <2>3 DEF SyncInv, FollowerKnows
<1>2. SyncInv => \A f, g \in Followers, ip \in IPs :
         /\ bad[f][ip] \in 1 .. last[Leader] /\ <<Leader, f, ip>> \notin passed
         /\ bad[Leader][ip] <= last[g] /\ <<g, Leader, ip>> \notin passed
         => bad[g][ip] # 0
  BY <1>1
<1> QED
  BY SyncInvariance, <1>2, PTL
=============================================================================
