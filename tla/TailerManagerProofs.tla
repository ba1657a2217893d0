------------------------- MODULE TailerManagerProofs -------------------------
(***************************************************************************)
(* Machine-checked facts about the tailers of a process, for every set of  *)
(* configurations and receivers and any number of tailers, reloads and     *)
(* signals.                                                                *)
(***************************************************************************)
EXTENDS TailerManager, TLAPS

(***************************************************************************)
(* The inductive invariant                                                 *)
(***************************************************************************)

Lists == Configs \cup {None, [n \in {LogPath} |-> LogPath]}
Words == STRING \cup {"no", "none"}
Tailers == [pc : {"off", "set", "read", "tail", "done"}, name : STRING, path : STRING,
            stop : BOOLEAN, got : STRING \X Words, rivals : SUBSET (STRING \X Words)]
Works == [pc : {"idle", "swapped", "update", "each"}, arg : Lists, todo : SUBSET STRING,
          at : Words]
Threads == Reloaders \cup {"main"}
Early == {"mode", "single", "create"}

\* Every variable that the argument is about has its type.
TypeOK ==
  /\ websites \in Lists
  /\ shared \in STRING \X Words
  /\ tailer \in [Ids -> Tailers]
  /\ work \in [Threads -> Works]
  /\ exitOnEOF \in BOOLEAN /\ stopCh \in BOOLEAN
  /\ crossed \in BOOLEAN /\ emptied \in BOOLEAN

\* Whoever goes through a list holds m.mu.  Nobody does before there is a manager, and the
\* main goroutine does in Start only.
PlacesOK ==
  /\ \A r \in Threads :
       /\ work[r].pc = "each" <=> mu = r
       /\ work[r].todo \subseteq DOMAIN work[r].arg
       /\ work[r].pc # "each" => work[r].todo = {}
  /\ work["main"].pc \in {"idle", "each"}
  /\ work["main"].pc = "each" => main = "starting"
  /\ main \in Early =>
       DOMAIN current = {} /\ \A r \in Reloaders : work[r].pc \in {"idle", "swapped"}

\* The map leads to tailers that have started, each under its own name, and every tailer
\* that was not told to stop is in it.
MapOK ==
  /\ \A n \in DOMAIN current :
       /\ n \in STRING /\ current[n] \in Ids
       /\ tailer[current[n]].pc # "off" /\ tailer[current[n]].name = n
  /\ \A i \in Live : ~tailer[i].stop => i \in Range(current)

\* At most one reload is under way unless two went side by side, and it works on the
\* websites that are in force.
ReloadsOK ==
  ~crossed =>
    /\ \A r, s \in Reloaders : r = s \/ work[r].pc = "idle" \/ work[s].pc = "idle"
    /\ \A r \in Reloaders : work[r].pc \in {"update", "each"} => work[r].arg = websites

Path(n) == tailer[current[n]].path

\* What a reload has gone through is done: every tailer has a website of the list, every
\* website that is not to do has a tailer with its path.
LoopOK ==
  \A r \in Reloaders : work[r].pc = "each" =>
    /\ DOMAIN current \subseteq DOMAIN work[r].arg
    /\ \A n \in DOMAIN work[r].arg \ work[r].todo : n \in DOMAIN current /\ Path(n) = work[r].arg[n]

Settled == ~crossed /\ \A r \in Reloaders : work[r].pc = "idle"
Match(list) ==
  /\ DOMAIN current \subseteq DOMAIN list
  /\ \A n \in DOMAIN current : Path(n) = list[n]

\* While no reload is under way, the tailers are those of the websites in force, but for
\* those that Start has still to start.
MatchOK ==
  Settled =>
    /\ main \notin Early => Match(websites)
    /\ work["main"].pc = "each" =>
         work["main"].arg = websites /\ DOMAIN websites \ work["main"].todo \subseteq DOMAIN current
    /\ main \notin Early \cup {"start"} /\ work["main"].pc = "idle" =>
         DOMAIN websites \subseteq DOMAIN current

\* Tailers do not end by themselves: while neither the manager got a signal nor files end,
\* those of the map run.
RunningOK ==
  stopCh \/ exitOnEOF \/ \A n \in DOMAIN current : current[n] \in Live /\ ~tailer[current[n]].stop

\* A reload that keeps one of the tailers keeps it until its end, and Start starts one.
NonEmptyOK ==
  ~emptied =>
    /\ \A r \in Reloaders : work[r].pc = "each" =>
         \E n \in DOMAIN current : n \in DOMAIN work[r].arg /\ Path(n) = work[r].arg[n]
    /\ main \notin Early \cup {"start"} /\ work["main"].pc = "idle" => DOMAIN current # {}

\* What a tailer is about to capture is its own or a rival's.
CaptureOK ==
  \A i \in Ids : tailer[i].pc = "read" =>
    shared \in {<<tailer[i].path, tailer[i].name>>} \cup tailer[i].rivals

ManagerInv ==
  /\ TypeOK /\ PlacesOK /\ MapOK /\ ReloadsOK /\ LoopOK /\ MatchOK /\ RunningOK /\ NonEmptyOK
  /\ CaptureOK /\ StaysUp

(***************************************************************************)
(* Lists, tailers and the work of a thread                                 *)
(***************************************************************************)

\* Names and paths of a list are strings.
LEMMA ListFacts ==
  /\ None \in Lists /\ DOMAIN None = {}
  /\ \A l \in Lists : DOMAIN l \subseteq STRING /\ \A n \in DOMAIN l : l[n] \in STRING
<1>1. None \in Lists /\ DOMAIN None = {}
  BY DEF None, Lists
<1>2. ASSUME NEW l \in Lists
      PROVE  DOMAIN l \subseteq STRING /\ \A n \in DOMAIN l : l[n] \in STRING
  <2>1. CASE l \in Configs
    BY <2>1, ManagerAssumption
  <2>2. CASE l = None
    BY <1>1, <2>2
  <2>3. CASE l = [n \in {LogPath} |-> LogPath]
    BY <2>3, ManagerAssumption
  <2> QED
    BY <2>1, <2>2, <2>3 DEF Lists
<1> QED
  BY <1>1, <1>2

\* What a tailer that has just been started is made of.
Started(n, p) == [Off EXCEPT !.pc = "set", !.name = n, !.path = p]

\* It is a tailer with these parts.
LEMMA StartedFacts ==
  ASSUME NEW n \in STRING, NEW p \in STRING
  PROVE  /\ Off \in Tailers /\ Off.pc = "off"
         /\ Started(n, p) \in Tailers /\ Started(n, p).pc = "set" /\ ~Started(n, p).stop
         /\ Started(n, p).name = n /\ Started(n, p).path = p
BY ManagerAssumption DEF Off, Started, Tailers, Words

\* A thread at rest.
LEMMA RestingFacts ==
  /\ Resting \in Works /\ Resting.pc = "idle" /\ Resting.todo = {} /\ Resting.arg = None
BY ListFacts DEF Resting, Works, Words

\* The steps, one by one.
LEMMA Cases ==
  ASSUME [ManagerNext]_managerVars
  PROVE  \/ UNCHANGED managerVars
         \/ Mode \/ Single \/ Create \/ Start \/ Wait
         \/ \E r \in Threads, n \in Names : StartNew(r, n) \/ KeepOld(r, n)
         \/ \E r \in Reloaders : CallUpdate(r) \/ UpdateBegin(r) \/ SwapWebsites(r)
         \/ \E r \in Reloaders, n \in Names : StopChanged(r, n)
         \/ \E i \in Ids : SetPath(i) \/ ReadPath(i) \/ Return(i)
         \/ CloseSignals \/ Signal \/ \E g \in Receivers : Receive(g)
BY DEF ManagerNext, Goroutines, Outside, MainStep, ReloadStep, TailerStep, Threads

\* After a website is done, the thread goes on with the rest of its list or rests.
LEMMA DoneFacts ==
  ASSUME TypeOK, NEW r \in Threads, NEW n, Done(r, n)
  PROVE  /\ work' \in [Threads -> Works]
         /\ \A s \in Threads \ {r} : work'[s] = work[s]
         /\ \/ /\ work[r].todo \ {n} = {} /\ work'[r] = Resting /\ mu' = "free"
            \/ /\ work'[r].pc = work[r].pc /\ work'[r].arg = work[r].arg
               /\ work'[r].todo = work[r].todo \ {n} /\ work[r].todo \ {n} # {} /\ mu' = mu
<1> DEFINE todo == work[r].todo \ {n}
           w == [work[r] EXCEPT !.todo = todo, !.at = "no"]
<1>1. work[r] \in Works /\ work \in [Threads -> Works]
  BY DEF TypeOK
<1>2. w \in Works /\ w.pc = work[r].pc /\ w.arg = work[r].arg /\ w.todo = todo
  BY <1>1 DEF Works, Words
<1>3. /\ work' = [work EXCEPT ![r] = IF todo = {} THEN Resting ELSE w]
      /\ mu' = IF todo = {} THEN "free" ELSE mu
  BY DEF Done
<1> HIDE DEF w
<1> QED
  BY <1>1, <1>2, <1>3, RestingFacts

\* UpdateBegin: the tailers of names that are gone are told to stop, and there is a loop
\* to go through unless the list is empty.
LEMMA BeginFacts ==
  ASSUME TypeOK, NEW r \in Reloaders, UpdateBegin(r)
  PROVE  /\ work' \in [Threads -> Works]
         /\ \A s \in Threads \ {r} : work'[s] = work[s]
         /\ \/ work[r].arg = None /\ work'[r] = Resting /\ mu' = mu
            \/ /\ work'[r].pc = "each" /\ work'[r].arg = work[r].arg
               /\ work'[r].todo = DOMAIN work[r].arg /\ mu' = r
<1> DEFINE w == [work[r] EXCEPT !.pc = "each", !.todo = DOMAIN work[r].arg]
<1>1. r \in Threads /\ work[r] \in Works /\ work \in [Threads -> Works]
  BY DEF TypeOK, Threads
<1>2. DOMAIN work[r].arg \subseteq STRING
  BY <1>1, ListFacts DEF Works
<1>3. /\ w \in Works /\ w.pc = "each" /\ w.arg = work[r].arg /\ w.todo = DOMAIN work[r].arg
  BY <1>1, <1>2 DEF Works
<1>4. CASE work[r].arg = None
  BY <1>1, <1>4, RestingFacts DEF UpdateBegin
<1>5. CASE work[r].arg # None
  <2>1. work' = [work EXCEPT ![r] = w] /\ mu' = r
    BY <1>5 DEF UpdateBegin
  <2> HIDE DEF w
  <2> QED
    BY <1>1, <1>3, <2>1
<1> QED
  BY <1>4, <1>5

(***************************************************************************)
(* The map of tailers                                                      *)
(***************************************************************************)

\* Names lead to different tailers.
LEMMA Distinct ==
  ASSUME MapOK, NEW m \in DOMAIN current, NEW n \in DOMAIN current, current[m] = current[n]
  PROVE  m = n
BY DEF MapOK

\* Stopping the tailers of some names leaves the others as they were.
LEMMA StopFacts ==
  ASSUME TypeOK, MapOK, NEW names \in SUBSET DOMAIN current,
         tailer' = Stopped(names), current' = Without(names)
  PROVE  /\ tailer' \in [Ids -> Tailers]
         /\ DOMAIN current' = DOMAIN current \ names
         /\ \A n \in DOMAIN current' :
              current'[n] = current[n] /\ tailer'[current[n]] = tailer[current[n]]
         /\ \A i \in Ids :
              \/ tailer'[i] = tailer[i]
              \/ tailer'[i] = Off
              \/ tailer'[i] = [tailer[i] EXCEPT !.stop = TRUE]
         /\ MapOK'
<1>0. tailer \in [Ids -> Tailers] /\ Off \in Tailers /\ Off.pc = "off"
  BY StartedFacts, ManagerAssumption DEF TypeOK
<1>1. \A i \in Ids : [tailer[i] EXCEPT !.stop = TRUE] \in Tailers
  BY <1>0 DEF Tailers
<1>2. tailer' \in [Ids -> Tailers]
  BY <1>0, <1>1 DEF Stopped
<1>3. \A i \in Ids :
        tailer'[i] = IF \E n \in names : current[n] = i
                     THEN IF i \in Live THEN [tailer[i] EXCEPT !.stop = TRUE] ELSE Off
                     ELSE tailer[i]
  BY DEF Stopped
<1>4. /\ DOMAIN current' = DOMAIN current \ names
      /\ \A n \in DOMAIN current' : current'[n] = current[n]
  BY DEF Without, Restrict
<1>5. ASSUME NEW n \in DOMAIN current'
      PROVE  tailer'[current[n]] = tailer[current[n]]
  <2>1. n \in DOMAIN current /\ n \notin names /\ names \subseteq DOMAIN current
    BY <1>4
  <2>2. current[n] \in Ids
    BY <2>1 DEF MapOK
  <2>3. ~\E m \in names : current[m] = current[n]
    BY <2>1, Distinct
  <2> QED
    BY <1>3, <2>2, <2>3
<1>6. \A i \in Live' : ~tailer'[i].stop => i \in Range(current')
  <2> SUFFICES ASSUME NEW i \in Ids, tailer'[i].pc \in {"set", "read", "tail"}, ~tailer'[i].stop
               PROVE  i \in Range(current')
    BY DEF Live
  <2>1. tailer[i] \in Tailers
    BY <1>0
  <2>2. ~\E n \in names : current[n] = i
    <3>1. tailer'[i] # Off
      BY <1>0
    <3>2. tailer'[i] # [tailer[i] EXCEPT !.stop = TRUE]
      BY <2>1 DEF Tailers
    <3> QED
      BY <1>3, <3>1, <3>2
  <2>3. tailer'[i] = tailer[i]
    BY <1>3, <2>2
  <2>4. i \in Range(current)
    BY <2>3 DEF MapOK, Live
  <2> QED
    BY <1>4, <2>2, <2>4 DEF Range
<1>7. \A n \in DOMAIN current' :
        /\ n \in STRING /\ current'[n] \in Ids
        /\ tailer'[current'[n]].pc # "off" /\ tailer'[current'[n]].name = n
  BY <1>4, <1>5 DEF MapOK
<1>8. MapOK'
  BY <1>6, <1>7 DEF MapOK
<1> QED
  BY <1>2, <1>3, <1>4, <1>5, <1>8

\* Starting a tailer for a new name leaves the others as they were.
LEMMA StartFacts ==
  ASSUME TypeOK, MapOK, NEW n \in STRING, NEW p \in STRING, n \notin DOMAIN current,
         StartTailerLocked(n, p)
  PROVE  /\ tailer' \in [Ids -> Tailers]
         /\ DOMAIN current' = DOMAIN current \cup {n}
         /\ \A m \in DOMAIN current :
              current'[m] = current[m] /\ tailer'[current[m]] = tailer[current[m]]
         /\ current'[n] \in Ids /\ tailer'[current'[n]].path = p
         /\ tailer'[current'[n]].pc = "set" /\ ~tailer'[current'[n]].stop
         /\ \A i \in Ids : tailer'[i] = tailer[i] \/ tailer'[i].pc = "set"
         /\ MapOK'
<1>0. tailer \in [Ids -> Tailers]
  BY DEF TypeOK
<1> DEFINE t == Started(n, p)
<1>1. /\ Off.pc = "off" /\ t \in Tailers
      /\ t.pc = "set" /\ t.name = n /\ t.path = p /\ ~t.stop
  BY StartedFacts
<1>2. PICK i \in Ids :
        /\ tailer[i] = Off
        /\ tailer' = [tailer EXCEPT ![i] = t]
        /\ current' = [m \in DOMAIN current \cup {n} |-> IF m = n THEN i ELSE current[m]]
  BY DEF StartTailerLocked, Started
<1> HIDE DEF t
<1>3. /\ tailer' \in [Ids -> Tailers] /\ tailer'[i] = t
      /\ \A j \in Ids \ {i} : tailer'[j] = tailer[j]
  BY <1>0, <1>1, <1>2
<1>4. /\ DOMAIN current' = DOMAIN current \cup {n} /\ current'[n] = i
      /\ \A m \in DOMAIN current : current'[m] = current[m]
  BY <1>2
<1>5. \A m \in DOMAIN current : current[m] \in Ids \ {i}
  BY <1>1, <1>2 DEF MapOK
<1>6. \A m \in DOMAIN current' :
        /\ m \in STRING /\ current'[m] \in Ids
        /\ tailer'[current'[m]].pc # "off" /\ tailer'[current'[m]].name = m
  <2>1. ASSUME NEW m \in DOMAIN current
        PROVE  /\ m \in STRING /\ current'[m] \in Ids
               /\ tailer'[current'[m]].pc # "off" /\ tailer'[current'[m]].name = m
    BY <1>3, <1>4, <1>5 DEF MapOK
  <2> QED
    BY <1>1, <1>3, <1>4, <2>1
<1>7. \A j \in Live' : ~tailer'[j].stop => j \in Range(current')
  <2> SUFFICES ASSUME NEW j \in Ids, j # i, tailer'[j].pc \in {"set", "read", "tail"},
                      ~tailer'[j].stop
               PROVE  j \in Range(current')
    BY <1>4 DEF Live, Range
  <2>1. j \in Range(current)
    BY <1>3 DEF MapOK, Live
  <2> QED
    BY <1>4, <2>1 DEF Range
<1>8. MapOK'
  BY <1>6, <1>7 DEF MapOK
<1> QED
  BY <1>1, <1>3, <1>4, <1>5, <1>8

\* A step of a tailer leaves the map alone, and the names and paths of the tailers in it.
LEMMA TailerFacts ==
  ASSUME TypeOK, MapOK, NEW i \in Ids, SetPath(i) \/ ReadPath(i) \/ Return(i)
  PROVE  /\ tailer' \in [Ids -> Tailers] /\ shared' \in STRING \X Words
         /\ current' = current /\ MapOK'
         /\ \A n \in DOMAIN current : tailer'[current[n]].path = tailer[current[n]].path
<1>0. tailer \in [Ids -> Tailers] /\ shared \in STRING \X Words /\ tailer[i] \in Tailers
  BY DEF TypeOK
<1>a. Off \in Tailers /\ Off.pc = "off"
  BY StartedFacts, ManagerAssumption
<1>1. current' = current
  BY DEF SetPath, ReadPath, Return
<1>2. shared' \in STRING \X Words
  BY <1>0 DEF SetPath, ReadPath, Return, Tailers, Words
<1>b. ASSUME tailer' \in [Ids -> Tailers],
             \A j \in Ids : /\ tailer'[j].name = tailer[j].name
                            /\ tailer'[j].path = tailer[j].path
                            /\ tailer'[j].stop = tailer[j].stop
                            /\ tailer'[j].pc # "off" <=> tailer[j].pc # "off"
                            /\ tailer'[j].pc \in {"set", "read", "tail"} =>
                                 tailer[j].pc \in {"set", "read", "tail"}
      PROVE  MapOK' /\ \A n \in DOMAIN current : tailer'[current[n]].path = tailer[current[n]].path
  BY <1>1, <1>b DEF MapOK, Live
<1>3. CASE SetPath(i)
  <2>1. \A j \in Ids : [tailer[j] EXCEPT !.pc = "read"] \in Tailers
    BY <1>0 DEF Tailers
  <2>2. \A j \in Ids : [tailer[j] EXCEPT !.rivals = @ \cup {shared'}] \in Tailers
    BY <1>0, <1>2 DEF Tailers
  <2>3. tailer' = [j \in Ids |->
          IF j = i THEN [tailer[j] EXCEPT !.pc = "read"]
          ELSE IF tailer[j].pc = "read" THEN [tailer[j] EXCEPT !.rivals = @ \cup {shared'}]
          ELSE tailer[j]]
    BY <1>3 DEF SetPath
  <2>4. tailer' \in [Ids -> Tailers]
    BY <1>0, <2>1, <2>2, <2>3
  <2>5. tailer[i].pc = "set"
    BY <1>3 DEF SetPath
  <2>6. \A j \in Ids : /\ tailer'[j].name = tailer[j].name
                       /\ tailer'[j].path = tailer[j].path
                       /\ tailer'[j].stop = tailer[j].stop
                       /\ \/ tailer'[j].pc = tailer[j].pc
                          \/ j = i /\ tailer'[j].pc = "read"
    BY <1>0, <2>3 DEF Tailers
  <2> QED
    BY <1>1, <1>2, <1>b, <2>4, <2>5, <2>6
<1>4. CASE ReadPath(i)
  <2> DEFINE t == [tailer[i] EXCEPT !.pc = "tail", !.rivals = {}, !.got = shared]
  <2>1. t \in Tailers /\ t.name = tailer[i].name /\ t.path = tailer[i].path
        /\ t.stop = tailer[i].stop /\ t.pc = "tail"
    BY <1>0 DEF Tailers
  <2>2. tailer' = [tailer EXCEPT ![i] = t] /\ tailer[i].pc = "read"
    BY <1>4 DEF ReadPath
  <2> HIDE DEF t
  <2>3. /\ tailer' \in [Ids -> Tailers] /\ tailer'[i] = t
        /\ \A j \in Ids \ {i} : tailer'[j] = tailer[j]
    BY <1>0, <2>1, <2>2
  <2> QED
    BY <1>1, <1>2, <1>b, <2>1, <2>2, <2>3
<1>5. CASE Return(i)
  <2> DEFINE t == [tailer[i] EXCEPT !.pc = "done"]
  <2>1. t \in Tailers /\ t.name = tailer[i].name /\ t.path = tailer[i].path
        /\ t.stop = tailer[i].stop /\ t.pc = "done"
    BY <1>0 DEF Tailers
  <2>2. /\ tailer' = [tailer EXCEPT ![i] = IF i \in Range(current) THEN t ELSE Off]
        /\ tailer[i].pc = "tail"
    BY <1>5 DEF Return
  <2> HIDE DEF t
  <2>3. /\ tailer' \in [Ids -> Tailers]
        /\ tailer'[i] = IF i \in Range(current) THEN t ELSE Off
        /\ \A j \in Ids \ {i} : tailer'[j] = tailer[j]
    BY <1>0, <1>a, <2>1, <2>2
  <2>4. CASE i \in Range(current)
    BY <1>1, <1>2, <1>b, <2>1, <2>2, <2>3, <2>4
  <2>5. CASE i \notin Range(current)
    <3>1. \A n \in DOMAIN current : current[n] # i
      BY <2>5 DEF Range
    <3>2. \A n \in DOMAIN current : tailer'[current[n]] = tailer[current[n]]
      BY <2>3, <3>1 DEF MapOK
    <3>3. \A j \in Live' : j \in Live /\ tailer'[j] = tailer[j]
      BY <1>a, <2>3, <2>5 DEF Live
    <3>4. MapOK'
      BY <1>1, <3>2, <3>3 DEF MapOK
    <3> QED
      BY <1>1, <1>2, <2>3, <3>2, <3>4
  <2> QED
    BY <2>4, <2>5
<1> QED
  BY <1>3, <1>4, <1>5

(***************************************************************************)
(* Types, places and the map                                               *)
(***************************************************************************)

\* The invariant holds when the process starts.
LEMMA InitHolds == ManagerInit => ManagerInv
<1> SUFFICES ASSUME ManagerInit
             PROVE  ManagerInv
  OBVIOUS
<1> USE ListFacts, RestingFacts, ManagerAssumption DEF ManagerInit
<1>0. Off \in Tailers /\ Off.pc = "off"
  BY StartedFacts
<1>1. TypeOK
  <2>1. shared \in STRING \X Words
    BY DEF Words
  <2>2. work \in [Threads -> Works]
    BY DEF Threads
  <2> QED
    BY <1>0, <2>1, <2>2 DEF TypeOK, Lists
<1>2. PlacesOK
  BY DEF PlacesOK, Threads, Early, Reloaders
<1>3. MapOK
  BY <1>0 DEF MapOK, Live
<1>4. ReloadsOK
  BY DEF ReloadsOK, Reloaders
<1>5. LoopOK /\ NonEmptyOK
  BY DEF LoopOK, NonEmptyOK, Reloaders, Early
<1>6. MatchOK
  BY DEF MatchOK, Early
<1>7. RunningOK
  BY DEF RunningOK
<1>8. CaptureOK
  BY <1>0 DEF CaptureOK
<1>9. StaysUp
  BY DEF StaysUp
<1> QED
  BY <1>1, <1>2, <1>3, <1>4, <1>5, <1>6, <1>7, <1>8, <1>9 DEF ManagerInv

\* Website and path that a thread is at.
LEMMA AtFacts ==
  ASSUME TypeOK, PlacesOK, NEW r \in Threads, NEW n \in work[r].todo
  PROVE  n \in STRING /\ n \in DOMAIN work[r].arg /\ work[r].arg[n] \in STRING
<1>1. work[r] \in Works
  BY DEF TypeOK
<1> QED
  BY <1>1, ListFacts DEF PlacesOK, Works

\* The names whose tailers a reload stops are in the map, and its steps stop no other.
LEMMA StopSteps ==
  ASSUME TypeOK, PlacesOK, MapOK, NEW r \in Reloaders
  PROVE  /\ UpdateBegin(r) =>
              LET gone == DOMAIN current \ DOMAIN work[r].arg IN
              /\ gone \in SUBSET DOMAIN current
              /\ tailer' = Stopped(gone) /\ current' = Without(gone)
         /\ \A n \in Names : StopChanged(r, n) =>
              /\ {n} \in SUBSET DOMAIN current
              /\ tailer' = Stopped({n}) /\ current' = Without({n})
BY DEF UpdateBegin, StopChanged

\* Every step keeps the types.
LEMMA TypeStep == ManagerInv /\ [ManagerNext]_managerVars => TypeOK'
<1> SUFFICES ASSUME ManagerInv, [ManagerNext]_managerVars
             PROVE  TypeOK'
  OBVIOUS
<1>0. TypeOK /\ PlacesOK /\ MapOK
  BY DEF ManagerInv
<1>a. /\ websites \in Lists /\ shared \in STRING \X Words /\ tailer \in [Ids -> Tailers]
      /\ work \in [Threads -> Works] /\ exitOnEOF \in BOOLEAN /\ stopCh \in BOOLEAN
      /\ crossed \in BOOLEAN /\ emptied \in BOOLEAN
  BY <1>0 DEF TypeOK
<1>1. CASE Mode \/ Create \/ Wait \/ Signal \/ CloseSignals \/ UNCHANGED managerVars
  BY <1>1, <1>a DEF Mode, Create, Wait, Signal, CloseSignals, managerVars, signalVars,
                    histories, TypeOK
<1>2. CASE Single
  <2>1. websites' \in Lists
    BY <1>2 DEF Single, Lists
  <2> QED
    BY <1>2, <1>a, <2>1 DEF Single, signalVars, histories, TypeOK
<1>3. CASE Start
  <2> DEFINE w == [pc |-> "each", arg |-> websites, todo |-> DOMAIN websites, at |-> "no"]
  <2>1. w \in Works
    BY <1>a, ListFacts DEF Works, Words
  <2>2. work' = [work EXCEPT !["main"] = w] \/ work' = work
    BY <1>3 DEF Start
  <2>3. work' \in [Threads -> Works]
    BY <1>a, <2>1, <2>2
  <2> QED
    BY <1>3, <1>a, <2>3 DEF Start, signalVars, histories, TypeOK
<1>4. ASSUME NEW r \in Threads, NEW n \in Names, StartNew(r, n)
      PROVE  TypeOK'
  <2>1. /\ n \in work[r].todo /\ n \notin DOMAIN current
        /\ StartTailerLocked(n, work[r].arg[n]) /\ Done(r, n)
    BY <1>4 DEF StartNew
  <2>2. tailer' \in [Ids -> Tailers]
    BY <1>0, <2>1, AtFacts, StartFacts
  <2>3. work' \in [Threads -> Works]
    BY <1>0, <2>1, DoneFacts
  <2> QED
    BY <1>4, <1>a, <2>2, <2>3 DEF StartNew, signalVars, histories, TypeOK
<1>5. ASSUME NEW r \in Threads, NEW n \in Names, KeepOld(r, n)
      PROVE  TypeOK'
  <2>1. work' \in [Threads -> Works]
    BY <1>0, <1>5, DoneFacts DEF KeepOld
  <2> QED
    BY <1>5, <1>a, <2>1 DEF KeepOld, signalVars, histories, TypeOK
<1>6. ASSUME NEW r \in Reloaders, UpdateBegin(r)
      PROVE  TypeOK'
  <2>1. work' \in [Threads -> Works]
    BY <1>0, <1>6, BeginFacts
  <2>2. tailer' \in [Ids -> Tailers]
    BY <1>0, <1>6, StopSteps, StopFacts
  <2> QED
    BY <1>6, <1>a, <2>1, <2>2 DEF UpdateBegin, signalVars, histories, TypeOK
<1>7. ASSUME NEW r \in Reloaders, NEW n \in Names, StopChanged(r, n)
      PROVE  TypeOK'
  <2>0. r \in Threads /\ work[r] \in Works /\ n \in STRING
    BY <1>0, <1>7, <1>a, AtFacts DEF StopChanged, Threads
  <2>1. [work[r] EXCEPT !.at = n] \in Works
    BY <2>0 DEF Works, Words
  <2>2. work' = [work EXCEPT ![r] = [work[r] EXCEPT !.at = n]]
    BY <1>7 DEF StopChanged
  <2>3. work' \in [Threads -> Works]
    BY <1>a, <2>1, <2>2
  <2>4. tailer' \in [Ids -> Tailers]
    BY <1>0, <1>7, StopSteps, StopFacts
  <2> QED
    BY <1>7, <1>a, <2>3, <2>4 DEF StopChanged, signalVars, histories, TypeOK
<1>8. ASSUME NEW r \in Reloaders, SwapWebsites(r)
      PROVE  TypeOK'
  <2>1. work' \in [Threads -> Works]
    BY <1>8, <1>a DEF SwapWebsites, Threads, Works
  <2> QED
    BY <1>8, <1>a, <2>1 DEF SwapWebsites, signalVars, TypeOK, Lists
<1>9. ASSUME NEW r \in Reloaders, CallUpdate(r)
      PROVE  TypeOK'
  <2>0. r \in Threads /\ work[r] \in Works
    BY <1>a DEF Threads
  <2>1. [work[r] EXCEPT !.pc = "update", !.arg = websites] \in Works
    BY <1>a, <2>0 DEF Works
  <2>2. work' \in [Threads -> Works]
    BY <1>9, <1>a, <2>1, RestingFacts DEF CallUpdate
  <2> QED
    BY <1>9, <1>a, <2>2 DEF CallUpdate, signalVars, histories, TypeOK
<1>10. ASSUME NEW i \in Ids, SetPath(i) \/ ReadPath(i) \/ Return(i)
       PROVE  TypeOK'
  <2>1. tailer' \in [Ids -> Tailers] /\ shared' \in STRING \X Words
    BY <1>0, <1>10, TailerFacts
  <2> QED
    BY <1>10, <1>a, <2>1 DEF SetPath, ReadPath, Return, signalVars, histories, TypeOK
<1>11. ASSUME NEW g \in Receivers, Receive(g)
       PROVE  TypeOK'
  BY <1>11, <1>a DEF Receive, histories, TypeOK
<1> QED
  BY <1>1, <1>2, <1>3, <1>4, <1>5, <1>6, <1>7, <1>8, <1>9, <1>10, <1>11, Cases

\* ReloadConfiguration has replaced the websites: the thread has still to call the manager.
LEMMA SwapFacts ==
  ASSUME TypeOK, NEW r \in Reloaders, SwapWebsites(r)
  PROVE  /\ work[r].pc = "idle" /\ work'[r].pc = "swapped"
         /\ work'[r].arg = work[r].arg /\ work'[r].todo = work[r].todo
         /\ \A s \in Threads \ {r} : work'[s] = work[s]
         /\ crossed' = (\E s \in Reloaders : work[s].pc # "idle")
         /\ UNCHANGED <<tailer, current, mu, main, stopCh, exitOnEOF, emptied, shared>>
<1>1. r \in Threads /\ work[r] \in Works /\ work \in [Threads -> Works]
  BY DEF TypeOK, Threads
<1>2. work' = [work EXCEPT ![r] = [work[r] EXCEPT !.pc = "swapped"]]
  BY DEF SwapWebsites
<1>3. /\ [work[r] EXCEPT !.pc = "swapped"].pc = "swapped"
      /\ [work[r] EXCEPT !.pc = "swapped"].arg = work[r].arg
      /\ [work[r] EXCEPT !.pc = "swapped"].todo = work[r].todo
  BY <1>1 DEF Works
<1> QED
  BY <1>1, <1>2, <1>3 DEF SwapWebsites, signalVars

\* It calls the manager with the websites in force, or rests when there is none yet.
LEMMA CallFacts ==
  ASSUME TypeOK, NEW r \in Reloaders, CallUpdate(r)
  PROVE  /\ work[r].pc = "swapped"
         /\ \/ main \in Early /\ work'[r] = Resting
            \/ /\ main \notin Early /\ work'[r].pc = "update" /\ work'[r].arg = websites
               /\ work'[r].todo = work[r].todo
         /\ \A s \in Threads \ {r} : work'[s] = work[s]
         /\ UNCHANGED <<websites, tailer, current, mu, main, stopCh, exitOnEOF, crossed, emptied,
                        shared>>
<1> DEFINE w == [work[r] EXCEPT !.pc = "update", !.arg = websites]
<1>1. r \in Threads /\ work[r] \in Works /\ work \in [Threads -> Works]
  BY DEF TypeOK, Threads
<1>2. w.pc = "update" /\ w.arg = websites /\ w.todo = work[r].todo
  BY <1>1 DEF Works
<1>3. work' = [work EXCEPT ![r] = IF main \in Early THEN Resting ELSE w]
  BY DEF CallUpdate, Early
<1> HIDE DEF w
<1> QED
  BY <1>1, <1>2, <1>3 DEF CallUpdate, signalVars, histories

\* It has stopped the tailer of a changed path and is about to start it again.
LEMMA ChangedFacts ==
  ASSUME TypeOK, NEW r \in Reloaders, NEW n \in Names, StopChanged(r, n)
  PROVE  /\ work[r].pc = "each" /\ work'[r].pc = "each" /\ n \in work[r].todo
         /\ work'[r].arg = work[r].arg /\ work'[r].todo = work[r].todo
         /\ n \in DOMAIN current /\ Path(n) # work[r].arg[n]
         /\ \A s \in Threads \ {r} : work'[s] = work[s]
         /\ UNCHANGED <<websites, mu, main, stopCh, exitOnEOF, crossed, emptied, shared>>
<1> DEFINE w == [work[r] EXCEPT !.at = n]
<1>1. r \in Threads /\ work[r] \in Works /\ work \in [Threads -> Works]
  BY DEF TypeOK, Threads
<1>2. w.pc = work[r].pc /\ w.arg = work[r].arg /\ w.todo = work[r].todo
  BY <1>1 DEF Works
<1>3. work' = [work EXCEPT ![r] = w]
  BY DEF StopChanged
<1> HIDE DEF w
<1> QED
  BY <1>1, <1>2, <1>3 DEF StopChanged, signalVars, histories, Path

\* Start begins: the main goroutine goes through the websites in force, if there are any.
LEMMA StartMainFacts ==
  ASSUME TypeOK, Start
  PROVE  /\ main = "start" /\ main' = "starting" /\ mu = "free"
         /\ \/ websites = None /\ UNCHANGED <<work, mu>> /\ emptied'
            \/ /\ work'["main"].pc = "each" /\ work'["main"].arg = websites /\ mu' = "main"
               /\ work'["main"].todo = DOMAIN websites /\ emptied' = emptied
         /\ \A s \in Reloaders : work'[s] = work[s]
         /\ UNCHANGED <<websites, tailer, current, stopCh, exitOnEOF, crossed, shared>>
<1> DEFINE w == [pc |-> "each", arg |-> websites, todo |-> DOMAIN websites, at |-> "no"]
<1>1. work \in [Threads -> Works] /\ emptied \in BOOLEAN
  BY DEF TypeOK
<1>2. w.pc = "each" /\ w.arg = websites /\ w.todo = DOMAIN websites
  OBVIOUS
<1>3. websites # None => work' = [work EXCEPT !["main"] = w] /\ mu' = "main"
  BY DEF Start
<1> HIDE DEF w
<1>4. ASSUME websites # None
      PROVE  /\ work'["main"] = w
             /\ \A s \in Reloaders : work'[s] = work[s]
  BY <1>1, <1>3, <1>4 DEF Threads, Reloaders
<1> QED
  BY <1>1, <1>2, <1>3, <1>4 DEF Start, signalVars

\* A website without a tailer gets one.
LEMMA NewFacts ==
  ASSUME TypeOK, PlacesOK, MapOK, NEW r \in Threads, NEW n \in Names, StartNew(r, n)
  PROVE  /\ work[r].pc = "each" /\ n \in work[r].todo /\ n \in STRING
         /\ n \in DOMAIN work[r].arg /\ work[r].arg[n] \in STRING
         /\ n \notin DOMAIN current /\ StartTailerLocked(n, work[r].arg[n]) /\ Done(r, n)
         /\ UNCHANGED <<websites, main, stopCh, exitOnEOF, crossed, emptied, shared>>
BY AtFacts DEF StartNew, signalVars, histories

\* A website keeps the tailer that it has; a reload has compared the paths.
LEMMA KeepFacts ==
  ASSUME TypeOK, PlacesOK, MapOK, NEW r \in Threads, NEW n \in Names, KeepOld(r, n)
  PROVE  /\ work[r].pc = "each" /\ n \in work[r].todo /\ n \in DOMAIN work[r].arg
         /\ n \in DOMAIN current /\ (r = "main" \/ Path(n) = work[r].arg[n]) /\ Done(r, n)
         /\ UNCHANGED <<websites, tailer, current, main, stopCh, exitOnEOF, crossed, emptied,
                        shared>>
BY AtFacts DEF KeepOld, signalVars, histories, Path

\* What steps leave alone that neither change the tailers nor a thread's work on them.
Still == UNCHANGED <<tailer, current, work, mu, crossed, emptied, shared, exitOnEOF>>

\* The steps of signals and those by which the main goroutine only moves on.
LEMMA StillFacts ==
  /\ Signal \/ CloseSignals \/ UNCHANGED managerVars =>
       Still /\ UNCHANGED <<websites, main, stopCh>>
  /\ \A g \in Receivers : Receive(g) =>
       Still /\ UNCHANGED <<websites, main>> /\ (stopCh => stopCh')
  /\ Mode => /\ Still /\ UNCHANGED <<websites, stopCh>>
             /\ main = "mode" /\ main' \in {"single", "create"}
  /\ Single => /\ Still /\ UNCHANGED stopCh
               /\ main = "single" /\ main' = "create"
  /\ Create => /\ Still /\ UNCHANGED <<websites, stopCh>>
               /\ main = "create" /\ main' = "start"
  /\ Wait => /\ Still /\ UNCHANGED <<websites, stopCh>>
             /\ \/ /\ main = "starting" /\ work["main"].pc = "idle"
                   /\ main' = IF Live = {} THEN "shutdown" ELSE "wait"
                \/ main = "released" /\ main' \in {"shutdown", "panic"}
<1>1. Signal \/ CloseSignals \/ UNCHANGED managerVars =>
        Still /\ UNCHANGED <<websites, main, stopCh>>
  BY DEF Signal, CloseSignals, managerVars, histories, Still
<1>2. \A g \in Receivers : Receive(g) =>
        Still /\ UNCHANGED <<websites, main>> /\ (stopCh => stopCh')
  BY DEF Receive, histories, Still
<1>3. Mode \/ Single \/ Create \/ Wait => Still /\ UNCHANGED stopCh
  BY DEF Mode, Single, Create, Wait, histories, signalVars, Still
<1> QED
  BY <1>1, <1>2, <1>3 DEF Mode, Single, Create, Wait

\* Every step keeps m.mu with the one thread that goes through a list.
LEMMA PlacesStep == ManagerInv /\ [ManagerNext]_managerVars => PlacesOK'
<1> SUFFICES ASSUME ManagerInv, [ManagerNext]_managerVars
             PROVE  PlacesOK'
  OBVIOUS
<1>0. TypeOK /\ PlacesOK /\ MapOK
  BY DEF ManagerInv
<1>a. \A r \in Threads : work[r] \in Works
  BY <1>0 DEF TypeOK
<1> USE DEF Threads, Reloaders, Early
<1>1. CASE Mode \/ Single \/ Create \/ Wait \/ Signal \/ CloseSignals \/ UNCHANGED managerVars
  BY <1>0, <1>1, StillFacts DEF PlacesOK, Still
<1>2. ASSUME NEW g \in Receivers, Receive(g)
      PROVE  PlacesOK'
  BY <1>0, <1>2, StillFacts DEF PlacesOK, Still
<1>3. CASE Start
  BY <1>0, <1>3, StartMainFacts DEF PlacesOK
<1>4. ASSUME NEW r \in Threads, NEW n \in Names, StartNew(r, n)
      PROVE  PlacesOK'
  <2>1. /\ work[r].pc = "each" /\ Done(r, n) /\ main' = main /\ main \notin Early
    BY <1>0, <1>4, NewFacts DEF PlacesOK
  <2> QED
    BY <1>0, <2>1, DoneFacts, RestingFacts DEF PlacesOK
<1>5. ASSUME NEW r \in Threads, NEW n \in Names, KeepOld(r, n)
      PROVE  PlacesOK'
  <2>1. /\ work[r].pc = "each" /\ Done(r, n) /\ main' = main /\ main \notin Early
    BY <1>0, <1>5, KeepFacts DEF PlacesOK
  <2> QED
    BY <1>0, <2>1, DoneFacts, RestingFacts DEF PlacesOK
<1>6. ASSUME NEW r \in Reloaders, UpdateBegin(r)
      PROVE  PlacesOK'
  <2>1. mu = "free" /\ main' = main /\ main \notin Early /\ work[r].pc = "update"
    BY <1>0, <1>6 DEF UpdateBegin, PlacesOK
  <2> QED
    BY <1>0, <1>6, <2>1, BeginFacts, RestingFacts DEF PlacesOK
<1>7. ASSUME NEW r \in Reloaders, NEW n \in Names, StopChanged(r, n)
      PROVE  PlacesOK'
  <2>1. main' = main /\ main \notin Early
    BY <1>0, <1>7, ChangedFacts DEF PlacesOK
  <2> QED
    BY <1>0, <1>7, <2>1, ChangedFacts DEF PlacesOK
<1>8. ASSUME NEW r \in Reloaders, SwapWebsites(r)
      PROVE  PlacesOK'
  <2>1. /\ \A s \in Threads : work'[s].arg = work[s].arg /\ work'[s].todo = work[s].todo
        /\ \A s \in Threads \ {r} : work'[s] = work[s]
        /\ work[r].pc = "idle" /\ work'[r].pc = "swapped"
        /\ UNCHANGED <<mu, main, current>>
    BY <1>0, <1>8, SwapFacts
  <2> QED
    BY <1>0, <2>1 DEF PlacesOK
<1>9. ASSUME NEW r \in Reloaders, CallUpdate(r)
      PROVE  PlacesOK'
  BY <1>0, <1>9, CallFacts, RestingFacts DEF PlacesOK
<1>10. ASSUME NEW i \in Ids, SetPath(i) \/ ReadPath(i) \/ Return(i)
       PROVE  PlacesOK'
  <2>1. UNCHANGED <<work, mu, current>> /\ (main' = main \/ (main = "wait" /\ main' = "released"))
    BY <1>10 DEF SetPath, ReadPath, Return
  <2> QED
    BY <1>0, <2>1 DEF PlacesOK
<1> QED
  BY <1>1, <1>2, <1>3, <1>4, <1>5, <1>6, <1>7, <1>8, <1>9, <1>10, Cases

\* Every step keeps the map and the tailers that were not told to stop together.
LEMMA MapStep == ManagerInv /\ [ManagerNext]_managerVars => MapOK'
<1> SUFFICES ASSUME ManagerInv, [ManagerNext]_managerVars
             PROVE  MapOK'
  OBVIOUS
<1>0. TypeOK /\ PlacesOK /\ MapOK
  BY DEF ManagerInv
<1>1. CASE UNCHANGED <<tailer, current>>
  BY <1>0, <1>1 DEF MapOK, Live
<1>2. ASSUME NEW r \in Threads, NEW n \in Names, StartNew(r, n)
      PROVE  MapOK'
  BY <1>0, <1>2, NewFacts, StartFacts
<1>3. ASSUME NEW r \in Reloaders, UpdateBegin(r)
      PROVE  MapOK'
  BY <1>0, <1>3, StopSteps, StopFacts
<1>4. ASSUME NEW r \in Reloaders, NEW n \in Names, StopChanged(r, n)
      PROVE  MapOK'
  BY <1>0, <1>4, StopSteps, StopFacts
<1>5. ASSUME NEW i \in Ids, SetPath(i) \/ ReadPath(i) \/ Return(i)
      PROVE  MapOK'
  BY <1>0, <1>5, TailerFacts
<1>6. \/ UNCHANGED <<tailer, current>>
      \/ \E r \in Threads, n \in Names : StartNew(r, n)
      \/ \E r \in Reloaders : UpdateBegin(r)
      \/ \E r \in Reloaders, n \in Names : StopChanged(r, n)
      \/ \E i \in Ids : SetPath(i) \/ ReadPath(i) \/ Return(i)
  BY <1>0, Cases, StillFacts, StartMainFacts, KeepFacts, SwapFacts, CallFacts DEF Still
<1> QED
  BY <1>1, <1>2, <1>3, <1>4, <1>5, <1>6

\* No step ends a tailer of the map unless the manager got a signal or files end.
LEMMA RunningStep == ManagerInv /\ [ManagerNext]_managerVars => RunningOK'
<1> SUFFICES ASSUME ManagerInv, [ManagerNext]_managerVars
             PROVE  RunningOK'
  OBVIOUS
<1>0. TypeOK /\ PlacesOK /\ MapOK /\ RunningOK
  BY DEF ManagerInv
<1>a. exitOnEOF' = exitOnEOF /\ (stopCh => stopCh')
  <2>1. \A r \in Reloaders : UpdateBegin(r) => exitOnEOF' = exitOnEOF /\ stopCh' = stopCh
    BY DEF UpdateBegin, signalVars
  <2>2. \A i \in Ids : SetPath(i) \/ ReadPath(i) \/ Return(i) =>
                        exitOnEOF' = exitOnEOF /\ stopCh' = stopCh
    BY DEF SetPath, ReadPath, Return, signalVars
  <2>3. \A r \in Threads, n \in Names : StartNew(r, n) \/ KeepOld(r, n) =>
                                       exitOnEOF' = exitOnEOF /\ stopCh' = stopCh
    BY DEF StartNew, KeepOld, signalVars
  <2>4. \A r \in Reloaders : SwapWebsites(r) \/ CallUpdate(r) =>
                              exitOnEOF' = exitOnEOF /\ stopCh' = stopCh
    BY DEF SwapWebsites, CallUpdate, signalVars
  <2>5. \A r \in Reloaders, n \in Names : StopChanged(r, n) =>
                                         exitOnEOF' = exitOnEOF /\ stopCh' = stopCh
    BY DEF StopChanged, signalVars
  <2> QED
    BY <1>0, <2>1, <2>2, <2>3, <2>4, <2>5, Cases, StillFacts, StartMainFacts DEF Still
<1> SUFFICES ASSUME ~stopCh, ~exitOnEOF, NEW m \in DOMAIN current'
             PROVE  current'[m] \in Live' /\ ~tailer'[current'[m]].stop
  BY <1>a DEF RunningOK
<1>b. \A n \in DOMAIN current :
        /\ current[n] \in Ids /\ tailer[current[n]].pc \in {"set", "read", "tail"}
        /\ ~tailer[current[n]].stop
  BY <1>0 DEF RunningOK, Live
<1>c. ASSUME m \in DOMAIN current, current'[m] = current[m],
             tailer'[current[m]] = tailer[current[m]]
      PROVE  current'[m] \in Live' /\ ~tailer'[current'[m]].stop
  BY <1>b, <1>c DEF Live
<1>1. CASE UNCHANGED <<tailer, current>>
  BY <1>1, <1>c
<1>2. ASSUME NEW r \in Threads, NEW n \in Names, StartNew(r, n)
      PROVE  current'[m] \in Live' /\ ~tailer'[current'[m]].stop
  <2>1. /\ n \in STRING /\ work[r].arg[n] \in STRING /\ n \notin DOMAIN current
        /\ StartTailerLocked(n, work[r].arg[n])
    BY <1>0, <1>2, NewFacts
  <2>2. CASE m = n
    BY <1>0, <2>1, <2>2, StartFacts DEF Live
  <2>3. CASE m # n
    <3>1. /\ DOMAIN current' = DOMAIN current \cup {n}
          /\ \A k \in DOMAIN current :
               current'[k] = current[k] /\ tailer'[current[k]] = tailer[current[k]]
      BY <1>0, <2>1, StartFacts
    <3> QED
      BY <1>c, <2>3, <3>1
  <2> QED
    BY <2>2, <2>3
<1>3. ASSUME NEW r \in Reloaders, UpdateBegin(r)
      PROVE  current'[m] \in Live' /\ ~tailer'[current'[m]].stop
  BY <1>0, <1>3, <1>c, StopSteps, StopFacts
<1>4. ASSUME NEW r \in Reloaders, NEW n \in Names, StopChanged(r, n)
      PROVE  current'[m] \in Live' /\ ~tailer'[current'[m]].stop
  BY <1>0, <1>4, <1>c, StopSteps, StopFacts
<1>5. ASSUME NEW i \in Ids, SetPath(i) \/ ReadPath(i) \/ Return(i)
      PROVE  current'[m] \in Live' /\ ~tailer'[current'[m]].stop
  <2>1. current' = current
    BY <1>0, <1>5, TailerFacts
  <2>2. current[m] \in Ids /\ tailer \in [Ids -> Tailers] /\ tailer[current[m]] \in Tailers
    BY <1>0, <1>b, <2>1 DEF TypeOK
  <2>3. CASE SetPath(i)
    <3>1. /\ tailer'[current[m]].stop = tailer[current[m]].stop
          /\ tailer'[current[m]].pc \in {"read", tailer[current[m]].pc}
      BY <2>2, <2>3 DEF SetPath, Tailers
    <3> QED
      BY <1>b, <2>1, <2>2, <3>1 DEF Live
  <2>4. CASE ReadPath(i)
    <3>1. /\ tailer'[current[m]].stop = tailer[current[m]].stop
          /\ tailer'[current[m]].pc \in {"tail", tailer[current[m]].pc}
      BY <2>2, <2>4 DEF ReadPath, Tailers
    <3> QED
      BY <1>b, <2>1, <2>2, <3>1 DEF Live
  <2>5. CASE Return(i)
    <3>1. tailer[i].stop
      BY <2>5 DEF Return
    <3>2. current[m] # i
      BY <1>b, <2>1, <3>1
    <3>3. tailer'[current[m]] = tailer[current[m]]
      BY <2>2, <2>5, <3>2 DEF Return
    <3> QED
      BY <1>c, <2>1, <3>3
  <2> QED
    BY <1>5, <2>3, <2>4, <2>5
<1>6. \/ UNCHANGED <<tailer, current>>
      \/ \E r \in Threads, n \in Names : StartNew(r, n)
      \/ \E r \in Reloaders : UpdateBegin(r)
      \/ \E r \in Reloaders, n \in Names : StopChanged(r, n)
      \/ \E i \in Ids : SetPath(i) \/ ReadPath(i) \/ Return(i)
  BY <1>0, Cases, StillFacts, StartMainFacts, KeepFacts, SwapFacts, CallFacts DEF Still
<1> QED
  BY <1>1, <1>2, <1>3, <1>4, <1>5, <1>6

\* A tailer that is starting sees its own file and website, or those of a rival.
LEMMA CaptureStep == ManagerInv /\ [ManagerNext]_managerVars => CaptureOK'
<1> SUFFICES ASSUME ManagerInv, [ManagerNext]_managerVars
             PROVE  CaptureOK'
  OBVIOUS
<1>0. TypeOK /\ PlacesOK /\ MapOK /\ CaptureOK
  BY DEF ManagerInv
<1>a. \A j \in Ids : tailer[j] \in Tailers
  BY <1>0 DEF TypeOK
<1>b. Off.pc = "off"
  BY DEF Off
<1>1. CASE UNCHANGED <<tailer, shared>>
  BY <1>0, <1>1 DEF CaptureOK
<1>2. ASSUME NEW r \in Threads, NEW n \in Names, StartNew(r, n)
      PROVE  CaptureOK'
  <2>1. \A i \in Ids : tailer'[i] = tailer[i] \/ tailer'[i].pc = "set"
    BY <1>0, <1>2, NewFacts, StartFacts
  <2> QED
    BY <1>0, <1>2, <2>1, NewFacts DEF CaptureOK
<1>c. ASSUME \A i \in Ids : \/ tailer'[i] = tailer[i]
                            \/ tailer'[i] = Off
                            \/ tailer'[i] = [tailer[i] EXCEPT !.stop = TRUE],
             shared' = shared
      PROVE  CaptureOK'
  <2>1. ASSUME NEW i \in Ids, tailer'[i].pc = "read"
        PROVE  /\ tailer[i].pc = "read" /\ tailer'[i].path = tailer[i].path
               /\ tailer'[i].name = tailer[i].name /\ tailer'[i].rivals = tailer[i].rivals
    <3>1. CASE tailer'[i] = [tailer[i] EXCEPT !.stop = TRUE]
      BY <1>a, <2>1, <3>1 DEF Tailers
    <3> QED
      BY <1>b, <1>c, <2>1, <3>1
  <2> QED
    BY <1>0, <1>c, <2>1 DEF CaptureOK
<1>3. ASSUME NEW r \in Reloaders, UpdateBegin(r)
      PROVE  CaptureOK'
  BY <1>0, <1>3, <1>c, StopSteps, StopFacts DEF UpdateBegin
<1>4. ASSUME NEW r \in Reloaders, NEW n \in Names, StopChanged(r, n)
      PROVE  CaptureOK'
  BY <1>0, <1>4, <1>c, StopSteps, StopFacts, ChangedFacts
<1>5. ASSUME NEW i \in Ids, SetPath(i)
      PROVE  CaptureOK'
  <2> SUFFICES ASSUME NEW j \in Ids, tailer'[j].pc = "read"
               PROVE  shared' \in {<<tailer'[j].path, tailer'[j].name>>} \cup tailer'[j].rivals
    BY DEF CaptureOK
  <2>1. shared' = <<tailer[i].path, tailer[i].name>>
    BY <1>5 DEF SetPath
  <2>2. tailer'[j] = IF j = i THEN [tailer[j] EXCEPT !.pc = "read"]
                     ELSE IF tailer[j].pc = "read"
                          THEN [tailer[j] EXCEPT !.rivals = @ \cup {shared'}]
                     ELSE tailer[j]
    BY <1>5 DEF SetPath
  <2>3. CASE j = i
    <3>1. tailer'[j].path = tailer[i].path /\ tailer'[j].name = tailer[i].name
      BY <1>a, <2>2, <2>3 DEF Tailers
    <3> QED
      BY <2>1, <3>1
  <2>4. CASE j # i
    <3>1. tailer[j].pc = "read"
      BY <2>2, <2>4
    <3>2. tailer'[j].rivals = tailer[j].rivals \cup {shared'}
      BY <1>a, <2>2, <2>4, <3>1 DEF Tailers
    <3> QED
      BY <3>2
  <2> QED
    BY <2>3, <2>4
<1>6. ASSUME NEW i \in Ids, ReadPath(i) \/ Return(i)
      PROVE  CaptureOK'
  <2>1. tailer \in [Ids -> Tailers]
    BY <1>0 DEF TypeOK
  <2>2. tailer'[i].pc # "read"
    BY <1>6, <1>a, <1>b, <2>1 DEF ReadPath, Return, Tailers
  <2>3. shared' = shared /\ \A j \in Ids \ {i} : tailer'[j] = tailer[j]
    BY <1>6, <2>1 DEF ReadPath, Return
  <2> QED
    BY <1>0, <2>2, <2>3 DEF CaptureOK
<1>7. \/ UNCHANGED <<tailer, shared>>
      \/ \E r \in Threads, n \in Names : StartNew(r, n)
      \/ \E r \in Reloaders : UpdateBegin(r)
      \/ \E r \in Reloaders, n \in Names : StopChanged(r, n)
      \/ \E i \in Ids : SetPath(i) \/ ReadPath(i) \/ Return(i)
  BY <1>0, Cases, StillFacts, StartMainFacts, KeepFacts, SwapFacts, CallFacts DEF Still
<1> QED
  BY <1>1, <1>2, <1>3, <1>4, <1>5, <1>6, <1>7

\* Unless two reloads go side by side, every step keeps them apart.
LEMMA ReloadsStep == ManagerInv /\ [ManagerNext]_managerVars => ReloadsOK'
<1> SUFFICES ASSUME ManagerInv, [ManagerNext]_managerVars
             PROVE  ReloadsOK'
  OBVIOUS
<1>0. TypeOK /\ PlacesOK /\ MapOK /\ ReloadsOK
  BY DEF ManagerInv
<1>a. Reloaders \subseteq Threads
  BY DEF Threads
<1>1. CASE UNCHANGED <<work, websites, crossed>>
  BY <1>0, <1>1 DEF ReloadsOK
<1>2. CASE Single
  <2>1. \A r \in Reloaders : work[r].pc \notin {"update", "each"}
    BY <1>0, <1>2, StillFacts DEF PlacesOK, Early
  <2> QED
    BY <1>0, <1>2, <2>1, StillFacts DEF ReloadsOK, Still
<1>3. CASE Start
  BY <1>0, <1>3, StartMainFacts DEF ReloadsOK
<1>b. ASSUME NEW r \in Threads, NEW n, Done(r, n), work[r].pc = "each",
             UNCHANGED <<websites, crossed>>
      PROVE  ReloadsOK'
  <2>1. \A s \in Reloaders : \/ work'[s] = work[s]
                             \/ work'[s].pc = "idle"
                             \/ work'[s].pc = work[s].pc /\ work'[s].arg = work[s].arg
    BY <1>0, <1>a, <1>b, DoneFacts, RestingFacts
  <2> QED
    BY <1>0, <1>b, <2>1 DEF ReloadsOK
<1>4. ASSUME NEW r \in Threads, NEW n \in Names, StartNew(r, n) \/ KeepOld(r, n)
      PROVE  ReloadsOK'
  BY <1>0, <1>4, <1>b, NewFacts, KeepFacts
<1>5. ASSUME NEW r \in Reloaders, UpdateBegin(r)
      PROVE  ReloadsOK'
  <2>1. UNCHANGED <<websites, crossed>> /\ work[r].pc = "update"
    BY <1>5 DEF UpdateBegin
  <2>2. /\ \A s \in Reloaders \ {r} : work'[s] = work[s]
        /\ work'[r].pc = "idle" \/ work'[r].arg = work[r].arg
    BY <1>0, <1>5, <1>a, BeginFacts, RestingFacts
  <2> QED
    BY <1>0, <2>1, <2>2 DEF ReloadsOK
<1>6. ASSUME NEW r \in Reloaders, NEW n \in Names, StopChanged(r, n)
      PROVE  ReloadsOK'
  BY <1>0, <1>6, <1>a, ChangedFacts DEF ReloadsOK
<1>7. ASSUME NEW r \in Reloaders, SwapWebsites(r)
      PROVE  ReloadsOK'
  <2>1. /\ work[r].pc = "idle" /\ \A s \in Reloaders \ {r} : work'[s] = work[s]
        /\ work'[r].pc = "swapped"
        /\ crossed' = (\E s \in Reloaders : work[s].pc # "idle")
    BY <1>0, <1>7, <1>a, SwapFacts
  <2>2. ~crossed' => \A s \in Reloaders \ {r} : work'[s].pc = "idle"
    BY <2>1
  <2> QED
    BY <2>1, <2>2 DEF ReloadsOK
<1>8. ASSUME NEW r \in Reloaders, CallUpdate(r)
      PROVE  ReloadsOK'
  BY <1>0, <1>8, <1>a, CallFacts, RestingFacts DEF ReloadsOK
<1>9. ASSUME NEW i \in Ids, SetPath(i) \/ ReadPath(i) \/ Return(i)
      PROVE  ReloadsOK'
  BY <1>1, <1>9 DEF SetPath, ReadPath, Return, histories
<1> QED
  BY <1>1, <1>2, <1>3, <1>4, <1>5, <1>6, <1>7, <1>8, <1>9, Cases, StillFacts DEF Still

(***************************************************************************)
(* What a reload has done                                                  *)
(***************************************************************************)

\* The steps that change which websites have a tailer, and to what.
LEMMA DomainFacts ==
  ASSUME TypeOK, PlacesOK, MapOK
  PROVE  /\ \A r \in Threads, n \in Names : StartNew(r, n) =>
              DOMAIN current' = DOMAIN current \cup {n} /\ Path(n)' = work[r].arg[n]
         /\ \A r \in Reloaders : UpdateBegin(r) =>
              DOMAIN current' = DOMAIN current \cap DOMAIN work[r].arg
         /\ \A r \in Reloaders, n \in Names : StopChanged(r, n) =>
              DOMAIN current' = DOMAIN current \ {n}
<1>1. ASSUME NEW r \in Threads, NEW n \in Names, StartNew(r, n)
      PROVE  DOMAIN current' = DOMAIN current \cup {n} /\ Path(n)' = work[r].arg[n]
  <2> DEFINE p == work[r].arg[n]
  <2>1. /\ n \in STRING /\ p \in STRING /\ n \notin DOMAIN current /\ StartTailerLocked(n, p)
    BY <1>1, NewFacts
  <2> HIDE DEF p
  <2>2. DOMAIN current' = DOMAIN current \cup {n} /\ tailer'[current'[n]].path = p
    BY <2>1, StartFacts
  <2> QED
    BY <2>2 DEF Path, p
<1>2. ASSUME NEW r \in Reloaders, UpdateBegin(r)
      PROVE  DOMAIN current' = DOMAIN current \cap DOMAIN work[r].arg
  <2> DEFINE gone == DOMAIN current \ DOMAIN work[r].arg
  <2>1. gone \in SUBSET DOMAIN current /\ tailer' = Stopped(gone) /\ current' = Without(gone)
    BY <1>2, StopSteps
  <2> HIDE DEF gone
  <2>2. DOMAIN current' = DOMAIN current \ gone
    BY <2>1, StopFacts
  <2> QED
    BY <2>2 DEF gone
<1>3. ASSUME NEW r \in Reloaders, NEW n \in Names, StopChanged(r, n)
      PROVE  DOMAIN current' = DOMAIN current \ {n}
  BY <1>3, StopSteps, StopFacts
<1> QED
  BY <1>1, <1>2, <1>3

\* No step changes the path of a tailer that stays in the map.
LEMMA PathStep ==
  ASSUME TypeOK, PlacesOK, MapOK, [ManagerNext]_managerVars,
         NEW n \in DOMAIN current, n \in DOMAIN current'
  PROVE  Path(n)' = Path(n)
<1>1. CASE UNCHANGED <<tailer, current>>
  BY <1>1 DEF Path
<1>2. ASSUME NEW r \in Threads, NEW m \in Names, StartNew(r, m)
      PROVE  Path(n)' = Path(n)
  <2>1. \A k \in DOMAIN current :
          current'[k] = current[k] /\ tailer'[current[k]] = tailer[current[k]]
    BY <1>2, NewFacts, StartFacts
  <2> QED
    BY <2>1 DEF Path
<1>3. ASSUME NEW r \in Reloaders, UpdateBegin(r)
      PROVE  Path(n)' = Path(n)
  BY <1>3, StopSteps, StopFacts DEF Path
<1>4. ASSUME NEW r \in Reloaders, NEW m \in Names, StopChanged(r, m)
      PROVE  Path(n)' = Path(n)
  BY <1>4, StopSteps, StopFacts DEF Path
<1>5. ASSUME NEW i \in Ids, SetPath(i) \/ ReadPath(i) \/ Return(i)
      PROVE  Path(n)' = Path(n)
  BY <1>5, TailerFacts DEF Path
<1>6. \/ UNCHANGED <<tailer, current>>
      \/ \E r \in Threads, m \in Names : StartNew(r, m)
      \/ \E r \in Reloaders : UpdateBegin(r)
      \/ \E r \in Reloaders, m \in Names : StopChanged(r, m)
      \/ \E i \in Ids : SetPath(i) \/ ReadPath(i) \/ Return(i)
  BY Cases, StillFacts, StartMainFacts, KeepFacts, SwapFacts, CallFacts DEF Still
<1> QED
  BY <1>1, <1>2, <1>3, <1>4, <1>5, <1>6

\* A reload leaves what it has gone through done.
LEMMA LoopStep == ManagerInv /\ [ManagerNext]_managerVars => LoopOK'
<1> SUFFICES ASSUME ManagerInv, [ManagerNext]_managerVars,
                    NEW s \in Reloaders, work'[s].pc = "each"
             PROVE  /\ DOMAIN current' \subseteq DOMAIN work'[s].arg
                    /\ \A m \in DOMAIN work'[s].arg \ work'[s].todo :
                         m \in DOMAIN current' /\ Path(m)' = work'[s].arg[m]
  BY DEF LoopOK
<1>0. TypeOK /\ PlacesOK /\ MapOK /\ LoopOK
  BY DEF ManagerInv
<1>a. s \in Threads /\ \A r, q \in Threads : work[r].pc = "each" /\ work[q].pc = "each" => r = q
  BY <1>0 DEF PlacesOK, Threads
<1>b. \A m \in DOMAIN current \cap DOMAIN current' : Path(m)' = Path(m)
  BY <1>0, PathStep
<1> DEFINE Goal == /\ DOMAIN current' \subseteq DOMAIN work'[s].arg
                   /\ \A m \in DOMAIN work'[s].arg \ work'[s].todo :
                        m \in DOMAIN current' /\ Path(m)' = work'[s].arg[m]
<1>c. ASSUME work'[s] = work[s], current' = current
      PROVE  Goal
  BY <1>0, <1>b, <1>c DEF LoopOK
<1>1. ASSUME NEW r \in Threads, NEW n \in Names, StartNew(r, n)
      PROVE  Goal
  <2>1. /\ work[r].pc = "each" /\ n \in DOMAIN work[r].arg /\ Done(r, n)
        /\ DOMAIN current' = DOMAIN current \cup {n} /\ Path(n)' = work[r].arg[n]
    BY <1>0, <1>1, NewFacts, DomainFacts
  <2>2. /\ s = r /\ work'[s].arg = work[s].arg /\ work'[s].todo = work[s].todo \ {n}
    BY <1>0, <1>a, <2>1, DoneFacts, RestingFacts
  <2> QED
    BY <1>0, <1>b, <2>1, <2>2 DEF LoopOK
<1>2. ASSUME NEW r \in Threads, NEW n \in Names, KeepOld(r, n)
      PROVE  Goal
  <2>1. /\ work[r].pc = "each" /\ n \in DOMAIN work[r].arg /\ Done(r, n)
        /\ current' = current /\ n \in DOMAIN current /\ (r = "main" \/ Path(n) = work[r].arg[n])
    BY <1>0, <1>2, KeepFacts
  <2>2. /\ s = r /\ work'[s].arg = work[s].arg /\ work'[s].todo = work[s].todo \ {n}
    BY <1>0, <1>a, <2>1, DoneFacts, RestingFacts
  <2>3. Path(n) = work[s].arg[n]
    BY <2>1, <2>2 DEF Reloaders
  <2> QED
    BY <1>0, <1>b, <2>1, <2>2, <2>3 DEF LoopOK
<1>3. ASSUME NEW r \in Reloaders, UpdateBegin(r)
      PROVE  Goal
  <2>1. mu = "free" /\ \A q \in Threads : work[q].pc # "each"
    BY <1>0, <1>3 DEF UpdateBegin, PlacesOK, Threads, Reloaders
  <2>2. s = r /\ work'[r].arg = work[r].arg /\ work'[r].todo = DOMAIN work[r].arg
    BY <1>0, <1>3, <1>a, <2>1, BeginFacts, RestingFacts
  <2>3. DOMAIN current' = DOMAIN current \cap DOMAIN work[r].arg
    BY <1>0, <1>3, DomainFacts
  <2> QED
    BY <2>2, <2>3
<1>4. ASSUME NEW r \in Reloaders, NEW n \in Names, StopChanged(r, n)
      PROVE  Goal
  <2>1. /\ work[r].pc = "each" /\ n \in work[r].todo /\ r \in Threads
        /\ work'[r].arg = work[r].arg /\ work'[r].todo = work[r].todo
        /\ \A q \in Threads \ {r} : work'[q] = work[q]
        /\ DOMAIN current' = DOMAIN current \ {n}
    BY <1>0, <1>4, ChangedFacts, DomainFacts DEF Threads
  <2>2. s = r
    BY <1>a, <2>1
  <2> QED
    BY <1>0, <1>b, <2>1, <2>2 DEF LoopOK
<1>5. ASSUME NEW r \in Reloaders, SwapWebsites(r) \/ CallUpdate(r)
      PROVE  Goal
  <2>1. work'[r].pc # "each" /\ current' = current /\ \A q \in Threads \ {r} : work'[q] = work[q]
    BY <1>0, <1>5, SwapFacts, CallFacts, RestingFacts
  <2> QED
    BY <1>a, <1>c, <2>1
<1>6. ASSUME NEW i \in Ids, SetPath(i) \/ ReadPath(i) \/ Return(i)
      PROVE  Goal
  BY <1>c, <1>6 DEF SetPath, ReadPath, Return
<1>7. ASSUME Start
      PROVE  Goal
  BY <1>0, <1>c, <1>7, StartMainFacts
<1> HIDE DEF Goal
<1>8. Goal
  BY <1>1, <1>2, <1>3, <1>4, <1>5, <1>6, <1>7, <1>c, Cases, StillFacts DEF Still
<1> QED
  BY <1>8 DEF Goal

\* Every step keeps the tailers and the websites in force together.
LEMMA MatchStep == ManagerInv /\ [ManagerNext]_managerVars => MatchOK'
<1> DEFINE Goal ==
      /\ main' \notin Early => Match(websites)'
      /\ work'["main"].pc = "each" =>
           /\ work'["main"].arg = websites'
           /\ DOMAIN websites' \ work'["main"].todo \subseteq DOMAIN current'
      /\ main' \notin Early \cup {"start"} /\ work'["main"].pc = "idle" =>
           DOMAIN websites' \subseteq DOMAIN current'
<1> SUFFICES ASSUME ManagerInv, [ManagerNext]_managerVars, Settled'
             PROVE  Goal
  BY DEF MatchOK
<1>0. TypeOK /\ PlacesOK /\ MapOK /\ ReloadsOK /\ LoopOK /\ MatchOK
  BY DEF ManagerInv
<1>a. /\ "main" \in Threads /\ Reloaders \subseteq Threads /\ "main" \notin Reloaders
      /\ \A r, q \in Threads : work[r].pc = "each" /\ work[q].pc = "each" => r = q
  BY <1>0 DEF PlacesOK, Threads, Reloaders
<1>b. \A m \in DOMAIN current \cap DOMAIN current' : Path(m)' = Path(m)
  BY <1>0, PathStep
<1>c. ASSUME UNCHANGED <<work, current, websites, crossed>>,
             main' \notin Early => main \notin Early,
             main' \notin Early \cup {"start"} => main \notin Early \cup {"start"}
      PROVE  Goal
  BY <1>0, <1>b, <1>c DEF Settled, MatchOK, Match
<1>d. ~crossed' /\ \A r \in Reloaders : work'[r].pc = "idle"
  BY DEF Settled
<1>e. ASSUME NEW r \in Reloaders, work[r].pc = "each", NEW n \in work[r].todo,
             work'[r].pc = "idle", Done(r, n), UNCHANGED <<websites, main, crossed>>,
             DOMAIN current' = DOMAIN current \cup {n}, Path(n)' = work[r].arg[n]
      PROVE  Goal
  <2>1. r \in Threads /\ n \in DOMAIN work[r].arg
    BY <1>0, <1>a, <1>e DEF PlacesOK
  <2>2. work[r].todo \ {n} = {} /\ work'["main"] = work["main"]
    BY <1>0, <1>a, <1>e, <2>1, DoneFacts
  <2>3. work[r].arg = websites /\ work["main"].pc # "each"
    BY <1>0, <1>a, <1>d, <1>e DEF ReloadsOK
  <2>4. /\ DOMAIN current' = DOMAIN websites
        /\ \A m \in DOMAIN current' : Path(m)' = websites[m]
    BY <1>0, <1>b, <1>e, <2>1, <2>2, <2>3 DEF LoopOK
  <2> QED
    BY <1>e, <2>2, <2>3, <2>4 DEF Match
<1>f. ASSUME work["main"].pc = "each", NEW n \in work["main"].todo, Done("main", n),
             UNCHANGED <<websites, main, crossed>>, DOMAIN current' = DOMAIN current \cup {n},
             n \notin DOMAIN current => Path(n)' = work["main"].arg[n]
      PROVE  Goal
  <2>1. main = "starting" /\ n \in DOMAIN work["main"].arg
    BY <1>0, <1>a, <1>f DEF PlacesOK
  <2>2. \A r \in Reloaders : work'[r] = work[r]
    BY <1>0, <1>a, <1>f, DoneFacts
  <2>3. Settled
    BY <1>d, <1>f, <2>2 DEF Settled
  <2>4. /\ Match(websites) /\ work["main"].arg = websites
        /\ DOMAIN websites \ work["main"].todo \subseteq DOMAIN current
    BY <1>0, <1>f, <2>1, <2>3 DEF MatchOK, Early
  <2>5. Match(websites)'
    BY <1>b, <1>f, <2>1, <2>4 DEF Match
  <2>6. \/ work["main"].todo \ {n} = {} /\ work'["main"].pc = "idle"
        \/ /\ work'["main"].pc = "each" /\ work'["main"].arg = websites
           /\ work'["main"].todo = work["main"].todo \ {n}
    BY <1>0, <1>a, <1>f, <2>4, DoneFacts, RestingFacts
  <2> QED
    BY <1>f, <2>4, <2>5, <2>6
<1>1. ASSUME NEW r \in Threads, NEW n \in Names, StartNew(r, n)
      PROVE  Goal
  <2>1. /\ work[r].pc = "each" /\ n \in work[r].todo /\ n \notin DOMAIN current /\ Done(r, n)
        /\ DOMAIN current' = DOMAIN current \cup {n} /\ Path(n)' = work[r].arg[n]
        /\ UNCHANGED <<websites, main, crossed>>
    BY <1>0, <1>1, NewFacts, DomainFacts
  <2> HIDE DEF Goal
  <2> QED
    BY <1>d, <1>e, <1>f, <2>1 DEF Threads
<1>2. ASSUME NEW r \in Threads, NEW n \in Names, KeepOld(r, n)
      PROVE  Goal
  <2>1. /\ work[r].pc = "each" /\ n \in work[r].todo /\ n \in DOMAIN current /\ Done(r, n)
        /\ r = "main" \/ Path(n) = work[r].arg[n]
        /\ UNCHANGED <<websites, main, crossed, current>>
    BY <1>0, <1>2, KeepFacts
  <2>2. DOMAIN current' = DOMAIN current \cup {n} /\ (r = "main" \/ Path(n)' = work[r].arg[n])
    BY <1>b, <2>1
  <2> HIDE DEF Goal
  <2> QED
    BY <1>a, <1>d, <1>e, <1>f, <2>1, <2>2 DEF Threads
<1>3. ASSUME NEW r \in Reloaders, UpdateBegin(r)
      PROVE  Goal
  <2>1. /\ work[r].pc = "update" /\ mu = "free" /\ UNCHANGED <<websites, main, crossed>>
    BY <1>3 DEF UpdateBegin
  <2>2. work[r].arg = None /\ work'["main"] = work["main"]
    BY <1>0, <1>3, <1>a, <1>d, BeginFacts
  <2>3. websites = None /\ work["main"].pc # "each"
    BY <1>0, <1>a, <1>d, <2>1, <2>2 DEF ReloadsOK, PlacesOK
  <2>4. DOMAIN current' = {} /\ DOMAIN websites' = {}
    BY <1>0, <1>3, <2>1, <2>2, <2>3, DomainFacts, ListFacts
  <2> QED
    BY <2>2, <2>3, <2>4 DEF Match
<1>4. ASSUME NEW r \in Reloaders, NEW n \in Names, StopChanged(r, n)
      PROVE  FALSE
  BY <1>0, <1>4, <1>d, ChangedFacts
<1>5. ASSUME NEW r \in Reloaders, SwapWebsites(r)
      PROVE  FALSE
  BY <1>0, <1>5, <1>d, SwapFacts
<1>6. ASSUME NEW r \in Reloaders, CallUpdate(r)
      PROVE  Goal
  <2>1. main \in Early /\ main' = main /\ work'["main"] = work["main"]
    BY <1>0, <1>6, <1>a, <1>d, CallFacts
  <2>2. work["main"].pc # "each"
    BY <1>0, <2>1 DEF PlacesOK, Early
  <2> QED
    BY <2>1, <2>2
<1>7. ASSUME NEW i \in Ids, SetPath(i) \/ ReadPath(i) \/ Return(i)
      PROVE  Goal
  <2>1. /\ UNCHANGED <<work, current, websites, crossed>>
        /\ main' = main \/ (main = "wait" /\ main' = "released")
    BY <1>7 DEF SetPath, ReadPath, Return, histories
  <2> HIDE DEF Goal
  <2> QED
    BY <1>c, <2>1 DEF Early
<1>8. CASE Start
  <2>1. Settled
    BY <1>0, <1>8, <1>d, StartMainFacts DEF Settled
  <2>2. Match(websites) /\ UNCHANGED <<websites, current>>
    BY <1>0, <1>8, <2>1, StartMainFacts DEF MatchOK, Early
  <2>3. Match(websites)'
    BY <1>b, <2>2 DEF Match
  <2>4. work["main"].pc # "each"
    BY <1>0, <1>8, StartMainFacts DEF PlacesOK
  <2> QED
    BY <1>0, <1>8, <2>2, <2>3, <2>4, StartMainFacts, ListFacts
<1>9. CASE Mode \/ Single
  <2>1. main \in Early /\ main' \in Early /\ work' = work
    BY <1>9, StillFacts DEF Early, Still
  <2>2. work["main"].pc # "each"
    BY <1>0, <2>1 DEF PlacesOK, Early
  <2> QED
    BY <2>1, <2>2
<1>10. CASE Create
  <2>1. main = "create" /\ main' = "start" /\ work' = work /\ current' = current
    BY <1>10, StillFacts DEF Still
  <2>2. work["main"].pc # "each" /\ DOMAIN current = {}
    BY <1>0, <2>1 DEF PlacesOK, Early
  <2> QED
    BY <2>1, <2>2 DEF Match
<1>11. CASE Wait \/ Signal \/ CloseSignals \/ UNCHANGED managerVars
  <2>1. UNCHANGED <<work, current, websites, crossed>>
    BY <1>11, StillFacts DEF Still
  <2>2. main' = main \/ main \in {"starting", "released"}
    BY <1>11, StillFacts
  <2> HIDE DEF Goal
  <2> QED
    BY <1>c, <2>1, <2>2 DEF Early
<1>12. ASSUME NEW g \in Receivers, Receive(g)
       PROVE  Goal
  <2>1. UNCHANGED <<work, current, websites, crossed, main>>
    BY <1>12, StillFacts DEF Still
  <2> HIDE DEF Goal
  <2> QED
    BY <1>c, <2>1
<1> HIDE DEF Goal
<1> QED
  BY <1>1, <1>2, <1>3, <1>4, <1>5, <1>6, <1>7, <1>8, <1>9, <1>10, <1>11, <1>12, Cases

(***************************************************************************)
(* Leaving the tailing loop                                                *)
(***************************************************************************)

\* What a reload has kept stays, and what Start has started.
LEMMA NonEmptyStep == ManagerInv /\ [ManagerNext]_managerVars => NonEmptyOK'
<1> DEFINE Goal ==
      /\ \A s \in Reloaders : work'[s].pc = "each" =>
           \E m \in DOMAIN current' : m \in DOMAIN work'[s].arg /\ Path(m)' = work'[s].arg[m]
      /\ main' \notin Early \cup {"start"} /\ work'["main"].pc = "idle" => DOMAIN current' # {}
<1> SUFFICES ASSUME ManagerInv, [ManagerNext]_managerVars, ~emptied'
             PROVE  Goal
  BY DEF NonEmptyOK
<1>0. TypeOK /\ PlacesOK /\ MapOK /\ NonEmptyOK
  BY DEF ManagerInv
<1>a. /\ "main" \in Threads /\ Reloaders \subseteq Threads /\ "main" \notin Reloaders
      /\ \A r, q \in Threads : work[r].pc = "each" /\ work[q].pc = "each" => r = q
  BY <1>0 DEF PlacesOK, Threads, Reloaders
<1>b. \A m \in DOMAIN current \cap DOMAIN current' : Path(m)' = Path(m)
  BY <1>0, PathStep
<1>c. ASSUME UNCHANGED <<work, current, emptied>>,
             main' \notin Early \cup {"start"} => main \notin Early \cup {"start"}
      PROVE  Goal
  BY <1>0, <1>b, <1>c DEF NonEmptyOK
<1>d. ASSUME NEW r \in Threads, work[r].pc = "each", NEW n, Done(r, n), n \in DOMAIN current',
             DOMAIN current \subseteq DOMAIN current', emptied' = emptied
      PROVE  Goal
  <2>1. ASSUME NEW s \in Reloaders, work'[s].pc = "each"
        PROVE  \E m \in DOMAIN current' : m \in DOMAIN work'[s].arg /\ Path(m)' = work'[s].arg[m]
    <3>1. s = r /\ work'[s].arg = work[s].arg
      BY <1>0, <1>a, <1>d, <2>1, DoneFacts, RestingFacts
    <3> QED
      BY <1>0, <1>b, <1>d, <2>1, <3>1 DEF NonEmptyOK
  <2> QED
    BY <1>d, <2>1
<1>1. ASSUME NEW r \in Threads, NEW n \in Names, StartNew(r, n)
      PROVE  Goal
  <2>1. /\ work[r].pc = "each" /\ Done(r, n) /\ DOMAIN current' = DOMAIN current \cup {n}
        /\ emptied' = emptied
    BY <1>0, <1>1, NewFacts, DomainFacts
  <2> HIDE DEF Goal
  <2> QED
    BY <1>d, <2>1
<1>2. ASSUME NEW r \in Threads, NEW n \in Names, KeepOld(r, n)
      PROVE  Goal
  <2>1. /\ work[r].pc = "each" /\ Done(r, n) /\ n \in DOMAIN current
        /\ current' = current /\ emptied' = emptied
    BY <1>0, <1>2, KeepFacts
  <2> HIDE DEF Goal
  <2> QED
    BY <1>d, <2>1
<1>3. ASSUME NEW r \in Reloaders, UpdateBegin(r)
      PROVE  Goal
  <2>1. PICK m \in DOMAIN current : m \in DOMAIN work[r].arg /\ Path(m) = work[r].arg[m]
    BY <1>3 DEF UpdateBegin, Path
  <2>2. /\ DOMAIN current' = DOMAIN current \cap DOMAIN work[r].arg
        /\ mu = "free"
    BY <1>0, <1>3, DomainFacts DEF UpdateBegin
  <2>3. m \in DOMAIN current' /\ Path(m)' = work[r].arg[m]
    BY <1>b, <2>1, <2>2
  <2>4. \A s \in Reloaders : work'[s].pc = "each" => s = r /\ work'[s].arg = work[r].arg
    BY <1>0, <1>3, <1>a, <2>2, BeginFacts, RestingFacts DEF PlacesOK, Threads, Reloaders
  <2> QED
    BY <2>1, <2>3, <2>4
<1>4. ASSUME NEW r \in Reloaders, NEW n \in Names, StopChanged(r, n)
      PROVE  Goal
  <2>1. /\ work[r].pc = "each" /\ work'[r].arg = work[r].arg /\ Path(n) # work[r].arg[n]
        /\ \A q \in Threads \ {r} : work'[q] = work[q]
        /\ DOMAIN current' = DOMAIN current \ {n} /\ emptied' = emptied
    BY <1>0, <1>4, ChangedFacts, DomainFacts
  <2>2. PICK m \in DOMAIN current : m \in DOMAIN work[r].arg /\ Path(m) = work[r].arg[m]
    BY <1>0, <2>1 DEF NonEmptyOK
  <2>3. m \in DOMAIN current' /\ Path(m)' = work[r].arg[m]
    BY <1>b, <2>1, <2>2
  <2>4. \A s \in Reloaders : work'[s].pc = "each" => s = r
    BY <1>a, <2>1
  <2> QED
    BY <2>1, <2>2, <2>3, <2>4
<1>5. ASSUME NEW r \in Reloaders, SwapWebsites(r) \/ CallUpdate(r)
      PROVE  Goal
  <2>1. /\ work'[r].pc # "each" /\ UNCHANGED <<current, main, emptied>>
        /\ \A q \in Threads \ {r} : work'[q] = work[q]
    BY <1>0, <1>5, SwapFacts, CallFacts, RestingFacts
  <2> QED
    BY <1>0, <1>a, <1>b, <2>1 DEF NonEmptyOK
<1>6. ASSUME NEW i \in Ids, SetPath(i) \/ ReadPath(i) \/ Return(i)
      PROVE  Goal
  <2>1. /\ UNCHANGED <<work, current, emptied>>
        /\ main' = main \/ (main = "wait" /\ main' = "released")
    BY <1>6 DEF SetPath, ReadPath, Return, histories
  <2> HIDE DEF Goal
  <2> QED
    BY <1>c, <2>1 DEF Early
<1>7. CASE Start
  <2>1. /\ work'["main"].pc = "each" /\ current' = current /\ emptied' = emptied
        /\ \A s \in Reloaders : work'[s] = work[s]
    BY <1>0, <1>7, StartMainFacts
  <2> QED
    BY <1>0, <1>b, <2>1 DEF NonEmptyOK
<1>8. CASE \/ Mode \/ Single \/ Create \/ Wait
           \/ Signal \/ CloseSignals \/ UNCHANGED managerVars
  <2>1. UNCHANGED <<work, current, emptied>>
    BY <1>8, StillFacts DEF Still
  <2>2. \/ main' = main \/ main \in {"starting", "released"}
        \/ main' \in Early \cup {"start"}
    BY <1>8, StillFacts DEF Early
  <2> HIDE DEF Goal
  <2> QED
    BY <1>c, <2>1, <2>2 DEF Early
<1>9. ASSUME NEW g \in Receivers, Receive(g)
      PROVE  Goal
  <2>1. UNCHANGED <<work, current, emptied, main>>
    BY <1>9, StillFacts DEF Still
  <2> HIDE DEF Goal
  <2> QED
    BY <1>c, <2>1
<1> HIDE DEF Goal
<1> QED
  BY <1>1, <1>2, <1>3, <1>4, <1>5, <1>6, <1>7, <1>8, <1>9, Cases

\* What lets the process end stays so: nothing reopens m.stopCh or forgets a reload.
LEMMA ReasonsStay ==
  ASSUME TypeOK, PlacesOK, MapOK, [ManagerNext]_managerVars, stopCh \/ exitOnEOF \/ emptied
  PROVE  stopCh' \/ exitOnEOF' \/ emptied'
<1>1. \A r \in Reloaders : UpdateBegin(r) => /\ UNCHANGED <<exitOnEOF, stopCh>>
                                             /\ emptied => emptied'
  BY DEF UpdateBegin, signalVars
<1>2. \A i \in Ids : SetPath(i) \/ ReadPath(i) \/ Return(i) =>
                       UNCHANGED <<exitOnEOF, stopCh, emptied>>
  BY DEF SetPath, ReadPath, Return, signalVars, histories
<1>3. \A r \in Threads, n \in Names : StartNew(r, n) \/ KeepOld(r, n) =>
                                        UNCHANGED <<exitOnEOF, stopCh, emptied>>
  BY DEF StartNew, KeepOld, signalVars, histories
<1>4. \A r \in Reloaders : SwapWebsites(r) \/ CallUpdate(r) =>
                             UNCHANGED <<exitOnEOF, stopCh, emptied>>
  BY DEF SwapWebsites, CallUpdate, signalVars, histories
<1>5. \A r \in Reloaders, n \in Names : StopChanged(r, n) =>
                                          UNCHANGED <<exitOnEOF, stopCh, emptied>>
  BY DEF StopChanged, signalVars, histories
<1>6. Start => UNCHANGED <<exitOnEOF, stopCh>> /\ (emptied => emptied')
  BY DEF Start, signalVars
<1> QED
  BY <1>1, <1>2, <1>3, <1>4, <1>5, <1>6, Cases, StillFacts DEF Still

\* The main goroutine leaves the loop in Return and Wait only, and not while a tailer of the
\* map runs.
LEMMA StaysUpStep == ManagerInv /\ [ManagerNext]_managerVars => StaysUp'
<1> SUFFICES ASSUME ManagerInv, [ManagerNext]_managerVars
             PROVE  StaysUp'
  OBVIOUS
<1>0. TypeOK /\ PlacesOK /\ MapOK /\ RunningOK /\ NonEmptyOK /\ StaysUp
  BY DEF ManagerInv
<1> DEFINE Left == {"released", "shutdown", "panic"}
<1>1. CASE main \in Left
  BY <1>0, <1>1, ReasonsStay DEF StaysUp
<1>2. CASE main' \notin Left
  BY <1>2 DEF StaysUp
<1>3. CASE main \notin Left /\ main' \in Left
  <2>1. \/ \E i \in Ids : Return(i)
        \/ Wait
    <3>1. \A r \in Reloaders : UpdateBegin(r) => main' = main
      BY DEF UpdateBegin
    <3>2. \A i \in Ids : SetPath(i) \/ ReadPath(i) => main' = main
      BY DEF SetPath, ReadPath
    <3> QED
      BY <1>0, <1>3, <3>1, <3>2, Cases, StillFacts, StartMainFacts, NewFacts, KeepFacts,
         SwapFacts, CallFacts, ChangedFacts
  <2> SUFFICES ASSUME ~stopCh, ~exitOnEOF, ~emptied
               PROVE  FALSE
    BY <1>0, ReasonsStay DEF StaysUp
  <2>a. \A n \in DOMAIN current : current[n] \in Live /\ ~tailer[current[n]].stop
    BY <1>0 DEF RunningOK
  <2>2. ASSUME NEW i \in Ids, Return(i)
        PROVE  FALSE
    <3>1. main = "wait" /\ Live = {i} /\ tailer[i].stop
      BY <1>3, <2>2 DEF Return
    <3>2. work["main"].pc = "idle"
      BY <1>0, <3>1 DEF PlacesOK
    <3>3. PICK n \in DOMAIN current : TRUE
      BY <1>0, <3>1, <3>2 DEF NonEmptyOK, Early
    <3> QED
      BY <2>a, <3>1, <3>3
  <2>3. CASE Wait
    <3>1. main = "starting" /\ work["main"].pc = "idle" /\ Live = {}
      BY <1>3, <2>3, StillFacts
    <3>2. PICK n \in DOMAIN current : TRUE
      BY <1>0, <3>1 DEF NonEmptyOK, Early
    <3> QED
      BY <2>a, <3>1, <3>2
  <2> QED
    BY <2>1, <2>2, <2>3
<1> QED
  BY <1>1, <1>2, <1>3

(***************************************************************************)
(* The theorems                                                            *)
(***************************************************************************)

\* The invariant holds in every state of every run of the process.
THEOREM Invariance == ManagerSpec => []ManagerInv
<1>1. ManagerInv /\ [ManagerNext]_managerVars => ManagerInv'
  BY TypeStep, PlacesStep, MapStep, ReloadsStep, LoopStep, MatchStep, RunningStep, NonEmptyStep,
     CaptureStep, StaysUpStep DEF ManagerInv
<1> QED
  BY InitHolds, <1>1, PTL DEF ManagerSpec

\* UpdateWebsites leaves no tailer behind, whatever the reloads: a tailer that was not told
\* to stop is in the manager's map and, once no reload is under way and none went side by
\* side, the tailers are exactly those of p.Websites, with their paths.
THEOREM NoTailerIsLost == ManagerSpec => []TailersMatch
<1>1. ManagerInv => TailersMatch
  <2> SUFFICES ASSUME ManagerInv
               PROVE  TailersMatch
    OBVIOUS
  <2>0. PlacesOK /\ MapOK /\ MatchOK
    BY DEF ManagerInv
  <2>1. \A i \in Live : ~tailer[i].stop => i \in Range(current)
    BY <2>0 DEF MapOK
  <2>2. ASSUME main = "wait", ~crossed, \A r \in Reloaders : work[r].pc = "idle"
        PROVE  /\ DOMAIN current = DOMAIN websites
               /\ \A n \in DOMAIN current :
                    /\ tailer[current[n]].name = n
                    /\ tailer[current[n]].path = websites[n]
    <3>1. work["main"].pc = "idle"
      BY <2>0, <2>2 DEF PlacesOK
    <3>2. Match(websites) /\ DOMAIN websites \subseteq DOMAIN current
      BY <2>0, <2>2, <3>1 DEF MatchOK, Settled, Early
    <3> QED
      BY <2>0, <3>2 DEF Match, MapOK, Path
  <2> QED
    BY <2>1, <2>2 DEF TailersMatch
<1> QED
  BY Invariance, <1>1, PTL

\* Wait does not return, and the process does not leave the tailing loop, before the manager
\* got a signal, the files end with --exit-on-eof, or a reload kept none of the websites.
THEOREM ProcessStaysUp == ManagerSpec => []StaysUp
<1>1. ManagerInv => StaysUp
  BY DEF ManagerInv
<1> QED
  BY Invariance, <1>1, PTL

\* LiveLogTailer captures a file together with the website whose it is: the tailer's own
\* pair, or that of one that was started while it was starting.
THEOREM PairsAreCaptured == ManagerSpec => CapturedTogether
<1> DEFINE Captures ==
      \A i \in Ids :
        tailer[i].pc = "read" /\ tailer'[i].pc = "tail" =>
          tailer'[i].got \in {<<tailer[i].path, tailer[i].name>>} \cup tailer[i].rivals
<1>1. ManagerInv /\ [ManagerNext]_managerVars => [Captures]_managerVars
  <2> SUFFICES ASSUME ManagerInv, [ManagerNext]_managerVars, NEW i \in Ids,
                      tailer[i].pc = "read", tailer'[i].pc = "tail"
               PROVE  tailer'[i].got \in {<<tailer[i].path, tailer[i].name>>} \cup tailer[i].rivals
    OBVIOUS
  <2>0. TypeOK /\ PlacesOK /\ MapOK /\ CaptureOK /\ tailer \in [Ids -> Tailers]
    BY DEF ManagerInv, TypeOK
  <2>a. \A t \in Tailers : [t EXCEPT !.stop = TRUE].pc = t.pc
    BY DEF Tailers
  <2>b. tailer'[i] # tailer[i] /\ tailer[i] \in Tailers /\ Off.pc = "off"
    BY <2>0 DEF Off
  <2>1. ASSUME NEW j \in Ids, ReadPath(j)
        PROVE  tailer'[i].got = shared
    <3>1. j = i
      BY <2>0, <2>1, <2>b DEF ReadPath
    <3>2. tailer' = [tailer EXCEPT ![i] =
                       [tailer[i] EXCEPT !.pc = "tail", !.rivals = {}, !.got = shared]]
      BY <2>1, <3>1 DEF ReadPath
    <3>3. [tailer[i] EXCEPT !.pc = "tail", !.rivals = {}, !.got = shared].got = shared
      BY <2>b DEF Tailers
    <3> QED
      BY <2>0, <3>2, <3>3
  <2>2. ASSUME NEW j \in Ids, SetPath(j) \/ Return(j)
        PROVE  FALSE
    <3>1. CASE SetPath(j)
      BY <2>0, <2>b, <3>1 DEF SetPath, Tailers
    <3>2. CASE Return(j)
      BY <2>0, <2>b, <3>2 DEF Return, Tailers
    <3> QED
      BY <2>2, <3>1, <3>2
  <2>3. ASSUME NEW r \in Threads, NEW n \in Names, StartNew(r, n)
        PROVE  FALSE
    <3>1. \A j \in Ids : tailer'[j] = tailer[j] \/ tailer'[j].pc = "set"
      BY <2>0, <2>3, NewFacts, StartFacts
    <3> QED
      BY <2>b, <3>1
  <2>4. ASSUME NEW r \in Reloaders, UpdateBegin(r)
        PROVE  FALSE
    <3>1. tailer'[i] \in {tailer[i], Off, [tailer[i] EXCEPT !.stop = TRUE]}
      BY <2>0, <2>4, StopSteps, StopFacts
    <3> QED
      BY <2>a, <2>b, <3>1
  <2>5. ASSUME NEW r \in Reloaders, NEW n \in Names, StopChanged(r, n)
        PROVE  FALSE
    <3>1. tailer'[i] \in {tailer[i], Off, [tailer[i] EXCEPT !.stop = TRUE]}
      BY <2>0, <2>5, StopSteps, StopFacts
    <3> QED
      BY <2>a, <2>b, <3>1
  <2>6. \E j \in Ids : ReadPath(j)
    BY <2>0, <2>b, <2>2, <2>3, <2>4, <2>5, Cases, StillFacts, StartMainFacts, KeepFacts,
       SwapFacts, CallFacts DEF Still
  <2> QED
    BY <2>0, <2>1, <2>6 DEF CaptureOK
<1> QED
  BY Invariance, <1>1, PTL DEF ManagerSpec, CapturedTogether
=============================================================================
