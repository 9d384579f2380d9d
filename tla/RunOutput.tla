------------------------------ MODULE RunOutput ------------------------------
(***************************************************************************)
(* What a controller does with the output of its runs and with their       *)
(* directories (controller.py, run_info.py, attach.py).                    *)
(*                                                                         *)
(* The queue worker gives each run it starts a directory of the table      *)
(* rundirs.  The run's reader thread appends every line to console.txt in  *)
(* that directory, keeps the last lines, and sends them to the clients     *)
(* that are attached; when the process ends it sends the exit message and  *)
(* returns the directory.  Clients attach and detach from RPC threads of   *)
(* their own.  "xt restart controller" kills the runs, and the worker,     *)
(* once it is idle, empties the tables and starts over: what a reader of   *)
(* the session before still does then, it does to the tables and files of  *)
(* the new session.                                                        *)
(*                                                                         *)
(* The queue, the wrapup and the cancel requests are in RunControl.        *)
(***************************************************************************)
EXTENDS Integers, Sequences, SequencesExt, FiniteSets

CONSTANTS
  Runs,         \* the runs the node is given
  Clients,      \* the clients that may attach
  Concurrent,   \* the controller's --concurrent
  MaxRecent,    \* RunInfo.max_recent (10 in the code)
  MaxRestarts,  \* bound: restarts of the controller in any workload
  Workloads     \* bounds: records of the runs and clients that take part, the
                \* lines a run prints, restarts, and directories that fail to
                \* be cleaned

Free == "free"   \* an unused directory of the table; None in the code

ASSUME OutputAssumption ==
  /\ Concurrent \in Nat \ {0} /\ MaxRecent \in Nat \ {0} /\ MaxRestarts \in Nat
  /\ IsFiniteSet(Runs) /\ Free \notin Runs
  /\ Workloads \subseteq [runs : SUBSET Runs, clients : SUBSET Clients,
                          lines : Nat, restarts : 0..MaxRestarts, faults : Nat]

VARIABLES
  load,      \* the workload; its restarts and faults count down
  session,   \* how often reset_state has run
  restart,   \* self.restarting, and where restart_controller is
  worker,    \* the queue worker: pc, its run, the directory it was given
             \* first and the one it is about to clean
  rundirs,   \* self.rundirs: rundirs[n] is the user of "rundir<n>"
  console,   \* the lines in console.txt of each directory
  run,       \* the RunInfo of each run in each session: status, process,
             \* killing, and killed_for_restart
  printed,   \* the lines its process printed
  dir,       \* the directory it uses
  reader,    \* its reader thread: pc, the text it handles, the index of the
             \* next callback and how many there were when it began
  read,      \* the lines the reader has read
  recent,    \* recent_output
  callbacks, acallbacks,   \* the attached clients, as RunInfo lists them
  ended,     \* runs marked completed, which no later session is given
  client,    \* the attach command of each client
  late,      \* history: a session began while a reader of the one before
             \* was still at work
  leaked,    \* history: directories that could not be cleaned
  blur,      \* history: texts handled while the client attached or another one
             \* detached; Exit, too, when it was sent before the recent lines
  crossed    \* history: clients that attached while callbacks and acallbacks
             \* differed, or another one did while they attached

controllerVars == <<load, session, restart, worker, rundirs, ended>>
runVars == <<run, printed, dir>>
readerVars == <<reader, read, recent, console>>
listVars == <<callbacks, acallbacks>>
historyVars == <<late, leaked, blur, crossed>>
vars == <<controllerVars, runVars, readerVars, listVars, client, historyVars>>

Exit == 0           \* APP_EXIT_MSG; a line is its number
Sessions == 1..(MaxRestarts + 1)
Infos == Runs \X Sessions
NoInfo == <<Free, 0>>
Dirs == 1..(2 * Cardinality(Runs))   \* a run of a session is given two at most
Current(r) == <<r, session>>

Init ==
  /\ load \in Workloads
  /\ session = 1 /\ restart = "no" /\ late = FALSE /\ leaked = {}
  /\ worker = [pc |-> "idle", run |-> Free, dir |-> 0, clean |-> 0]
  /\ rundirs = <<>> /\ console = [d \in Dirs |-> <<>>] /\ ended = {}
  /\ run = [i \in Infos |-> [status |-> "queued", process |-> "none", killing |-> FALSE,
                             preempted |-> FALSE]]
  /\ reader = [i \in Infos |-> [pc |-> "none", text |-> 0, i |-> 0, n |-> 0]]
  /\ printed = [i \in Infos |-> 0] /\ read = [i \in Infos |-> 0] /\ dir = [i \in Infos |-> 0]
  /\ recent = [i \in Infos |-> <<>>]
  /\ callbacks = [i \in Infos |-> <<>>] /\ acallbacks = [i \in Infos |-> <<>>]
  /\ client = [c \in Clients |-> [pc |-> "out", to |-> NoInfo, got |-> <<>>,
                                  running |-> TRUE]]
  /\ blur = [c \in Clients |-> {}] /\ crossed = {}

Running(i) == run[i].status = "running"
OfSession == {Current(r) : r \in load.runs}

----------------------------------------------------------------------------
\* The queue worker.

\* process_top_of_queue: the next run of this session, when fewer than
\* Concurrent are running.
Pop(r) ==
  /\ worker.pc = "idle" /\ run[Current(r)].status = "queued" /\ r \notin ended
  /\ restart = "no"
  /\ Cardinality({i \in OfSession : Running(i)}) < Concurrent
  /\ run' = [run EXCEPT ![Current(r)].status = "running"]
  /\ worker' = [worker EXCEPT !.pc = "allocate", !.run = r]
  /\ UNCHANGED <<load, session, restart, rundirs, ended, printed, dir, readerVars, listVars,
                 client, historyVars>>

\* The name a run is given: the first that is free, or a new one.
FreeName == IF \E d \in 1..Len(rundirs) : rundirs[d] = Free
            THEN CHOOSE d \in 1..Len(rundirs) :
                   rundirs[d] = Free /\ \A e \in 1..(d - 1) : rundirs[e] # Free
            ELSE Len(rundirs) + 1

\* The table with directory d given to user u.
Given(d, u) == IF d <= Len(rundirs) THEN [rundirs EXCEPT ![d] = u]
                                    ELSE Append(rundirs, u)

\* allocate_rundir, under rundir_lock.  The path the caller gets is the one of
\* the first call; the result of the second is dropped.
AllocateName ==
  /\ worker.pc \in {"allocate", "again"}
  /\ rundirs' = Given(FreeName, worker.run)
  /\ worker' = IF worker.pc = "allocate"
               THEN [worker EXCEPT !.pc = "clean", !.dir = FreeName, !.clean = FreeName]
               ELSE [worker EXCEPT !.pc = "clean again", !.clean = FreeName]
  /\ UNCHANGED <<load, session, restart, ended, runVars, readerVars, listVars, client, historyVars>>

\* ensure_dir_clean, without the lock.
Clean ==
  /\ worker.pc \in {"clean", "clean again"}
  /\ console' = [console EXCEPT ![worker.clean] = <<>>]
  /\ worker' = [worker EXCEPT !.pc = "launch"]
  /\ UNCHANGED <<load, session, restart, rundirs, ended, runVars, reader, read, recent, listVars,
                 client, historyVars>>

\* A file of the directory is in use: one more try with another directory.
\* (A second failure ends the controller.)
CleanFails ==
  /\ worker.pc = "clean" /\ load.faults > 0
  /\ load' = [load EXCEPT !.faults = @ - 1]
  /\ worker' = [worker EXCEPT !.pc = "again"]
  /\ leaked' = leaked \cup {worker.dir}
  /\ UNCHANGED <<session, restart, rundirs, ended, runVars, readerVars, listVars, client,
                 late, blur, crossed>>

\* start_local_run_core: console.txt is removed, the process started, and its
\* reader.
Launch ==
  LET i == Current(worker.run) IN
  /\ worker.pc = "launch"
  /\ run' = [run EXCEPT ![i].process = "live", ![i].status = "running"]
  /\ dir' = [dir EXCEPT ![i] = worker.dir]
  /\ reader' = [reader EXCEPT ![i].pc = "read"]
  /\ console' = [console EXCEPT ![worker.dir] = <<>>]
  /\ leaked' = IF worker.clean = worker.dir THEN leaked
               ELSE (leaked \ {worker.dir}) \cup {worker.clean}
  /\ worker' = [pc |-> "idle", run |-> Free, dir |-> 0, clean |-> 0]
  /\ UNCHANGED <<load, session, restart, rundirs, ended, printed, read, recent, listVars, client,
                 late, blur, crossed>>

\* on_idle of a controller that is to restart: reset_state.
Reset ==
  /\ worker.pc = "idle" /\ restart = "wait" /\ ~ \E i \in OfSession : Running(i)
  /\ session' = session + 1 /\ rundirs' = <<>> /\ restart' = "no" /\ leaked' = {}
  /\ late' = (late \/ \E i \in OfSession : reader[i].pc \notin {"none", "done"})
  /\ UNCHANGED <<load, worker, ended, runVars, readerVars, listVars, client, blur, crossed>>

QueueWorker == (\E r \in load.runs : Pop(r)) \/ AllocateName \/ Clean \/ CleanFails
               \/ Launch \/ Reset

----------------------------------------------------------------------------
\* The user's process, and the requests that end it.

ProcessPrints(i) ==
  /\ run[i].process = "live" /\ printed[i] < load.lines
  /\ printed' = [printed EXCEPT ![i] = @ + 1]
  /\ UNCHANGED <<controllerVars, run, dir, readerVars, listVars, client, historyVars>>

ProcessEnds(i) ==
  /\ run[i].process = "live"
  /\ run' = [run EXCEPT ![i].process = "gone"]
  /\ UNCHANGED <<controllerVars, printed, dir, readerVars, listVars, client, historyVars>>

\* exposed_restart_controller
RestartRequest ==
  /\ load.restarts > 0 /\ restart = "no"
  /\ load' = [load EXCEPT !.restarts = @ - 1] /\ restart' = "kill"
  /\ UNCHANGED <<session, worker, rundirs, ended, runVars, readerVars, listVars, client,
                 historyVars>>

\* cancel_all(for_restart=True): the runs one at a time; killing is set before
\* the process is gone, and the status is no longer "running".  The reader
\* does what is left.
RestartKill(i) ==
  /\ restart = "kill" /\ i \in OfSession /\ Running(i)
  /\ run' = [run EXCEPT ![i] =
               [status |-> "over", preempted |-> TRUE, killing |-> (run[i].process = "live"),
                process |-> IF run[i].process = "none" THEN "none" ELSE "gone"]]
  /\ UNCHANGED <<controllerVars, printed, dir, readerVars, listVars, client, historyVars>>

RestartKilled ==
  /\ restart = "kill" /\ ~ \E i \in OfSession : Running(i)
  /\ restart' = "wait"
  /\ UNCHANGED <<load, session, worker, rundirs, ended, runVars, readerVars, listVars, client,
                 historyVars>>

----------------------------------------------------------------------------
\* The reader thread of a run.

ToReader(i, label) == reader' = [reader EXCEPT ![i].pc = label]

\* update_recent_output: the line that overflows the list drops the oldest
\* MaxRecent lines of it, all but itself.
Recent(lines, line) ==
  IF Len(lines) < MaxRecent THEN Append(lines, line) ELSE <<line>>

\* process_run_output: the first two things it does with a text.
Record(i, line) ==
  /\ reader' = [reader EXCEPT ![i] = [pc |-> "loop", text |-> line, i |-> 0, n |-> 0]]
  /\ recent' = [recent EXCEPT ![i] = Recent(@, line)]
  /\ console' = [console EXCEPT ![dir[i]] = Append(@, <<i, line>>)]
  /\ blur' = [c \in Clients |-> IF client[c].pc = "hook" /\ client[c].to = i
                                THEN blur[c] \cup {line} ELSE blur[c]]

\* read_from_pipe: a line of the pipe, unless the run is being killed.
ReadLine(i) ==
  /\ reader[i].pc = "read" /\ ~run[i].killing /\ read[i] < printed[i]
  /\ read' = [read EXCEPT ![i] = @ + 1]
  /\ Record(i, read[i] + 1)
  /\ UNCHANGED <<controllerVars, runVars, listVars, client, late, leaked, crossed>>

\* for i in range(len(self.acallbacks)): the length is taken once.
LoopStart(i) ==
  /\ reader[i].pc = "loop"
  /\ reader' = [reader EXCEPT ![i].pc = "send", ![i].i = 1, ![i].n = Len(acallbacks[i])]
  /\ UNCHANGED <<controllerVars, runVars, read, recent, console, listVars, client, historyVars>>

\* The client's console_callback.
Received(c, lines) ==
  [client[c] EXCEPT !.got = client[c].got \o lines,
                    !.running = client[c].running /\ (lines = <<>> \/ lines[1] # Exit)]

\* One callback; an index past the end is caught and logged.
Send(i) ==
  LET c == acallbacks[i][reader[i].i] IN
  /\ reader[i].pc = "send" /\ reader[i].i <= reader[i].n
  /\ client' = IF reader[i].i \in DOMAIN acallbacks[i]
               THEN [client EXCEPT ![c] = Received(c, <<reader[i].text>>)]
               ELSE client
  /\ reader' = [reader EXCEPT ![i].i = @ + 1]
  /\ UNCHANGED <<controllerVars, runVars, read, recent, console, listVars, historyVars>>

LoopEnd(i) ==
  /\ reader[i].pc = "send" /\ reader[i].i > reader[i].n
  /\ reader' = [reader EXCEPT ![i] = [pc |-> IF reader[i].text = Exit THEN "return" ELSE "read",
                                      text |-> 0, i |-> 0, n |-> 0]]
  /\ UNCHANGED <<controllerVars, runVars, read, recent, console, listVars, client, historyVars>>

\* The end of the pipe, or of a run that is being killed: run_wrapup waits for
\* the process and sets the status; a run killed for a restart is not logged
\* as ended.  Then the exit message is sent like a line.
Wrapup(i) ==
  /\ reader[i].pc = "read" /\ run[i].process = "gone"
  /\ run[i].killing \/ read[i] = printed[i]
  /\ ToReader(i, "exit")
  /\ run' = [run EXCEPT ![i].status = "over"]
  /\ ended' = IF run[i].preempted THEN ended ELSE ended \cup {i[1]}
  /\ UNCHANGED <<load, session, restart, worker, rundirs, printed, dir, read, recent, console,
                 listVars, client, historyVars>>

\* Mutant: no exit message for a run that was killed for a restart.
SendExitIfEnded(i) ==
  /\ reader[i].pc = "exit"
  /\ IF run[i].preempted
     THEN ToReader(i, "return") /\ UNCHANGED <<recent, console, blur>>
     ELSE Record(i, Exit)
  /\ UNCHANGED <<controllerVars, runVars, read, listVars, client, late, leaked, crossed>>

SendExit(i) ==
  /\ reader[i].pc = "exit"
  /\ Record(i, Exit)
  /\ UNCHANGED <<controllerVars, runVars, read, listVars, client, late, leaked, crossed>>

\* Mutant: the directory of a killed run is not returned.
ReturnDirIfEnded(i) ==
  /\ reader[i].pc = "return"
  /\ rundirs' = IF dir[i] \in DOMAIN rundirs /\ ~run[i].preempted
                THEN Given(dir[i], Free) ELSE rundirs
  /\ ToReader(i, "done") /\ dir' = [dir EXCEPT ![i] = 0]
  /\ UNCHANGED <<load, session, restart, worker, ended, run, printed, read, recent, console,
                 listVars, client, historyVars>>

\* return_rundir: the name is tested because the table may be the one of a
\* later session.
ReturnDir(i) ==
  /\ reader[i].pc = "return"
  /\ rundirs' = IF dir[i] \in DOMAIN rundirs THEN Given(dir[i], Free) ELSE rundirs
  /\ ToReader(i, "done") /\ dir' = [dir EXCEPT ![i] = 0]
  /\ UNCHANGED <<load, session, restart, worker, ended, run, printed, read, recent, console,
                 listVars, client, historyVars>>

Reader(i) == ReadLine(i) \/ LoopStart(i) \/ Send(i) \/ LoopEnd(i) \/ Wrapup(i)
             \/ SendExit(i) \/ ReturnDir(i)

----------------------------------------------------------------------------
\* The clients: xt attach.

\* exposed_attach: only a running run.
Attach(c, r) ==
  /\ c \in load.clients /\ client[c].pc = "out" /\ Running(Current(r))
  /\ client' = [client EXCEPT ![c].pc = "snapshot", ![c].to = Current(r)]
  /\ UNCHANGED <<controllerVars, runVars, readerVars, listVars, historyVars>>

Attaching(c) == client[c].pc = "hook"
Handling(i) == reader[i].pc \in {"loop", "send"}

\* RunInfo.attach: the callback is listed, the recent lines are sent ...
Snapshot(c) ==
  LET i == client[c].to
      others == {d \in Clients \ {c} : Attaching(d) /\ client[d].to = i} IN
  /\ client[c].pc = "snapshot"
  /\ callbacks' = [callbacks EXCEPT ![i] = Append(@, c)]
  /\ client' = [client EXCEPT ![c] = [Received(c, recent[i]) EXCEPT !.pc = "hook"]]
  /\ blur' = [blur EXCEPT ![c] = IF Handling(i) THEN {reader[i].text}
                                 ELSE IF reader[i].pc \in {"return", "done"} THEN {Exit}
                                 ELSE {}]
  /\ crossed' = IF callbacks[i] = acallbacks[i] THEN crossed
                ELSE crossed \cup others \cup {c}
  /\ UNCHANGED <<controllerVars, runVars, readerVars, acallbacks, late, leaked>>

\* Mutant: the last recent line is sent again when the callback is listed.
HookSendsAgain(c) ==
  LET i == client[c].to
      again == IF recent[i] = <<>> THEN <<>> ELSE <<Last(recent[i])>> IN
  /\ client[c].pc = "hook"
  /\ acallbacks' = [acallbacks EXCEPT ![i] = Append(@, c)]
  /\ client' = [client EXCEPT ![c] = [Received(c, again) EXCEPT !.pc = "attached"]]
  /\ UNCHANGED <<controllerVars, runVars, readerVars, callbacks, historyVars>>

\* ... and the asynchronous callback is listed, under the lock.
Hook(c) ==
  /\ client[c].pc = "hook"
  /\ acallbacks' = [acallbacks EXCEPT ![client[c].to] = Append(@, c)]
  /\ client' = [client EXCEPT ![c].pc = "attached"]
  /\ UNCHANGED <<controllerVars, runVars, readerVars, callbacks, historyVars>>

\* The list of callbacks without the one at place k, if there is one.
Without(list, k) == IF k \in DOMAIN list THEN RemoveAt(list, k) ELSE list

\* Mutant: detach takes the callback that was listed last.
LastPlace(i, c) == Len(callbacks[i])

\* The place of a client's callback.
Place(i, c) == CHOOSE k \in DOMAIN callbacks[i] : callbacks[i][k] = c

\* RunInfo.detach, called by exposed_detach when the loop of the attach command
\* ends: the user leaves or the exit message has come.  The place in callbacks
\* is used for both lists.  A run of an earlier session is not found, and the
\* call fails.
Detach(c) ==
  LET i == client[c].to IN
  /\ client[c].pc = "attached"
  /\ IF i[2] = session
     THEN /\ callbacks' = [callbacks EXCEPT ![i] = Without(@, Place(i, c))]
          /\ acallbacks' = [acallbacks EXCEPT ![i] = Without(@, Place(i, c))]
     ELSE UNCHANGED listVars
  /\ blur' = IF i[2] = session /\ reader[i].pc = "send"
             THEN [d \in Clients |-> IF client[d].to = i THEN blur[d] \cup {reader[i].text}
                                                        ELSE blur[d]]
             ELSE blur
  /\ client' = [client EXCEPT ![c].pc = "left"]
  /\ UNCHANGED <<controllerVars, runVars, readerVars, late, leaked, crossed>>

Serve(c) == Snapshot(c) \/ Hook(c) \/ (~client[c].running /\ Detach(c))

----------------------------------------------------------------------------
Next ==
  \/ QueueWorker \/ RestartRequest \/ RestartKilled
  \/ \E i \in Infos : ProcessPrints(i) \/ ProcessEnds(i) \/ RestartKill(i) \/ Reader(i)
  \/ \E c \in Clients : Snapshot(c) \/ Hook(c) \/ Detach(c)
                        \/ \E r \in load.runs : Attach(c, r)

\* The threads of the controller run; a run ends some day.  Nobody need attach,
\* leave or restart, and a directory may always be cleaned.
Spec ==
  /\ Init /\ [][Next]_vars
  /\ WF_vars(QueueWorker)
  /\ \A i \in Infos : WF_vars(Reader(i)) /\ WF_vars(ProcessEnds(i))
                      /\ WF_vars(RestartKill(i))
  /\ WF_vars(RestartKilled)
  /\ \A c \in Clients : WF_vars(Serve(c))

----------------------------------------------------------------------------
\* Properties.

TypeOK ==
  /\ load \in [runs : SUBSET Runs, clients : SUBSET Clients, lines : Nat, restarts : Nat,
              faults : Nat]
  /\ session \in Sessions /\ restart \in {"no", "kill", "wait"}
  /\ worker \in [pc : {"idle", "allocate", "clean", "again", "clean again", "launch"},
                 run : {Free} \cup Runs, dir : {0} \cup Dirs, clean : {0} \cup Dirs]
  /\ rundirs \in Seq({Free} \cup Runs) /\ DOMAIN rundirs \subseteq Dirs
  /\ console \in [Dirs -> Seq(Infos \X Nat)]
  /\ run \in [Infos -> [status : {"queued", "running", "over"},
                         process : {"none", "live", "gone"},
                         killing : BOOLEAN, preempted : BOOLEAN]]
  /\ reader \in [Infos -> [pc : {"none", "read", "loop", "send", "exit", "return", "done"},
                           text : Nat, i : Nat, n : Nat]]
  /\ printed \in [Infos -> Nat] /\ read \in [Infos -> Nat] /\ dir \in [Infos -> {0} \cup Dirs]
  /\ recent \in [Infos -> Seq(Nat)] /\ ended \subseteq Runs
  /\ callbacks \in [Infos -> Seq(Clients)] /\ acallbacks \in [Infos -> Seq(Clients)]
  /\ client \in [Clients -> [pc : {"out", "snapshot", "hook", "attached", "left"},
                             to : {NoInfo} \cup Infos, got : Seq(Nat), running : BOOLEAN]]
  /\ late \in BOOLEAN /\ leaked \subseteq Dirs
  /\ blur \in [Clients -> SUBSET Nat] /\ crossed \subseteq Clients

Live(i) == reader[i].pc \notin {"none", "done"}

\* No two runs use one directory, from the allocation to the return, and none
\* is cleaned under a run: unless a reader of the session before a restart was
\* still at work when the new session began (allocate_rundir, return_rundir).
OneRunPerDir ==
  late \/ /\ \A i, j \in Infos : Live(i) /\ Live(j) /\ i # j => dir[i] # dir[j]
          /\ \A i \in Infos : Live(i) => dir[i] \notin {worker.dir, worker.clean}

\* A directory that is marked as used is used by that run, or the worker is
\* about to, or it was lost when it could not be cleaned: none is kept for a
\* run that is over, whichever way it ended.
MarkedDirsAreUsed ==
  \A d \in DOMAIN rundirs :
    \/ rundirs[d] = Free \/ d \in leaked
    \/ d \in {worker.dir, worker.clean} /\ rundirs[d] = worker.run
    \/ Live(Current(rundirs[d])) /\ dir[Current(rundirs[d])] = d

\* A directory has one user, who returns it.
DirsInOrder == TypeOK /\ OneRunPerDir /\ MarkedDirsAreUsed

\* When a run returns its directory, console.txt holds every line it printed,
\* in order, the exit message, and nothing of another run; of a killed run, the
\* lines that were read before.
ConsoleIsComplete ==
  \A i \in Infos : (reader[i].pc = "return" /\ ~late) =>
    /\ console[dir[i]] =
         Append([k \in 1..read[i] |-> <<i, k>>], <<i, Exit>>)
    /\ ~run[i].killing => read[i] = printed[i]

\* A client whose attach did not overlap with another's gets the lines in
\* order, each of them once from the first on; a line it misses or gets twice
\* was being handled while it attached, or while another client detached.
LinesComeOnce ==
  \A c \in Clients \ crossed :
    LET got == client[c].got
        clear == {j \in DOMAIN got : got[j] \notin blur[c]}
        seen == IF got = <<>> \/ got[1] = Exit THEN {} ELSE got[1]..read[client[c].to] IN
    /\ \A j, k \in clear : j < k => (got[j] < got[k] \/ got[k] = Exit) /\ got[j] # Exit
    /\ (client[c].pc = "attached" /\ reader[client[c].to].pc \in {"read", "exit"})
         => seen \ blur[c] \subseteq Range(got)

\* What a run prints reaches its console file and the clients that attached.
OutputIsComplete == ConsoleIsComplete /\ LinesComeOnce

\* Detach takes the callback of its own client, and nothing is sent to a client
\* that has left, unless it attached while the two lists of callbacks differed:
\* attach adds to them at different moments, detach takes from both at one place,
\* so that overlapping attaches may leave them in different orders for good.
DetachIsOwn ==
  [][\A c \in Clients \ crossed, i \in Infos :
       /\ (client[c].pc = "attached" /\ client'[c].pc = "attached")
            => (c \in Range(acallbacks[i]) => c \in Range(acallbacks[i])')
       /\ (client[c].pc = "left" /\ client[c].to[2] = session) => client'[c].got = client[c].got]_vars

\* The loop of an attach command ends with the run, also when the controller
\* restarts, unless the exit message was sent while the client attached, or
\* attaches overlapped.
AttachEnds ==
  \A c \in Clients :
    (client[c].pc = "attached") ~> (client[c].pc = "left" \/ c \in crossed \/ Exit \in blur[c])

=============================================================================
