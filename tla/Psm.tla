-------------------------------- MODULE Psm --------------------------------
(***************************************************************************)
(* The pool service manager of one box: the queue directory, the server    *)
(* psm.py that takes entries out of it and runs them one at a time, the xt *)
(* commands that (re)start the server and put entries into the directory,  *)
(* and the commands that monitor and cancel an entry.  A client of the box *)
(* itself works on its files (LocalPsmClient), the others over SSH         *)
(* (RemotePsmClient).                                                      *)
(***************************************************************************)
EXTENDS Naturals, FiniteSets

CONSTANTS Entries,     \* the entries submitted to the box, one command each
          Local,       \* those submitted on the box itself
          Ticks,       \* the time in an entry's name, by its client's clock
          Version,     \* the psm.py each entry's client brings along
          NoEntry,
          MaxOps,      \* bound: monitor and cancel commands
          Overlap      \* whether a command may start while another is at work

ASSUME EntriesFinite == IsFiniteSet(Entries) /\ NoEntry \notin Entries
ASSUME LocalEntries == Local \subseteq Entries
ASSUME TicksOfEntries == Ticks \in [Entries -> Nat]
ASSUME VersionsPositive == Version \in [Entries -> Nat \ {0}]
ASSUME BoundsAreNaturals == MaxOps \in Nat /\ Overlap \in BOOLEAN

VARIABLES file,      \* file[e]: e's file in the queue directory
          client,    \* client[e]: where the command that submits e is
          server,    \* server[e]: the server that e's command started, if any
          cwd,       \* the controller's directory: psm.py, zip, current entry
          remotePsm, \* the version of psm.py above that directory, 0 if none
          job,       \* job[e]: the processes started for e
          unread,    \* unread[e]: whether e's log has text not yet shown
          user,      \* the monitor or cancel command under way
          ops,       \* how many such commands there were
          told,      \* the entries a monitor command saw completed
          cancelled, \* the entries a cancel command reported cancelled
          lost,      \* the entries dropped by a killed server or a bad zip
          died       \* whether a server ended with an exception

vars == <<file, client, server, cwd, remotePsm, job, unread, user, ops, told,
          cancelled, lost, died>>
command == <<user, ops, told, cancelled>>

IsLocal(e) == e \in Local
Down == [pc |-> "down", entry |-> NoEntry]
NoZip == [entry |-> NoEntry, whole |-> FALSE]
NoUser == [op |-> "none", pc |-> "idle", entry |-> NoEntry]
EmptyCwd == [psm |-> 0, zip |-> NoZip, current |-> NoEntry]

Init ==
  /\ file = [e \in Entries |-> "none"]
  /\ client = [e \in Entries |-> "idle"]
  /\ server = [e \in Entries |-> Down]
  /\ cwd = EmptyCwd
  /\ remotePsm = 0
  /\ job = [e \in Entries |-> "none"]
  /\ unread = [e \in Entries |-> FALSE]
  /\ user = NoUser /\ ops = 0 /\ told = {} /\ cancelled = {}
  /\ lost = {} /\ died = FALSE

-----------------------------------------------------------------------------
(* What the process table and the directories show *)

\* A server shows in the process table once its python process runs.
Running == {s \in Entries : server[s].pc \notin {"down", "starting"}}
\* The server lists *.zip; the copy of a local client has that name at once.
Visible(e) == file[e] = "zip" \/ (file[e] = "partial" /\ IsLocal(e))
Controllers == {e \in Entries : job[e] = "controller"}
Wrappers == {e \in Entries : job[e] \in {"setup", "controller", "closing"}}

\* Calls of the same box are spaced out unless Overlap.
MayStart == Overlap \/ /\ \A e \in Entries : client[e] \in {"idle", "done", "failed"}
                       /\ \A s \in Entries : server[s].pc # "starting"

-----------------------------------------------------------------------------
(* The command that submits an entry: run_job_on_box *)

\* restart_psm_if_needed: the psm.py of a local client lies in the directory
\* that the server empties, a remote client's one level above.
Installed(e) == IF IsLocal(e) THEN cwd.psm ELSE remotePsm

ClientCheck(e) ==
  /\ client[e] = "idle" /\ MayStart
  /\ client' = [client EXCEPT ![e] =
       IF Running = {} THEN "start"
       ELSE IF Installed(e) = Version[e] THEN "put" ELSE "kill"]
  /\ UNCHANGED <<file, server, cwd, remotePsm, job, unread, command, lost, died>>

\* The entry a server holds is nowhere else once it is out of the queue.
HeldOnly(s) == IF server[s].pc \in {"unzip", "write", "spawn"}
               THEN {server[s].entry} ELSE {}

\* Mutant: the server is killed and not started again.
ClientKillOnly(e) ==
  /\ client[e] = "kill"
  /\ \E s \in Running : server' = [server EXCEPT ![s] = Down] /\ lost' = lost \cup HeldOnly(s)
  /\ client' = [client EXCEPT ![e] = "put"]
  /\ UNCHANGED <<file, cwd, remotePsm, job, unread, command, died>>

ClientKill(e) ==
  /\ client[e] = "kill"
  /\ \/ \E s \in Running :
          /\ server' = [server EXCEPT ![s] = Down]
          /\ lost' = lost \cup HeldOnly(s)
          /\ client' = [client EXCEPT ![e] = "start"]
     \/ /\ Running = {}
        /\ client' = [client EXCEPT ![e] = IF IsLocal(e) THEN "failed" ELSE "start"]
        /\ UNCHANGED <<server, lost>>
  /\ UNCHANGED <<file, cwd, remotePsm, job, unread, command, died>>

ClientStart(e) ==
  /\ client[e] = "start"
  /\ IF IsLocal(e)
     THEN cwd' = [cwd EXCEPT !.psm = Version[e]] /\ UNCHANGED remotePsm
     ELSE remotePsm' = Version[e] /\ UNCHANGED cwd
  /\ server' = [server EXCEPT ![e] = [Down EXCEPT !.pc = "starting"]]
  /\ client' = [client EXCEPT ![e] = IF IsLocal(e) THEN "put" ELSE "await"]
  /\ UNCHANGED <<file, job, unread, command, lost, died>>

\* Only a remote client waits until the server shows.
ClientAwait(e) ==
  /\ client[e] = "await" /\ Running # {}
  /\ client' = [client EXCEPT ![e] = "put"]
  /\ UNCHANGED <<file, server, cwd, remotePsm, job, unread, command, lost, died>>

\* enqueue: the file is copied, by a remote client as .tmp and then renamed.
ClientPut(e) ==
  /\ client[e] = "put"
  /\ file' = [file EXCEPT ![e] = "partial"]
  /\ client' = [client EXCEPT ![e] = "putting"]
  /\ UNCHANGED <<server, cwd, remotePsm, job, unread, command, lost, died>>

\* Mutant: the end of the copy makes the file, whatever became of its start.
ClientPutDoneAnew(e) ==
  /\ client[e] = "putting"
  /\ file' = [file EXCEPT ![e] = "zip"]
  /\ client' = [client EXCEPT ![e] = "done"]
  /\ UNCHANGED <<server, cwd, remotePsm, job, unread, command, lost, died>>

ClientPutDone(e) ==
  /\ client[e] = "putting"
  /\ file' = [file EXCEPT ![e] = IF @ = "partial" THEN "zip" ELSE @]
  /\ client' = [client EXCEPT ![e] = "done"]
  /\ UNCHANGED <<server, cwd, remotePsm, job, unread, command, lost, died>>

Client(e) == \/ ClientKill(e) \/ ClientStart(e) \/ ClientAwait(e)
              \/ ClientPut(e) \/ ClientPutDone(e)

-----------------------------------------------------------------------------
(* The server: the loop of main and start_entry *)

At(s, pc) == server[s].pc = pc
Goto(s, pc) == server' = [server EXCEPT ![s].pc = pc]
\* An exception outside the try statement of start_entry ends the server.
Dies(s) == server' = [server EXCEPT ![s] = Down] /\ died' = TRUE

ServerUp(s) ==
  /\ At(s, "starting") /\ Goto(s, "list")
  /\ UNCHANGED <<file, client, cwd, remotePsm, job, unread, command, lost, died>>

Oldest == {e \in Entries : Visible(e) /\ \A f \in Entries : Visible(f) => Ticks[e] <= Ticks[f]}

ServerList(s) ==
  /\ At(s, "list")
  /\ \E e \in Oldest : server' = [server EXCEPT ![s] = [pc |-> "count", entry |-> e]]
  /\ UNCHANGED <<file, client, cwd, remotePsm, job, unread, command, lost, died>>

\* Mutant: only controllers are counted, as happens on Windows, where the
\* wrapped script runs in cmd.exe and not in bash.
ServerCountControllers(s) ==
  /\ At(s, "count") /\ Goto(s, IF Controllers = {} THEN "zap" ELSE "list")
  /\ UNCHANGED <<file, client, cwd, remotePsm, job, unread, command, lost, died>>

ServerCount(s) ==
  /\ At(s, "count")
  /\ Goto(s, IF Controllers \cup Wrappers = {} THEN "zap" ELSE "list")
  /\ UNCHANGED <<file, client, cwd, remotePsm, job, unread, command, lost, died>>

ServerZap(s) ==
  /\ At(s, "zap") /\ Goto(s, "copy")
  /\ cwd' = EmptyCwd
  /\ UNCHANGED <<file, client, remotePsm, job, unread, command, lost, died>>

ServerCopy(s) ==
  /\ At(s, "copy")
  /\ LET e == server[s].entry IN
     \/ /\ file[e] = "none"
        /\ Dies(s) /\ UNCHANGED cwd
     \/ /\ file[e] # "none"
        /\ cwd' = [cwd EXCEPT !.zip = [entry |-> e, whole |-> file[e] = "zip"]]
        /\ Goto(s, "remove") /\ UNCHANGED died
  /\ UNCHANGED <<file, client, remotePsm, job, unread, command, lost>>

\* Mutant: a file that is gone is not an error.
ServerRemoveIfThere(s) ==
  /\ At(s, "remove") /\ Goto(s, "unzip")
  /\ file' = [file EXCEPT ![server[s].entry] = "none"]
  /\ UNCHANGED <<client, cwd, remotePsm, job, unread, command, lost, died>>

ServerRemove(s) ==
  /\ At(s, "remove")
  /\ LET e == server[s].entry IN
     \/ /\ file[e] = "none"
        /\ Dies(s) /\ UNCHANGED file
     \/ /\ file[e] # "none"
        /\ file' = [file EXCEPT ![e] = "none"]
        /\ Goto(s, "unzip") /\ UNCHANGED died
  /\ UNCHANGED <<client, cwd, remotePsm, job, unread, command, lost>>

\* A failing unzip is logged and the entry skipped.
ServerUnzip(s) ==
  /\ At(s, "unzip")
  /\ IF cwd.zip.whole
     THEN Goto(s, "write") /\ UNCHANGED lost
     ELSE Goto(s, "list") /\ lost' = lost \cup {server[s].entry}
  /\ UNCHANGED <<file, client, cwd, remotePsm, job, unread, command, died>>

ServerWrite(s) ==
  /\ At(s, "write") /\ Goto(s, "spawn")
  /\ cwd' = [cwd EXCEPT !.current = server[s].entry]
  /\ UNCHANGED <<file, client, remotePsm, job, unread, command, lost, died>>

ServerSpawn(s) ==
  /\ At(s, "spawn") /\ Goto(s, "list")
  /\ job' = [job EXCEPT ![server[s].entry] = "setup"]
  /\ UNCHANGED <<file, client, cwd, remotePsm, unread, command, lost, died>>

Server(s) ==
  \/ ServerUp(s) \/ ServerList(s) \/ ServerCount(s) \/ ServerZap(s) \/ ServerCopy(s)
  \/ ServerRemove(s) \/ ServerUnzip(s) \/ ServerWrite(s) \/ ServerSpawn(s)

-----------------------------------------------------------------------------
(* The wrapped script of an entry: setup commands, then the controller *)

JobStep(e) ==
  /\ \/ job[e] = "setup" /\ job' = [job EXCEPT ![e] = "controller"]
     \/ job[e] \in {"setup", "controller"} /\ job' = [job EXCEPT ![e] = "closing"]
     \/ job[e] = "closing" /\ job' = [job EXCEPT ![e] = "ended"]
  /\ UNCHANGED <<file, client, server, cwd, remotePsm, unread, command, lost, died>>

JobOutput(e) ==
  /\ e \in Wrappers /\ ~unread[e]
  /\ unread' = [unread EXCEPT ![e] = TRUE]
  /\ UNCHANGED <<file, client, server, cwd, remotePsm, job, command, lost, died>>

-----------------------------------------------------------------------------
(* The monitor and cancel commands *)

rest == <<file, client, server, cwd, remotePsm, job, unread, lost, died>>
UserAt(pc) == user.pc = pc
UserGoto(pc) == user' = [user EXCEPT !.pc = pc]

UserStart(e, op) ==
  /\ UserAt("idle") /\ ops < MaxOps /\ client[e] = "done"
  /\ user' = [op |-> op, pc |-> IF op = "monitor" THEN "read" ELSE "status", entry |-> e]
  /\ ops' = ops + 1
  /\ UNCHANGED <<told, cancelled, rest>>

\* read_log_file: the status is asked for only when there is no new text.
MonitorRead ==
  /\ UserAt("read")
  /\ IF unread[user.entry]
     THEN unread' = [unread EXCEPT ![user.entry] = FALSE] /\ UNCHANGED user
     ELSE UserGoto("status") /\ UNCHANGED unread
  /\ UNCHANGED <<ops, told, cancelled, file, client, server, cwd, remotePsm, job, lost, died>>

\* A status ends the monitor if completed; a cancel goes on if it is not.
Answer(status) ==
  LET completed == status = "completed" IN
  IF user.op = "monitor"
  THEN /\ user' = IF completed THEN NoUser ELSE [user EXCEPT !.pc = "read"]
       /\ told' = IF completed THEN told \cup {user.entry} ELSE told
  ELSE /\ user' = IF completed THEN NoUser ELSE [user EXCEPT !.pc = "exists"]
       /\ UNCHANGED told

StatusQueue ==
  /\ UserAt("status")
  /\ IF Visible(user.entry) THEN Answer("queued") ELSE UserGoto("current") /\ UNCHANGED told
  /\ UNCHANGED <<ops, cancelled, rest>>

StatusCurrent ==
  /\ UserAt("current")
  /\ IF cwd.current = user.entry THEN UserGoto("processes") /\ UNCHANGED told
     ELSE Answer("completed")
  /\ UNCHANGED <<ops, cancelled, rest>>

\* Only a remote client looks for the wrapped script as well.
StatusProcesses ==
  /\ UserAt("processes")
  /\ Answer(IF Controllers # {} \/ (~IsLocal(user.entry) /\ Wrappers # {})
            THEN "running" ELSE "completed")
  /\ UNCHANGED <<ops, cancelled, rest>>

\* A remote client looks for the remote path on its own machine.
CancelExists ==
  /\ UserAt("exists")
  /\ UserGoto(IF IsLocal(user.entry) /\ Visible(user.entry) THEN "unqueue" ELSE "isCurrent")
  /\ UNCHANGED <<ops, told, cancelled, rest>>

CancelUnqueue ==
  /\ UserAt("unqueue")
  /\ IF file[user.entry] = "none" THEN UNCHANGED <<file, cancelled>>   \* the command fails
     ELSE /\ file' = [file EXCEPT ![user.entry] = "none"]
          /\ cancelled' = cancelled \cup {user.entry}
  /\ user' = NoUser
  /\ UNCHANGED <<ops, told, client, server, cwd, remotePsm, job, unread, lost, died>>

CancelCurrent ==
  /\ UserAt("isCurrent")
  /\ IF cwd.current = user.entry THEN UserGoto("kill") ELSE user' = NoUser
  /\ UNCHANGED <<ops, told, cancelled, rest>>

CancelKill ==
  /\ UserAt("kill") /\ user' = NoUser
  /\ \/ Controllers = {} /\ UNCHANGED <<job, cancelled>>
     \/ \E c \in Controllers : /\ job' = [job EXCEPT ![c] = "closing"]
                               /\ cancelled' = cancelled \cup {user.entry}
  /\ UNCHANGED <<ops, told, file, client, server, cwd, remotePsm, unread, lost, died>>

User == \/ MonitorRead \/ StatusQueue \/ StatusCurrent \/ StatusProcesses
        \/ CancelExists \/ CancelUnqueue \/ CancelCurrent \/ CancelKill

-----------------------------------------------------------------------------
Next == \/ \E e \in Entries : \/ ClientCheck(e) \/ Client(e) \/ Server(e) \/ JobStep(e) \/ JobOutput(e)
                              \/ \E op \in {"monitor", "cancel"} : UserStart(e, op)
        \/ User

\* Programs that were started go on; a user need not start a command, and a
\* script need not print anything.
Fairness == /\ WF_vars(User)
            /\ WF_vars(\E e \in Entries : Client(e))
            /\ WF_vars(\E e \in Entries : Server(e))
            /\ WF_vars(\E e \in Entries : JobStep(e))

Spec == Init /\ [][Next]_vars /\ Fairness

-----------------------------------------------------------------------------
\* Every variable has its type, and a server at work holds an entry.
TypeOK ==
  /\ file \in [Entries -> {"none", "partial", "zip"}]
  /\ client \in [Entries -> {"idle", "kill", "start", "await", "put", "putting", "done", "failed"}]
  /\ \A s \in Entries : \/ server[s].pc \in {"down", "starting"} /\ server[s].entry = NoEntry
                        \/ /\ server[s].pc \in {"list", "count", "zap", "copy", "remove",
                                                "unzip", "write", "spawn"}
                           /\ server[s].entry \in Entries \cup {NoEntry}
                           /\ server[s].pc # "list" => server[s].entry \in Entries
  /\ cwd.psm \in Nat /\ remotePsm \in Nat
  /\ cwd.zip \in [entry : Entries \cup {NoEntry}, whole : BOOLEAN]
  /\ cwd.current \in Entries \cup {NoEntry}
  /\ job \in [Entries -> {"none", "setup", "controller", "closing", "ended"}]
  /\ unread \in [Entries -> BOOLEAN]
  /\ user.pc \in {"idle", "read", "status", "current", "processes", "exists", "unqueue",
                  "isCurrent", "kill"}
  /\ ops \in 0..MaxOps /\ told \subseteq Entries /\ cancelled \subseteq Entries
  /\ lost \subseteq Entries /\ died \in BOOLEAN

\* The box runs one entry at a time, whatever servers are killed and started
\* in between (the process counts of psm.py main).
OneEntryAtATime == Cardinality(Wrappers) <= 1

\* An entry that a cancel command reported as cancelled is not executing and
\* never will (cancel of both clients against start_entry).
CancelledStaysOver ==
  [][/\ \A e \in cancelled : job'[e] = job[e] \/ job'[e] = "ended"
     /\ \A e \in cancelled' : job'[e] \in {"none", "closing", "ended"}]_vars

\* An entry is in one place: in the queue, in the hands of one server, lost,
\* or started; in particular none is started twice.
OnePlace ==
  \A e \in Entries :
    /\ job[e] # "none" => file[e] = "none" /\ e \notin lost
    /\ \A s \in Running : e \in HeldOnly(s) => /\ job[e] = "none" /\ file[e] = "none"
                                              /\ \A t \in Running \ {s} : e \notin HeldOnly(t)

\* The queue and its servers are in order.
QueueInOrder == TypeOK /\ OnePlace

\* In the end every entry is started that was not cancelled, dropped by a
\* killed server or as an incomplete zip, unless a server has ended with an
\* exception: nothing else makes the loop of psm.py miss one.
EntriesAreStarted ==
  <>[](\A e \in Entries :
         client[e] = "done" => job[e] # "none" \/ e \in cancelled \cup lost \/ died)

\* CHANGELOG.md:82, "bug fix: when monitoring a POOL job, we sometimes think
\* job is completed when it is not": completed means that it has ended.  It does
\* not hold of the code (README, "What does not hold"), and no run lists it.
CompletedMeansEnded ==
  \A e \in told : job[e] = "ended" \/ e \in cancelled \cup lost

=============================================================================
