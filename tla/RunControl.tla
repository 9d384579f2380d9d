----------------------------- MODULE RunControl ------------------------------
(***************************************************************************)
(* The life of the runs inside one XT controller (controller.py and        *)
(* run_info.py), from the queue to the wrapup.                             *)
(*                                                                         *)
(* Four kinds of threads work on the same RunInfo objects:                 *)
(*   - the queue worker starts runs: the first run of the node, or, when   *)
(*     that run is a parent, its children;                                 *)
(*   - one reader thread per started process, which wraps the run up when  *)
(*     the process ends;                                                   *)
(*   - RPC threads that cancel runs;                                       *)
(*   - RPC threads that ask for the status of a run.                       *)
(* An action is what one thread does between two points where another may  *)
(* see a difference.  The queue, the table of runs and the run's lock are  *)
(* used as in the code; the reader thread and the status threads test and  *)
(* use run_info.process without the run's lock.                            *)
(***************************************************************************)
EXTENDS Integers, FiniteSets, SequencesExt

CONSTANTS
  IsParent,         \* the first run's search style is not "single"
  HasParentScript,  \* the parent run has a script to prepare the node
  Settings          \* what the controller is given, and the bounds: child runs
                    \* of the node, --concurrent, cancel requests, whether
                    \* clients ask for the status of runs, whether exceptions
                    \* may end the worker while it starts a run, and whether
                    \* the timing is as the code counts on (see Settled)

ASSUME FlagAssumption == IsParent \in BOOLEAN /\ HasParentScript \in BOOLEAN
ASSUME SettingsAssumption ==
  /\ Settings # {} /\ IsFiniteSet(Settings)
  /\ Settings \subseteq [children : Nat, concurrent : Nat \ {0}, cancels : Nat,
                         requests : BOOLEAN, faults : BOOLEAN, timely : BOOLEAN]

First == 0
Children == UNION {1 .. s.children : s \in Settings}
Runs == {First} \cup Children
NoRun == -1

VARIABLES
  setting,     \* the controller's, one of Settings
  \* XTController
  queue,       \* self.queue
  table,       \* self.runs
  life,        \* the controller process: "up", "exited" or "crashed"
  spawned,     \* children taken from active_runs so far
  marked,      \* children whose entry is marked completed
  \* RunInfo
  status, handle, killing, exitCode, lock,
  \* the operating system
  proc,        \* the run's process: "none", "alive" or "dead"
  \* the queue worker
  wpc, wrun,
  \* the reader threads
  rpc,
  \* the cancel thread
  xpc, xkind, xlist, xrun, xcount,
  \* the status thread
  spc, srun,
  \* history
  wrapups      \* the status each wrapup of a run logged

controllerVars == <<queue, table, life, spawned, marked>>
runVars == <<status, handle, killing, exitCode, lock>>
workerVars == <<wpc, wrun>>
cancelVars == <<xpc, xkind, xlist, xrun, xcount>>
statusVars == <<spc, srun>>
vars == <<setting, controllerVars, runVars, proc, workerVars, rpc, cancelVars,
          statusVars, wrapups>>

Finals == {"completed", "error", "cancelled"}
Statuses == {"none", "queued", "spawning", "running", "dying"} \cup Finals

RunningRuns == {r \in table : status[r] = "running"}

Init ==
  /\ setting \in Settings
  /\ queue = <<First>>
  /\ table = {First}
  /\ life = "up"
  /\ spawned = 0
  /\ marked = {}
  /\ status = [r \in Runs |-> IF r = First THEN "queued" ELSE "none"]
  /\ handle = [r \in Runs |-> FALSE]
  /\ killing = [r \in Runs |-> FALSE]
  /\ exitCode = [r \in Runs |-> 0]
  /\ lock = [r \in Runs |-> "free"]
  /\ proc = [r \in Runs |-> "none"]
  /\ wpc = "check" /\ wrun = NoRun
  /\ rpc = [r \in Runs |-> "none"]
  /\ xpc = "off" /\ xkind = "all" /\ xlist = {} /\ xrun = NoRun /\ xcount = 0
  /\ spc = "off" /\ srun = NoRun
  /\ wrapups = [r \in Runs |-> <<>>]

\* The timing that the controller counts on.  Settled: while runs are running,
\* no process ends and no end is noted between the start of a run and the check
\* for idle that follows.  WrapupsOver: two seconds of on_shutdown are enough
\* for the wrapups under way.
Settled ==
  \/ life # "up" \/ RunningRuns = {}
  \/ wpc \notin {"setProcess", "startReader", "requeue", "idle"}
WrapupsOver ==
  \A r \in Runs : rpc[r] \in {"none", "done", "failing"} \/ proc[r] = "alive"

SetStatusTo(r, s) == status' = [status EXCEPT ![r] = s]

\* set_status
FinalStatus(r) ==
  IF killing[r] THEN "cancelled"
  ELSE IF exitCode[r] # 0 THEN "error" ELSE "completed"

\* run_wrapup logs the run's end with the status it has at that moment.
LogWrapup(r) == wrapups' = [wrapups EXCEPT ![r] = Append(@, status[r])]

(***************************************************************************)
(* The queue worker                                                        *)
(***************************************************************************)
ToWorker(label, r) == wpc' = label /\ wrun' = r

\* Mutant: one run too many is started.
WorkerPopOneMore ==
  /\ wpc = "check"
  /\ queue # <<>> /\ Cardinality(RunningRuns) <= setting.concurrent
  /\ LET r == Head(queue)
         asParent == IsParent /\ ~HasParentScript
     IN /\ SetStatusTo(r, IF asParent THEN "spawning" ELSE "running")
        /\ ToWorker(IF asParent THEN "claim" ELSE "launch", r)
  /\ queue' = Tail(queue)
  /\ UNCHANGED <<table, life, spawned, marked, handle, killing, exitCode,
                 lock, proc, rpc, cancelVars, statusVars, wrapups>>

\* process_top_of_queue
WorkerPop ==
  /\ wpc = "check"
  /\ queue # <<>> /\ Cardinality(RunningRuns) < setting.concurrent
  /\ LET r == Head(queue)
         asParent == IsParent /\ ~HasParentScript
     IN /\ SetStatusTo(r, IF asParent THEN "spawning" ELSE "running")
        /\ ToWorker(IF asParent THEN "claim" ELSE "launch", r)
  /\ queue' = Tail(queue)
  /\ UNCHANGED <<table, life, spawned, marked, handle, killing, exitCode,
                 lock, proc, rpc, cancelVars, statusVars, wrapups>>

\* With the timing the code counts on, nothing happens between such a check and
\* the idle check, which finds a running run and sends the worker back.
WorkerNoPop ==
  /\ wpc = "check"
  /\ setting.timely => RunningRuns = {}
  /\ queue = <<>> \/ Cardinality(RunningRuns) >= setting.concurrent
  /\ ToWorker("idle", NoRun)
  /\ UNCHANGED <<controllerVars, runVars, proc, rpc, cancelVars, statusVars, wrapups>>

\* get_next_child_run: the next child, or none.
WorkerClaim ==
  /\ wpc = "claim"
  /\ IF spawned < setting.children
     THEN spawned' = spawned + 1 /\ ToWorker("spawn", spawned + 1)
     ELSE UNCHANGED spawned /\ ToWorker("parentEnd", First)
  /\ UNCHANGED <<queue, table, life, marked, runVars, proc, rpc, cancelVars,
                 statusVars, wrapups>>

\* spawn_child makes the child's RunInfo, add_to_runs enters it in the table.
WorkerSpawn ==
  /\ wpc = "spawn"
  /\ SetStatusTo(wrun, "running")
  /\ table' = table \cup {wrun}
  /\ ToWorker("launch", wrun)
  /\ UNCHANGED <<queue, life, spawned, marked, handle, killing, exitCode,
                 lock, proc, rpc, cancelVars, statusVars, wrapups>>

\* A parent with a script is started like a run, but with an empty cmd_parts,
\* whose first part start_local_run_core takes for the name of the script.
CannotLaunch(r) == r = First /\ IsParent /\ HasParentScript

\* start_local_run up to Popen: downloads, run script, process.
WorkerLaunch ==
  /\ wpc = "launch"
  /\ ~CannotLaunch(wrun)
  /\ proc' = [proc EXCEPT ![wrun] = "alive"]
  /\ ToWorker("setProcess", wrun)
  /\ UNCHANGED <<controllerVars, runVars, rpc, cancelVars, statusVars, wrapups>>

\* Where the worker's calls to MongoDB, to the store or to the system may fail.
FailPoints(r) ==
  IF CannotLaunch(r) THEN {"launch"}
  ELSE IF setting.faults THEN {"claim", "spawn", "launch", "requeue"} ELSE {}

\* An exception of MongoDB, of the store or of the launch reaches
\* bg_queue_worker, which sleeps a minute ...
WorkerFails ==
  /\ wpc \in FailPoints(wrun)
  /\ ToWorker("failing", wrun)
  /\ UNCHANGED <<controllerVars, runVars, proc, rpc, cancelVars, statusVars,
                 wrapups>>

\* ... and ends the controller, whatever the other threads are doing.
WorkerExits ==
  /\ wpc = "failing"
  /\ life' = "crashed"
  /\ ToWorker("stopped", wrun)
  /\ UNCHANGED <<queue, table, spawned, marked, runVars, proc, rpc, cancelVars,
                 statusVars, wrapups>>

\* set_process, under the run's lock.
WorkerSetProcess ==
  /\ wpc = "setProcess"
  /\ lock[wrun] = "free"
  /\ handle' = [handle EXCEPT ![wrun] = TRUE]
  /\ SetStatusTo(wrun, "running")
  /\ ToWorker("startReader", wrun)
  /\ UNCHANGED <<controllerVars, killing, exitCode, lock, proc, rpc,
                 cancelVars, statusVars, wrapups>>

WorkerStartReader ==
  /\ wpc = "startReader"
  /\ rpc' = [rpc EXCEPT ![wrun] = "reading"]
  /\ IF wrun \in Children THEN ToWorker("requeue", First) ELSE ToWorker("idle", NoRun)
  /\ UNCHANGED <<controllerVars, runVars, proc, cancelVars, statusVars, wrapups>>

\* Mutant: the parent gets its status back but not its place in the queue.
WorkerRequeueForgets ==
  /\ wpc = "requeue"
  /\ SetStatusTo(First, "queued")
  /\ ToWorker("idle", NoRun)
  /\ UNCHANGED <<queue, table, life, spawned, marked, handle, killing, exitCode,
                 lock, proc, rpc, cancelVars, statusVars, wrapups>>

\* The parent goes back into the queue, whatever became of it meanwhile.
WorkerRequeue ==
  /\ wpc = "requeue"
  /\ queue' = Append(queue, First)
  /\ SetStatusTo(First, "queued")
  /\ ToWorker("idle", NoRun)
  /\ UNCHANGED <<table, life, spawned, marked, handle, killing, exitCode,
                 lock, proc, rpc, cancelVars, statusVars, wrapups>>

\* No child is left: the worker wraps the parent up under the run's lock.
WorkerParentEnd ==
  /\ wpc = "parentEnd"
  /\ lock[First] = "free"
  /\ lock' = [lock EXCEPT ![First] = "worker"]
  /\ SetStatusTo(First, "completed")
  /\ ToWorker("parentWrapup", First)
  /\ UNCHANGED <<controllerVars, handle, killing, exitCode, proc, rpc,
                 cancelVars, statusVars, wrapups>>

WorkerParentWrapup ==
  /\ wpc = "parentWrapup"
  /\ LogWrapup(First)
  /\ lock' = [lock EXCEPT ![First] = "free"]
  /\ ToWorker("idle", NoRun)
  /\ UNCHANGED <<controllerVars, status, handle, killing, exitCode, proc,
                 rpc, cancelVars, statusVars>>

\* Mutant: the controller is idle when its queue is empty.
WorkerIdleByQueue ==
  /\ wpc = "idle"
  /\ IF queue = <<>>
     THEN life' = "exited" /\ ToWorker("stopped", NoRun)
     ELSE UNCHANGED life /\ ToWorker("check", NoRun)
  /\ UNCHANGED <<queue, table, spawned, marked, runVars, proc, rpc, cancelVars,
                 statusVars, wrapups>>

\* on_idle when no run in the table has the status "running".  The queue is
\* not looked at; os._exit ends every thread and leaves processes behind.
WorkerIdle ==
  /\ wpc = "idle"
  /\ IF RunningRuns = {}
     THEN /\ setting.timely => WrapupsOver
          /\ life' = "exited" /\ ToWorker("stopped", NoRun)
     ELSE UNCHANGED life /\ ToWorker("check", NoRun)
  /\ UNCHANGED <<queue, table, spawned, marked, runVars, proc, rpc, cancelVars,
                 statusVars, wrapups>>

Worker ==
  /\ life = "up" /\ UNCHANGED setting
  /\ \/ WorkerPop \/ WorkerNoPop \/ WorkerClaim \/ WorkerSpawn \/ WorkerLaunch
     \/ WorkerSetProcess \/ WorkerStartReader \/ WorkerRequeue
     \/ WorkerParentEnd \/ WorkerParentWrapup \/ WorkerIdle
     \/ WorkerFails \/ WorkerExits

(***************************************************************************)
(* A user's process ends by itself, with or without an error.              *)
(***************************************************************************)
ProcessEnds(r) ==
  /\ proc[r] = "alive"
  /\ setting.timely => Settled
  /\ proc' = [proc EXCEPT ![r] = "dead"]
  /\ \E code \in {0, 1} : exitCode' = [exitCode EXCEPT ![r] = code]
  /\ UNCHANGED <<setting, controllerVars, status, handle, killing, lock,
                 workerVars, rpc, cancelVars, statusVars, wrapups>>

(***************************************************************************)
(* The reader thread of run r                                              *)
(***************************************************************************)
ToReader(r, label) == rpc' = [rpc EXCEPT ![r] = label]

\* End of output, or a line read while the run is being killed.
ReaderStops(r) ==
  /\ rpc[r] = "reading"
  /\ proc[r] = "dead" \/ killing[r]
  /\ ToReader(r, "test")
  /\ UNCHANGED <<controllerVars, runVars, proc, workerVars, cancelVars,
                 statusVars, wrapups>>

\* check_for_completed(wait_if_needed): "if self.process", then its methods.
ReaderTest(r) ==
  /\ rpc[r] \in {"test", "post"}
  /\ LET wrapup == rpc[r] = "test" IN
     ToReader(r, IF handle[r] THEN (IF wrapup THEN "wait" ELSE "postWait")
                 ELSE (IF wrapup THEN "wrapup" ELSE "finish"))
  /\ UNCHANGED <<controllerVars, runVars, proc, workerVars, cancelVars,
                 statusVars, wrapups>>

\* self.process.wait() and poll(); the last use sets self.process to None.
ReaderWait(r) ==
  /\ rpc[r] \in {"wait", "postWait"}
  /\ handle[r]
  /\ proc[r] = "dead"
  /\ handle' = [handle EXCEPT ![r] = FALSE]
  /\ ToReader(r, IF rpc[r] = "wait" THEN "setStatus" ELSE "postSetStatus")
  /\ UNCHANGED <<controllerVars, status, killing, exitCode, lock, proc,
                 workerVars, cancelVars, statusVars, wrapups>>

ReaderSetStatus(r) ==
  /\ rpc[r] \in {"setStatus", "postSetStatus"}
  /\ setting.timely => Settled
  /\ SetStatusTo(r, FinalStatus(r))
  /\ ToReader(r, IF rpc[r] = "setStatus" THEN "wrapup" ELSE "finish")
  /\ UNCHANGED <<controllerVars, handle, killing, exitCode, lock, proc,
                 workerVars, cancelVars, statusVars, wrapups>>

\* run_wrapup: store.wrapup_run ...
ReaderWrapup(r) ==
  /\ rpc[r] = "wrapup"
  /\ LogWrapup(r)
  /\ ToReader(r, IF r \in Children THEN "mark" ELSE "post")
  /\ UNCHANGED <<controllerVars, runVars, proc, workerVars, cancelVars, statusVars>>

\* ... and mark_child_run_completed.
ReaderMark(r) ==
  /\ rpc[r] = "mark"
  /\ r \notin marked
  /\ marked' = marked \cup {r}
  /\ ToReader(r, "post")
  /\ UNCHANGED <<queue, table, life, spawned, runVars, proc, workerVars,
                 cancelVars, statusVars, wrapups>>

\* Mutant: the parent is queued after each process, not after its script only.
ReaderFinishRequeues(r) ==
  /\ rpc[r] = "finish"
  /\ ToReader(r, "done")
  /\ IF status[r] = "completed"
     THEN /\ queue' = Append(queue, First)
          /\ SetStatusTo(First, "queued")
     ELSE UNCHANGED <<queue, status>>
  /\ UNCHANGED <<table, life, spawned, marked, handle, killing, exitCode, lock,
                 proc, workerVars, cancelVars, statusVars, wrapups>>

\* The rest of exit_handler: the run's directory is given back.
ReaderFinish(r) ==
  /\ rpc[r] = "finish"
  /\ ToReader(r, "done")
  /\ UNCHANGED <<controllerVars, runVars, proc, workerVars, cancelVars,
                 statusVars, wrapups>>

\* An exception in a reader thread: a method of a process that another thread
\* has just set to None, or the assertion that the child's entry is not marked
\* completed yet.  The thread sleeps a minute and ends the controller (os._exit).
ReaderUsesNone(r) == rpc[r] \in {"wait", "postWait"} /\ ~handle[r]
ReaderMarksTwice(r) == rpc[r] = "mark" /\ r \in marked

ReaderDies(r) ==
  /\ ReaderUsesNone(r) \/ ReaderMarksTwice(r)
  /\ ToReader(r, "failing")
  /\ UNCHANGED <<controllerVars, runVars, proc, workerVars, cancelVars,
                 statusVars, wrapups>>

ReaderExits(r) ==
  /\ rpc[r] = "failing"
  /\ life' = "crashed"
  /\ UNCHANGED <<queue, table, spawned, marked, runVars, proc, workerVars, rpc,
                 cancelVars, statusVars, wrapups>>

Reader(r) ==
  /\ life = "up" /\ UNCHANGED setting
  /\ \/ ReaderStops(r) \/ ReaderTest(r) \/ ReaderWait(r) \/ ReaderSetStatus(r)
     \/ ReaderWrapup(r) \/ ReaderMark(r) \/ ReaderFinish(r)
     \/ ReaderDies(r) \/ ReaderExits(r)

(***************************************************************************)
(* An RPC thread that cancels all runs (cancel_all) or the runs of a name, *)
(* a user or a job (cancel_specified_runs and its like).                   *)
(***************************************************************************)
ToCancel(label) == xpc' = label

CancelRequest ==
  /\ xpc \in {"off", "returned", "failed"}
  /\ xcount < setting.cancels
  /\ xcount' = xcount + 1
  /\ xkind' \in {"all", "named"}
  /\ ToCancel(IF xkind' = "all" THEN "grabQueue" ELSE "grabRuns")
  /\ xlist' = {} /\ xrun' = NoRun
  /\ UNCHANGED <<controllerVars, runVars, proc, workerVars, rpc, statusVars, wrapups>>

\* cancel_all takes the whole queue ...
CancelGrabQueue ==
  /\ xpc = "grabQueue"
  /\ xlist' = {queue[i] : i \in DOMAIN queue}
  /\ queue' = <<>>
  /\ ToCancel("grabRuns")
  /\ UNCHANGED <<table, life, spawned, marked, runVars, proc, workerVars, rpc,
                 xkind, xrun, xcount, statusVars, wrapups>>

\* ... then what the table shows as active; when there is nothing, it returns.
ToKill ==
  {r \in table : status[r] \in {"running", "spawning"}
                   \/ (xkind = "named" /\ status[r] = "queued")}

CancelGrabRuns ==
  /\ xpc = "grabRuns"
  /\ LET found == xlist \cup ToKill IN
     /\ xlist' = found
     /\ ToCancel(IF found = {} THEN "returned" ELSE "next")
     /\ xrun' = NoRun
  /\ UNCHANGED <<controllerVars, runVars, proc, workerVars, rpc, xkind, xcount,
                 statusVars, wrapups>>

\* self.queue.remove(run_info), if it is there.
RemoveFromQueue(r) ==
  \/ /\ \A i \in DOMAIN queue : queue[i] # r
     /\ UNCHANGED queue
  \/ \E i \in DOMAIN queue :
       /\ queue[i] = r /\ \A j \in 1 .. i - 1 : queue[j] # r
       /\ queue' = RemoveAt(queue, i)

\* cancel_core of the next run, in the order of queue and table (the parent,
\* then its children as they were made): out of the queue first.
CancelNext ==
  /\ xpc = "next"
  /\ \E r \in xlist :
       /\ \A q \in xlist : r <= q
       /\ xrun' = r
       /\ xlist' = xlist \ {r}
       /\ RemoveFromQueue(r)
  /\ ToCancel("kill")
  /\ UNCHANGED <<table, life, spawned, marked, runVars, proc, workerVars, rpc,
                 xkind, xcount, statusVars, wrapups>>

\* After a run: the next one, or the whole loop once more.
AfterRun == IF xlist # {} THEN "next"
            ELSE IF xkind = "all" THEN "grabQueue" ELSE "grabRuns"

Unlock == lock' = [lock EXCEPT ![xrun] = "free"]

\* kill, under the run's lock: what it does depends on process and status.
CancelKill ==
  /\ xpc = "kill"
  /\ lock[xrun] = "free"
  /\ \/ /\ handle[xrun]
        /\ lock' = [lock EXCEPT ![xrun] = "cancel"]
        /\ ToCancel("poll")
        /\ UNCHANGED status
     \/ /\ ~handle[xrun] /\ status[xrun] \in {"queued", "spawning", "running"}
        /\ lock' = [lock EXCEPT ![xrun] = "cancel"]
        /\ SetStatusTo(xrun, "cancelled")
        /\ ToCancel("wrapup")
     \/ /\ ~handle[xrun] /\ status[xrun] \notin {"queued", "spawning", "running"}
        /\ ToCancel(AfterRun)
        /\ UNCHANGED <<status, lock>>
  /\ UNCHANGED <<controllerVars, handle, killing, exitCode, proc,
                 workerVars, rpc, xkind, xlist, xrun, xcount, statusVars, wrapups>>

\* Mutant: the lock of a run that is not a child is kept.
CancelWrapupKeepsLock ==
  /\ xpc = "wrapup"
  /\ LogWrapup(xrun)
  /\ ToCancel(IF xrun \in Children THEN "mark" ELSE AfterRun)
  /\ UNCHANGED <<controllerVars, status, handle, killing, exitCode, lock,
                 proc, workerVars, rpc, xkind, xlist, xrun, xcount, statusVars>>

\* Without a process there will be no exit_handler: wrap the run up here.
CancelWrapup ==
  /\ xpc = "wrapup"
  /\ LogWrapup(xrun)
  /\ IF xrun \in Children
     THEN ToCancel("mark") /\ UNCHANGED lock
     ELSE ToCancel(AfterRun) /\ Unlock
  /\ UNCHANGED <<controllerVars, status, handle, killing, exitCode, proc,
                 workerVars, rpc, xkind, xlist, xrun, xcount, statusVars>>

CancelMark ==
  /\ xpc = "mark"
  /\ Unlock
  /\ IF xrun \in marked
     THEN ToCancel("failed") /\ UNCHANGED marked
     ELSE ToCancel(AfterRun) /\ marked' = marked \cup {xrun}
  /\ UNCHANGED <<queue, table, life, spawned, status, handle, killing, exitCode,
                 proc, workerVars, rpc, xkind, xlist, xrun, xcount,
                 statusVars, wrapups>>

\* check_for_completed(False) before the kill ("poll") and after it ("repoll");
\* an exception is sent to the client and releases the lock.
CancelPoll ==
  /\ xpc \in {"poll", "repoll"}
  /\ handle[xrun]
  /\ IF proc[xrun] = "dead"
     THEN /\ handle' = [handle EXCEPT ![xrun] = FALSE]
          /\ ToCancel("setStatus")
     ELSE UNCHANGED handle /\ ToCancel(IF xpc = "poll" THEN "killing" ELSE "dying")
  /\ UNCHANGED <<controllerVars, status, killing, exitCode, lock, proc,
                 workerVars, rpc, xkind, xlist, xrun, xcount, statusVars, wrapups>>

CancelUsesNone ==
  /\ xpc \in {"poll", "repoll"}
  /\ ~handle[xrun]
  /\ Unlock
  /\ ToCancel("failed")
  /\ UNCHANGED <<controllerVars, status, handle, killing, exitCode, proc,
                 workerVars, rpc, xkind, xlist, xrun, xcount, statusVars, wrapups>>

CancelSetStatus ==
  /\ xpc = "setStatus"
  /\ SetStatusTo(xrun, FinalStatus(xrun))
  /\ Unlock
  /\ ToCancel(AfterRun)
  /\ UNCHANGED <<controllerVars, handle, killing, exitCode, proc,
                 workerVars, rpc, xkind, xlist, xrun, xcount, statusVars, wrapups>>

\* The process was alive: killing is set if it is still there ...
CancelKilling ==
  /\ xpc = "killing"
  /\ IF handle[xrun]
     THEN killing' = [killing EXCEPT ![xrun] = TRUE] /\ ToCancel("signal") /\ UNCHANGED lock
     ELSE UNCHANGED killing /\ ToCancel(AfterRun) /\ Unlock
  /\ UNCHANGED <<controllerVars, status, handle, exitCode, proc, workerVars,
                 rpc, xkind, xlist, xrun, xcount, statusVars, wrapups>>

\* ... and the process tree is killed; the process may linger for a moment.
CancelSignal ==
  /\ xpc = "signal"
  /\ IF proc[xrun] = "alive"
     THEN /\ proc' = [proc EXCEPT ![xrun] = "dead"]
          /\ exitCode' = [exitCode EXCEPT ![xrun] = -9]
     ELSE UNCHANGED <<proc, exitCode>>
  /\ IF handle[xrun]
     THEN (ToCancel("repoll") \/ ToCancel("dying")) /\ UNCHANGED lock
     ELSE ToCancel(AfterRun) /\ Unlock
  /\ UNCHANGED <<controllerVars, status, handle, killing, workerVars, rpc,
                 xkind, xlist, xrun, xcount, statusVars, wrapups>>

\* The process has not been reaped yet when it is polled.
CancelDying ==
  /\ xpc = "dying"
  /\ SetStatusTo(xrun, "dying")
  /\ Unlock
  /\ ToCancel(AfterRun)
  /\ UNCHANGED <<controllerVars, handle, killing, exitCode, proc,
                 workerVars, rpc, xkind, xlist, xrun, xcount, statusVars, wrapups>>

Cancel ==
  /\ life = "up" /\ UNCHANGED setting
  /\ \/ CancelGrabQueue \/ CancelGrabRuns \/ CancelNext \/ CancelKill
     \/ CancelWrapup \/ CancelMark \/ CancelPoll \/ CancelUsesNone
     \/ CancelSetStatus \/ CancelKilling \/ CancelSignal \/ CancelDying

(***************************************************************************)
(* An RPC thread that asks for a run's status (exposed_get_runs with a     *)
(* name, get_summary_stats): check_for_completed(False), without a lock.   *)
(***************************************************************************)
StatusRequest ==
  /\ spc = "off"
  /\ setting.requests
  /\ \E r \in table :
       IF handle[r] THEN spc' = "poll" /\ srun' = r ELSE UNCHANGED statusVars
  /\ UNCHANGED <<controllerVars, runVars, proc, workerVars, rpc, cancelVars, wrapups>>

StatusDone == spc' = "off" /\ srun' = NoRun

\* The process is reaped; its end is noted in a step of its own.
StatusReaps ==
  /\ spc = "poll"
  /\ handle[srun] /\ proc[srun] = "dead"
  /\ handle' = [handle EXCEPT ![srun] = FALSE]
  /\ spc' = "setStatus"
  /\ UNCHANGED <<controllerVars, status, killing, exitCode, lock, proc,
                 workerVars, rpc, cancelVars, srun, wrapups>>

\* The process is alive, or the use of None ends the request with an exception.
StatusLeaves ==
  /\ spc = "poll"
  /\ handle[srun] => proc[srun] # "dead"
  /\ IF handle[srun] /\ killing[srun]
     THEN spc' = "dying" /\ UNCHANGED srun
     ELSE StatusDone
  /\ UNCHANGED <<controllerVars, runVars, proc, workerVars, rpc, cancelVars,
                 wrapups>>

StatusSet ==
  /\ spc \in {"setStatus", "dying"}
  /\ SetStatusTo(srun, IF spc = "dying" THEN "dying" ELSE FinalStatus(srun))
  /\ StatusDone
  /\ UNCHANGED <<controllerVars, handle, killing, exitCode, lock, proc,
                 workerVars, rpc, cancelVars, wrapups>>

StatusThread == life = "up" /\ UNCHANGED setting /\ (StatusReaps \/ StatusLeaves \/ StatusSet)

-----------------------------------------------------------------------------
Client == life = "up" /\ UNCHANGED setting /\ (CancelRequest \/ StatusRequest)

Ended == life # "up" /\ \A r \in Runs : proc[r] # "alive"

Terminated == Ended /\ UNCHANGED vars

Next ==
  \/ Worker
  \/ \E r \in Runs : ProcessEnds(r) \/ Reader(r)
  \/ Cancel
  \/ StatusThread
  \/ Client
  \/ Terminated

Spec == Init /\ [][Next]_vars

\* The threads of a live controller run and users' processes end; nothing
\* makes a client send requests.  That some reader goes on is enough, for each
\* of them comes to its end.
Fairness ==
  /\ WF_vars(Worker)
  /\ WF_vars(Cancel)
  /\ WF_vars(StatusThread)
  /\ WF_vars(\E r \in Runs : ProcessEnds(r))
  /\ WF_vars(\E r \in Runs : Reader(r))

FairSpec == Spec /\ Fairness

-----------------------------------------------------------------------------
(***************************************************************************)
(* Type invariant                                                          *)
(***************************************************************************)
WorkerPCs == {"check", "claim", "spawn", "launch", "setProcess", "startReader",
              "requeue", "parentEnd", "parentWrapup", "idle", "failing",
              "stopped"}
ReaderPCs == {"none", "reading", "test", "wait", "setStatus", "wrapup", "mark",
              "post", "postWait", "postSetStatus", "finish", "done", "failing"}
CancelPCs == {"off", "grabQueue", "grabRuns", "next", "kill", "poll", "repoll",
              "setStatus", "killing", "signal", "dying", "wrapup", "mark",
              "returned", "failed"}

\* Every variable has its type; in particular the table and the queue hold
\* runs only, and the worker and the RPC threads are at a known place.
TypeOK ==
  /\ setting \in Settings
  /\ queue \in Seq(Runs)
  /\ table \in SUBSET Runs
  /\ life \in {"up", "exited", "crashed"}
  /\ spawned \in 0 .. setting.children
  /\ marked \in SUBSET Children
  /\ status \in [Runs -> Statuses]
  /\ handle \in [Runs -> BOOLEAN]
  /\ killing \in [Runs -> BOOLEAN]
  /\ exitCode \in [Runs -> {0, 1, -9}]
  /\ lock \in [Runs -> {"free", "worker", "cancel"}]
  /\ proc \in [Runs -> {"none", "alive", "dead"}]
  /\ wpc \in WorkerPCs /\ wrun \in Runs \cup {NoRun}
  /\ rpc \in [Runs -> ReaderPCs]
  /\ xpc \in CancelPCs /\ xkind \in {"all", "named"}
  /\ xlist \in SUBSET Runs /\ xrun \in Runs \cup {NoRun}
  /\ spc \in {"off", "poll", "setStatus", "dying"}
  /\ srun \in Runs \cup {NoRun}
  /\ xcount \in 0 .. setting.cancels
  /\ wrapups \in [Runs -> Seq(Statuses)]

(***************************************************************************)
(* Safety                                                                  *)
(***************************************************************************)

\* No more than --concurrent processes execute at the same time, although a
\* process is counted by a status that four kinds of threads change.  One that a
\* cancel request is about to kill is not counted: a status request may have
\* called it "dying" already, and the worker has started another one.
ConcurrencyLimit ==
  Cardinality({r \in Runs : proc[r] = "alive" /\ ~killing[r]}) <= setting.concurrent

\* The controller never shuts down by itself while a process it started is
\* alive, not even when that process was cancelled before it was started; only
\* one that a cancel request is about to kill may be left.
NoOrphanProcess ==
  life = "exited" => \A r \in Runs : proc[r] = "alive" => killing[r]

\* No client interferes: what such a client can do to the threads of the
\* controller is in README, "What does not hold".
Undisturbed == setting.cancels = 0 /\ ~setting.requests

\* A run is wrapped up at most once: one end is logged, one entry marked.
WrapupOnce == Undisturbed => \A r \in Runs : Len(wrapups[r]) <= 1

\* Each wrapup logs the status the run ended with, not the one it had before.
WrapupLogsFinalStatus ==
  \A r \in Runs : \A i \in DOMAIN wrapups[r] : wrapups[r][i] \in Finals

\* When a controller whose wrapups get the time they need has shut down, every
\* run whose process ended has been wrapped up: its end is logged, with its
\* final status.
EndedRunsAreLogged ==
  Undisturbed /\ setting.timely =>
    /\ WrapupLogsFinalStatus
    /\ life = "exited" => \A r \in Runs : proc[r] = "dead" => wrapups[r] # <<>>

\* The end of a run: logged once, and not forgotten.
RunsEndOnce == WrapupOnce /\ EndedRunsAreLogged

\* No reader thread ever ends the controller with an exception.
ReadersSurvive == Undisturbed => \A r \in Runs : rpc[r] # "failing"

\* The threads of the controller keep their variables in order.
ThreadsInOrder == TypeOK /\ ReadersSurvive /\ ConcurrencyLimit

\* When a cancel request returns, nothing is queued and nothing executes.  It
\* does not hold of the code (README, "What does not hold"), and no run lists it.
CancelLeavesNothing ==
  xpc = "returned" => queue = <<>> /\ \A r \in Runs : proc[r] # "alive"

(***************************************************************************)
(* Liveness                                                                *)
(***************************************************************************)

\* A child given to this node is started: "now that the parent prep script has
\* successfully run we can requeue parent run to spawn child runs".  It does not
\* hold with a parent script (README, "What does not hold"), and no run lists it.
ChildrenAreStarted == \A r \in Children : <>(proc[r] # "none")

\* Where the timing is as the code counts on, every run of the node is started,
\* ends and is wrapped up, the parent last of all to be queued again each time.
EveryRunIsWrappedUp ==
  <>(setting.timely => \A r \in Runs : wrapups[r] # <<>>)

\* A cancel request is answered: its loop until idle ends, whatever the queue
\* worker starts meanwhile, unless the controller ends first.
CancelReturns ==
  [](xpc # "off" => <>(xpc \in {"returned", "failed"} \/ life # "up"))

=============================================================================
