----------------------------- MODULE JobCounters -----------------------------
(***************************************************************************)
(* The status and the counters of a job's document: "job_status",          *)
(* "running_nodes", "running_runs" and "completed_runs".                   *)
(*                                                                         *)
(* They are kept by the controllers of the job's nodes with $inc updates   *)
(* (storage/mongo_db.py): by a controller's queue worker when it starts a  *)
(* run and when it goes idle, and by the threads that wrap runs up.  A     *)
(* node's runs are dealt to it beforehand (static schedule).               *)
(***************************************************************************)
EXTENDS Integers, FiniteSets

CONSTANTS
  Nodes,            \* nodes of the job
  RunsOf,           \* number of child runs dealt to each node
  Concurrent,       \* the controller's --concurrent
  RepeatIsSet,      \* the job has a repeat_count ("dynamic", "repeat" searches)
  MaxCrashes,       \* bound: preemptions
  MaxLostReplies,   \* bound: updates applied twice because a reply was lost
  GraceSuffices     \* timing: a wrapup ends within on_shutdown's two seconds

ASSUME NodesAssumption == IsFiniteSet(Nodes)
ASSUME BoundsAssumption ==
  /\ RunsOf \in [Nodes -> Nat]
  /\ Concurrent \in Nat \ {0}
  /\ MaxCrashes \in Nat
  /\ MaxLostReplies \in Nat
ASSUME FlagAssumption ==
  /\ RepeatIsSet \in BOOLEAN
  /\ GraceSuffices \in BOOLEAN

VARIABLES
  \* the job's document
  jobStatus, runningNodes, runningRuns, completedRuns,
  \* node n's queue worker
  pc,          \* where it is
  known,       \* running_jobs holds the job
  redoing,     \* context.restart of the run being started
  parentDone,  \* the parent run has completed
  \* node n's child runs, by how far they are
  todo,        \* never started
  redo,        \* to be restarted
  running,     \* process alive, status "running"
  ended,       \* process gone, job_run_exit not yet called
  exited,      \* job_run_exit called, entry not yet marked completed
  \* what happened so far, for the bounds
  crashes, lost

docVars == <<jobStatus, runningNodes, runningRuns, completedRuns>>
workerVars == <<pc, known, redoing, parentDone>>
childVars == <<todo, redo, running, ended, exited>>
vars == <<docVars, workerVars, childVars, crashes, lost>>

PCs == {"queue", "started", "counted", "nodeSet", "idleCheck", "exitInc",
        "exitSet", "shutdown", "gone", "down"}

Zero == [n \in Nodes |-> 0]

Init ==
  /\ jobStatus = "submitted"
  /\ runningNodes = 0
  /\ runningRuns = 0
  /\ completedRuns = 0
  /\ pc = [n \in Nodes |-> "queue"]
  /\ known = [n \in Nodes |-> FALSE]
  /\ redoing = [n \in Nodes |-> FALSE]
  /\ parentDone = [n \in Nodes |-> FALSE]
  /\ todo = RunsOf
  /\ redo = Zero
  /\ running = Zero
  /\ ended = Zero
  /\ exited = Zero
  /\ crashes = 0
  /\ lost = 0

Goto(n, label) == pc' = [pc EXCEPT ![n] = label]
Add(f, n, k) == [f EXCEPT ![n] = @ + k]

\* mongo_with_retries applies an update k times when k - 1 replies are lost.
AppliedTimes(k) ==
  /\ k \in 1 .. 1 + MaxLostReplies
  /\ lost + k - 1 <= MaxLostReplies
  /\ lost' = lost + k - 1

(***************************************************************************)
(* process_top_of_queue: the parent run is at the top of the queue.        *)
(***************************************************************************)
CanPop(n) ==
  /\ pc[n] = "queue"
  /\ ~parentDone[n]
  /\ running[n] < Concurrent

\* A child waiting for its restart goes before one that was never started.
StartRedo(n) ==
  /\ CanPop(n)
  /\ redo[n] > 0
  /\ redo' = Add(redo, n, -1)
  /\ running' = Add(running, n, 1)
  /\ redoing' = [redoing EXCEPT ![n] = TRUE]
  /\ Goto(n, "started")
  /\ UNCHANGED <<docVars, known, parentDone, todo, ended, exited,
                 crashes, lost>>

StartTodo(n) ==
  /\ CanPop(n)
  /\ redo[n] = 0 /\ todo[n] > 0
  /\ todo' = Add(todo, n, -1)
  /\ running' = Add(running, n, 1)
  /\ redoing' = [redoing EXCEPT ![n] = FALSE]
  /\ Goto(n, "started")
  /\ UNCHANGED <<docVars, known, parentDone, redo, ended, exited,
                 crashes, lost>>

\* No child is left: the parent run is wrapped up by the queue worker, and
\* wrapup_run takes it for an ordinary run when the job has no repeat_count.
ParentEnds(n) ==
  /\ CanPop(n)
  /\ redo[n] = 0 /\ todo[n] = 0
  /\ \E k \in 1 .. 1 + MaxLostReplies :
       /\ AppliedTimes(k)
       /\ IF RepeatIsSet
          THEN k = 1 /\ UNCHANGED <<runningRuns, completedRuns>>
          ELSE /\ runningRuns' = runningRuns - k
               /\ completedRuns' = completedRuns + k
  /\ parentDone' = [parentDone EXCEPT ![n] = TRUE]
  /\ Goto(n, "idleCheck")
  /\ UNCHANGED <<jobStatus, runningNodes, known, redoing, childVars, crashes>>

\* Nothing is popped: the queue is empty or enough runs are running.
NoPop(n) ==
  /\ pc[n] = "queue"
  /\ ~CanPop(n)
  /\ Goto(n, "idleCheck")
  /\ UNCHANGED <<docVars, known, redoing, parentDone, childVars, crashes, lost>>

(***************************************************************************)
(* End of start_local_run_core: the process and its reader thread run.     *)
(***************************************************************************)

\* job_run_start
JobRunStart(n) ==
  /\ pc[n] = "started"
  /\ \E k \in 1 .. 1 + MaxLostReplies :
       AppliedTimes(k) /\ runningRuns' = runningRuns + k
  /\ Goto(n, "counted")
  /\ UNCHANGED <<jobStatus, runningNodes, completedRuns, known, redoing,
                 parentDone, childVars, crashes>>

\* Mutant: running_jobs is not looked at.
JobNodeStartAgain(n) ==
  /\ pc[n] = "counted"
  /\ known' = [known EXCEPT ![n] = TRUE]
  /\ runningNodes' = runningNodes + 1
  /\ Goto(n, "nodeSet")
  /\ UNCHANGED <<jobStatus, runningRuns, completedRuns, redoing,
                 parentDone, childVars, crashes, lost>>

\* job_node_start, first update; skipped when the job is known or the first
\* run of the session is a restarted one.
JobNodeStart(n) ==
  /\ pc[n] = "counted"
  /\ known' = [known EXCEPT ![n] = TRUE]
  /\ IF known[n] \/ redoing[n]
     THEN Goto(n, "idleCheck") /\ UNCHANGED <<runningNodes, lost>>
     ELSE /\ \E k \in 1 .. 1 + MaxLostReplies :
               AppliedTimes(k) /\ runningNodes' = runningNodes + k
          /\ Goto(n, "nodeSet")
  /\ UNCHANGED <<jobStatus, runningRuns, completedRuns, redoing,
                 parentDone, childVars, crashes>>

\* job_node_start, second update.
JobNodeSet(n) ==
  /\ pc[n] = "nodeSet"
  /\ jobStatus' = "running"
  /\ Goto(n, "idleCheck")
  /\ UNCHANGED <<runningNodes, runningRuns, completedRuns, known, redoing,
                 parentDone, childVars, crashes, lost>>

(***************************************************************************)
(* on_idle and on_shutdown                                                 *)
(***************************************************************************)
IdleCheck(n) ==
  /\ pc[n] = "idleCheck"
  /\ Goto(n, IF running[n] > 0 THEN "queue"
             ELSE IF known[n] THEN "exitInc" ELSE "shutdown")
  /\ UNCHANGED <<docVars, known, redoing, parentDone, childVars, crashes, lost>>

\* job_node_exit, first update.
JobNodeExit(n) ==
  /\ pc[n] = "exitInc"
  /\ \E k \in 1 .. 1 + MaxLostReplies :
       AppliedTimes(k) /\ runningNodes' = runningNodes - k
  /\ known' = [known EXCEPT ![n] = FALSE]
  /\ Goto(n, "exitSet")
  /\ UNCHANGED <<jobStatus, runningRuns, completedRuns, redoing,
                 parentDone, childVars, crashes>>

\* Mutant: the update selects the document by its _id alone.
JobNodeExitSetAlways(n) ==
  /\ pc[n] = "exitSet"
  /\ jobStatus' = "completed"
  /\ Goto(n, "shutdown")
  /\ UNCHANGED <<runningNodes, runningRuns, completedRuns, known, redoing,
                 parentDone, childVars, crashes, lost>>

\* job_node_exit, second update: selects the document with no running node.
JobNodeExitSet(n) ==
  /\ pc[n] = "exitSet"
  /\ jobStatus' = IF runningNodes = 0 THEN "completed" ELSE jobStatus
  /\ Goto(n, "shutdown")
  /\ UNCHANGED <<runningNodes, runningRuns, completedRuns, known, redoing,
                 parentDone, childVars, crashes, lost>>

\* os._exit, after a grace period for the threads that wrap runs up.
Shutdown(n) ==
  /\ pc[n] = "shutdown"
  /\ GraceSuffices => ended[n] = 0 /\ exited[n] = 0
  /\ Goto(n, "gone")
  /\ ended' = [ended EXCEPT ![n] = 0]
  /\ exited' = [exited EXCEPT ![n] = 0]
  /\ UNCHANGED <<docVars, known, redoing, parentDone, todo, redo,
                 running, crashes, lost>>

(***************************************************************************)
(* The threads that read the output of the runs.                           *)
(***************************************************************************)
Alive(n) == pc[n] \notin {"gone", "down"}

ProcessEnds(n) ==
  /\ Alive(n)
  /\ running[n] > 0
  /\ running' = Add(running, n, -1)
  /\ ended' = Add(ended, n, 1)
  /\ UNCHANGED <<docVars, workerVars, todo, redo, exited, crashes, lost>>

\* job_run_exit, at the end of wrapup_run.
JobRunExit(n) ==
  /\ Alive(n)
  /\ ended[n] > 0
  /\ \E k \in 1 .. 1 + MaxLostReplies :
       /\ AppliedTimes(k)
       /\ runningRuns' = runningRuns - k
       /\ completedRuns' = completedRuns + k
  /\ ended' = Add(ended, n, -1)
  /\ exited' = Add(exited, n, 1)
  /\ UNCHANGED <<jobStatus, runningNodes, workerVars, todo, redo, running, crashes>>

\* Mutant: the entry is marked before job_run_exit.
MarkCompletedEarly(n) ==
  /\ Alive(n)
  /\ ended[n] > 0
  /\ ended' = Add(ended, n, -1)
  /\ UNCHANGED <<docVars, workerVars, todo, redo, running, exited, crashes, lost>>

\* mark_child_run_completed
MarkCompleted(n) ==
  /\ Alive(n)
  /\ exited[n] > 0
  /\ exited' = Add(exited, n, -1)
  /\ UNCHANGED <<docVars, workerVars, todo, redo, running, ended, crashes, lost>>

(***************************************************************************)
(* Preemption and reboot: every run not marked completed is restarted.     *)
(***************************************************************************)
Crash(n) ==
  /\ Alive(n)
  /\ crashes < MaxCrashes
  /\ crashes' = crashes + 1
  /\ Goto(n, "down")
  /\ redo' = Add(redo, n, running[n] + ended[n] + exited[n])
  /\ running' = [running EXCEPT ![n] = 0]
  /\ ended' = [ended EXCEPT ![n] = 0]
  /\ exited' = [exited EXCEPT ![n] = 0]
  /\ UNCHANGED <<docVars, known, redoing, parentDone, todo, lost>>

Reboot(n) ==
  /\ pc[n] = "down"
  /\ Goto(n, "queue")
  /\ known' = [known EXCEPT ![n] = FALSE]
  /\ parentDone' = [parentDone EXCEPT ![n] = FALSE]
  /\ UNCHANGED <<docVars, redoing, childVars, crashes, lost>>

-----------------------------------------------------------------------------
QueueWorker(n) ==
  \/ StartRedo(n) \/ StartTodo(n) \/ ParentEnds(n) \/ NoPop(n)
  \/ JobRunStart(n) \/ JobNodeStart(n) \/ JobNodeSet(n)
  \/ IdleCheck(n) \/ JobNodeExit(n) \/ JobNodeExitSet(n) \/ Shutdown(n)

Wrapup(n) == JobRunExit(n) \/ MarkCompleted(n)

AllGone == \A n \in Nodes : pc[n] = "gone"

Terminated == AllGone /\ UNCHANGED vars

Next ==
  \/ \E n \in Nodes :
       \/ QueueWorker(n)
       \/ ProcessEnds(n) \/ Wrapup(n)
       \/ Crash(n) \/ Reboot(n)
  \/ Terminated

Spec == Init /\ [][Next]_vars

\* Threads of a live controller run, users' processes end, and the service
\* boots a preempted node again.
Fairness ==
  \A n \in Nodes :
    /\ WF_vars(QueueWorker(n))
    /\ WF_vars(ProcessEnds(n))
    /\ WF_vars(JobRunExit(n))
    /\ WF_vars(MarkCompleted(n))
    /\ WF_vars(Reboot(n))

FairSpec == Spec /\ Fairness

-----------------------------------------------------------------------------
(***************************************************************************)
(* Type invariant                                                          *)
(***************************************************************************)
JobStatuses == {"submitted", "running", "completed"}

\* The document and the controllers' variables have their types; in
\* particular no controller counts a child twice on its way to its end.
TypeOK ==
  /\ jobStatus \in JobStatuses
  /\ runningNodes \in Int
  /\ runningRuns \in Int
  /\ completedRuns \in Nat
  /\ pc \in [Nodes -> PCs]
  /\ known \in [Nodes -> BOOLEAN]
  /\ redoing \in [Nodes -> BOOLEAN]
  /\ parentDone \in [Nodes -> BOOLEAN]
  /\ todo \in [Nodes -> Nat]
  /\ redo \in [Nodes -> Nat]
  /\ running \in [Nodes -> Nat]
  /\ ended \in [Nodes -> Nat]
  /\ exited \in [Nodes -> Nat]
  /\ crashes \in Nat
  /\ lost \in Nat

(***************************************************************************)
(* Safety                                                                  *)
(***************************************************************************)
\* The sum of f, a number for every node, counted unit by unit.
Units(f) == UNION {{n} \X (1 .. f[n]) : n \in Nodes}
Total(f) == Cardinality(Units(f))

\* No node was preempted and no update was applied twice: the $inc updates
\* promise nothing about running_nodes and running_runs otherwise.
Undisturbed == crashes = 0 /\ lost = 0

\* running_nodes is the number of nodes between their job_node_start and
\* their job_node_exit, although every node updates it on its own.
NodesAreCounted ==
  Undisturbed => runningNodes = Cardinality({n \in Nodes : known[n]})

\* While a node is past job_node_start and before job_node_exit the job is
\* "running": no other node's exit makes it "completed" in between.
RunningNodeMeansRunningJob ==
  Undisturbed => \A n \in Nodes : known[n] /\ pc[n] # "nodeSet" => jobStatus = "running"

\* In a job that is "completed" no child runs, but for the first child of a
\* node that has not told the database yet.
CompletedJobIsQuiet ==
  Undisturbed /\ jobStatus = "completed" =>
    \A n \in Nodes :
      running[n] > 0 => pc[n] \in {"started", "counted", "nodeSet"}

\* running_runs and completed_runs account for every child: the worker that
\* starts one and the thread that ends it may count in either order.
RunsAreCounted ==
  Undisturbed =>
  /\ runningRuns = Total(running) + Total(ended)
                     - Cardinality({n \in Nodes : pc[n] = "started"})
  /\ completedRuns + Total(todo) + Total(redo) + Total(running) + Total(ended)
       = Total(RunsOf)

\* The job's counters and its status agree with what the nodes are doing, at
\* every moment between the updates that six kinds of steps make on their own.
CountersAgree ==
  /\ TypeOK
  /\ NodesAreCounted /\ RunsAreCounted
  /\ RunningNodeMeansRunningJob /\ CompletedJobIsQuiet

\* completed_runs never misses a run that is marked completed in active_runs,
\* even when its node was preempted anywhere on the way.
MarkedRunsAreCounted ==
  completedRuns >= Total(RunsOf) - Total(todo) - Total(redo) - Total(running)
                     - Total(ended) - Total(exited)

(***************************************************************************)
(* Liveness                                                                *)
(***************************************************************************)

\* An undisturbed job becomes "completed" and stays so, although a node that
\* starts late may set it back to "running" in between.
JobCompletesForGood ==
  \/ <>(~Undisturbed)
  \/ <>[](jobStatus = "completed")

=============================================================================
