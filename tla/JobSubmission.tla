--------------------------- MODULE JobSubmission ---------------------------
(***************************************************************************)
(* The life of a job seen from its documents.  The client of xt run writes *)
(* the parent runs, the job's files and the job's document, and submits a  *)
(* task for every node to the compute service (the boxes of a pool, Azure  *)
(* Batch, Azure ML); a node's controller claims the job's child runs one   *)
(* after the other and ends them; another command may cancel the job, or a *)
(* node's run, at any moment.                                              *)
(*                                                                         *)
(* The service tells what it started only when the submission returns, so  *)
(* the job's document is written twice, before and after it (runner.py).   *)
(***************************************************************************)
EXTENDS Integers, FiniteSets, FiniteSetsExt

CONSTANTS NodeCount,   \* nodes of the job, one parent run each
          RunCount,    \* the job's child runs
          Jobs         \* the jobs to look at: service, schedule, and bounds:
                       \* whether the submitting client may be interrupted,
                       \* and the number of cancel commands

ASSUME CountsArePositive == NodeCount \in Nat \ {0} /\ RunCount \in Nat \ {0}
ASSUME KnownJobs ==
  Jobs \subseteq [service : {"pool", "batch", "aml"}, schedule : {"static", "dynamic"},
                  stops : BOOLEAN, cancels : Nat]

Nodes == 0 .. NodeCount - 1
Entries == 0 .. RunCount - 1
AnyNode == -1
NoEntry == -1
\* Every entry is claimed twice at most: the document is reset once.
Names == Nodes \X (0 .. 2 * RunCount)
Parent(n) == <<n, 0>>
NoRun == <<AnyNode, 0>>
RunsOf(n) == {x \in Names : x[1] = n}

VARIABLES
  job,       \* the job, one of Jobs
  client,    \* the submitting client: where it is, and the node it deals with
  files,     \* the job's files in the store
  doc,       \* the job's document in MongoDB
  task,      \* task[n]: the task of node n at the service
  ctl,       \* ctl[n]: n's controller: where it is, its entry and its run,
             \*   and whether it counted its node
  status,    \* status[x]: the status in the document of run x
  listed,    \* the child runs with a "child_created" record at their parent
  ends,      \* ends[x]: the "ended" records in the log of run x
  executed,  \* executed[e]: how often entry e was started
  user,      \* the cancel command
  cancels,   \* how many there were
  reset      \* whether the second write of the document undid a node's

nodeVars == <<task, ctl, listed, executed>>
runVars == <<status, ends>>
userVars == <<user, cancels>>
vars == <<job, client, files, doc, nodeVars, runVars, userVars, reset>>

NoDoc == [logged |-> FALSE]
\* Mutant: the nodes are counted from one.
BuildActiveRunsFromOne ==
  [e \in Entries |-> [status |-> "unstarted",
     node |-> IF job.schedule = "dynamic" THEN AnyNode ELSE (e % NodeCount) + 1]]

BuildActiveRuns ==
  [e \in Entries |-> [status |-> "unstarted",
     node |-> IF job.schedule = "dynamic" THEN AnyNode ELSE e % NodeCount]]

PrimaryInfo ==
  [logged |-> TRUE, job_status |-> "submitted", running_nodes |-> 0,
   running_runs |-> 0, completed_runs |-> 0, active_runs |-> BuildActiveRuns,
   known |-> FALSE, services |-> {}]

NoUser == [op |-> "none", pc |-> "idle", left |-> {}, hit |-> {}, runs |-> {},
           submitted |-> FALSE]
Off == [pc |-> "off", entry |-> NoEntry, run |-> NoRun, counted |-> FALSE]

Init ==
  /\ job \in Jobs
  /\ client = [pc |-> "runs", node |-> 0]
  /\ files = {} /\ doc = NoDoc
  /\ task = [n \in Nodes |-> "none"] /\ ctl = [n \in Nodes |-> Off]
  /\ status = [x \in Names |-> "none"] /\ ends = [x \in Names |-> 0]
  /\ listed = {} /\ executed = [e \in Entries |-> 0]
  /\ user = NoUser /\ cancels = 0 /\ reset = FALSE

-----------------------------------------------------------------------------
(* The client: process_run_command *)

ClientTo(pc, n) == client' = [pc |-> pc, node |-> n]
Last(n) == n = NodeCount - 1

\* One parent run for every node.
CreateRun ==
  /\ client.pc = "runs"
  /\ status' = [status EXCEPT ![Parent(client.node)] = "created"]
  /\ IF Last(client.node) THEN ClientTo("context", 0)
     ELSE ClientTo("runs", client.node + 1)
  /\ UNCHANGED <<job, files, doc, nodeVars, ends, userVars, reset>>

\* The contexts of all nodes, as a file of the job.
WriteContext ==
  /\ client.pc = "context" /\ ClientTo("upload", 0)
  /\ files' = files \cup {"context"}
  /\ UNCHANGED <<job, doc, nodeVars, runVars, userVars, reset>>

Upload ==
  /\ client.pc = "upload" /\ ClientTo("primary", 0)
  /\ files' = files \cup {"code"}
  /\ UNCHANGED <<job, doc, nodeVars, runVars, userVars, reset>>

\* Mutant: the primary info is logged with the service info only.
LogPrimaryLater ==
  /\ client.pc = "primary" /\ ClientTo("submit", 0)
  /\ status' = [x \in Names |-> IF x[2] = 0 THEN "queued" ELSE status[x]]
  /\ UNCHANGED <<job, files, doc, nodeVars, ends, userVars, reset>>

\* The parent runs are marked queued, and the primary job info is logged.
LogPrimary ==
  /\ client.pc = "primary" /\ ClientTo("submit", 0)
  /\ status' = [x \in Names |-> IF x[2] = 0 THEN "queued" ELSE status[x]]
  /\ doc' = PrimaryInfo
  /\ UNCHANGED <<job, files, nodeVars, ends, userVars, reset>>

SubmitNode ==
  /\ task' = [task EXCEPT ![client.node] = "waiting"]
  /\ IF Last(client.node) THEN ClientTo("service", 0)
     ELSE ClientTo("submit", client.node + 1)
  /\ UNCHANGED <<job, files, doc, ctl, listed, executed, runVars, userVars, reset>>

\* The entry of a node in its box's queue directory (Psm): box after box.
SubmitToBox == job.service = "pool" /\ client.pc = "submit" /\ SubmitNode

\* A run of Azure ML for a node: one after the other.
SubmitToAml == job.service = "aml" /\ client.pc = "submit" /\ SubmitNode

\* A Batch job with a task for every node: the tasks are added at once.
SubmitToBatch ==
  /\ job.service = "batch" /\ client.pc = "submit" /\ ClientTo("service", 0)
  /\ task' = [n \in Nodes |-> "waiting"]
  /\ UNCHANGED <<job, files, doc, ctl, listed, executed, runVars, userVars, reset>>

\* The service info is logged, and with it the primary info once more.
LogService ==
  /\ client.pc = "service" /\ ClientTo("done", 0)
  /\ doc' = [PrimaryInfo EXCEPT !.known = TRUE, !.services = Nodes]
  /\ reset' = (doc # PrimaryInfo)
  /\ UNCHANGED <<job, files, nodeVars, runVars, userVars>>

\* An exception or control-c ends the client anywhere.
Stop ==
  /\ job.stops /\ client.pc \notin {"done", "stopped"} /\ ClientTo("stopped", 0)
  /\ UNCHANGED <<job, files, doc, nodeVars, runVars, userVars, reset>>

-----------------------------------------------------------------------------
(* The controller of a node, one child at a time *)

Now(n, pc) == task[n] \in {"running", "dying"} /\ ctl[n].pc = pc
CtlTo(n, pc) == ctl' = [ctl EXCEPT ![n].pc = pc]
EndRecord(x) == ends' = [ends EXCEPT ![x] = @ + 1]
SetStatus(x, s) == status' = [status EXCEPT ![x] = s]

\* The service starts the task, its controller reads the node's context.
Boot(n) ==
  /\ task[n] = "waiting"
  /\ task' = [task EXCEPT ![n] = "running"]
  /\ CtlTo(n, "claim")
  /\ UNCHANGED <<job, client, files, doc, listed, executed, runVars, userVars, reset>>

Claimable(n) == {e \in Entries : doc.active_runs[e].status = "unstarted"
                                 /\ doc.active_runs[e].node \in {AnyNode, n}}

\* Children are numbered from 1 within their parent.
NextChild(n) == <<n, Cardinality({x \in RunsOf(n) : status[x] # "none"})>>

\* The next entry of the job for this node; without one the parent run ends.
Claim(n) ==
  /\ Now(n, "claim")
  /\ IF Claimable(n) = {}
     THEN ctl' = [ctl EXCEPT ![n].pc = "end", ![n].entry = NoEntry, ![n].run = Parent(n)]
          /\ UNCHANGED doc
     ELSE LET e == Min(Claimable(n)) IN
          /\ doc' = [doc EXCEPT !.active_runs[e] = [status |-> "started", node |-> n]]
          /\ ctl' = [ctl EXCEPT ![n].pc = "spawn", ![n].entry = e, ![n].run = NextChild(n)]
  /\ UNCHANGED <<job, client, files, task, listed, executed, runVars, userVars, reset>>

\* The child's document, while the parent is spawning.
SpawnChild(n) ==
  /\ Now(n, "spawn") /\ CtlTo(n, "list")
  /\ status' = [status EXCEPT ![Parent(n)] = "spawning", ![ctl[n].run] = "created"]
  /\ UNCHANGED <<job, client, files, doc, task, listed, executed, ends, userVars, reset>>

ListChild(n) ==
  /\ Now(n, "list") /\ CtlTo(n, "start")
  /\ listed' = listed \cup {ctl[n].run}
  /\ UNCHANGED <<job, client, files, doc, task, executed, runVars, userVars, reset>>

\* The child's process, counted in the document; the first one with its node.
StartChild(n) ==
  /\ Now(n, "start")
  /\ ctl' = [ctl EXCEPT ![n].pc = "run", ![n].counted = TRUE]
  /\ SetStatus(ctl[n].run, "running")
  /\ executed' = [executed EXCEPT ![ctl[n].entry] = @ + 1]
  /\ doc' = IF ctl[n].counted THEN [doc EXCEPT !.running_runs = @ + 1]
            ELSE [doc EXCEPT !.running_runs = @ + 1, !.running_nodes = @ + 1,
                             !.job_status = "running"]
  /\ UNCHANGED <<job, client, files, task, listed, ends, userVars, reset>>

\* The parent is queued again; the child's process runs, and ends.
ChildEnds(n) ==
  /\ Now(n, "run") /\ CtlTo(n, "end")
  /\ SetStatus(Parent(n), "queued")
  /\ UNCHANGED <<job, client, files, doc, task, listed, executed, ends, userVars, reset>>

\* A run's end goes to its log first, to its document next.
LogEnd(n) ==
  /\ Now(n, "end") /\ CtlTo(n, "write")
  /\ EndRecord(ctl[n].run)
  /\ UNCHANGED <<job, client, files, doc, task, listed, executed, status, userVars, reset>>

WriteEnd(n) ==
  /\ Now(n, "write")
  /\ CtlTo(n, IF ctl[n].entry = NoEntry THEN "idle" ELSE "finish")
  /\ SetStatus(ctl[n].run, "completed")
  /\ UNCHANGED <<job, client, files, doc, task, listed, executed, ends, userVars, reset>>

\* The child is counted, and its entry marked completed.
FinishChild(n) ==
  /\ Now(n, "finish") /\ CtlTo(n, "claim")
  /\ doc' = [doc EXCEPT !.running_runs = @ - 1, !.completed_runs = @ + 1,
                        !.active_runs[ctl[n].entry].status = "completed"]
  /\ UNCHANGED <<job, client, files, task, listed, executed, runVars, userVars, reset>>

\* An idle controller counts its node's exit, if it counted its start.
ShutDown(n) ==
  /\ Now(n, "idle") /\ CtlTo(n, "off")
  /\ task' = [task EXCEPT ![n] = "ended"]
  /\ LET left == doc.running_nodes - 1
     IN  doc' = IF ctl[n].counted
                THEN [doc EXCEPT !.running_nodes = left,
                                 !.job_status = IF left = 0 THEN "completed" ELSE @]
                ELSE doc
  /\ UNCHANGED <<job, client, files, listed, executed, runVars, userVars, reset>>

\* Azure ML takes its time to cancel a run.
TaskDies(n) ==
  /\ task[n] = "dying"
  /\ task' = [task EXCEPT ![n] = "killed"]
  /\ UNCHANGED <<job, client, files, doc, ctl, listed, executed, runVars, userVars, reset>>

-----------------------------------------------------------------------------
(* The commands xt cancel job, xt cancel run and xt cancel all *)

Prompt == job.service # "aml"
Over(n) == task[n] \in {"ended", "killed", "dying"}
Unwrapped == {"created", "queued", "spawning", "allocating", "running"}
Open(n) == {x \in RunsOf(n) : status[x] \in Unwrapped}

\* cancel_node; its result for Azure ML is never "cancelled".
KillNode(n) ==
  task' = IF Over(n) THEN task
          ELSE [task EXCEPT ![n] = IF Prompt THEN "killed" ELSE "dying"]

\* cancel_node's result; for Azure ML it is never "cancelled".
Hit(n) == IF Prompt /\ ~Over(n) THEN {n} ELSE {}

MayCancel == user.pc \in {"idle", "done", "failed"} /\ cancels < job.cancels
Command(op, fails, targets, pc) ==
  /\ MayCancel /\ cancels' = cancels + 1
  /\ user' = [NoUser EXCEPT !.op = op, !.submitted = (client.pc = "done"),
       !.pc = IF fails THEN "failed" ELSE IF targets = {} THEN "done" ELSE pc,
       !.left = IF fails THEN {} ELSE targets]
  /\ UNCHANGED <<job, client, files, doc, nodeVars, runVars, reset>>

\* xt cancel job: the services of its nodes are read from the job's document.
CancelJob ==
  LET known == doc.logged /\ doc.known
  IN  Command("job", ~known, IF known THEN doc.services ELSE {}, "nodes")

\* Mutant: a task that has not started is taken for cancelled.
CancelNodeIfRunning ==
  /\ user.pc = "nodes"
  /\ LET n == Min(user.left) IN
     /\ IF task[n] = "waiting" THEN UNCHANGED task ELSE KillNode(n)
     /\ user' = [user EXCEPT
          !.pc = IF user.left = {n} THEN "query" ELSE @,
          !.left = IF user.left = {n} THEN doc.services ELSE @ \ {n},
          !.hit = @ \cup Hit(n)]
  /\ UNCHANGED <<job, client, files, doc, ctl, listed, executed, runVars, cancels, reset>>

CancelNode ==
  /\ user.pc = "nodes"
  /\ LET n == Min(user.left) IN
     /\ KillNode(n)
     /\ user' = [user EXCEPT
          !.pc = IF user.left = {n} THEN "query" ELSE @,
          !.left = IF user.left = {n} THEN doc.services ELSE @ \ {n},
          !.hit = @ \cup Hit(n)]
  /\ UNCHANGED <<job, client, files, doc, ctl, listed, executed, runVars, cancels, reset>>

\* wrapup_runs_by_node: the runs of a node whose documents have not ended.
QueryRuns ==
  /\ user.pc = "query"
  /\ LET n == Min(user.left) IN
     user' = [user EXCEPT !.left = @ \ {n}, !.pc = "wrapup", !.runs = Open(n)]
  /\ UNCHANGED <<job, client, files, doc, nodeVars, runVars, cancels, reset>>

\* The jobs a pool or Azure ML backend looks at.
ActiveJob == doc.logged /\ doc.job_status \notin {"created", "completed"}

\* xt cancel run, of a node's parent run: the whole node is killed.
CancelRun(n) ==
  /\ job.service # "batch" /\ status[Parent(n)] # "none"
  /\ Command("run", job.service = "pool" /\ ActiveJob /\ ~doc.known,
             IF ActiveJob THEN {n} \cap doc.services ELSE {}, "task")

\* On Batch the task is named by the run's box.
CancelRunOnBatch(n) ==
  /\ job.service = "batch" /\ status[Parent(n)] # "none"
  /\ Command("run", task[n] = "none", {n}, "task")

\* xt cancel all: for Azure ML no job has the service info it looks for.
CancelAll ==
  job.service # "batch" /\
  Command("all", job.service = "pool" /\ ActiveJob /\ ~doc.known,
          IF job.service = "pool" /\ ActiveJob THEN doc.services ELSE {}, "task")

\* On Batch the boxes of the jobs that have not terminated.
CancelAllOnBatch ==
  /\ job.service = "batch"
  /\ Command("all", doc.logged /\ task[0] = "none",
             IF doc.logged /\ \E n \in Nodes : ~Over(n) THEN Nodes ELSE {}, "task")

\* Mutant: the children are left to themselves.
LogsToEndOfParent(n) ==
  IF job.service = "batch" /\ ends[Parent(n)] = 0 THEN {Parent(n)} ELSE {}

\* Batch: the parent and its listed children whose logs have no end.
LogsToEnd(n) ==
  {x \in RunsOf(n) : job.service = "batch" /\ ends[x] = 0
                     /\ (x = Parent(n) \/ x \in listed)}

KillTask ==
  /\ user.pc = "task"
  /\ LET n == Min(user.left) IN
     /\ KillNode(n)
     /\ user' = [user EXCEPT !.pc = "wrapup", !.left = @ \ {n}, !.hit = @ \cup Hit(n),
                             !.runs = IF Over(n) THEN {} ELSE LogsToEnd(n)]
  /\ UNCHANGED <<job, client, files, doc, ctl, listed, executed, runVars, cancels, reset>>

\* wrapup_run for a run of a cancelled node: the job counts it as a child.
WrapUpRun ==
  /\ user.pc = "wrapup" /\ user.runs # {}
  /\ \E x \in user.runs :
       /\ \A y \in user.runs : x[2] <= y[2]
       /\ EndRecord(x) /\ SetStatus(x, "cancelled")
       /\ user' = [user EXCEPT !.runs = @ \ {x}]
  /\ doc' = [doc EXCEPT !.running_runs = @ - 1, !.completed_runs = @ + 1]
  /\ UNCHANGED <<job, client, files, nodeVars, cancels, reset>>

RunsWrappedUp ==
  /\ user.pc = "wrapup" /\ user.runs = {}
  /\ user' = [user EXCEPT !.pc = IF user.left = {} THEN "done"
                                 ELSE IF user.op = "job" THEN "query" ELSE "task"]
  /\ UNCHANGED <<job, client, files, doc, nodeVars, runVars, cancels, reset>>

-----------------------------------------------------------------------------
Client == \/ CreateRun \/ WriteContext \/ Upload \/ LogPrimary
          \/ SubmitToBox \/ SubmitToAml \/ SubmitToBatch \/ LogService
Node(n) == \/ Boot(n) \/ Claim(n) \/ SpawnChild(n) \/ ListChild(n)
           \/ StartChild(n) \/ ChildEnds(n) \/ LogEnd(n)
           \/ WriteEnd(n) \/ FinishChild(n) \/ ShutDown(n) \/ TaskDies(n)
Cancelling == CancelNode \/ QueryRuns \/ KillTask \/ WrapUpRun \/ RunsWrappedUp

Next == \/ Client \/ Stop
        \/ \E n \in Nodes : Node(n) \/ CancelRun(n) \/ CancelRunOnBatch(n)
        \/ CancelJob \/ CancelAll \/ CancelAllOnBatch \/ Cancelling

\* Every command and every controller goes on while it can.
Fairness == /\ WF_vars(Client) /\ WF_vars(Cancelling)
            /\ \A n \in Nodes : WF_vars(Node(n))

Spec == Init /\ [][Next]_vars /\ Fairness

-----------------------------------------------------------------------------
ClientSteps == {"runs", "context", "upload", "primary", "submit", "service",
                "done", "stopped"}
NodeSteps == {"off", "claim", "spawn", "list", "start", "run", "end",
              "write", "finish", "idle"}
UserSteps == {"idle", "nodes", "query", "task", "wrapup", "done", "failed"}
Documents ==
  [logged : {TRUE}, job_status : {"submitted", "running", "completed"},
   running_nodes : Int, running_runs : Int, completed_runs : Nat, known : BOOLEAN,
   active_runs : [Entries -> [status : {"unstarted", "started", "completed"},
                              node : Nodes \cup {AnyNode}]],
   services : SUBSET Nodes]

\* Every variable has its type; an entry is executed twice at most.
TypeOK ==
  /\ job \in Jobs
  /\ client \in [pc : ClientSteps, node : Nodes]
  /\ files \subseteq {"context", "code"}
  /\ doc.logged => doc \in Documents
  /\ task \in [Nodes -> {"none", "waiting", "running", "dying", "ended", "killed"}]
  /\ \A n \in Nodes : ctl[n].pc \in NodeSteps /\ ctl[n].counted \in BOOLEAN
  /\ status \in [Names -> {"none", "completed", "cancelled"} \cup Unwrapped]
  /\ listed \subseteq Names /\ ends \in [Names -> Nat]
  /\ executed \in [Entries -> 0..2]
  /\ user.pc \in UserSteps /\ user.left \subseteq Nodes /\ user.hit \subseteq Nodes
  /\ user.runs \subseteq Names
  /\ cancels \in 0..job.cancels /\ reset \in BOOLEAN

\* A controller finds the job's document, its files and its own run: a task
\* is submitted when the primary job info is logged (runner.py:773-778).
NodesFindTheirJob ==
  \A n \in Nodes : (task[n] \notin {"none", "waiting"}) =>
    doc.logged /\ files = {"context", "code"} /\ status[Parent(n)] # "none"

\* The submission is in order: its documents are, and a node finds them.
SubmissionInOrder == TypeOK /\ NodesFindTheirJob

\* When xt cancel job returns for a submitted job, every node has ended and
\* none of the job's runs is left in a state of a live run.
CancelledJobIsOver ==
  (user.op = "job" /\ user.pc \in {"done", "failed"} /\ user.submitted /\ Prompt)
    => \A n \in Nodes : Over(n) /\ Open(n) = {}

\* A node cancelled by run or for its user on Batch leaves no run open, but for a child
\* whose parent had not listed it yet, or whose end was only in its log.
CancelledRunIsOver ==
  (user.op # "job" /\ user.pc = "done" /\ job.service = "batch") =>
    \A n \in user.hit : \A x \in Open(n) :
      (x \notin listed /\ x # Parent(n)) \/ (ctl[n].run = x /\ ctl[n].pc = "write")

\* A run ends once in its log, whether its controller or a cancel command
\* ends it; twice only if the node was killed between log and document.
EndedOnce ==
  Prompt => \A n \in Nodes : \A x \in RunsOf(n) : (ends[x] > 1) =>
    ends[x] = 2 /\ task[n] = "killed" /\ ctl[n].pc = "write" /\ ctl[n].run = x

\* A submitted job can be cancelled, by job, by run or for its user: what the
\* command reports cancelled is over, with one end for each of its runs
\* (impl_compute.py, wrapup_runs_by_node).
CancelledIsOver == CancelledJobIsOver /\ CancelledRunIsOver /\ EndedOnce

\* A run that has ended stays as it ended, and a node reported cancelled does
\* nothing more: it claims no entry, starts no run and ends none.
EndIsFinal ==
  \A x \in Names : (status[x] \in {"completed", "cancelled"} /\ Prompt)
    => status'[x] = status[x]
CancelledIsQuiet == \A n \in user.hit : ctl'[n] = ctl[n] /\ task'[n] = task[n]
CancelIsFinal == [][EndIsFinal /\ CancelledIsQuiet]_vars

\* What a controller has claimed is never offered again.
ClaimsSurvive ==
  [][\A e \in Entries : (doc.logged /\ doc.active_runs[e].status # "unstarted")
       => doc'.active_runs[e].status # "unstarted"]_vars

Disturbed == client.pc = "stopped" \/ cancels > 0 \/ reset
JobDone ==
  /\ doc.logged /\ doc.job_status = "completed" /\ doc.running_nodes = 0
  /\ doc.running_runs = 0 /\ doc.completed_runs = RunCount
  /\ \A e \in Entries : executed[e] = 1
  /\ \A n \in Nodes : status[Parent(n)] = "completed"

\* A job ends completed, each of its runs executed once and counted, unless
\* its submission was interrupted, it was cancelled, or the second write of
\* its document found a node at work.
JobCompletes == <>[](Disturbed \/ JobDone)
=============================================================================
