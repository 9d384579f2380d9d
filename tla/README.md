# XTlib: models of how XT jobs are submitted, executed and recorded

XTlib (`xtlib/`) submits machine-learning jobs to compute services, runs them on
the nodes of a job and records what happened in MongoDB and in a file store. This
directory holds TLA+ models of the parts that have to be right under concurrency
and failure: how a job is submitted and cancelled, how its child runs are
allocated to nodes and counted, how a node's controller takes a run from its queue
to its wrapup, handles its output and writes its log, how runs get their numbers
and their places in the history that searches read, how the queue of a box works,
and how workspaces are created, deleted, exported and imported. TLC checks them on
small instances; TLAPS proves the safety properties that the passing runs check, for
every value of the constants.

All paths below are relative to `src/`; `controller.py`, `run_info.py`, ... are
in `src/xtlib/`.

## 1. Inventory

### How a job goes through the system

`xt run` creates the job's **parent runs** and its files in a workspace, writes the
job's document, and hands one task per node to a **compute service** (the boxes of
a pool, Azure Batch, Azure ML). On each node one **XT controller**
(`controller.py`) works through a queue whose first element is the node's parent
run; while children are left, the parent claims one, starts it as a process and
goes back into the queue. A box has a **pool service manager** (`psm/`), which runs
the submitted tasks one at a time. Nodes and clients share nothing but MongoDB and
the store; all the rest is calls of one to the other that may fail halfway.

| Component | State | Operations | Interacts with | Module |
|---|---|---|---|---|
| Child run allocation, `storage/mongo_run_index.py` | `active_runs` of the job's document: per child its status, node, name | `build_active_runs`, `get_next_child_run`, `mark_child_run_completed`, `_restart_runs_for_node` | each controller's queue worker and reader threads; MongoDB's `find_and_modify` | `MongoRunIndex` |
| Job status and counters, `storage/mongo_db.py` | `job_status`, `running_nodes`, `running_runs`, `completed_runs` | `job_node_start/exit`, `job_run_start/exit` through `mongo_with_retries` | queue workers and reader threads of all nodes | `JobCounters` |
| XT controller, `controller.py` | `queue`, `runs`, `running_jobs`, `rundirs`, `shutting_down` | queue worker, `cancel_*`, `get_runs`, `restart_controller`, `on_idle`/`on_shutdown`, attach, detach | RPC clients; RunInfo; allocation; counters | `RunControl`, `RunOutput` |
| RunInfo, `run_info.py` | `status`, `process`, `killing`, `exit_code`, `rundir`, callbacks, recent output | `set_process`, `check_for_completed`, `kill`, `run_wrapup`, `process_run_output` | a reader thread per process, RPC threads, the queue worker | `RunControl`, `RunOutput` |
| Store, run log and run documents, `storage/store.py`, `run.py` | run log files, run documents, the job's `all_runs` file | `log_run_event`, `wrapup_run`, `run_start`/`run_exit`, rollup of metrics | the user's process, the controller, cancel requests | `RunLog` |
| Sequence numbers and history, `mongo_db.py`, `hparams/hparam_search.py` | the counters document of a workspace; `end_id` of each run; what each search has read | creating and ending a run; `get_completed_runs` | all clients and controllers of a workspace | `RunHistory` |
| Job submission, cancel commands, backends: `runner.py`, `impl_compute.py`, `backends/` | job document, service info, tasks | submit, cancel job / run / all, `wrapup_runs_by_node` | clients, services, controllers | `JobSubmission` |
| Pool service manager, `psm/` | a queue directory, the server's working directory, the process table of a box | enqueue, (re)start of the server, status, log, cancel; the server loop | local clients (files), remote ones (SSH) | `Psm` |
| Workspaces: `storage/store.py`, `impl_storage.py`, the two storage providers | container, run documents, counters document, job documents, an archive | create, delete, export, import | several users' commands | `Workspaces` |
| Direct runs, `run.py` | as the run log | a run without controller logs itself | store | `RunLog` |
| Mirror worker, cache server, reports, configuration, command parsing | files, credentials | - | - | not modelled |

### What is hard

* **Concurrency inside a controller.** The queue worker, one reader thread per
  process, and RPC threads all read and write `RunInfo.status` and
  `RunInfo.process`; attach and detach change the list of callbacks a reader is
  going through; a restarted controller empties the tables under the readers of the
  session before.
* **Concurrency between nodes and clients.** Claims and counters are single MongoDB
  updates, but their callers make two of them, or read first and update later. A
  cancel command works from service info and run documents that the submitting
  client and the controllers go on writing.
* **Failure.** Nodes of a low-priority pool are preempted and boot again; a
  controller may be restarted in place; a psm server is killed by the next client;
  a command is interrupted by its user between two services; `mongo_with_retries`
  sends a command again after any exception, whether or not the first took effect.
* **Ordering.** An event goes to the log file, the document's records and the
  document's properties in three writes, by up to four writers per run; an end id is
  allocated before the document that shows it is written.
* **Timing.** `on_shutdown` grants two seconds to wrapups under way; a node decides
  by statuses alone, just after it started a run, whether it is idle.

### What makes the components correct

* Allocation: no run has two executors, none is taken from its executor, none is
  lost by a preemption; a completed run stays completed; every run completes.
* Counters: they account for every node and run at every moment; the job ends
  `completed`.
* Controller: the concurrency limit holds; each run is wrapped up once with its
  final status; no shutdown leaves a process behind; a cancel request returns; a
  directory has one user; output reaches the console file and each client once.
* Log: the document follows the log, is current, and pairs metrics with the
  hyperparameters they were measured with; every ended run is in `all_runs`.
* History: numbers and end ids are unique; a search misses no ended run but one
  that was just ending.
* Submission: a node finds what it needs; a cancelled node does nothing more and
  leaves no run open; an undisturbed job executes every run once.
* Box: one entry at a time; a cancelled one never runs; no other is forgotten.
* Workspaces: filled by one client; numbers stay free; a deletion leaves nothing; an
  import has what the export had.

`PROJECT.json` lists the hazards line by line with the property that covers each.

## 2. Modules

| Module | Models | Instance |
|---|---|---|
| `MongoRunIndex` | `storage/mongo_run_index.py` with the part of the controller that calls it | `MCMongoRunIndex` |
| `RunAllocation` | the abstract specification of the allocation, instantiated in `MongoRunIndex` | - |
| `MongoRunIndexProofs` | theorems about `MongoRunIndex` | - |
| `JobCounters` | the counter updates of `storage/mongo_db.py` and their callers on all nodes | `MCJobCounters` |
| `RunControl` | queue, run table, processes and wrapup of one controller | `MCRunControl` |
| `RunControlProofs` | theorems about `RunControl` | - |
| `RunOutput` | directories, console files, attached clients and restarts of one controller | `MCRunOutput` |
| `RunOutputProofs` | theorems about `RunOutput` | - |
| `RunLog` | log file, document and `all_runs` of a run, controlled or direct | `MCRunLog` |
| `RunLogProofs` | theorems about `RunLog` | - |
| `RunHistory` | run numbers, end ids, and the histories searches read | `MCRunHistory` |
| `CountersProofs` | theorems about `JobCounters` and about `RunHistory`, the two sets of counters in the database | - |
| `JobSubmission` | submission, execution and cancellation of a job, seen from its documents | `MCJobSubmission` |
| `JobSubmissionProofs` | theorems about `JobSubmission` | - |
| `Psm` | the queue of a box | `MCPsm` |
| `PsmProofs` | theorems about `Psm` | - |
| `Workspaces` | create, fill, delete, export and import of workspaces | `MCWorkspaces` |
| `WorkspacesProofs` | theorems about `Workspaces` | - |

The modules share their subject and not their variables: each takes the
interleavings of one layer, and abstracts the others to what its layer sees of
them (`JobSubmission` has the claims and counters as single updates, for
`MongoRunIndex` and `JobCounters` look into them; `RunOutput` starts and ends
processes without the queue of `RunControl`). Operators whose comment begins with
"Mutant" are plausible bugs in the code; they are in no next-state relation.
`PROJECT.json` names for each property a mutant that breaks it.

Where a property holds but for a window the code leaves open, the model records
the window in a variable that only history reads (`late`, `blur`, `crossed`,
`cut`, `beside`, `lost`, `torn`, ...), set by the very step that opens it, and the
property names it as its only exception: a violation outside of it would be found.

### MongoRunIndex

`status`, `owner`, `name` are the fields `status`, `node_id`, `run_name` of the
entries of `active_runs`; `nextChild` is the counter of child names per parent.
`pc` says where a node's queue worker is, `stamped` which entries carry the guid
of the claim under way, `execs` and `wraps` which children execute and which
threads are between `exit_handler` and the end of `mark_child_run_completed`.

Each `find_and_modify` is one action, on the first entry that matches (MongoDB's
`$elemMatch` with the positional `$`). `get_next_child_run` is the sequence
`ClaimWaiting` / `NoneWaiting`, `GetName`, `ClaimUnstarted` / `NoneUnstarted`.
`LoseReply` is the retry of a claim that was applied: the command is sent again
with the same guid, and `StartChild` starts the first of the stamped entries.
`mark_child_run_completed` is two actions, `MarkAssert` on the entry as it was
read and `MarkWrite`. `Crash` is the end of a node at any moment (preemption, or a
controller that dies of an exception), `Reboot` its next session, and
`RestartController` the request of that name together with the reset that
`on_idle` makes after it. A wrapup that was past the test of `killed_for_restart`
goes on across a restart in place.

`AllocationSpec` is the refinement: through `Holder`, an active entry is held by
its owner, a completed one is done, and every other is free; then every step is a
`Take`, `GiveUp` or `Finish` of `RunAllocation`, or changes nothing.

### JobCounters

Node by node, the children are counted by how far they are (`todo`, `redo`,
`running`, `ended`, `exited`), since the counters do not tell them apart. The
job's document has `jobStatus`, `runningNodes`, `runningRuns`, `completedRuns`.
`job_node_start` and `job_node_exit` are two updates each and two actions each.
`known` is whether `running_jobs` holds the job, which decides whether a node
counts itself in and out. An update whose reply is lost is applied again
(`AppliedTimes`). `ParentEnds` is the wrapup of the parent run, for which
`job_run_exit` is skipped only if the job has a `repeat_count`.

### RunControl

The threads of one controller have a program counter each: `wpc` the queue worker,
`rpc[r]` the reader thread of run `r`, `xpc` a thread that cancels all runs or
those of a name, `spc` a thread that answers a status request. Run 0 is the first
run of the node, a parent when `IsParent`; runs 1, 2, ... are its children.
`handle[r]` is "`self.process` is not None" and `proc[r]` the process itself, so
that a process that is dead but not yet reaped, or reaped while its status is
still `running`, are states of their own. `lock[r]` is the run's lock, which only
`set_process`, `kill` and the end of the parent take. `wrapups[r]` records the
status with which each wrapup logged the run.

`WorkerFails` and `WorkerExits` are an exception on the way to a run's start:
`bg_queue_worker` sleeps a minute, in which the other threads go on, and ends the
controller. `ReaderDies` and `ReaderExits` are the same for a reader thread.

### RunOutput

`rundirs` is the controller's table (`allocate_rundir`, `return_rundir`), `console`
the lines in each directory's `console.txt`. A RunInfo is a run in a session; its
fields are `run` (status, process, `killing`), `dir`, `printed` and `read` (the lines
its process printed and its reader took), `recent`, `callbacks` and `acallbacks`, and
`reader` is its thread. The worker allocates a directory and cleans it, taking another
one when it cannot (`CleanFails`). A reader handles a text in the steps of
`process_run_output`: the console file, the recent lines, then one callback after
the other, with the index `i` it holds across them; attach appends to `callbacks`
(`Snapshot`) and to `acallbacks` (`Hook`) at different moments, detach takes from both
at the `Place` the client has in the first. A restart kills
the runs and begins the next session when the worker is idle; readers of the old
one go on with the tables of the new one. `MaxRecent` is smaller than the code's ten
lines: the code drops ten of eleven, the model `MaxRecent` of `MaxRecent + 1`.

### RunLog

`log_run_event` is three writes in a row (`call[r][w]`): to the log file, to
`log_records`, to the document's properties, for four kinds of writers. `Launch`
steps are the worker's `run_start` before and after the process exists (a direct run
makes them itself, so not after its end); the user's process logs hparams and metrics; the wrapup appends `ended`, rolls the log up,
writes the document, adds the run to `all_runs` (`exists`, `create`, `append` of the
Azure provider) and logs the captured files. A node may crash between any two writes
and boot again, a cancel request may come at any one, and the reply to a database
write may be lost and the write repeated.

### RunHistory

`counters` is the workspace's counters document: tested for and inserted in two
calls, `next_run` taken from the control file of older versions (`LegacyNext`), so a
number may belong to a run already (`LegacyRuns`): `_create_next_run_directory`
takes the next one, up to its number of tries. A run ends in two calls, `TakeEndId`
and the write of the document, and may be executed and ended again. `Search` is
`HParamSearch.get_completed_runs`, which reads the end ids above the highest it has
seen; `late` holds the end ids it passed before they were written.

### JobSubmission

`client` goes through parent runs, context, files, the primary job info, the
service's submission and the second write of the job's document
(`runner.py:773-833`); it may be interrupted at any step. `task[n]` is what the
service knows of a node, `ctl[n]` its controller. The cancel commands are those of
the three backends, each with its own order of killing, waiting and wrapping up:
`wrapup_runs_by_node` queries a node's open runs and ends one after the other, while
the node may still be at work. `job` is chosen in `Init` from `Jobs`, so that one
run covers the services.

### Psm

`file`, `cwd` and `job` are the queue directory, the server's working directory and
the process table of a box. `Client` steps are the checks and copies of
`LocalPsmClient` and `RemotePsmClient`, which differ in what they kill, where they put
`psm.py` and whether an entry is copied under its final name; `Server` steps are the
loop of `psm.py`, from listing the queue to the removal of the entry and the start of
its script; `JobStep` and `JobOutput` stand for the script and its controller.
`User` is a monitor or cancel command, one file or process test per step.

### Workspaces

A workspace is a container with holder files and logs (`exists`, `holders`, `logs`),
run documents, a counters document, and jobs that name it. Each command of a client
is the chain of calls the code makes (`task[c].at`), and `Interrupt` may end it
between any two. The storage provider is chosen in `Init`; they differ in how a
container is created and deleted and in what the download of an export leaves.

## 3. Runs

Each run's properties are in `PROJECT.json`; sizes are distinct states.

| Run | Instance | What it shows |
|---|---|---|
| `mri_dynamic` | 2 nodes, 2 runs, dynamic schedule, 2 preemptions (142k) | no takeover, no orphan, no entry marked twice or left behind, one name per run for life, refinement of `RunAllocation`; every run completes |
| `mri_restart` | 2 nodes, 3 runs dealt 2 + 1, 1 preemption, 1 restart in place, 1 lost reply, no timing assumed (1.3M) | still one executor per run, completed stays final |
| `counters` | 2 nodes with 2 and 1 children, 1 preemption, 1 update applied twice (838k) | undisturbed, the counters account for all nodes and runs at every step and the job ends completed for good; in any case a run marked completed is counted |
| `control` | 3 settings of one controller: a parent with 3 children, 2 at a time, with and without timing and exceptions; a parent with 1 child, 1 cancel request, status requests, exceptions (594k) | the limit holds, a run is wrapped up once with its final status, no process is left behind, a cancel request returns, every run is wrapped up |
| `output` | 5 workloads of 1-2 runs, 0-2 clients, up to 4 lines, 1 restart, 1 directory that cannot be cleaned (431k) | a directory has one user and is returned; the console file is complete; a client gets each line once and is told of the end |
| `runlog` | 1 run, direct or not, and 1 sibling, 2 metrics, 1 fault (1.8M) | the document follows the log and is current; metrics are paired with their hyperparameters; `all_runs` is complete |
| `history` | 3 runs, one a controller's child, 1 search, 2 executed again, 1 failed insertion, numbers 1 and 3-6 taken (63k) | numbers and end ids are unique; a search misses only a run that was just ending; end ids grow |
| `submission` | 2 nodes, 2 runs, on a pool (static and dynamic), Batch and Azure ML, with an interrupted client and a cancel command (720k) | a node finds its job; what a cancel command reports cancelled is over and stays so; an undisturbed job completes, each run executed once |
| `submission_reset` | expected violation | see section 5 |
| `psm` | 3 entries, one of the box itself, 2 versions of `psm.py`, 1 monitor or cancel command (266k) | one entry at a time; a cancelled one never runs; every other is started or named as lost |
| `workspaces` | 2 users, 2 workspaces, either provider, 4 commands, 1 interruption (3.1M) | one client fills a workspace; numbers stay free; a deletion leaves nothing; an import has what the export had |
| `workspaces_export` | expected violation | see section 5 |

**Why these bounds.** Every interference on the allocation is between two claims, a
claim and a put-back, or a claim and a wrapup, so two nodes are enough; the second
preemption lets a node be preempted again while it puts its entries back, or both be
down at the same time. Static entries never change hands: three runs give one node two of
them. Three children with two at a time fill the concurrency limit while the parent is
queued again; a cancel request needs one child, whose claim, start and end it can meet
at any point; two children with one at a time and cancel requests take TLC much longer than a
run should, and that setting is left to `LimitIsKept`, which covers all. A line beyond `MaxRecent` empties the recent lines; two clients are needed
for attaches that overlap and for a detach under another's callback; two runs for a
directory that changes hands. Two metrics let the primary metric be zero after one that
is not, in one attempt or across a restart; one sibling is what a run can end beside.
Three runs let two commands race for the counters document while a child takes the next
end id, and taken numbers 3-6 exhaust the tries. One cancel command meets every step of a
submission. Three entries let a server hold one while the next client kills it and a third waits.
Four commands let an archive be made, the workspace be deleted, imported and used
again, with another command or an interruption between any two calls.

**Symmetry** is used in `history` (the two commands) and `workspaces` (the two users),
runs without liveness.

**Deadlock** is checked for `MongoRunIndex`, `JobCounters` and `RunControl`, where
`Terminated` is the only stuttering, when all controllers have ended. The others say
`CHECK_DEADLOCK FALSE`: commands end, users need not start another one, and the
system may then be at rest in many ways.

**Fairness.** Threads of a live controller are scheduled, programs and commands that
were started go on, users' processes end, and the service boots a preempted node again:
`WF` on each thread or process (`Worker`, `Reader`, `Client`, `Server`, `Reboot`, ...).
Requests of clients, output of scripts, faults, interruptions and preemptions have
none. In `MongoRunIndex` a child's end is strongly fair because `ChildrenAreSlow`
disables it for a moment in each round of the worker; it is the only `SF`.
`RunHistory`, `RunLog` and `Workspaces` state safety only: what they lack to be
finished is a client that may be gone.

**Timing.** The controller counts on real time in two places, and the models make
both explicit:
* `ChildrenAreSlow`, and `Settled` of a `timely` setting: a child outlives the
  `queue_check` that starts it (microseconds to one database call);
* `GraceSuffices`, and `WrapupsOver` of a `timely` setting: a wrapup ends within the two
  seconds of `on_shutdown`.

`Psm`'s `Overlap = FALSE` says that two clients do not (re)start the server of a box at
the same moment; section 5 says what happens otherwise.

## 4. Proofs

Every theorem below is about all values of the constants, and all behaviours of the
specification without fairness, unless the table names an assumption. An assumption
is there because the property fails without it: section 5 says how. The modules
have one lemma per action for each group of invariants, so that a change of one
handler in the code touches one lemma of each.

### Allocation

`MongoRunIndexProofs` proves for every number of nodes and runs, both
schedules, any `Concurrent`, and any number of faults unless an assumption
restricts them:

| Theorem | Assumes | Establishes |
|---|---|---|
| `TypeCorrect` | - | `TypeOK` |
| `InvariantHolds` | - | the inductive invariant `IInv` |
| `OneExecutor` | - | `OneExecutorPerRun` |
| `Undisturbed` | - | `NoTakeover` |
| `CompletedForGood` | - | `CompletedIsFinal` |
| `MarkedOnce` | `MaxRestarts = 0` | `NeverMarkedTwice` |
| `AllocationRefined` | `MaxRestarts = 0` | `AllocationSpec` |
| `NamedForLife` | - | `NameIsForLife` |
| `UniqueNames` | `MaxLostReplies = 0` | `NamesAreUnique` |
| `NobodyIsOrphaned` | `MaxRestarts = 0`, `MaxLostReplies = 0`, `GraceSuffices` | `NoOrphan` |
| `AllRunsAreDone` | the same, and `ChildrenAreSlow` | `NothingLeftBehind` |
| `EntriesAreInOrder` | the same, and `ChildrenAreSlow` | `EntriesInOrder`, the invariant of `mri_dynamic` |

They rest on `CountAssumption` and `ScheduleAssumption` of `MongoRunIndex`, which
TLC evaluates in every run of that module.

*The argument.* `OneExecutorPerRun` is not inductive: nothing in it says why a
claim cannot take a run that executes. `IInv` adds `ExecsAreOwned` (a run that
executes is owned by its executor and taken: neither unstarted nor waiting for a
restart; so a claim, which takes a free entry, cannot touch it), `StampsAreOwned`
(the same of the entries stamped by the claim under way, so that starting the first
of them is safe even after a lost reply), and `QuietNodes` (a node that is down,
puts entries back or is gone executes nothing and has no claim under way, so the
entries it puts back execute nowhere). After a restart in place an executed entry
may be marked completed by the old session, hence "taken" and not "active".

`NeverMarkedTwice` and the refinement need more, `WInv`: the wrapups of a node are
on active entries of that node, no run is executed, stamped and wrapped up more
than once in all, and no wrapup outlives its session. This
is false after a restart in place, whose old threads go on; hence the assumption,
and section 5 shows what happens without it. `NoOrphan` is inductive together with
`WInv` and `NoStamps`, that no claim is ever under way with an entry stamped and
not started; a lost reply breaks that, and a shutdown that cuts off a wrapup
breaks `NoOrphan` itself.

Names are unique because the names in use, and the one a node has fetched and not yet
given to an entry, were each taken once from the counter (`NameInv`); a name is for life
because an unstarted entry, the only one that is given a name, has none
(`UnstartedIsNameless`). `NothingLeftBehind` is about the moment a node leaves: `EndInv`
says that a node whose parent is queued again is executing a child when it looks whether it
is idle (`ChildrenAreSlow`), that an entry put back waits for a node that has yet to look for
it, and that a node that found no entry left none it could have claimed.

### Counters

| Theorem of `CountersProofs` | Assumes | Establishes |
|---|---|---|
| `TypeCorrect` | - | `TypeOK` |
| `NodesAgree` | - | `NodesAreCounted`, `RunningNodeMeansRunningJob` and `CompletedJobIsQuiet`: undisturbed, `running_nodes` counts the nodes at work, and the job's status follows it |
| `MarkedAreCounted` | `GraceSuffices` | `MarkedRunsAreCounted`, whatever is preempted or applied twice |
| `CountersAlwaysAgree` | `GraceSuffices`, `RepeatIsSet` | `CountersAgree` |

They rest on `NodesAssumption`, `BoundsAssumption` and `FlagAssumption`.

*The argument.* A sum over the nodes is proved about through `Total`, the cardinality of
a set of pairs (node, unit): a step that moves one unit of one node moves one element, and
the library's theorems on cardinality apply where a fold would need an induction.
`WorkersInOrder` adds what the counters do not tell: which of the two updates of a start or an
exit a node has made, and what it may be running then. `MarkedRunsAreCounted` is not
inductive, since a crash throws runs back that were counted out and not marked yet;
`ExitedRunsAreCounted`, which does not count on those, is.

### Controller

| Theorem of `RunControlProofs` | Establishes |
|---|---|
| `TypeCorrect` | `TypeOK` |
| `LimitIsKept` | `ConcurrencyLimit`: no more than `--concurrent` processes execute, except those a cancel request is about to kill |
| `NoProcessIsOrphaned` | `NoOrphanProcess`: a controller never shuts down over a live process, with the same exception |
| `RunsEndOnlyOnce` | `RunsEndOnce`: undisturbed, a run is wrapped up once, with its final status, and no ended one is forgotten by a timely shutdown |
| `ThreadsStayInOrder` | `ThreadsInOrder`: the type, the limit, and that no reader thread dies of an exception when undisturbed |

They hold for any number of children, any limit, and any number of cancel requests, with
or without status requests, exceptions and timing, and rest on `FlagAssumption` and
`SettingsAssumption`.

*The argument.* The limit is a comparison of what the table says (`running_runs` counts
statuses) with what executes. `LiveIsKnown` closes the gap: a live process that nobody is
killing belongs to a run of the table whose status still counts, or to the run the worker
is starting; it needs `ReapedIsDead` (whoever is to write a final status has seen the
process dead) and `StartsInOrder` (what the worker has in its hands at each step of a
start is not in anybody else's). `RoomForOne` carries the worker's test from the moment it
counts to the moment the process exists: in between, other threads only take runs out of
the count. `NoOrphanProcess` follows, since `on_idle` reads the same statuses. For
`RunsEndOnce` the theorems add what readers do when no client interferes: a reader exists
from the end of its start on and reaps its process itself (`ReadersInOrder`), and has
wrapped up and marked the run exactly when it is past those steps (`WrapupsInOrder`).

### Directories and output

| Theorem of `RunOutputProofs` | Establishes |
|---|---|
| `TypeCorrect` | `TypeOK`: also, that the table never has more than two directories for each run |
| `DirsStayInOrder` | `DirsInOrder`: no two runs use one directory, none is cleaned under a run, none is kept for a run that is over |
| `OutputStaysComplete` | `OutputIsComplete`: when a run returns its directory, the console file has all it printed; a client gets each line once and in order |
| `DetachTakesItsOwn` | `DetachIsOwn`: a client's detach takes its own callback, and a client that has left gets nothing |

They hold for any finite set of runs, any clients, any limit, any `MaxRecent` and any
workloads, from `OutputAssumption`, but for the windows `late`, `leaked`, `blur` and
`crossed` of section 5.

*The argument.* The inductive invariant `IInv` has four groups.
Directories: `DirInOrder` says that a live reader is of the current session (unless
one is `late`) and that the table gives it its directory, so two readers with one
directory are the same one; `WorkerInOrder` says that the worker's directories are marked for a
run that has no reader yet; `MarkedDirsAreUsed` is inductive with these two.
`DirsAreFew` bounds the table: each run taken in a session adds at most the two
directories of one `allocate_rundir`, and `ToCome` are those it has yet to add.
Console file: `DirInOrder` says also what it holds at any moment, the lines up to the
last one read and then the exit message, and `ReaderInOrder` that this message comes after
the process is gone and the pipe is empty or dropped; `RecentInOrder` says the same of the recent lines,
which are the last ones of the console file.
Callbacks: `ListsInOrder` says that the two lists hold clients of that run, each once.
The two may differ at any moment; of a client that attached
without meeting another, `ClientInOrder` says that it has one place in both and that what
is before it is the same in both (`AtOnePlace`). That survives whatever others append
behind it and take before it, and is why `detach` may use one index for both.
Lines: `LinesInOrder` says of such a client that it has every line read from its first one
on, except the one the reader has in its hands and will send to it when the loop reaches
it (`Pending`), and that it does not have that one yet (`SentOnce`). A detach in the
middle of the loop moves clients below the index the reader holds; the text that is
then handled is in `blur`, and the next one begins at the first place again.

TLC held `IInv` on the workloads of `output` and on one with three clients before it was
proved. The latter was of use: an earlier definition of `crossed` had only clients whose
attaches overlapped directly, and a third client, which attaches later and meets nobody,
can still find its callback at two different places of the lists that the first two
left; two clients never show this. `crossed` is now what `ClientInOrder` needs: who
attaches while the lists differ, and who is attaching then.

### Run log

| Theorem of `RunLogProofs` | Establishes |
|---|---|
| `TypeCorrect` | `TypeOK` |
| `LogStaysInOrder` | `LogInOrder`: the document's records follow the log file but for writes under way or cut off, and nothing but a cancellation or captured files follows an attempt's end |
| `DocumentStaysCurrent` | `DocumentIsCurrent`: status, metrics, start and duration are those of the run |
| `PairsAreRight` | `PairedWithItsHparams`: an ended run's metrics stand beside the hyperparameters they were measured with |
| `AggregatedIsKept` | `AggregatedOrBeside`: an ended run is in `all_runs`, unless another one was just creating the file |

They hold for any runs and siblings of a job, controlled or direct, any number of
reports, and any number of crashes, cancel requests and lost replies, from
`SiblingAssumption` and `LogBounds`.

*The argument.* The inductive invariant `InOrder` is the type, `RunInOrder` for each run, and
`AggregateInOrder`. Every step is one run's own, or none's, so `RunInOrder` is shown of one
run at a time. It says what is left of each writer's event (`CallsAreEvents`) and that
the event is of the writer's kind and of the current attempt (`WritersInOrder`), for which
launch, process and wrapup must keep step (`PhasesInOrder`). Then the log is ordered by
attempts and holds an attempt's hyperparameters before its first report (`LogIsOrdered`),
and what the document has is read off it (`RecordsInLog`, `StatusInOrder`,
`TimesInOrder`, `MetricsInOrder`). The pairing follows from the order: if the rollup
takes metrics of the last attempt, the last hyperparameters are of that attempt as well.
`AggregateInOrder` says who can still remove an entry of `all_runs`: once the file exists
nobody begins to create it, so only those who were about to when the run was added, and
they are in its `beside`. TLC held `InOrder` on two instances before it was proved.

### Run history

The second half of `CountersProofs` proves for any number of runs, children and searches, any first
number, any set of taken numbers, and any number of repeated executions and failures:

| Theorem | Establishes |
|---|---|
| `HistoryTypeCorrect` | `HistoryTypeOK` |
| `UniqueNumbers` | `NumbersAreUnique`: no two runs of a workspace get one number |
| `HistoryInvariant` | the inductive invariant `IInv` |
| `UniqueEndIds` | `EndIdsAreUnique` |
| `MissedOnlyLate` | `MissedWereLate`: what a search misses was being ended when it read |
| `EndIdsGrowAlways` | `EndIdsGrow`: an end id is only replaced by a greater one |

They rest on the assumptions `ChildRuns`, `LegacyIds` and `HistoryBounds`, which TLC
evaluates in `history`. The specification is called `HistorySpec`, since the module has
`JobCounters` and its `Spec` as well.

*The argument.* Uniqueness of what is given out is not inductive without the counter it
is taken from: `NumbersBelowNext` and `EndIdsBelowNext` add that every number and end
id is below the next, that nobody is past the insertion while the document is missing,
so that the losing client of the race cannot set the counter back, and that a wrapup on its
way holds an end id higher than the run's last one. `MissedWereLate` needs
`PassedAreLate`: an end id on its way that a search has gone past is in `late` already,
before the document shows it; and `EndIdsBelowNext` again, for a search cannot have
gone past an id not given out yet. `history` checks the same `IInv` as an invariant.

### Submission and cancel commands

| Theorem of `JobSubmissionProofs` | Establishes |
|---|---|
| `SubmissionIsInOrder` | `SubmissionInOrder`: a controller at work finds its job's document, files and parent run, and no entry is executed more than twice or claimed beyond its run's name |
| `CancelledJobsAreOver` | `CancelledIsOver`: what a cancel command reported cancelled executes nothing, leaves no run open but those section 5 names, and no run has a second end but one cut off between log and document |
| `CancelIsForGood` | `CancelIsFinal`: an ended run stays as it ended, a cancelled node does nothing more |

They rest on `CountsArePositive` and `KnownJobs`, and hold for any number of nodes and
runs on each of the services.

*The argument.* The bound on executions and names is a count: each child is one claim
(`ChildrenAreClaims`), and an entry is claimed once per write of the document
(`ClaimedTwice`), of which there are two. For cancellation, the runs of a node at work are open
(`LiveRuns`), the ends in a run's log follow its status (`EndsInOrder`), and a killed node
takes no step (`HitsAreKilled`). While a command goes through the nodes, the open runs of
those it is done with are among the runs it has still to end (`JobCancelled`,
`RunCancelled`, `UserRunsAreOpen`); with none left, the property follows.

### The queue of a box

| Theorem of `PsmProofs` | Assumes | Establishes |
|---|---|---|
| `QueueIsInOrder` | - | `QueueInOrder`: each entry is in one place, so none is started twice |
| `OneAtATime` | `Overlap = FALSE` | `OneEntryAtATime` |
| `CancelledForGood` | `Overlap = FALSE` | `CancelledStaysOver` |

They rest on `EntriesFinite`, `LocalEntries`, `TicksOfEntries`, `VersionsPositive` and
`BoundsAreNaturals`.

*The argument.* `Places` says of each entry which of queue, server, box and `lost` exclude
each other, and when; it holds even when the commands of clients overlap. With one command at a
time (`OneClient`) there is one server (`OneServer`, `NoneStarting`), so its count of no
processes stays true until it starts the next entry (`CountedNone`). A cancel command kills
what it takes for the current entry, which has begun (`CurrentHasBegun`) and so is in no place
it could start from again.

### Workspaces

| Theorem of `WorkspacesProofs` | Establishes |
|---|---|
| `WorkspacesStayInOrder` | `WorkspacesInOrder`: one client fills a container; every run has a job of its workspace and an end id of its own below the counter |
| `StartsWithAFreeNumber` | `NumbersAreFree`: a run gets a number nobody has, after any deletion and import |
| `DeletionIsComplete` | `DeletedIsGone` |
| `ImportsAreOfExports` | `ImportedIsExported` |

for any users, workspaces, commands and interruptions on either provider, from `SourceIsName`
and `WorkspaceBounds` alone. The properties except workspaces in `torn` and deletions in `mixed`
(section 5).

*The argument.* `IInv` says how far each command is (`Phases`) and what it has done there:
a command that met no other is alone with its workspace, and a deletion or an import is,
unless the workspace is torn (`AloneOrMixed`, `ExclusiveIsAlone`); what a deletion
has removed stays removed until it returns (`DeletionsInOrder`); what is in the archive is an
image of the workspace it was made of (`ArchiveInOrder`). For each workspace that is not torn,
a number taken is below the counter and taken by nobody else, the documents of its runs and
jobs agree, an export's copies agree with the documents they are of, and an import has come as
far as it has come in a sound archive. TLC held `IInv` on all states of `workspaces` before it
was proved.

### Only model-checked

* Liveness (`EveryRunCompletes`, `EveryRunIsWrappedUp`, `CancelReturns`,
  `JobCompletesForGood`, `JobCompletes`, `AttachEnds`, `EntriesAreStarted`), which like
  `ENABLED` is out of the prover's reach.
* The instances themselves: that the action guards let the interesting cases happen is
  shown by the runs, and by the mutants, each of which TLC finds.

## 5. What does not hold

Two disagreements between the code and what it says of itself have a run that shows
them:

* `submission_reset` (`runner.py:833`): the last step of a submission should log the
  service info; it logs the whole dictionary again, with `active_runs`, `job_status`
  and the counters at their first values. On a box, whose controller is already at work,
  claimed and completed entries are offered once more: runs are executed twice, and
  `running_nodes` goes below zero, so the job never becomes `completed`.
* `workspaces_export` (`store_azure_blob21.py:195`): an export downloads each blob by a
  temporary snapshot and deletes the snapshot; `delete_blob` does not pass the snapshot
  on and deletes the blob. The export of a workspace removes what it downloaded, and the
  next archive has none of it.

The models show others, as properties that no run lists, or when a constant of a
passing run is changed:

| Where | Then this fails | Because |
|---|---|---|
| `mri_dynamic`: `ChildrenAreSlow = FALSE`, one node | `EntriesInOrder`, `EveryRunCompletes` | a child that ends before the idle check of the `queue_check` that started it leaves the controller idle with its parent in the queue |
| `mri_dynamic`: `GraceSuffices = FALSE` | `EntriesInOrder`, `EveryRunCompletes` | `os._exit` cuts off a wrapup, whose entry is never marked |
| `mri_dynamic`: `MaxLostReplies = 1` | `NoOrphan` | a claim whose reply was lost is sent again and takes a second entry; the first is started, the other is executed by nobody until its node opens another session |
| `mri_dynamic`: `MaxLostReplies = 1`, add the invariant | `NamesAreUnique` | both entries get the name that was fetched for one |
| `mri_restart`: add the invariant | `NeverMarkedTwice` | a wrapup of the old session marks an entry the new one executes again |
| `counters`: without `Undisturbed` | `NodesAreCounted` | a preempted node counts itself in again only if its first run of the session is not a restarted one |
| `counters`: `RepeatIsSet = FALSE` | `RunsAreCounted` | the parent's wrapup is counted as the end of a run that was never counted in; `running_runs` ends at -1 |
| `control`: `HasParentScript = TRUE` | `ChildrenAreStarted` | the script of a parent run is started with an empty `cmd_parts`, whose first part the launch reads |
| `control`: add the invariant | `CancelLeavesNothing` | `cancel_all` returns while the queue worker holds a child that is in neither the queue nor the table |
| `control`: without `Undisturbed` | `WrapupOnce`, `ReadersSurvive` | a child cancelled before its process is known is wrapped up and marked, then started, wrapped up and marked again |
| `control`: without `Undisturbed` | `WrapupLogsFinalStatus` | a status request reaps the process; before it has noted the final status, the wrapup logs `running` |
| `control`: two children, one at a time, a cancel request and status requests | `ConcurrencyLimit` without its exception for processes being killed | a status request finds `killing` set and calls the run `dying` before the signal is sent; the worker, which counts those that run, starts another one |
| `psm`: add the invariant | `CompletedMeansEnded` | a server holds an entry between the queue and the script, where no status test looks: a waiting entry is reported completed |
| `psm`: `Overlap = TRUE` | `OneEntryAtATime` | two clients each see no server and start one |

A controller that the code restarts in place is not quite a new one, and a cancel
command does not stop every writer. The windows that the properties name as their
exceptions are these:

* `RunOutput`: `late` - a reader of the session before was at work when the new one
  began, and returns or writes to a directory of the new session; `leaked` - the second
  directory `allocate_rundir` is given is dropped, so it is never returned and the run
  uses one that was not cleaned; `blur` - texts handled while a client attaches are sent
  twice, or not at all when another one detaches, and an exit message sent before the
  callback is there leaves the client's loop without an end; `crossed` - overlapping
  attaches order `callbacks` and `acallbacks` differently, for as long as the run lasts:
  one client's detach takes the callback of another, also of one that attaches later.
* `RunLog`: `cut` - a writer died between log file and document; `beside` - two runs that
  end together both create `all_runs`, and the later one overwrites it; `left` - a
  restarted run keeps the status its crash left; `hasty` - a process that ends
  before `run_start` returns gets its start after its end. A last report whose primary
  metric is zero is passed over by `if value:` in favour of an earlier one.
* `RunHistory`: `late` - a search goes past an end id between its allocation and the
  write of the document, and never sees that run.
* `JobSubmission`: a child that its parent has not listed yet is not wrapped up by a cancel
  command on Batch; Azure ML's "cancel all" cancels nothing; pool and Azure ML cancel
  runs without wrapping them up; a client interrupted before the second write leaves a
  job that cannot be cancelled.
* `Psm`: `lost` - a restarted server loses the entry the killed one held, and the one of a local
  client that was unzipped before its copy was complete; `died` - a cancel command
  removed the entry a server was about to take.
* `Workspaces`: `torn` - a command failed or was interrupted partway, or two commands
  changed one workspace: a half-created one can neither be listed nor created; an
  archive with a run that has not ended makes an import fail after its runs were written
  and before the counters are; a workspace loses a job that its runs name to an import with
  `--overwrite`, or to a deletion that read the jobs' list before; and what is
  imported from a torn workspace's archive is torn as well. `mixed` - a deletion during which another command added
  to the workspace leaves what that one wrote. On the file provider a deletion stops
  after the files are gone (`delete_container` returns `None`), and the documents stay.

## 6. Not modelled

* In the modelled components: `--concurrent -1` (no limit), the hold-open of
  multi-run jobs, `error_runs`, exceptions in the start of a single first run
  after its process exists, mirror workers, certificates, tensorboard; checkpoint files,
  tags and shares; experiments; the log readers of Batch and Azure ML (`impl_compute.py`
  186-320; that of a box is in `Psm`), whose text nobody acts on; `dequeue` and
  `enum_queue` of the psm clients, which nothing calls or which only report. A running
  run that uploads into a workspace that is being deleted is left out of `Workspaces`.
* `kill` gives the process tree time to go; the model lets the process be found
  alive or dead by the poll after it.
* The services themselves (MongoDB, Azure Storage, Batch, Azure ML, the shell of a box)
  are modelled only by how the code uses them.
* Search algorithms are numerical and random; what they read is in `RunHistory` and
  `RunLog`.
* The storage providers' listings, copies and properties, the generated shell scripts,
  the command line (`qfe.py` and its tables), help, reports, plots, configuration, vault, the
  cache server and the mirror worker. They make up most of the lines of the
  repository, are sequential, and keep no state that another component changes under
  them: their errors are wrong values for given inputs, within reach of a
  unit test. For this reason the models cover a small share of the lines, and most of the
  lines at which two actors meet. `PROJECT.json` has the reason for each component.

## 7. Plan

Done: the models of all components of section 1 that have one, their abstract
specification `RunAllocation`, and the proofs of `MongoRunIndex`, `JobCounters`,
`RunControl`, `RunOutput`, `RunLog`, `RunHistory`, `JobSubmission`, `Psm` and
`Workspaces`. Next:

1. Lemmas that several proofs have in a form of their own (a step of one node or run
   leaves the others alone; a set of pairs counts a sum) stated once where they
   can be shared.
2. The mirror worker against the files a run writes, and a run's upload into a
   workspace that is being deleted.
