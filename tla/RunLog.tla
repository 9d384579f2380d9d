-------------------------------- MODULE RunLog --------------------------------
(***************************************************************************)
(* What is written down about a run: its log file in the store, its        *)
(* document in the database, and the file that collects the logs of all    *)
(* ended runs of a job.                                                    *)
(*                                                                         *)
(* Several threads and processes write for one run without a lock: the     *)
(* controller's queue worker, the user's process (class Run), a cancel     *)
(* request, and the thread that wraps the run up.  Each event is two or    *)
(* three separate writes (store.py log_run_event), and every writer may    *)
(* die between two of them.  A direct run has no controller: its process   *)
(* logs its own start, and its end if it calls Run.close.                  *)
(***************************************************************************)
EXTENDS Naturals, Sequences, FiniteSets, SequencesExt

CONSTANTS
  Runs,         \* the runs that are modelled
  Siblings,     \* other runs of the job: what they do to the all_runs file
  MaxMetrics,   \* bound: metrics reports of a run's process
  MaxFaults     \* bound: preemptions, cancel requests, and lost replies
                \* of the database, together

ASSUME SiblingAssumption == Runs \cap Siblings = {}
ASSUME LogBounds == MaxMetrics \in Nat /\ MaxFaults \in Nat

VARIABLES
  direct,   \* the runs without a controller
  log,      \* log[r]: the records of the run log file
  recs,     \* recs[r]: log_records of r's document
  doc,      \* doc[r]: the other properties of the document
  all,      \* the job's all_runs file
  call,     \* call[r][w]: writes that writer w still has to do for its event
  pc,       \* pc[r]: how far the launch of r is
  proc,     \* proc[r]: the user's process
  told,     \* told[r]: events the process has logged through the Run API
  wrap,     \* wrap[r]: how far the wrapup of r is
  agg,      \* agg[r]: how far r, or a sibling, is with the all_runs file
  roll,     \* roll[r]: what the wrapup has read
  cancel,   \* cancel[r]: how far a cancel request is
  attempt,  \* attempt[r]: how often r was launched
  cut,      \* cut[r]: records whose writer died before the database had them
  beside,   \* beside[r]: runs about to create all_runs when r was added to it
  left,     \* left[r]: the status r's last crash left in the document
  hasty,    \* hasty[r]: the process ended before the launch was over
  faults    \* how many there were, for the bound

store == <<log, recs, doc, all>>
life == <<attempt, direct>>
history == <<cut, beside, left, hasty>>
vars == <<store, call, pc, proc, told, wrap, agg, roll, cancel, life, history, faults>>

Fault == faults < MaxFaults /\ faults' = faults + 1

Writers == {"worker", "user", "cancel", "reader"}

DataRecord(r, event, n, zero) ==
  [event |-> event, try |-> attempt[r], n |-> n, zero |-> zero]
Record(r, event) == DataRecord(r, event, 0, FALSE)
NoMetrics == [event |-> "none", try |-> 0, n |-> 0, zero |-> FALSE]
Quiet == [w \in Writers |-> <<>>]
NoRoll == [metrics |-> NoMetrics, hparams |-> 0, restarts |-> 0, start |-> 0]
Controlled(r) == r \notin direct

\* A direct run was created by the client that submitted it.
Init ==
  /\ direct \in SUBSET Runs
  /\ attempt = [r \in Runs |-> 1]
  /\ log = [r \in Runs |-> IF Controlled(r) THEN <<>> ELSE <<Record(r, "created")>>]
  /\ recs = log
  /\ doc = [r \in Runs |->
       [status |-> IF Controlled(r) THEN "none" ELSE "created", hparams |-> 0,
        metrics |-> NoMetrics, restarts |-> 0, start |-> 0, duration |-> 0]]
  /\ all = [exists |-> FALSE, runs |-> {}]
  /\ call = [r \in Runs |-> Quiet]
  /\ pc = [r \in Runs |-> IF Controlled(r) THEN "create" ELSE "start"]
  /\ proc = [r \in Runs |-> "none"]
  /\ told = [r \in Runs |-> 0]
  /\ wrap = [r \in Runs |-> "no"]
  /\ agg = [r \in Runs \cup Siblings |-> IF r \in Runs THEN "no" ELSE "test"]
  /\ roll = [r \in Runs |-> NoRoll]
  /\ cancel = [r \in Runs |-> "no"]
  /\ cut = [r \in Runs |-> {}]
  /\ beside = [r \in Runs \cup Siblings |-> {}]
  /\ left = [r \in Runs |-> "none"]
  /\ hasty = [r \in Runs |-> FALSE]
  /\ faults = 0

-----------------------------------------------------------------------------
(* log_run_event: the log file, the document's records, its properties *)

Entry(to, rec) == [to |-> to, rec |-> rec]

\* The events whose data become properties of the document.
InDocument(rec) == rec.event \in {"hparams", "metrics", "started"}

\* Mutant: the document is written first.
LogEventDocumentFirst(rec) ==
  <<Entry("records", rec), Entry("log", rec), Entry("doc", rec)>>

LogEvent(rec) ==
  IF InDocument(rec) THEN <<Entry("log", rec), Entry("records", rec), Entry("doc", rec)>>
                     ELSE <<Entry("log", rec), Entry("records", rec)>>

\* Writer w of run r is not in the middle of an event.
Free(r, w) == call[r][w] = <<>>

Logs(r, w, rec) ==
  /\ Free(r, w)
  /\ call' = [call EXCEPT ![r][w] = LogEvent(rec)]

\* "started" sets the status, and "restarted" does not.
Updated(d, rec) ==
  CASE rec.event = "hparams" -> [d EXCEPT !.hparams = rec.n]
    [] rec.event = "metrics" -> [d EXCEPT !.metrics = rec]
    [] rec.event = "started" -> [d EXCEPT !.status = "running"]
    [] OTHER -> d

\* A push whose reply is lost is sent again.
Write(r, w) ==
  /\ ~Free(r, w)
  /\ LET h == Head(call[r][w]) IN
       \/ /\ h.to = "log"
          /\ log' = [log EXCEPT ![r] = Append(@, h.rec)]
          /\ UNCHANGED <<recs, doc, faults>>
       \/ /\ h.to = "records"
          /\ \/ recs' = [recs EXCEPT ![r] = Append(@, h.rec)] /\ UNCHANGED faults
             \/ /\ Fault
                /\ recs' = [recs EXCEPT ![r] = @ \o <<h.rec, h.rec>>]
          /\ UNCHANGED <<log, doc>>
       \/ /\ h.to = "doc"
          /\ doc' = [doc EXCEPT ![r] = Updated(@, h.rec)]
          /\ UNCHANGED <<log, recs, faults>>
  /\ call' = [call EXCEPT ![r][w] = Tail(@)]
  /\ UNCHANGED <<all, pc, proc, told, wrap, agg, roll, cancel, life, history>>

\* The records that are in the log file and not yet in the document, when
\* the writers W of run r die.
CutShort(r, W) ==
  {call[r][w][1].rec : w \in {x \in W : ~Free(r, x) /\ call[r][x][1].to = "records"}}

-----------------------------------------------------------------------------
(* The controller launches the run *)

At(r, where) == pc[r] = where
Goto(r, where) == pc' = [pc EXCEPT ![r] = where]

\* start_child_run, also for a restarted run: its insert fails then, and the
\* error is ignored.
Create(r) ==
  /\ At(r, "create") /\ Logs(r, "worker", Record(r, "created"))
  /\ doc' = [doc EXCEPT ![r].status = IF @ = "none" THEN "created" ELSE @]
  /\ Goto(r, "start")
  /\ UNCHANGED <<log, recs, all, proc, told, wrap, agg, roll, cancel, life,
                 history, faults>>

\* The process of a direct run logs "started" however often it is run.
Start(r) ==
  /\ At(r, "start")
  /\ Logs(r, "worker",
          Record(r, IF attempt[r] > 1 /\ Controlled(r) THEN "restarted" ELSE "started"))
  /\ Goto(r, IF Controlled(r) THEN "popen" ELSE "runstart")
  /\ proc' = IF Controlled(r) THEN proc ELSE [proc EXCEPT ![r] = "alive"]
  /\ UNCHANGED <<store, told, wrap, agg, roll, cancel, life, history, faults>>

Popen(r) ==
  /\ At(r, "popen") /\ Free(r, "worker")
  /\ proc' = [proc EXCEPT ![r] = "alive"]
  /\ Goto(r, "runstart")
  /\ UNCHANGED <<store, call, told, wrap, agg, roll, cancel, life, history, faults>>

\* run_start, by the controller or by the process of a direct run; a start time
\* is named by the attempt it belongs to.
RunStart(r) ==
  /\ At(r, "runstart") /\ Free(r, "worker")
  /\ Controlled(r) \/ proc[r] = "alive"
  /\ doc' = [doc EXCEPT ![r].start = attempt[r]]
  /\ Goto(r, "launched")
  /\ UNCHANGED <<log, recs, all, call, proc, told, wrap, agg, roll, cancel, life,
                 history, faults>>

-----------------------------------------------------------------------------
(* The user's process: the Run API *)

Logging(r) ==
  /\ proc[r] = "alive" /\ wrap[r] = "no"
  /\ r \in direct => At(r, "launched")

\* process_child_hparams draws new values whenever a controlled run is
\* launched; they are named by the attempt they were drawn for.
Drawn(r, try) == IF Controlled(r) THEN try ELSE 1

LogHparams(r) ==
  /\ Logging(r) /\ told[r] = 0
  /\ Logs(r, "user", DataRecord(r, "hparams", Drawn(r, attempt[r]), FALSE))
  /\ told' = [told EXCEPT ![r] = 1]
  /\ UNCHANGED <<store, pc, proc, wrap, agg, roll, cancel, life, history, faults>>

\* The value of the primary metric may be zero.
LogMetrics(r) ==
  /\ Logging(r) /\ told[r] \in 1 .. MaxMetrics
  /\ \E zero \in BOOLEAN : Logs(r, "user", DataRecord(r, "metrics", told[r], zero))
  /\ told' = [told EXCEPT ![r] = @ + 1]
  /\ UNCHANGED <<store, pc, proc, wrap, agg, roll, cancel, life, history, faults>>

\* The process dies, in the middle of an event or not; what a direct run has
\* not done of its own wrapup is lost with it.
Dies(r) ==
  LET W == IF Controlled(r) THEN {"user"} ELSE Writers IN
  /\ proc' = [proc EXCEPT ![r] = "dead"]
  /\ cut' = [cut EXCEPT ![r] = @ \cup CutShort(r, W)]
  /\ call' = [call EXCEPT ![r] = [w \in Writers |-> IF w \in W THEN <<>> ELSE @[w]]]
  /\ hasty' = [hasty EXCEPT ![r] = At(r, "runstart")]
  /\ UNCHANGED <<store, pc, told, wrap, agg, roll, life, beside, left, faults>>

ProcessEnds(r) == proc[r] = "alive" /\ Dies(r) /\ UNCHANGED cancel

-----------------------------------------------------------------------------
(* cancel_core, for a run that has a process *)

CancelLogs(r) ==
  /\ Controlled(r) /\ proc[r] = "alive" /\ cancel[r] = "no"
  /\ Fault
  /\ Logs(r, "cancel", Record(r, "cancelled"))
  /\ cancel' = [cancel EXCEPT ![r] = "kill"]
  /\ UNCHANGED <<store, pc, proc, told, wrap, agg, roll, life, history>>

\* Nothing is left to be killed when the process has ended in between.
CancelKills(r) ==
  /\ cancel[r] = "kill" /\ Free(r, "cancel")
  /\ cancel' = [cancel EXCEPT ![r] = "over"]
  /\ \/ proc[r] = "alive" /\ Dies(r)
     \/ /\ proc[r] = "dead"
        /\ UNCHANGED <<store, call, pc, proc, told, wrap, agg, roll, life, history,
                       faults>>

-----------------------------------------------------------------------------
(* The wrapup: store.wrapup_run *)

WrapAt(r, where) ==
  /\ wrap[r] = where
  /\ IF Controlled(r) THEN pc[r] # "down" ELSE proc[r] = "alive"
WrapOn(r, where) == wrap' = [wrap EXCEPT ![r] = where]

\* The reader waits for the process; a direct run calls close when it likes.
StartWrapup(r) ==
  /\ WrapAt(r, "no")
  /\ IF Controlled(r) THEN proc[r] = "dead"
     ELSE At(r, "launched") /\ Free(r, "user") /\ told[r] > 0
  /\ WrapOn(r, "all") /\ agg' = [agg EXCEPT ![r] = "test"]
  /\ UNCHANGED <<store, call, pc, proc, told, roll, cancel, life, history, faults>>

\* append_blob, by a run or a sibling: three calls.
AggAt(r, where) == agg[r] = where /\ (r \in Runs => WrapAt(r, "all"))
AggOn(r, where) == agg' = [agg EXCEPT ![r] = where]
notAgg == <<log, recs, doc, call, pc, proc, told, wrap, roll, cancel, life, faults>>

\* Mutant: the file is created whether it exists or not.
AllExistsNever(r) ==
  AggAt(r, "test") /\ AggOn(r, "create") /\ UNCHANGED <<notAgg, all, history>>

AllExists(r) ==
  /\ AggAt(r, "test") /\ AggOn(r, IF all.exists THEN "append" ELSE "create")
  /\ UNCHANGED <<notAgg, all, history>>

\* A file that another run has created in between is replaced.
AllCreate(r) ==
  /\ AggAt(r, "create") /\ AggOn(r, "append")
  /\ all' = [exists |-> TRUE, runs |-> {}]
  /\ UNCHANGED <<notAgg, history>>

Try(r) == IF r \in Runs THEN attempt[r] ELSE 1

AllAppend(r) ==
  /\ AggAt(r, "append") /\ AggOn(r, "in")
  /\ all' = [all EXCEPT !.runs = @ \cup {<<r, Try(r)>>}]
  /\ beside' = [beside EXCEPT ![r] = {q \in DOMAIN agg : agg[q] = "create"}]
  /\ UNCHANGED <<notAgg, cut, left, hasty>>

\* The places of an event's records in the log file; the last of some places.
Places(r, event) == {i \in DOMAIN log[r] : log[r][i].event = event}
LastOf(r, places) == IF places = {} THEN NoMetrics ELSE log[r][Max(places)]

\* The metrics with a value for the primary metric, where zero is taken for
\* no value.
Valid(r) == {i \in Places(r, "metrics") : ~log[r][i].zero}

\* Mutants: the first record instead of the last one.
RollUpFirst(r) ==
  IF Valid(r) = {} THEN LastOf(r, Places(r, "metrics")) ELSE log[r][Min(Valid(r))]
RollUpHparamsFirst(r) ==
  LET drawn == Places(r, "hparams") IN IF drawn = {} THEN 0 ELSE log[r][Min(drawn)].n

\* rollup_metrics_from_records: the last valid one, or the last one.
RollUp(r) == LastOf(r, IF Valid(r) = {} THEN Places(r, "metrics") ELSE Valid(r))

RollUpHparams(r) == LastOf(r, Places(r, "hparams")).n

\* rollup_and_end_run reads the log, and logs the end.
LogEnded(r) ==
  /\ WrapAt(r, "all") /\ agg[r] = "in" /\ WrapOn(r, "update")
  /\ roll' = [roll EXCEPT ![r] =
       [metrics |-> RollUp(r), hparams |-> RollUpHparams(r),
        restarts |-> Cardinality(Places(r, "restarted")), start |-> 0]]
  /\ Logs(r, "reader", Record(r, "ended"))
  /\ UNCHANGED <<store, pc, proc, told, agg, cancel, life, history, faults>>

\* What the end writes; properties without a value are left alone.
Ended(d, end) ==
  [d EXCEPT !.status = "ended", !.restarts = end.restarts,
            !.hparams = IF end.hparams = 0 THEN @ ELSE end.hparams,
            !.metrics = IF end.metrics = NoMetrics THEN @ ELSE end.metrics]

\* update_mongo_run_at_end
UpdateAtEnd(r) ==
  /\ WrapAt(r, "update") /\ Free(r, "reader") /\ WrapOn(r, "capture")
  /\ doc' = [doc EXCEPT ![r] = Ended(@, roll[r])]
  /\ UNCHANGED <<log, recs, all, call, pc, proc, told, agg, roll, cancel, life,
                 history, faults>>

CaptureAfter(r) ==
  /\ WrapAt(r, "capture") /\ WrapOn(r, "exit")
  /\ Logs(r, "reader", Record(r, "capture_after"))
  /\ UNCHANGED <<store, pc, proc, told, agg, roll, cancel, life, history, faults>>

\* run_exit reads the start time, and does nothing without one ...
RunExitReads(r) ==
  /\ WrapAt(r, "exit") /\ Free(r, "reader")
  /\ roll' = [roll EXCEPT ![r].start = doc[r].start]
  /\ WrapOn(r, IF doc[r].start = 0 THEN "done" ELSE "duration")
  /\ UNCHANGED <<store, call, pc, proc, told, agg, cancel, life, history, faults>>

\* ... and writes the time passed since.
RunExitWrites(r) ==
  /\ WrapAt(r, "duration") /\ WrapOn(r, "done")
  /\ doc' = [doc EXCEPT ![r].duration = roll[r].start]
  /\ UNCHANGED <<log, recs, all, call, pc, proc, told, agg, roll, cancel, life,
                 history, faults>>

\* mark_child_run_completed: the run is not restarted any more.
Mark(r) ==
  /\ WrapAt(r, "done") /\ WrapOn(r, "marked")
  /\ UNCHANGED <<store, call, pc, proc, told, agg, roll, cancel, life, history, faults>>

-----------------------------------------------------------------------------
(* Preemption of the run's node *)

Crash(r) ==
  /\ Fault
  /\ ~At(r, "down") /\ wrap[r] # "marked"
  /\ Goto(r, "down")
  /\ proc' = [proc EXCEPT ![r] = "none"]
  /\ cut' = [cut EXCEPT ![r] = @ \cup CutShort(r, Writers)]
  /\ call' = [call EXCEPT ![r] = Quiet]
  /\ left' = [left EXCEPT ![r] = doc[r].status]
  /\ UNCHANGED <<store, told, wrap, agg, roll, cancel, life, beside, hasty>>

Reboot(r) ==
  /\ At(r, "down")
  /\ Goto(r, IF Controlled(r) THEN "create" ELSE "start")
  /\ attempt' = [attempt EXCEPT ![r] = @ + 1]
  /\ told' = [told EXCEPT ![r] = 0]
  /\ wrap' = [wrap EXCEPT ![r] = "no"]
  /\ roll' = [roll EXCEPT ![r] = NoRoll]
  /\ agg' = [agg EXCEPT ![r] = "no"]
  /\ cancel' = [cancel EXCEPT ![r] = "no"]
  /\ hasty' = [hasty EXCEPT ![r] = FALSE]
  /\ UNCHANGED <<store, call, proc, direct, cut, beside, left, faults>>

-----------------------------------------------------------------------------
Launch(r) == Create(r) \/ Start(r) \/ Popen(r) \/ RunStart(r)
User(r) == LogHparams(r) \/ LogMetrics(r) \/ ProcessEnds(r)
Cancel(r) == CancelLogs(r) \/ CancelKills(r)
Aggregate(r) == AllExists(r) \/ AllCreate(r) \/ AllAppend(r)
Wrapup(r) == \/ StartWrapup(r)
             \/ LogEnded(r) \/ UpdateAtEnd(r) \/ CaptureAfter(r)
             \/ RunExitReads(r) \/ RunExitWrites(r) \/ Mark(r)

Next == \/ \E r \in Runs :
             \/ \E w \in Writers : Write(r, w)
             \/ Launch(r) \/ User(r) \/ Cancel(r) \/ Wrapup(r)
             \/ Crash(r) \/ Reboot(r)
        \/ \E r \in Runs \cup Siblings : Aggregate(r)

Spec == Init /\ [][Next]_vars

-----------------------------------------------------------------------------
Names == {"created", "started", "restarted", "hparams", "metrics", "cancelled",
          "ended", "capture_after"}
Records == [event : Names, try : Nat, n : Nat, zero : BOOLEAN]
Rolls == Records \cup {NoMetrics}

\* Every variable has its type; a process reports no more than it was asked to.
TypeOK ==
  /\ log \in [Runs -> Seq(Records)] /\ recs \in [Runs -> Seq(Records)]
  /\ doc \in [Runs ->
       [status : {"none", "created", "running", "ended"}, hparams : Nat,
        metrics : Rolls, restarts : Nat, start : Nat, duration : Nat]]
  /\ call \in [Runs ->
       [Writers -> Seq([to : {"log", "records", "doc"}, rec : Records])]]
  /\ told \in [Runs -> 0 .. MaxMetrics + 1]
  /\ roll \in [Runs -> [metrics : Rolls, hparams : Nat, restarts : Nat, start : Nat]]
  /\ cut \in [Runs -> SUBSET Records]
  /\ direct \subseteq Runs
  /\ all \in [exists : BOOLEAN, runs : SUBSET ((Runs \cup Siblings) \X Nat)]
  /\ agg \in [Runs \cup Siblings -> {"no", "test", "create", "append", "in"}]
  /\ pc \in [Runs -> {"create", "start", "popen", "runstart", "launched", "down"}]
  /\ proc \in [Runs -> {"none", "alive", "dead"}]
  /\ wrap \in [Runs -> {"no", "all", "update",
                        "capture", "exit", "duration", "done", "marked"}]
  /\ cancel \in [Runs -> {"no", "kill", "over"}]
  /\ attempt \in [Runs -> Nat \ {0}]
  /\ beside \in [Runs \cup Siblings -> SUBSET (Runs \cup Siblings)]
  /\ left \in [Runs -> {"none", "created", "running", "ended"}]
  /\ hasty \in [Runs -> BOOLEAN]

\* The document has only records the log file has, and lacks of them only
\* those whose writer is between the two writes or died there.
RecordsFollowLog ==
  \A r \in Runs :
    /\ ToSet(recs[r]) \subseteq ToSet(log[r])
    /\ ToSet(log[r]) \ ToSet(recs[r]) \subseteq CutShort(r, Writers) \cup cut[r]

\* After the end of an attempt nothing is logged for it but the captured
\* files and a cancel request that crossed its end.
NothingAfterEnd ==
  \A r \in Runs : \A i, j \in 1 .. Len(log[r]) :
    i < j /\ log[r][i].event = "ended" /\ log[r][j].try = log[r][i].try
      => log[r][j].event \in {"capture_after", "cancelled"}

\* The log file is in order, and the document's records follow it.
LogInOrder == TypeOK /\ RecordsFollowLog /\ NothingAfterEnd

\* A run whose process executes is shown as running; one restarted by its
\* controller keeps the status its crash left, whatever that was.
ShownAsRunning ==
  \A r \in Runs : Logging(r) =>
    \/ doc[r].status = "running"
    \/ /\ attempt[r] > 1 /\ Controlled(r)
       /\ doc[r].status = IF left[r] = "none" THEN "created" ELSE left[r]

\* As soon as an attempt has reported metrics, the document shows the last
\* ones reported, whatever was rolled up from earlier attempts.
MetricsAreCurrent ==
  \A r \in Runs :
    Logging(r) /\ told[r] > 1 /\ Free(r, "user") =>
      doc[r].metrics = LastOf(r, Places(r, "metrics"))

Over(r) == wrap[r] \in {"capture", "exit", "duration", "done", "marked"}

\* An ended run keeps the metrics reported last, unless the primary metric
\* was zero in them.
EndedMetricsAreLast ==
  \A r \in Runs : Over(r) =>
    LET last == LastOf(r, Places(r, "metrics"))
    IN  doc[r].metrics = last \/ last.zero

\* The duration of an ended run is that of its last attempt, unless its
\* process ended before the controller had noted the start.
DurationIsKnown ==
  \A r \in Runs : wrap[r] \in {"done", "marked"} =>
    doc[r].duration = attempt[r] \/ hasty[r]

\* Whoever looks at the document sees what the run does and reported last,
\* while it executes and after its end.
DocumentIsCurrent ==
  ShownAsRunning /\ MetricsAreCurrent /\ EndedMetricsAreLast /\ DurationIsKnown

\* The hyperparameters an ended run is recorded with are those its metrics
\* were measured with, unless its last attempt reported none that count:
\* what the searches learn from.
PairedWithItsHparams ==
  \A r \in Runs : Over(r) /\ doc[r].metrics # NoMetrics =>
    \/ doc[r].hparams = Drawn(r, doc[r].metrics.try)
    \/ /\ attempt[r] > 1
       /\ \A i \in Places(r, "metrics") :
            log[r][i].try = attempt[r] => log[r][i].zero

\* An ended run is in the job's all_runs file, unless another run that
\* ended at the same time was about to create the file.
AggregatedOrBeside ==
  \A r \in Runs : Over(r) => <<r, attempt[r]>> \in all.runs \/ beside[r] # {}
=============================================================================
