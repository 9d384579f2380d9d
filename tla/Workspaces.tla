---------------------------- MODULE Workspaces ----------------------------
(***************************************************************************)
(* The workspaces of a store: the commands that create, fill, delete,      *)
(* export and import them, each a chain of calls to three services that    *)
(* know nothing of each other: a container of blobs, a collection of run   *)
(* documents with its counters document, and the documents of the jobs.    *)
(* Any command may be interrupted, and two users may work on one workspace.*)
(***************************************************************************)
EXTENDS Integers, FiniteSets, FiniteSetsExt

CONSTANTS Clients,      \* the users' processes that execute commands
          Names,        \* the names of workspaces
          Source,       \* the workspace that exists, with one ended run
          Providers,    \* the storage providers: "azure" and "file"
          MaxCommands,  \* bound: commands
          MaxInterrupts \* bound: commands that are interrupted

ASSUME SourceIsName == Source \in Names
ASSUME WorkspaceBounds == MaxCommands \in Nat /\ MaxInterrupts \in Nat

VARIABLES provider,  \* of the store
          exists,    \* the workspaces that have a container
          holders,   \* holders[n]: its holder files and the control file "next"
          logs,      \* logs[n]: the runs whose directory in it has a run log
          docs,      \* docs[n]: the run documents, by number of the run
          counters,  \* counters[n]: its next run and end id, 0 without a document
          jobs,      \* the job documents, and whether the job has its blobs
          nextJob,   \* the number of the next job
          archive,   \* the archive file that was exported last
          task,      \* task[c]: the command c executes, and how far it has come
          torn,      \* workspaces on which a command ended partway or met another,
                     \* that lost a job to another one, or that are made of such
          mixed,     \* clients whose command met another one on its workspace
          commands, interrupts

store == <<exists, holders, logs>>
database == <<docs, counters, jobs, nextJob>>
bounds == <<commands, interrupts>>
vars == <<provider, store, database, archive, task, torn, mixed, bounds>>

\* Documents of runs by their number: one is added where there is none, or put in.
NoRuns == [k \in {} |-> 0]
Added(f, num, d) == [k \in DOMAIN f \cup {num} |-> IF k \in DOMAIN f THEN f[k] ELSE d]
Put(f, num, d) == [k \in DOMAIN f \cup {num} |-> IF k = num THEN d ELSE f[k]]
Without(f, num) == [k \in DOMAIN f \ {num} |-> f[k]]
NoArchive == [made |-> FALSE, torn |-> FALSE, jobs |-> {}, files |-> {},
              runs |-> NoRuns, logs |-> {}, ended |-> NoRuns]
Idle == [at |-> "idle", cmd |-> "none", ws |-> Source, left |-> {},
         runs |-> NoRuns, num |-> 0, tries |-> 0, draft |-> NoArchive]

\* jN of the store, and prefix_jobN of an import
JobId(imported, num) == [imported |-> imported, num |-> num]
Job(id, n, files) == [id |-> id, ws |-> n, files |-> files]
JobsOf(n) == {j.id : j \in {k \in jobs : k.ws = n}}
First == JobId(FALSE, 1)

Init ==
  /\ provider \in Providers
  /\ exists = {Source}
  /\ holders = [n \in Names |-> IF n = Source THEN {"runs", "experiments", "next"} ELSE {}]
  /\ logs = [n \in Names |-> IF n = Source THEN {1} ELSE {}]
  /\ docs = [n \in Names |-> IF n = Source THEN [k \in {1} |-> [job |-> First, end |-> 1]]
                                           ELSE NoRuns]
  /\ counters = [n \in Names |-> IF n = Source THEN [run |-> 2, end |-> 2]
                                               ELSE [run |-> 0, end |-> 0]]
  /\ jobs = {Job(First, Source, TRUE)} /\ nextJob = 2
  /\ archive = NoArchive
  /\ task = [c \in Clients |-> Idle]
  /\ torn = {} /\ mixed = {} /\ commands = 0 /\ interrupts = 0

At(c, where) == task[c].at = where
Ws(c) == task[c].ws
Update(c, t) == task' = [task EXCEPT ![c] = t]
Go(c, where) == Update(c, [task[c] EXCEPT !.at = where])

\* The command ends: it is done, it is refused, or it fails halfway.
Quit(c) == Update(c, Idle)
Fail(c) == Quit(c) /\ torn' = torn \cup {Ws(c)}

\* The workspaces but n that have the jobs ids, and lose them to a command at n
Robbed(ids, n) == {j.ws : j \in {k \in jobs : k.id \in ids}} \ {n}

-----------------------------------------------------------------------------
(* Commands begin at any time, and may be interrupted (Ctrl-C) anywhere *)

Start(cmd) == CASE cmd = "create" -> "create"   [] cmd = "run"    -> "ensure"
                [] cmd = "delete" -> "delete"   [] cmd = "export" -> "export"
                [] OTHER -> "import"

\* A deletion or an import that meets another command is told apart.
Begin(c, cmd, n) ==
  LET met == {d \in Clients \ {c} : ~At(d, "idle") /\ Ws(d) = n}
      names == {cmd} \cup {task[d].cmd : d \in met}
  IN /\ At(c, "idle") /\ commands < MaxCommands /\ commands' = commands + 1
     /\ cmd \in {"import", "overwrite"} => archive.made
     /\ Update(c, [Idle EXCEPT !.at = Start(cmd), !.cmd = cmd, !.ws = n])
     /\ mixed' = IF met = {} THEN mixed \ {c} ELSE mixed \cup met \cup {c}
     /\ torn' = IF met # {} /\ names \cap {"delete", "import", "overwrite"} # {}
                THEN torn \cup {n} ELSE torn
     /\ UNCHANGED <<provider, store, database, archive, interrupts>>

Interrupt(c) ==
  /\ ~At(c, "idle") /\ interrupts < MaxInterrupts /\ interrupts' = interrupts + 1
  /\ Fail(c)
  /\ UNCHANGED <<provider, store, database, archive, mixed, commands>>

-----------------------------------------------------------------------------
(* create_workspace, of its own command, of run and of import *)

CreateCheck(c) ==
  /\ At(c, "create")
  /\ IF Ws(c) \in exists THEN Quit(c) ELSE Go(c, "container")
  /\ UNCHANGED <<provider, store, database, archive, torn, mixed, bounds>>

\* Mutant: what the provider returns is not looked at.
CreateContainerAnyway(c) ==
  /\ At(c, "container") /\ Go(c, "runs") /\ exists' = exists \cup {Ws(c)}
  /\ UNCHANGED <<provider, holders, logs, database, archive, torn, mixed, bounds>>

\* "this is the step that will fail (if any)"
CreateContainer(c) ==
  /\ At(c, "container")
  /\ IF Ws(c) \in exists THEN Quit(c) /\ UNCHANGED exists
                         ELSE Go(c, "runs") /\ exists' = exists \cup {Ws(c)}
  /\ UNCHANGED <<provider, holders, logs, database, archive, torn, mixed, bounds>>

\* A blob needs its container; the file provider creates the directory.
CanPut(c) == provider = "file" \/ Ws(c) \in exists

AfterHolder(cmd) == CASE cmd = "create" -> "idle" [] cmd = "run" -> "job"
                      [] OTHER -> "jobs"

\* The three files must not be there yet; the workspace event is left out.
CreateHolder(c) ==
  LET n == Ws(c)  h == task[c].at
      then == CASE h = "runs" -> "experiments" [] h = "experiments" -> "next"
                [] OTHER -> AfterHolder(task[c].cmd)
  IN /\ h \in {"runs", "experiments", "next"}
     /\ IF CanPut(c) /\ h \notin holders[n]
        THEN /\ IF then = "idle" THEN Quit(c) ELSE Go(c, then)
             /\ exists' = exists \cup {n}
             /\ holders' = [holders EXCEPT ![n] = @ \cup {h}]
             /\ UNCHANGED torn
        ELSE Fail(c) /\ UNCHANGED <<exists, holders>>
     /\ UNCHANGED <<provider, logs, database, archive, mixed, bounds>>

-----------------------------------------------------------------------------
(* xt run: what a submission and its run leave in a workspace *)

EnsureWorkspace(c) ==
  /\ At(c, "ensure") /\ Go(c, IF Ws(c) \in exists THEN "job" ELSE "create")
  /\ UNCHANGED <<provider, store, database, archive, torn, mixed, bounds>>

\* create_job takes the number only.
NewJob(c) ==
  /\ At(c, "job")
  /\ Update(c, [task[c] EXCEPT !.at = "number", !.left = {JobId(FALSE, nextJob)}])
  /\ nextJob' = nextJob + 1
  /\ UNCHANGED <<provider, store, docs, counters, jobs, archive, torn, mixed, bounds>>

\* The counters document is made when it is missing, its next run number read
\* from the control file, which is never changed.
Counted(n) == IF counters[n].run = 0 THEN [run |-> 1, end |-> 1] ELSE counters[n]

\* A number whose run log exists is given up, three times.
TakeNumber(c) ==
  LET n == Ws(c)  num == Counted(n).run  t == task[c]
  IN /\ At(c, "number")
     /\ counters' = [counters EXCEPT ![n] = [Counted(n) EXCEPT !.run = @ + 1]]
     /\ IF num \notin logs[n]
        THEN Update(c, [t EXCEPT !.at = "start", !.num = num]) /\ UNCHANGED torn
        ELSE IF t.tries < 3
        THEN Update(c, [t EXCEPT !.tries = @ + 1]) /\ UNCHANGED torn
        ELSE Fail(c)
     /\ UNCHANGED <<provider, store, docs, jobs, nextJob, archive, mixed, bounds>>

\* A document that exists already stays: errors of the insertion are ignored.
StartRun(c) ==
  LET n == Ws(c)  num == task[c].num
      new == [job |-> CHOOSE id \in task[c].left : TRUE, end |-> 0]
  IN /\ At(c, "start")
     /\ IF CanPut(c)
        THEN /\ Go(c, "log job")
             /\ exists' = exists \cup {n}
             /\ logs' = [logs EXCEPT ![n] = @ \cup {num}]
             /\ docs' = [docs EXCEPT ![n] = Added(@, num, new)]
             /\ UNCHANGED torn
        ELSE Fail(c) /\ UNCHANGED <<exists, logs, docs>>
     /\ UNCHANGED <<provider, holders, counters, jobs, nextJob, archive, mixed, bounds>>

\* The job's document follows those of its parent runs.
LogJob(c) ==
  /\ At(c, "log job")
  /\ Update(c, [task[c] EXCEPT !.at = "end", !.left = {}])
  /\ jobs' = jobs \cup {Job(id, Ws(c), TRUE) : id \in task[c].left}
  /\ UNCHANGED <<provider, store, docs, counters, nextJob, archive, torn, mixed, bounds>>

\* The ended event goes to the log, made anew when it is gone; the update of
\* the document adds none.
EndRun(c) ==
  LET n == Ws(c)  num == task[c].num
  IN /\ At(c, "end")
     /\ IF CanPut(c)
        THEN /\ Quit(c)
             /\ exists' = exists \cup {n}
             /\ logs' = [logs EXCEPT ![n] = @ \cup {num}]
             /\ counters' = [counters EXCEPT ![n] = [Counted(n) EXCEPT !.end = @ + 1]]
             /\ docs' = IF num \in DOMAIN docs[n]
                        THEN [docs EXCEPT ![n][num].end = Counted(n).end] ELSE docs
             /\ UNCHANGED torn
        ELSE Fail(c) /\ UNCHANGED <<exists, logs, counters, docs>>
     /\ UNCHANGED <<provider, holders, jobs, nextJob, archive, mixed, bounds>>

-----------------------------------------------------------------------------
(* delete_workspace, after the user has confirmed it *)

DeleteCheck(c) ==
  /\ At(c, "delete")
  /\ IF Ws(c) \in exists THEN Go(c, "names") ELSE Quit(c)
  /\ UNCHANGED <<provider, store, database, archive, torn, mixed, bounds>>

JobNames(c) ==
  /\ At(c, "names")
  /\ Update(c, [task[c] EXCEPT !.at = "erase", !.left = JobsOf(Ws(c))])
  /\ UNCHANGED <<provider, store, database, archive, torn, mixed, bounds>>

\* The file provider returns nothing, which is taken for a failure.
DeleteContainer(c) ==
  LET n == Ws(c)
  IN /\ At(c, "erase")
     /\ exists' = exists \ {n}
     /\ holders' = [holders EXCEPT ![n] = {}] /\ logs' = [logs EXCEPT ![n] = {}]
     /\ IF n \notin exists THEN Quit(c) /\ UNCHANGED torn
        ELSE IF provider = "file" THEN Fail(c)
        ELSE Go(c, "drop") /\ UNCHANGED torn
     /\ UNCHANGED <<provider, database, archive, mixed, bounds>>

DropRuns(c) ==
  /\ At(c, "drop") /\ Go(c, "counters")
  /\ docs' = [docs EXCEPT ![Ws(c)] = NoRuns]
  /\ UNCHANGED <<provider, store, counters, jobs, nextJob, archive, torn, mixed, bounds>>

\* Mutant: only the counters of the earlier versions are removed.
DropCountersLegacy(c) ==
  /\ At(c, "counters") /\ Go(c, "delete jobs")
  /\ UNCHANGED <<provider, store, database, archive, torn, mixed, bounds>>

DropCounters(c) ==
  /\ At(c, "counters") /\ Go(c, "delete jobs")
  /\ counters' = [counters EXCEPT ![Ws(c)] = [run |-> 0, end |-> 0]]
  /\ UNCHANGED <<provider, store, docs, jobs, nextJob, archive, torn, mixed, bounds>>

\* A job that an import has taken since its name was read is deleted as well.
DeleteJob(c) ==
  /\ At(c, "delete jobs")
  /\ \E id \in task[c].left :
       /\ Update(c, [task[c] EXCEPT !.left = @ \ {id}])
       /\ jobs' = {j \in jobs : j.id # id}
       /\ torn' = torn \cup Robbed({id}, Ws(c))
  /\ UNCHANGED <<provider, store, docs, counters, nextJob, archive, mixed, bounds>>

Deleted(c) == At(c, "delete jobs") /\ task[c].left = {}

\* "workspace deleted": alone at it, the command leaves a clean slate.
DeleteDone(c) ==
  /\ Deleted(c) /\ Quit(c)
  /\ torn' = IF c \in mixed THEN torn ELSE torn \ {Ws(c)}
  /\ UNCHANGED <<provider, store, database, archive, mixed, bounds>>

-----------------------------------------------------------------------------
(* export_workspace_core: job by job, and run by run *)

Ended(n) == {num \in DOMAIN docs[n] : docs[n][num].end > 0}

\* What has ended is remembered for the property of the import.
ExportCheck(c) ==
  LET n == Ws(c)
  IN /\ At(c, "export")
     /\ IF n \in exists
        THEN Update(c, [task[c] EXCEPT !.at = "export jobs", !.left = JobsOf(n),
                          !.draft.ended = [num \in Ended(n) |-> docs[n][num]]])
        ELSE Quit(c)
     /\ UNCHANGED <<provider, store, database, archive, torn, mixed, bounds>>

\* The downloads take a snapshot of each blob, and delete "it" afterwards: the
\* Azure provider ignores the argument, and deletes the blob.
ExportJob(c) ==
  LET n == Ws(c)  t == task[c]
  IN /\ At(c, "export jobs")
     /\ \E id \in t.left :
          LET files == \E j \in jobs : j.id = id /\ j.files
              mine == {num \in DOMAIN docs[n] : docs[n][num].job = id}
          IN /\ Update(c, [t EXCEPT !.at = "export runs", !.left = @ \ {id},
                             !.runs = [num \in mine |-> docs[n][num]],
                             !.draft.jobs = @ \cup {id},
                             !.draft.files = IF files THEN @ \cup {id} ELSE @])
             /\ jobs' = IF provider = "file" THEN jobs
                        ELSE {IF j.id = id THEN [j EXCEPT !.files = FALSE] ELSE j : j \in jobs}
     /\ UNCHANGED <<provider, store, docs, counters, nextJob, archive, torn, mixed, bounds>>

\* Mutant: a run without blobs is passed over.
ExportRunWithBlobs(c) ==
  LET n == Ws(c)  t == task[c]
  IN /\ At(c, "export runs") /\ CanPut(c)
     /\ \E num \in DOMAIN t.runs :
          /\ Update(c, [t EXCEPT !.runs = Without(@, num),
                          !.draft.runs = IF num \in logs[n] THEN Added(@, num, t.runs[num]) ELSE @,
                          !.draft.logs = @ \cup (logs[n] \cap {num})])
          /\ logs' = IF provider = "file" THEN logs ELSE [logs EXCEPT ![n] = @ \ {num}]
     /\ UNCHANGED <<provider, exists, holders, database, archive, torn, mixed, bounds>>

\* A run without blobs has its document in the archive all the same.
ExportRun(c) ==
  LET n == Ws(c)  t == task[c]
  IN /\ At(c, "export runs") /\ CanPut(c)
     /\ \E num \in DOMAIN t.runs :
          /\ Update(c, [t EXCEPT !.runs = Without(@, num),
                          !.draft.runs = Added(@, num, t.runs[num]),
                          !.draft.logs = @ \cup (logs[n] \cap {num})])
          /\ logs' = IF provider = "file" THEN logs ELSE [logs EXCEPT ![n] = @ \ {num}]
     /\ UNCHANGED <<provider, exists, holders, database, archive, torn, mixed, bounds>>

\* Listing the blobs of a container that is gone is an exception on Azure.
ExportFails(c) ==
  /\ At(c, "export runs") /\ DOMAIN task[c].runs # {} /\ ~CanPut(c)
  /\ Quit(c)
  /\ UNCHANGED <<provider, store, database, archive, torn, mixed, bounds>>

ExportRunsDone(c) ==
  /\ At(c, "export runs") /\ DOMAIN task[c].runs = {}
  /\ Go(c, "export jobs")
  /\ UNCHANGED <<provider, store, database, archive, torn, mixed, bounds>>

ExportDone(c) ==
  /\ At(c, "export jobs") /\ task[c].left = {} /\ Quit(c)
  /\ archive' = [task[c].draft EXCEPT !.made = TRUE, !.torn = Ws(c) \in torn]
  /\ UNCHANGED <<provider, store, database, torn, mixed, bounds>>

-----------------------------------------------------------------------------
(* import_workspace_core *)

NewId(id) == JobId(TRUE, id.num)

\* An archive without jobs names no workspace, which is an error. Without
\* --overwrite, none of the new job ids may be in use.
ImportCheck(c) ==
  LET used == {NewId(id) : id \in archive.jobs} \cap {j.id : j \in jobs}
  IN /\ At(c, "import")
     /\ IF archive.jobs = {} \/ Ws(c) \in exists \/ (task[c].cmd = "import" /\ used # {})
        THEN Quit(c) /\ UNCHANGED torn
        ELSE /\ Update(c, [task[c] EXCEPT !.at = "create", !.left = archive.jobs,
                                          !.draft = archive])
             /\ torn' = IF archive.torn THEN torn \cup {Ws(c)} ELSE torn
     /\ UNCHANGED <<provider, store, database, archive, mixed, bounds>>

\* The documents are replaced or added, and a replaced one may have belonged to
\* another workspace. The blobs are "uploaded" to ".", which upload() refuses
\* without an error: none is.
ImportJob(c) ==
  LET t == task[c]
  IN /\ At(c, "jobs")
     /\ \E id \in t.left :
          /\ Update(c, [t EXCEPT !.at = "runs of job", !.left = @ \ {id},
               !.runs = [num \in {k \in DOMAIN t.draft.runs : t.draft.runs[k].job = id}
                           |-> t.draft.runs[num]]])
          /\ jobs' = {j \in jobs : j.id # NewId(id)} \cup
                     {Job(NewId(id), Ws(c), \E j \in jobs : j.id = NewId(id) /\ j.files)}
          /\ torn' = torn \cup Robbed({NewId(id)}, Ws(c))
     /\ UNCHANGED <<provider, store, docs, counters, nextJob, archive, mixed, bounds>>

\* The document of a run that had not ended has no end id: max() fails.
ImportRun(c) ==
  LET n == Ws(c)  t == task[c]
  IN /\ At(c, "runs of job")
     /\ \E num \in DOMAIN t.runs :
          LET doc == [t.runs[num] EXCEPT !.job = NewId(@)]
          IN /\ docs' = [docs EXCEPT ![n] = Put(@, num, doc)]
             /\ IF doc.end = 0 THEN Fail(c)
                ELSE Update(c, [t EXCEPT !.runs = Without(@, num)]) /\ UNCHANGED torn
     /\ UNCHANGED <<provider, store, counters, jobs, nextJob, archive, mixed, bounds>>

ImportRunsDone(c) ==
  /\ At(c, "runs of job") /\ DOMAIN task[c].runs = {} /\ Go(c, "jobs")
  /\ UNCHANGED <<provider, store, database, archive, torn, mixed, bounds>>

Imported(c) == At(c, "jobs") /\ task[c].left = {}
Highest(S) == IF S = {} THEN 0 ELSE Max(S)

\* Mutant: the counters start at the highest ids that were imported.
ImportCountersFromMax(c) ==
  LET runs == task[c].draft.runs
  IN /\ Imported(c) /\ Quit(c)
     /\ counters' = [counters EXCEPT ![Ws(c)] =
          [run |-> Max({1} \cup DOMAIN runs),
           end |-> Max({1} \cup {runs[num].end : num \in DOMAIN runs})]]
     /\ UNCHANGED <<provider, store, docs, jobs, nextJob, archive, torn, mixed, bounds>>

\* init_workspace_counters: the document is replaced, whatever it was.
ImportCounters(c) ==
  LET runs == task[c].draft.runs
  IN /\ Imported(c) /\ Quit(c)
     /\ counters' = [counters EXCEPT ![Ws(c)] =
          [run |-> 1 + Highest(DOMAIN runs),
           end |-> 1 + Highest({runs[num].end : num \in DOMAIN runs})]]
     /\ UNCHANGED <<provider, store, docs, jobs, nextJob, archive, torn, mixed, bounds>>

-----------------------------------------------------------------------------
Commands == {"create", "run", "delete", "export", "import", "overwrite"}

Next ==
  \E c \in Clients :
    \/ \E cmd \in Commands, n \in Names : Begin(c, cmd, n)
    \/ Interrupt(c)
    \/ CreateCheck(c) \/ CreateContainer(c) \/ CreateHolder(c)
    \/ EnsureWorkspace(c) \/ NewJob(c) \/ TakeNumber(c) \/ StartRun(c)
    \/ LogJob(c) \/ EndRun(c)
    \/ DeleteCheck(c) \/ JobNames(c) \/ DeleteContainer(c) \/ DropRuns(c)
    \/ DropCounters(c) \/ DeleteJob(c) \/ DeleteDone(c)
    \/ ExportCheck(c) \/ ExportJob(c) \/ ExportRun(c) \/ ExportFails(c)
    \/ ExportRunsDone(c) \/ ExportDone(c)
    \/ ImportCheck(c) \/ ImportJob(c) \/ ImportRun(c) \/ ImportRunsDone(c)
    \/ ImportCounters(c)

Spec == Init /\ [][Next]_vars

-----------------------------------------------------------------------------
(* What users rely on; torn names the workspaces on which a command failed  *)
(* or was interrupted partway, a deletion or an import met another command, *)
(* or from which an import took a job, and those imported from such a one.  *)

Creating(c) == task[c].at \in {"runs", "experiments", "next"}

\* The code calls create_container "the step that will fail (if any)" and what
\* follows "MULTIPROCESS: safe now": one client at a time fills a container, and
\* one without its control file, which no list of workspaces shows and no create
\* accepts, is being filled.
FilledByOne(n) ==
  /\ \A c, d \in Clients :
       Creating(c) /\ Creating(d) /\ Ws(c) = n /\ Ws(d) = n => c = d
  /\ n \in exists /\ "next" \notin holders[n] => \E c \in Clients : Creating(c) /\ Ws(c) = n

\* The jobs whose runs are there while their document is being written
Submitting(n) == UNION {task[c].left : c \in {d \in Clients : At(d, "log job") /\ Ws(d) = n}}

\* The counters are above every run and end id of the workspace unless an import
\* is at it, its end ids are unique, and every run belongs to a job of it.
Accounted(n) ==
  LET d == docs[n]
      importing == \E c \in Clients : Ws(c) = n /\ task[c].at \in {"jobs", "runs of job"}
  IN /\ \A k \in DOMAIN d :
          /\ importing \/ (k < counters[n].run /\ d[k].end < counters[n].end)
          /\ d[k].job \in JobsOf(n) \cup Submitting(n)
     /\ \A k, m \in DOMAIN d : d[k].end = d[m].end /\ d[k].end > 0 => k = m

WorkspacesInOrder == \A n \in Names \ torn : FilledByOne(n) /\ Accounted(n)

\* A new run never gets the number of one the workspace has a document of, which
\* would keep its document: not after a deletion, not after an import.
NumbersAreFree ==
  \A c \in Clients :
    At(c, "start") /\ Ws(c) \notin torn => task[c].num \notin DOMAIN docs[Ws(c)]

\* Whatever went wrong before, when a deletion that met no other command is
\* done, the three services have nothing left of the workspace.
DeletedIsGone ==
  \A c \in Clients :
    LET n == Ws(c)
    IN Deleted(c) /\ c \notin mixed =>
         /\ n \notin exists /\ holders[n] = {} /\ logs[n] = {}
         /\ DOMAIN docs[n] = {} /\ counters[n] = [run |-> 0, end |-> 0]
         /\ JobsOf(n) = {}

\* The runs that had ended when the export began are in the workspace, with their
\* end ids, under the new ids of their jobs.
EndedRunsAreIn(c) ==
  LET had == task[c].draft.ended  d == docs'[Ws(c)]
  IN /\ DOMAIN had \subseteq DOMAIN d
     /\ \A num \in DOMAIN had : d[num] = [had[num] EXCEPT !.job = NewId(@)]

\* A workspace that is made of an archive has every run that had ended when the
\* archive's export began.
ImportedIsExported ==
  [][\A c \in Clients : ImportCounters(c) /\ Ws(c) \notin torn => EndedRunsAreIn(c)]_vars

\* What managing_workspace_data.rst promises: "a complete set of the workspace's
\* jobs and job runs data", here the run logs of the runs that have ended.
ArchiveIsComplete ==
  archive.made => \A num \in DOMAIN archive.runs :
                    archive.runs[num].end > 0 => num \in archive.logs
=============================================================================
