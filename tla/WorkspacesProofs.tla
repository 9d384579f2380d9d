------------------------- MODULE WorkspacesProofs -------------------------
(***************************************************************************)
(* Proofs about Workspaces, for any number of users, workspaces, commands  *)
(* and interruptions, on either storage provider.                          *)
(***************************************************************************)
EXTENDS Workspaces, FiniteSetTheorems, WellFoundedInduction, TLAPS

-----------------------------------------------------------------------------
(* Types *)

Making == {"create", "container", "runs", "experiments", "next"}
Running == {"ensure", "job", "number", "start", "log job", "end"}
Deleting == {"delete", "names", "erase", "drop", "counters", "delete jobs"}
Exporting == {"export", "export jobs", "export runs"}
Importing == {"import", "jobs", "runs of job"}
Places == {"idle"} \cup Making \cup Running \cup Deleting \cup Exporting \cup Importing

Imports == {"import", "overwrite"}

\* Where a command can be.
PlacesOf(cmd) ==
  CASE cmd = "none"   -> {"idle"}
    [] cmd = "create" -> Making
    [] cmd = "run"    -> Making \cup Running
    [] cmd = "delete" -> Deleting
    [] cmd = "export" -> Exporting
    [] OTHER          -> Making \cup Importing

JobIds == [imported : BOOLEAN, num : Nat]
RunDocs == [job : JobIds, end : Nat]

\* Finitely many documents of runs, by the number of the run.
Tables == {f \in UNION {[S -> RunDocs] : S \in SUBSET (Nat \ {0})} : IsFiniteSet(DOMAIN f)}

Archives == [made : BOOLEAN, torn : BOOLEAN, jobs : SUBSET JobIds, files : SUBSET JobIds,
             runs : Tables, logs : SUBSET Nat, ended : Tables]
Tasks == [at : Places, cmd : {"none"} \cup Commands, ws : Names, left : SUBSET JobIds,
          runs : Tables, num : Nat, tries : Nat, draft : Archives]
JobDocs == [id : JobIds, ws : Names, files : BOOLEAN]
Pairs == {p \in [run : Nat, end : Nat] : p.run > 0 => p.end > 0}

Typed ==
  /\ task \in [Clients -> Tasks]
  /\ docs \in [Names -> Tables]
  /\ counters \in [Names -> Pairs]
  /\ jobs \subseteq JobDocs
  /\ archive \in Archives
  /\ holders \in [Names -> SUBSET {"runs", "experiments", "next"}]
  /\ logs \in [Names -> SUBSET Nat]
  /\ exists \subseteq Names
  /\ nextJob \in Nat

-----------------------------------------------------------------------------
(* Tables of run documents *)

LEMMA TableFacts ==
  ASSUME NEW f \in Tables
  PROVE  /\ f = [k \in DOMAIN f |-> f[k]] /\ IsFiniteSet(DOMAIN f)
         /\ \A k \in DOMAIN f : /\ k \in Nat /\ k # 0 /\ f[k] \in RunDocs
                                /\ f[k].job \in JobIds /\ f[k].end \in Nat
<1>1. PICK S \in SUBSET (Nat \ {0}) : f \in [S -> RunDocs]
  BY DEF Tables
<1>2. IsFiniteSet(DOMAIN f)
  BY DEF Tables
<1> QED BY <1>1, <1>2 DEF RunDocs

LEMMA IsTable ==
  ASSUME NEW f, f = [k \in DOMAIN f |-> f[k]], IsFiniteSet(DOMAIN f),
         \A k \in DOMAIN f : k \in Nat /\ k # 0 /\ f[k] \in RunDocs
  PROVE  f \in Tables
<1>1. DOMAIN f \in SUBSET (Nat \ {0})
  OBVIOUS
<1>2. f \in [DOMAIN f -> RunDocs]
  OBVIOUS
<1> QED BY <1>1, <1>2 DEF Tables

LEMMA NoRunsIsTable == NoRuns \in Tables /\ DOMAIN NoRuns = {}
<1>1. DOMAIN NoRuns = {} /\ NoRuns = [k \in DOMAIN NoRuns |-> NoRuns[k]]
  BY DEF NoRuns
<1>2. IsFiniteSet(DOMAIN NoRuns)
  BY <1>1, FS_EmptySet
<1> QED BY <1>1, <1>2, IsTable

\* A document that is added where there is none, and one that is put in.
LEMMA TableAdds ==
  ASSUME NEW f \in Tables, NEW k \in Nat \ {0}, NEW d \in RunDocs
  PROVE  /\ Added(f, k, d) \in Tables /\ DOMAIN Added(f, k, d) = DOMAIN f \cup {k}
         /\ \A i \in DOMAIN f : Added(f, k, d)[i] = f[i]
         /\ k \notin DOMAIN f => Added(f, k, d)[k] = d
<1>1. PICK g : g = Added(f, k, d)
  OBVIOUS
<1>2. /\ DOMAIN g = DOMAIN f \cup {k} /\ g = [i \in DOMAIN g |-> g[i]]
      /\ \A i \in DOMAIN f : g[i] = f[i]
      /\ k \notin DOMAIN f => g[k] = d
  BY <1>1 DEF Added
<1>3. IsFiniteSet(DOMAIN f \cup {k})
  BY TableFacts, FS_AddElement
<1>4. \A i \in DOMAIN g : i \in Nat /\ i # 0 /\ g[i] \in RunDocs
  BY <1>2, TableFacts
<1> QED BY <1>1, <1>2, <1>3, <1>4, IsTable

LEMMA TablePuts ==
  ASSUME NEW f \in Tables, NEW k \in Nat \ {0}, NEW d \in RunDocs
  PROVE  /\ Put(f, k, d) \in Tables /\ DOMAIN Put(f, k, d) = DOMAIN f \cup {k}
         /\ Put(f, k, d)[k] = d
         /\ \A i \in DOMAIN f : i # k => Put(f, k, d)[i] = f[i]
<1>1. PICK g : g = Put(f, k, d)
  OBVIOUS
<1>2. /\ DOMAIN g = DOMAIN f \cup {k} /\ g = [i \in DOMAIN g |-> g[i]] /\ g[k] = d
      /\ \A i \in DOMAIN f : i # k => g[i] = f[i]
  BY <1>1 DEF Put
<1>3. IsFiniteSet(DOMAIN f \cup {k})
  BY TableFacts, FS_AddElement
<1>4. \A i \in DOMAIN g : i \in Nat /\ i # 0 /\ g[i] \in RunDocs
  BY <1>2, TableFacts
<1> QED BY <1>1, <1>2, <1>3, <1>4, IsTable

LEMMA TablePart ==
  ASSUME NEW f \in Tables, NEW S \in SUBSET DOMAIN f, NEW g, g = [k \in S |-> f[k]]
  PROVE  g \in Tables /\ DOMAIN g = S /\ \A k \in S : g[k] = f[k]
<1>1. DOMAIN g = S /\ (\A k \in S : g[k] = f[k]) /\ g = [k \in DOMAIN g |-> g[k]]
  OBVIOUS
<1>2. IsFiniteSet(S)
  BY TableFacts, FS_Subset
<1>3. \A k \in DOMAIN g : k \in Nat /\ k # 0 /\ g[k] \in RunDocs
  BY <1>1, TableFacts
<1> QED BY <1>1, <1>2, <1>3, IsTable

LEMMA TableWithout ==
  ASSUME NEW f \in Tables, NEW k
  PROVE  /\ Without(f, k) \in Tables /\ DOMAIN Without(f, k) = DOMAIN f \ {k}
         /\ \A i \in DOMAIN f : i # k => Without(f, k)[i] = f[i]
<1> DEFINE S == DOMAIN f \ {k}
<1>1. S \in SUBSET DOMAIN f /\ Without(f, k) = [i \in S |-> f[i]]
  BY DEF Without
<1> HIDE DEF S
<1>2. Without(f, k) \in Tables /\ DOMAIN Without(f, k) = S
      /\ \A i \in S : Without(f, k)[i] = f[i]
  BY <1>1, TablePart
<1> QED BY <1>2 DEF S

\* The end of a run is written in its document.
WithEnd(f, k, e) == [f EXCEPT ![k].end = e]

LEMMA TableEnds ==
  ASSUME NEW f \in Tables, NEW k \in DOMAIN f, NEW e \in Nat, NEW g, g = WithEnd(f, k, e)
  PROVE  /\ g \in Tables /\ DOMAIN g = DOMAIN f
         /\ g[k].end = e /\ g[k].job = f[k].job
         /\ \A i \in DOMAIN f : i # k => g[i] = f[i]
<1>1. f = [i \in DOMAIN f |-> f[i]] /\ f[k] \in RunDocs
  BY TableFacts
<1>2. [f[k] EXCEPT !.end = e] \in RunDocs /\ [f[k] EXCEPT !.end = e].end = e
      /\ [f[k] EXCEPT !.end = e].job = f[k].job
  BY <1>1 DEF RunDocs
<1>3. /\ DOMAIN g = DOMAIN f /\ g = [i \in DOMAIN g |-> g[i]]
      /\ g[k] = [f[k] EXCEPT !.end = e] /\ \A i \in DOMAIN f : i # k => g[i] = f[i]
  BY <1>1 DEF WithEnd
<1>4. \A i \in DOMAIN g : i \in Nat /\ i # 0 /\ g[i] \in RunDocs
  BY <1>2, <1>3, TableFacts
<1> QED BY <1>2, <1>3, <1>4, TableFacts, IsTable
-----------------------------------------------------------------------------
(* What a command remembers, and how it changes *)

LEMMA IdleIsATask ==
  /\ NoArchive \in Archives /\ Idle \in Tasks
  /\ Idle.at = "idle" /\ Idle.cmd = "none" /\ Idle.runs = NoRuns /\ Idle.ws = Source
  /\ Idle.draft = NoArchive /\ NoArchive.runs = NoRuns /\ NoArchive.ended = NoRuns
  /\ NoArchive.torn = FALSE
<1>1. NoRuns \in Tables
  BY NoRunsIsTable
<1>2. NoArchive \in Archives
  BY <1>1 DEF NoArchive, Archives
<1>3. Idle \in Tasks
  BY <1>1, <1>2, SourceIsName DEF Idle, Tasks, Places
<1> QED BY <1>2, <1>3 DEF Idle, NoArchive

\* The others keep their tasks.
Others(c) == /\ task' \in [Clients -> Tasks]
             /\ \A d \in Clients : d # c => task'[d] = task[d]

\* Client c goes on to another place, or its command is over.
Went(c, at) ==
  /\ Others(c)
  /\ task'[c].at = at /\ task'[c].cmd = task[c].cmd /\ task'[c].ws = task[c].ws
  /\ task'[c].left = task[c].left /\ task'[c].runs = task[c].runs
  /\ task'[c].num = task[c].num /\ task'[c].draft = task[c].draft
Over(c) == Others(c) /\ task'[c] = Idle

LEMMA UpdateEffect ==
  ASSUME Typed, NEW c \in Clients, NEW u \in Tasks, Update(c, u)
  PROVE  Others(c) /\ task'[c] = u
BY DEF Typed, Update, Others

LEMMA GoEffect ==
  ASSUME Typed, NEW c \in Clients, NEW at \in Places, Go(c, at)
  PROVE  Went(c, at)
<1> DEFINE u == [task[c] EXCEPT !.at = at]
<1>1. task[c] \in Tasks
  BY DEF Typed
<1>2. /\ u \in Tasks /\ u.at = at /\ u.cmd = task[c].cmd /\ u.ws = task[c].ws
      /\ u.left = task[c].left /\ u.runs = task[c].runs
      /\ u.num = task[c].num /\ u.draft = task[c].draft
  BY <1>1 DEF Tasks
<1>3. Update(c, u)
  BY DEF Go
<1> HIDE DEF u
<1> QED BY <1>2, <1>3, UpdateEffect DEF Went

LEMMA QuitEffect ==
  ASSUME Typed, NEW c \in Clients, Quit(c)
  PROVE  Over(c)
BY IdleIsATask, UpdateEffect DEF Quit, Over

LEMMA BeginEffect ==
  ASSUME Typed, NEW c \in Clients, NEW cmd \in Commands, NEW n \in Names,
         Begin(c, cmd, n)
  PROVE  /\ Others(c) /\ At(c, "idle")
         /\ task'[c].at = Start(cmd) /\ task'[c].cmd = cmd /\ task'[c].ws = n
         /\ task'[c].runs = NoRuns /\ task'[c].draft = NoArchive
<1> DEFINE u == [Idle EXCEPT !.at = Start(cmd), !.cmd = cmd, !.ws = n]
<1>1. Start(cmd) \in Places
  BY DEF Start, Places, Making, Running, Deleting, Exporting, Importing
<1>2. /\ u \in Tasks /\ u.at = Start(cmd) /\ u.cmd = cmd /\ u.ws = n /\ u.runs = NoRuns
      /\ u.draft = NoArchive
  BY <1>1, IdleIsATask DEF Tasks
<1>3. Update(c, u) /\ At(c, "idle")
  BY DEF Begin
<1> HIDE DEF u
<1> QED BY <1>2, <1>3, UpdateEffect

\* A command goes on with other names left, or with another number.
LEMMA LeftChanges ==
  ASSUME Typed, NEW c \in Clients, NEW at \in Places, NEW S \in SUBSET JobIds,
         Update(c, [task[c] EXCEPT !.at = at, !.left = S])
  PROVE  /\ Others(c) /\ task'[c].at = at /\ task'[c].left = S
         /\ task'[c].cmd = task[c].cmd /\ task'[c].ws = task[c].ws
         /\ task'[c].runs = task[c].runs /\ task'[c].num = task[c].num
         /\ task'[c].draft = task[c].draft
<1> DEFINE u == [task[c] EXCEPT !.at = at, !.left = S]
<1>1. task[c] \in Tasks
  BY DEF Typed
<1>2. /\ u \in Tasks /\ u.at = at /\ u.left = S /\ u.cmd = task[c].cmd
      /\ u.ws = task[c].ws /\ u.runs = task[c].runs /\ u.num = task[c].num
      /\ u.draft = task[c].draft
  BY <1>1 DEF Tasks
<1>3. Update(c, u)
  OBVIOUS
<1> HIDE DEF u
<1> QED BY <1>2, <1>3, UpdateEffect

LEMMA LeftShrinks ==
  ASSUME Typed, NEW c \in Clients, NEW id,
         Update(c, [task[c] EXCEPT !.left = @ \ {id}])
  PROVE  /\ Others(c) /\ task'[c].at = task[c].at /\ task'[c].left = task[c].left \ {id}
         /\ task'[c].cmd = task[c].cmd /\ task'[c].ws = task[c].ws
         /\ task'[c].runs = task[c].runs
<1> DEFINE u == [task[c] EXCEPT !.left = @ \ {id}]
<1>1. task[c] \in Tasks
  BY DEF Typed
<1>2. /\ u \in Tasks /\ u.at = task[c].at /\ u.left = task[c].left \ {id}
      /\ u.cmd = task[c].cmd /\ u.ws = task[c].ws /\ u.runs = task[c].runs
  BY <1>1 DEF Tasks
<1>3. Update(c, u)
  OBVIOUS
<1> HIDE DEF u
<1> QED BY <1>2, <1>3, UpdateEffect

LEMMA NumberTaken ==
  ASSUME Typed, NEW c \in Clients, NEW num \in Nat,
         Update(c, [task[c] EXCEPT !.at = "start", !.num = num])
  PROVE  /\ Others(c) /\ task'[c].at = "start" /\ task'[c].left = task[c].left
         /\ task'[c].cmd = task[c].cmd /\ task'[c].ws = task[c].ws
         /\ task'[c].runs = task[c].runs /\ task'[c].num = num
<1> DEFINE u == [task[c] EXCEPT !.at = "start", !.num = num]
<1>1. task[c] \in Tasks /\ "start" \in Places
  BY DEF Typed, Places, Running
<1>2. /\ u \in Tasks /\ u.at = "start" /\ u.left = task[c].left
      /\ u.cmd = task[c].cmd /\ u.ws = task[c].ws /\ u.runs = task[c].runs /\ u.num = num
  BY <1>1 DEF Tasks
<1>3. Update(c, u)
  OBVIOUS
<1> HIDE DEF u
<1> QED BY <1>2, <1>3, UpdateEffect

LEMMA NumberGivenUp ==
  ASSUME Typed, NEW c \in Clients, Update(c, [task[c] EXCEPT !.tries = @ + 1])
  PROVE  Went(c, task[c].at)
<1> DEFINE u == [task[c] EXCEPT !.tries = @ + 1]
<1>1. task[c] \in Tasks
  BY DEF Typed
<1>2. /\ u \in Tasks /\ u.at = task[c].at /\ u.left = task[c].left
      /\ u.cmd = task[c].cmd /\ u.ws = task[c].ws /\ u.runs = task[c].runs
      /\ u.num = task[c].num /\ u.draft = task[c].draft
  BY <1>1 DEF Tasks
<1>3. Update(c, u)
  OBVIOUS
<1> HIDE DEF u
<1> QED BY <1>2, <1>3, UpdateEffect DEF Went

\* An export begins, takes a job, and takes a run.
ExportBegun(c, S, E) ==
  Update(c, [task[c] EXCEPT !.at = "export jobs", !.left = S, !.draft.ended = E])

LEMMA ExportBegins ==
  ASSUME Typed, NEW c \in Clients, NEW S \in SUBSET JobIds, NEW E \in Tables,
         ExportBegun(c, S, E)
  PROVE  /\ Others(c) /\ task'[c].at = "export jobs" /\ task'[c].left = S
         /\ task'[c].cmd = task[c].cmd /\ task'[c].ws = task[c].ws
         /\ task'[c].runs = task[c].runs /\ task'[c].draft.ended = E
         /\ task'[c].draft.runs = task[c].draft.runs /\ task'[c].draft.jobs = task[c].draft.jobs
<1> DEFINE a == [task[c].draft EXCEPT !.ended = E]
           u == [task[c] EXCEPT !.at = "export jobs", !.left = S, !.draft.ended = E]
<1>1. task[c] \in Tasks /\ task[c].draft \in Archives /\ "export jobs" \in Places
  BY DEF Typed, Places, Exporting, Tasks
<1>2. a \in Archives /\ a.ended = E /\ a.runs = task[c].draft.runs /\ a.jobs = task[c].draft.jobs
  BY <1>1 DEF Archives
<1>3. u = [task[c] EXCEPT !.at = "export jobs", !.left = S, !.draft = a]
  BY <1>1 DEF Tasks
<1>4. Update(c, u)
  BY DEF ExportBegun
<1> HIDE DEF a, u
<1>5. /\ u \in Tasks /\ u.at = "export jobs" /\ u.left = S /\ u.cmd = task[c].cmd
      /\ u.ws = task[c].ws /\ u.runs = task[c].runs /\ u.draft = a
  BY <1>1, <1>2, <1>3 DEF Tasks
<1> QED BY <1>2, <1>4, <1>5, UpdateEffect

LEMMA JobExported ==
  ASSUME Typed, NEW c \in Clients, NEW id \in JobIds, NEW R \in Tables, NEW files \in BOOLEAN,
         Update(c, [task[c] EXCEPT !.at = "export runs", !.left = @ \ {id}, !.runs = R,
                      !.draft.jobs = @ \cup {id},
                      !.draft.files = IF files THEN @ \cup {id} ELSE @])
  PROVE  /\ Others(c) /\ task'[c].at = "export runs" /\ task'[c].left = task[c].left \ {id}
         /\ task'[c].cmd = task[c].cmd /\ task'[c].ws = task[c].ws
         /\ task'[c].runs = R /\ task'[c].draft.ended = task[c].draft.ended
         /\ task'[c].draft.runs = task[c].draft.runs
         /\ task'[c].draft.jobs = task[c].draft.jobs \cup {id}
<1> DEFINE F == IF files THEN task[c].draft.files \cup {id} ELSE task[c].draft.files
           a == [task[c].draft EXCEPT !.jobs = @ \cup {id}, !.files = F]
           u == [task[c] EXCEPT !.at = "export runs", !.left = @ \ {id}, !.runs = R,
                      !.draft.jobs = @ \cup {id},
                      !.draft.files = IF files THEN @ \cup {id} ELSE @]
<1>1. task[c] \in Tasks /\ task[c].draft \in Archives /\ "export runs" \in Places
  BY DEF Typed, Places, Exporting, Tasks
<1>2. F \in SUBSET JobIds
  BY <1>1 DEF Archives
<1>3. u = [task[c] EXCEPT !.at = "export runs", !.left = @ \ {id}, !.runs = R, !.draft = a]
  BY <1>1 DEF Tasks, Archives
<1> HIDE DEF F
<1>4. /\ a \in Archives /\ a.ended = task[c].draft.ended /\ a.runs = task[c].draft.runs
      /\ a.jobs = task[c].draft.jobs \cup {id}
  BY <1>1, <1>2 DEF Archives
<1>5. Update(c, u)
  OBVIOUS
<1> HIDE DEF a, u
<1>6. /\ u \in Tasks /\ u.at = "export runs" /\ u.left = task[c].left \ {id}
      /\ u.cmd = task[c].cmd /\ u.ws = task[c].ws /\ u.runs = R /\ u.draft = a
  BY <1>1, <1>3, <1>4 DEF Tasks
<1> QED BY <1>4, <1>5, <1>6, UpdateEffect

LEMMA RunExported ==
  ASSUME Typed, NEW c \in Clients, NEW R \in Tables, NEW D \in Tables, NEW L \in SUBSET Nat,
         Update(c, [task[c] EXCEPT !.runs = R, !.draft.runs = D, !.draft.logs = @ \cup L])
  PROVE  /\ Others(c) /\ task'[c].at = task[c].at /\ task'[c].left = task[c].left
         /\ task'[c].cmd = task[c].cmd /\ task'[c].ws = task[c].ws
         /\ task'[c].runs = R /\ task'[c].draft.ended = task[c].draft.ended
         /\ task'[c].draft.runs = D /\ task'[c].draft.jobs = task[c].draft.jobs
<1> DEFINE a == [task[c].draft EXCEPT !.runs = D, !.logs = @ \cup L]
           u == [task[c] EXCEPT !.runs = R, !.draft.runs = D, !.draft.logs = @ \cup L]
<1>1. task[c] \in Tasks /\ task[c].draft \in Archives
  BY DEF Typed, Tasks
<1>2. u = [task[c] EXCEPT !.runs = R, !.draft = a]
  BY <1>1 DEF Tasks, Archives
<1>3. /\ a \in Archives /\ a.ended = task[c].draft.ended /\ a.runs = D
      /\ a.jobs = task[c].draft.jobs
  BY <1>1 DEF Archives
<1>4. Update(c, u)
  OBVIOUS
<1> HIDE DEF a, u
<1>5. /\ u \in Tasks /\ u.at = task[c].at /\ u.left = task[c].left
      /\ u.cmd = task[c].cmd /\ u.ws = task[c].ws /\ u.runs = R /\ u.draft = a
  BY <1>1, <1>2, <1>3 DEF Tasks
<1> QED BY <1>3, <1>4, <1>5, UpdateEffect

\* An import begins, and takes a job.
LEMMA ImportBegins ==
  ASSUME Typed, NEW c \in Clients,
         Update(c, [task[c] EXCEPT !.at = "create", !.left = archive.jobs, !.draft = archive])
  PROVE  /\ Others(c) /\ task'[c].at = "create" /\ task'[c].left = archive.jobs
         /\ task'[c].cmd = task[c].cmd /\ task'[c].ws = task[c].ws
         /\ task'[c].runs = task[c].runs /\ task'[c].draft = archive
<1> DEFINE u == [task[c] EXCEPT !.at = "create", !.left = archive.jobs, !.draft = archive]
<1>1. task[c] \in Tasks /\ archive \in Archives /\ archive.jobs \in SUBSET JobIds
      /\ "create" \in Places
  BY DEF Typed, Places, Making, Archives
<1>2. /\ u \in Tasks /\ u.at = "create" /\ u.left = archive.jobs /\ u.cmd = task[c].cmd
      /\ u.ws = task[c].ws /\ u.runs = task[c].runs /\ u.draft = archive
  BY <1>1 DEF Tasks
<1>3. Update(c, u)
  OBVIOUS
<1> HIDE DEF u
<1> QED BY <1>2, <1>3, UpdateEffect

LEMMA JobImported ==
  ASSUME Typed, NEW c \in Clients, NEW id, NEW R \in Tables,
         Update(c, [task[c] EXCEPT !.at = "runs of job", !.left = @ \ {id}, !.runs = R])
  PROVE  /\ Others(c) /\ task'[c].at = "runs of job" /\ task'[c].left = task[c].left \ {id}
         /\ task'[c].cmd = task[c].cmd /\ task'[c].ws = task[c].ws
         /\ task'[c].runs = R /\ task'[c].draft = task[c].draft
<1> DEFINE u == [task[c] EXCEPT !.at = "runs of job", !.left = @ \ {id}, !.runs = R]
<1>1. task[c] \in Tasks /\ "runs of job" \in Places
  BY DEF Typed, Places, Importing
<1>2. /\ u \in Tasks /\ u.at = "runs of job" /\ u.left = task[c].left \ {id}
      /\ u.cmd = task[c].cmd /\ u.ws = task[c].ws /\ u.runs = R /\ u.draft = task[c].draft
  BY <1>1 DEF Tasks
<1>3. Update(c, u)
  OBVIOUS
<1> HIDE DEF u
<1> QED BY <1>2, <1>3, UpdateEffect

LEMMA RunImported ==
  ASSUME Typed, NEW c \in Clients, NEW R \in Tables, Update(c, [task[c] EXCEPT !.runs = R])
  PROVE  /\ Others(c) /\ task'[c].at = task[c].at /\ task'[c].left = task[c].left
         /\ task'[c].cmd = task[c].cmd /\ task'[c].ws = task[c].ws
         /\ task'[c].runs = R /\ task'[c].draft = task[c].draft
<1> DEFINE u == [task[c] EXCEPT !.runs = R]
<1>1. task[c] \in Tasks
  BY DEF Typed
<1>2. /\ u \in Tasks /\ u.at = task[c].at /\ u.left = task[c].left
      /\ u.cmd = task[c].cmd /\ u.ws = task[c].ws /\ u.runs = R /\ u.draft = task[c].draft
  BY <1>1 DEF Tasks
<1>3. Update(c, u)
  OBVIOUS
<1> HIDE DEF u
<1> QED BY <1>2, <1>3, UpdateEffect
-----------------------------------------------------------------------------
(* The jobs of a workspace *)

LEMMA JobsOfFacts ==
  ASSUME NEW n, NEW id
  PROVE  id \in JobsOf(n) <=> \E j \in jobs : j.ws = n /\ j.id = id
BY DEF JobsOf

LEMMA JobsKept == ASSUME NEW n, jobs' = jobs PROVE JobsOf(n)' = JobsOf(n)
BY DEF JobsOf

LEMMA JobsAdded ==
  ASSUME Typed, NEW m \in Names, NEW L \in SUBSET JobIds,
         jobs' = jobs \cup {Job(id, m, TRUE) : id \in L}
  PROVE  /\ jobs' \subseteq JobDocs
         /\ \A n : JobsOf(n)' = IF n = m THEN JobsOf(n) \cup L ELSE JobsOf(n)
<1>1. \A id \in L : /\ Job(id, m, TRUE) \in JobDocs
                    /\ Job(id, m, TRUE).id = id /\ Job(id, m, TRUE).ws = m
  BY DEF Job, JobDocs
<1>2. jobs' \subseteq JobDocs
  BY <1>1 DEF Typed
<1>3. ASSUME NEW n PROVE JobsOf(n)' = IF n = m THEN JobsOf(n) \cup L ELSE JobsOf(n)
  <2>1. ASSUME NEW id PROVE id \in JobsOf(n)' <=> \E j \in jobs' : j.ws = n /\ j.id = id
    BY DEF JobsOf
  <2>2. ASSUME NEW id, id \in JobsOf(n) PROVE id \in JobsOf(n)'
    <3>1. PICK j \in jobs : j.ws = n /\ j.id = id
      BY <2>2, JobsOfFacts
    <3>2. j \in jobs'
      OBVIOUS
    <3> QED BY <2>1, <3>1, <3>2
  <2>3. ASSUME NEW id \in L, n = m PROVE id \in JobsOf(n)'
    BY <1>1, <2>1, <2>3
  <2>4. ASSUME NEW id, id \in JobsOf(n)' PROVE id \in JobsOf(n) \/ (n = m /\ id \in L)
    <3>1. PICK j \in jobs' : j.ws = n /\ j.id = id
      BY <2>1, <2>4
    <3>2. CASE j \in jobs
      BY <3>1, <3>2, JobsOfFacts
    <3>3. CASE \E x \in L : j = Job(x, m, TRUE)
      BY <1>1, <3>1, <3>3
    <3> QED BY <3>2, <3>3
  <2> QED BY <2>2, <2>3, <2>4
<1> QED BY <1>2, <1>3

LEMMA JobRemoved ==
  ASSUME Typed, NEW m \in Names, NEW id, jobs' = {j \in jobs : j.id # id},
         torn' = torn \cup Robbed({id}, m)
  PROVE  /\ jobs' \subseteq JobDocs
         /\ \A n : JobsOf(n)' = JobsOf(n) \ {id}
         /\ \A n : n # m /\ n \notin torn' => n \notin torn /\ JobsOf(n)' = JobsOf(n)
<1>1. jobs' \subseteq JobDocs
  BY DEF Typed
<1>2. ASSUME NEW n PROVE JobsOf(n)' = JobsOf(n) \ {id}
  BY DEF JobsOf
<1>3. ASSUME NEW n, n # m, n \notin torn' PROVE n \notin torn /\ id \notin JobsOf(n)
  BY <1>3 DEF JobsOf, Robbed
<1> QED BY <1>1, <1>2, <1>3

LEMMA JobReplaced ==
  ASSUME Typed, NEW m \in Names, NEW id \in JobIds, NEW files \in BOOLEAN,
         jobs' = {j \in jobs : j.id # id} \cup {Job(id, m, files)},
         torn' = torn \cup Robbed({id}, m)
  PROVE  /\ jobs' \subseteq JobDocs
         /\ JobsOf(m)' = JobsOf(m) \cup {id}
         /\ \A n : n # m => JobsOf(n)' = JobsOf(n) \ {id}
         /\ \A n : n # m /\ n \notin torn' => n \notin torn /\ JobsOf(n)' = JobsOf(n)
<1>1. /\ Job(id, m, files) \in JobDocs
      /\ Job(id, m, files).id = id /\ Job(id, m, files).ws = m
  BY DEF Job, JobDocs
<1> DEFINE new == Job(id, m, files)
<1>2. jobs' = {j \in jobs : j.id # id} \cup {new} /\ new \in JobDocs /\ new.id = id /\ new.ws = m
  BY <1>1
<1> HIDE DEF new
<1>3. jobs' \subseteq JobDocs
  BY <1>2 DEF Typed
<1>4. ASSUME NEW n, NEW x PROVE x \in JobsOf(n)' <=> \E j \in jobs' : j.ws = n /\ j.id = x
  BY DEF JobsOf
<1>5. ASSUME NEW n, NEW x, x # id PROVE x \in JobsOf(n)' <=> x \in JobsOf(n)
  BY <1>2, <1>4, <1>5, JobsOfFacts
<1>6. id \in JobsOf(m)' /\ \A n : n # m => id \notin JobsOf(n)'
  BY <1>2, <1>4
<1>7. ASSUME NEW n, n # m PROVE JobsOf(n)' = JobsOf(n) \ {id}
  BY <1>5, <1>6, <1>7
<1>8. JobsOf(m)' = JobsOf(m) \cup {id}
  BY <1>5, <1>6
<1>9. ASSUME NEW n, n # m, n \notin torn' PROVE n \notin torn /\ id \notin JobsOf(n)
  <2>1. n \notin torn /\ n \notin Robbed({id}, m)
    BY <1>9
  <2>2. ASSUME NEW j \in jobs, j.id = id, j.ws = n PROVE FALSE
    BY <1>9, <2>1, <2>2 DEF Robbed
  <2>3. id \in JobsOf(n) <=> \E j \in jobs : j.ws = n /\ j.id = id
    BY JobsOfFacts
  <2> QED BY <2>1, <2>2, <2>3
<1>10. ASSUME NEW n, n # m, n \notin torn' PROVE n \notin torn /\ JobsOf(n)' = JobsOf(n)
  BY <1>7, <1>9, <1>10
<1> QED BY <1>3, <1>7, <1>8, <1>10

LEMMA FilesDeleted ==
  ASSUME Typed, NEW id,
         jobs' = jobs \/ jobs' = {IF j.id = id THEN [j EXCEPT !.files = FALSE] ELSE j : j \in jobs}
  PROVE  jobs' \subseteq JobDocs /\ \A n : JobsOf(n)' = JobsOf(n)
<1>1. CASE jobs' = jobs
  BY <1>1, JobsKept DEF Typed
<1>2. CASE jobs' = {IF j.id = id THEN [j EXCEPT !.files = FALSE] ELSE j : j \in jobs}
  <2> DEFINE Cleared(j) == IF j.id = id THEN [j EXCEPT !.files = FALSE] ELSE j
  <2>1. \A j \in jobs : Cleared(j) \in JobDocs /\ Cleared(j).id = j.id /\ Cleared(j).ws = j.ws
    BY DEF Typed, JobDocs
  <2>2. jobs' = {Cleared(j) : j \in jobs}
    BY <1>2
  <2> HIDE DEF Cleared
  <2>3. jobs' \subseteq JobDocs
    BY <2>1, <2>2
  <2>4. ASSUME NEW n PROVE JobsOf(n)' = JobsOf(n)
    <3>1. ASSUME NEW x PROVE x \in JobsOf(n)' <=> \E j \in jobs' : j.ws = n /\ j.id = x
      BY DEF JobsOf
    <3>2. ASSUME NEW x PROVE x \in JobsOf(n)' <=> x \in JobsOf(n)
      BY <2>1, <2>2, <3>1, JobsOfFacts
    <3> QED BY <3>2
  <2> QED BY <2>3, <2>4
<1> QED BY <1>1, <1>2
-----------------------------------------------------------------------------
(* What a step of a client leaves alone *)

StoreTyped ==
  /\ docs \in [Names -> Tables]
  /\ counters \in [Names -> Pairs]
  /\ jobs \subseteq JobDocs
  /\ holders \in [Names -> SUBSET {"runs", "experiments", "next"}]
  /\ logs \in [Names -> SUBSET Nat]
  /\ exists \subseteq Names
  /\ nextJob \in Nat

\* Workspaces but m stay as they are, if they do not lose a job.
Elsewhere(m) ==
  \A n \in Names :
    n # m =>
      /\ n \in exists' <=> n \in exists
      /\ holders'[n] = holders[n] /\ logs'[n] = logs[n]
      /\ docs'[n] = docs[n] /\ counters'[n] = counters[n]
      /\ JobsOf(n)' \subseteq JobsOf(n)
      /\ n \notin torn' => n \notin torn /\ JobsOf(n)' = JobsOf(n)

\* The client goes on with its command, or it is over.
GoesOn(c) ==
  /\ Others(c)
  /\ \/ task'[c] = Idle
     \/ /\ task'[c].cmd = task[c].cmd /\ task'[c].ws = task[c].ws
        /\ task'[c].at \in PlacesOf(task[c].cmd)

StepOf(c) ==
  \/ Interrupt(c)
  \/ CreateCheck(c) \/ CreateContainer(c) \/ CreateHolder(c)
  \/ EnsureWorkspace(c) \/ NewJob(c) \/ TakeNumber(c) \/ StartRun(c)
  \/ LogJob(c) \/ EndRun(c)
  \/ DeleteCheck(c) \/ JobNames(c) \/ DeleteContainer(c) \/ DropRuns(c)
  \/ DropCounters(c) \/ DeleteJob(c) \/ DeleteDone(c)
  \/ ExportCheck(c) \/ ExportJob(c) \/ ExportRun(c) \/ ExportFails(c)
  \/ ExportRunsDone(c) \/ ExportDone(c)
  \/ ImportCheck(c) \/ ImportJob(c) \/ ImportRun(c) \/ ImportRunsDone(c)
  \/ ImportCounters(c)

\* What a command remembers at the place it has come to
InPhase(t) ==
  /\ t.at \in PlacesOf(t.cmd)
  /\ t.at \in {"number", "start"} => t.left # {}
  /\ t.at \in {"start", "log job", "end"} => t.num # 0
  /\ t.cmd \in Imports /\ t.at \in Making => DOMAIN t.runs = {}
  /\ t.at \in {"export jobs", "jobs", "import"} => DOMAIN t.runs = {}
  /\ t.at = "export" => DOMAIN t.draft.runs = {} /\ DOMAIN t.runs = {}

Phases == \A c \in Clients : InPhase(task[c])

LEMMA PlacesAreDisjoint ==
  ASSUME Phases, NEW c \in Clients
  PROVE  /\ task[c].at \in Places /\ (task[c].at = "idle" <=> task[c].cmd = "none")
         /\ task[c].at \in Running => task[c].cmd = "run"
         /\ task[c].at \in Deleting <=> task[c].cmd = "delete"
         /\ task[c].at \in Exporting <=> task[c].cmd = "export"
         /\ task[c].at \in Importing => PlacesOf(task[c].cmd) = Making \cup Importing
         /\ task[c].at \in Making => Making \subseteq PlacesOf(task[c].cmd)
<1>1. task[c].at \in PlacesOf(task[c].cmd)
  BY DEF Phases, InPhase
<1>2. CASE task[c].cmd \in {"none", "create", "run", "delete", "export"}
  BY <1>1, <1>2 DEF PlacesOf, Places, Making, Running, Deleting, Exporting, Importing
<1>3. CASE task[c].cmd \notin {"none", "create", "run", "delete", "export"}
  BY <1>1, <1>3 DEF PlacesOf, Places, Making, Running, Deleting, Exporting, Importing
<1> QED BY <1>2, <1>3

LEMMA StoreKept ==
  ASSUME Typed, NEW m \in Names, UNCHANGED <<store, database>>,
         torn' = torn \/ torn' = torn \cup {m} \/ torn' = torn \ {m}
  PROVE  Elsewhere(m) /\ StoreTyped'
<1>1. StoreTyped'
  BY DEF Typed, StoreTyped, store, database
<1>2. \A n : JobsOf(n)' = JobsOf(n)
  BY JobsKept DEF database
<1> QED BY <1>1, <1>2 DEF Elsewhere, store, database

LEMMA TypedNext ==
  ASSUME Typed, NEW c \in Clients, Others(c), StoreTyped', archive' \in Archives
  PROVE  Typed'
BY DEF Typed, StoreTyped, Others
LEMMA WsIsName == ASSUME Typed, NEW c \in Clients PROVE task[c] \in Tasks /\ Ws(c) \in Names
BY DEF Typed, Tasks, Ws

LEMMA GoGoesOn ==
  ASSUME Typed, NEW c \in Clients, NEW at \in Places, at \in PlacesOf(task[c].cmd), Go(c, at)
  PROVE  GoesOn(c)
<1>1. Went(c, at)
  BY GoEffect
<1> QED BY <1>1 DEF Went, GoesOn

LEMMA QuitGoesOn == ASSUME Typed, NEW c \in Clients, Quit(c) PROVE GoesOn(c)
<1>1. Over(c)
  BY QuitEffect
<1> QED BY <1>1 DEF Over, GoesOn

\* The steps of commands that write nothing to a service
LEMMA ReadingSteps ==
  ASSUME Typed, Phases, NEW c \in Clients,
         \/ Interrupt(c) \/ CreateCheck(c) \/ EnsureWorkspace(c) \/ DeleteCheck(c)
         \/ DeleteDone(c) \/ ExportFails(c) \/ ExportRunsDone(c) \/ ImportRunsDone(c)
  PROVE  Elsewhere(Ws(c)) /\ GoesOn(c) /\ Typed'
<1>0. Ws(c) \in Names
  BY WsIsName
<1>1. archive' \in Archives /\ UNCHANGED <<store, database>>
  BY DEF Typed, Interrupt, CreateCheck, EnsureWorkspace, DeleteCheck, DeleteDone, ExportFails,
         ExportRunsDone, ImportRunsDone
<1>2. torn' = torn \/ torn' = torn \cup {Ws(c)} \/ torn' = torn \ {Ws(c)}
  BY DEF Interrupt, CreateCheck, EnsureWorkspace, DeleteCheck, DeleteDone, ExportFails,
         ExportRunsDone, ImportRunsDone, Fail
<1>3. Elsewhere(Ws(c)) /\ StoreTyped'
  BY <1>0, <1>1, <1>2, StoreKept
<1> SUFFICES GoesOn(c)
  BY <1>1, <1>3, TypedNext DEF GoesOn
<1>4. CASE Interrupt(c)
  BY <1>4, QuitGoesOn DEF Interrupt, Fail
<1>5. CASE DeleteDone(c)
  BY <1>5, QuitGoesOn DEF DeleteDone
<1>6. CASE ExportFails(c)
  BY <1>6, QuitGoesOn DEF ExportFails
<1>7. CASE CreateCheck(c)
  <2>1. "container" \in Places /\ "container" \in PlacesOf(task[c].cmd)
    BY <1>7, PlacesAreDisjoint DEF CreateCheck, At, Making, Places
  <2>2. Quit(c) \/ Go(c, "container")
    BY <1>7 DEF CreateCheck
  <2> QED BY <2>1, <2>2, QuitGoesOn, GoGoesOn
<1>8. CASE EnsureWorkspace(c)
  <2>1. {"job", "create"} \subseteq Places /\ {"job", "create"} \subseteq PlacesOf(task[c].cmd)
    BY <1>8, PlacesAreDisjoint DEF EnsureWorkspace, At, Making, Running, Places, PlacesOf
  <2>2. Go(c, "job") \/ Go(c, "create")
    BY <1>8 DEF EnsureWorkspace
  <2> QED BY <2>1, <2>2, GoGoesOn
<1>9. CASE DeleteCheck(c)
  <2>1. "names" \in Places /\ "names" \in PlacesOf(task[c].cmd)
    BY <1>9, PlacesAreDisjoint DEF DeleteCheck, At, Deleting, Places, PlacesOf
  <2>2. Quit(c) \/ Go(c, "names")
    BY <1>9 DEF DeleteCheck
  <2> QED BY <2>1, <2>2, QuitGoesOn, GoGoesOn
<1>10. CASE ExportRunsDone(c)
  <2>1. "export jobs" \in Places /\ "export jobs" \in PlacesOf(task[c].cmd)
    BY <1>10, PlacesAreDisjoint DEF ExportRunsDone, At, Exporting, Places, PlacesOf
  <2>2. Go(c, "export jobs")
    BY <1>10 DEF ExportRunsDone
  <2> QED BY <2>1, <2>2, GoGoesOn
<1>11. CASE ImportRunsDone(c)
  <2>1. "jobs" \in Places /\ "jobs" \in PlacesOf(task[c].cmd)
    BY <1>11, PlacesAreDisjoint DEF ImportRunsDone, At, Importing, Places
  <2>2. Go(c, "jobs")
    BY <1>11 DEF ImportRunsDone
  <2> QED BY <2>1, <2>2, GoGoesOn
<1> QED BY <1>4, <1>5, <1>6, <1>7, <1>8, <1>9, <1>10, <1>11
-----------------------------------------------------------------------------
(* The steps of commands that write *)

LEMMA JobsStay == ASSUME jobs' = jobs PROVE \A n : JobsOf(n)' = JobsOf(n)
BY JobsKept

LEMMA CountedIsPair ==
  ASSUME Typed, NEW n \in Names
  PROVE  /\ Counted(n) \in Pairs
         /\ Counted(n).run \in Nat \ {0} /\ Counted(n).end \in Nat \ {0}
         /\ counters[n].run > 0 => Counted(n) = counters[n]
         /\ counters[n].run \in Nat /\ counters[n].end \in Nat
         /\ counters[n].run <= Counted(n).run
<1>1. counters[n] \in [run : Nat, end : Nat] /\ (counters[n].run > 0 => counters[n].end > 0)
  BY DEF Typed, Pairs
<1> QED BY <1>1 DEF Counted, Pairs

LEMMA CreateContainerStep ==
  ASSUME Typed, Phases, NEW c \in Clients, CreateContainer(c)
  PROVE  Elsewhere(Ws(c)) /\ GoesOn(c) /\ Typed'
<1> DEFINE m == Ws(c)
<1>0. m \in Names
  BY WsIsName
<1>1. StoreTyped' /\ archive' \in Archives
  BY <1>0 DEF Typed, StoreTyped, CreateContainer, database
<1>2. Elsewhere(m)
  BY <1>0, JobsStay DEF CreateContainer, Elsewhere, database
<1>3. "runs" \in Places /\ "runs" \in PlacesOf(task[c].cmd)
  BY PlacesAreDisjoint DEF CreateContainer, At, Making, Places
<1>4. Quit(c) \/ Go(c, "runs")
  BY DEF CreateContainer
<1>5. GoesOn(c)
  BY <1>3, <1>4, QuitGoesOn, GoGoesOn
<1> QED BY <1>1, <1>2, <1>5, TypedNext DEF GoesOn

NextHolder(c) ==
  CASE task[c].at = "runs" -> "experiments"
    [] task[c].at = "experiments" -> "next"
    [] OTHER -> AfterHolder(task[c].cmd)

LEMMA CreateHolderStep ==
  ASSUME Typed, Phases, NEW c \in Clients, CreateHolder(c)
  PROVE  /\ Elsewhere(Ws(c)) /\ GoesOn(c) /\ Typed'
         /\ Creating(c) /\ UNCHANGED <<docs, counters, jobs, logs, archive, mixed>>
         /\ \/ Over(c) /\ torn' = torn \cup {Ws(c)} /\ UNCHANGED <<exists, holders>>
            \/ /\ exists' = exists \cup {Ws(c)} /\ torn' = torn
               /\ holders' = [holders EXCEPT ![Ws(c)] = @ \cup {task[c].at}]
               /\ \/ NextHolder(c) = "idle" /\ Over(c)
                  \/ NextHolder(c) # "idle" /\ Went(c, NextHolder(c))
<1> DEFINE m == Ws(c)
           h == task[c].at
           then == NextHolder(c)
<1>0. m \in Names
  BY WsIsName
<1>1. /\ h \in {"runs", "experiments", "next"} 
      /\ \/ /\ exists' = exists \cup {m}
            /\ holders' = [holders EXCEPT ![m] = @ \cup {h}] /\ torn' = torn
            /\ IF then = "idle" THEN Quit(c) ELSE Go(c, then)
         \/ Quit(c) /\ torn' = torn \cup {m} /\ UNCHANGED <<exists, holders>>
      /\ UNCHANGED <<logs, docs, counters, jobs, nextJob, archive, mixed>>
  BY DEF CreateHolder, NextHolder, database, Fail
<1>2. then \in Places /\ (then = "idle" \/ then \in PlacesOf(task[c].cmd))
  <2>1. Making \subseteq PlacesOf(task[c].cmd) /\ Making \subseteq Places
    BY <1>1, PlacesAreDisjoint DEF Making, Places
  <2>2. CASE h \in {"runs", "experiments"}
    BY <2>1, <2>2 DEF NextHolder, Making
  <2>3. CASE h = "next"
    <3>1. then = AfterHolder(task[c].cmd) /\ task[c].at \in PlacesOf(task[c].cmd)
      BY <2>3 DEF NextHolder, Phases, InPhase
    <3>2. CASE task[c].cmd \in {"none", "create", "run", "delete", "export"}
      BY <2>3, <3>1, <3>2 DEF AfterHolder, PlacesOf, Places, Making, Running, Deleting, Exporting
    <3>3. CASE task[c].cmd \notin {"none", "create", "run", "delete", "export"}
      BY <3>1, <3>3 DEF AfterHolder, PlacesOf, Places, Importing
    <3> QED BY <3>2, <3>3
  <2> QED BY <1>1, <2>2, <2>3
<1> HIDE DEF m, h, then
<1>3. StoreTyped' /\ archive' \in Archives
  BY <1>0, <1>1 DEF Typed, StoreTyped
<1>4. Elsewhere(m)
  BY <1>0, <1>1, JobsStay DEF Elsewhere, Typed
<1>5. GoesOn(c)
  BY <1>1, <1>2, QuitGoesOn, GoGoesOn
<1>6. Typed'
  BY <1>3, <1>5, TypedNext DEF GoesOn
<1>7. Creating(c)
  BY <1>1 DEF Creating, h
<1>8. Quit(c) => Over(c)
  BY QuitEffect
<1>9. Go(c, then) => Went(c, then)
  BY <1>2, GoEffect
<1> QED BY <1>1, <1>4, <1>5, <1>6, <1>7, <1>8, <1>9 DEF m, h, then

LEMMA NewJobStep ==
  ASSUME Typed, Phases, NEW c \in Clients, NewJob(c)
  PROVE  /\ Elsewhere(Ws(c)) /\ GoesOn(c) /\ Typed'
         /\ task'[c].at = "number" /\ task'[c].ws = task[c].ws /\ task'[c].cmd = task[c].cmd
         /\ task'[c].left # {} /\ task'[c].runs = task[c].runs
         /\ UNCHANGED <<store, docs, counters, jobs, archive, torn, mixed>>
<1> DEFINE L == {JobId(FALSE, nextJob)}
<1>0. Ws(c) \in Names /\ nextJob + 1 \in Nat
  BY WsIsName DEF Typed
<1>1. L \in SUBSET JobIds /\ L # {}
  BY DEF Typed, JobId, JobIds
<1>2. StoreTyped' /\ archive' \in Archives
  BY <1>0 DEF NewJob, Typed, StoreTyped, store
<1>3. Elsewhere(Ws(c))
  BY <1>0, JobsStay DEF NewJob, Elsewhere, store
<1>4. "number" \in Places /\ "number" \in PlacesOf(task[c].cmd)
  BY PlacesAreDisjoint DEF NewJob, At, Running, Places, PlacesOf
<1>5. Update(c, [task[c] EXCEPT !.at = "number", !.left = L])
  BY DEF NewJob
<1>6. /\ Others(c) /\ task'[c].at = "number" /\ task'[c].left = L
      /\ task'[c].cmd = task[c].cmd /\ task'[c].ws = task[c].ws /\ task'[c].runs = task[c].runs
  BY <1>1, <1>4, <1>5, LeftChanges, ZenonT(60)
<1>7. GoesOn(c)
  BY <1>4, <1>6 DEF GoesOn
<1>8. Typed'
  BY <1>2, <1>6, TypedNext
<1> QED BY <1>1, <1>3, <1>6, <1>7, <1>8 DEF NewJob

LEMMA TakeNumberStep ==
  ASSUME Typed, Phases, NEW c \in Clients, TakeNumber(c)
  PROVE  /\ Elsewhere(Ws(c)) /\ GoesOn(c) /\ Typed'
         /\ At(c, "number") /\ UNCHANGED <<store, docs, jobs, archive, mixed>>
         /\ counters'[Ws(c)].run = Counted(Ws(c)).run + 1
         /\ counters'[Ws(c)].end = Counted(Ws(c)).end
         /\ \/ Over(c) /\ torn' = torn \cup {Ws(c)}
            \/ Went(c, "number") /\ torn' = torn
            \/ /\ Others(c) /\ task'[c].at = "start" /\ task'[c].left = task[c].left
               /\ task'[c].cmd = task[c].cmd /\ task'[c].ws = task[c].ws
               /\ task'[c].runs = task[c].runs /\ task'[c].num = Counted(Ws(c)).run
               /\ torn' = torn
<1> DEFINE m == Ws(c)
           num == Counted(m).run
<1>0. m \in Names
  BY WsIsName
<1>1. Counted(m) \in Pairs /\ num \in Nat
  BY <1>0, CountedIsPair
<1>2. /\ [Counted(m) EXCEPT !.run = @ + 1] \in Pairs
      /\ [Counted(m) EXCEPT !.run = @ + 1].run = num + 1
      /\ [Counted(m) EXCEPT !.run = @ + 1].end = Counted(m).end
  BY <1>0, <1>1, CountedIsPair DEF Pairs
<1>3. /\ At(c, "number") /\ counters' = [counters EXCEPT ![m] = [Counted(m) EXCEPT !.run = @ + 1]]
      /\ UNCHANGED <<store, docs, jobs, nextJob, archive, mixed>>
      /\ \/ Update(c, [task[c] EXCEPT !.at = "start", !.num = num]) /\ torn' = torn
         \/ Update(c, [task[c] EXCEPT !.tries = @ + 1]) /\ torn' = torn
         \/ Quit(c) /\ torn' = torn \cup {m}
  BY DEF TakeNumber, Fail
<1> HIDE DEF num, m
<1>4. StoreTyped' /\ archive' \in Archives
  BY <1>0, <1>2, <1>3 DEF Typed, StoreTyped, store
<1>5. Elsewhere(m)
  BY <1>0, <1>3, JobsStay DEF Elsewhere, Typed, store
<1>6. {"number", "start"} \subseteq Places /\ {"number", "start"} \subseteq PlacesOf(task[c].cmd)
      /\ task[c].at = "number"
  BY <1>3, PlacesAreDisjoint DEF At, Running, Places, PlacesOf
<1>7. Quit(c) => Over(c)
  BY QuitEffect
<1>8. Update(c, [task[c] EXCEPT !.tries = @ + 1]) => Went(c, "number")
  BY <1>6, NumberGivenUp
<1>9. ASSUME Update(c, [task[c] EXCEPT !.at = "start", !.num = num])
      PROVE  /\ Others(c) /\ task'[c].at = "start" /\ task'[c].left = task[c].left
             /\ task'[c].cmd = task[c].cmd /\ task'[c].ws = task[c].ws
             /\ task'[c].runs = task[c].runs /\ task'[c].num = num
  BY <1>1, <1>9, NumberTaken
<1>10. GoesOn(c)
  BY <1>3, <1>6, <1>7, <1>8, <1>9 DEF GoesOn, Over, Went
<1>11. Typed'
  BY <1>4, <1>10, TypedNext DEF GoesOn
<1>12. counters'[m].run = num + 1 /\ counters'[m].end = Counted(m).end
  BY <1>0, <1>2, <1>3 DEF Typed
<1> QED BY <1>3, <1>5, <1>7, <1>8, <1>9, <1>10, <1>11, <1>12 DEF m, num

LEMMA StartRunStep ==
  ASSUME Typed, Phases, NEW c \in Clients, StartRun(c)
  PROVE  /\ Elsewhere(Ws(c)) /\ GoesOn(c) /\ Typed'
         /\ At(c, "start") /\ UNCHANGED <<counters, jobs, archive, mixed, holders>>
         /\ \/ Over(c) /\ torn' = torn \cup {Ws(c)}
            \/ /\ Went(c, "log job") /\ torn' = torn /\ exists' = exists \cup {Ws(c)}
               /\ DOMAIN docs'[Ws(c)] = DOMAIN docs[Ws(c)] \cup {task[c].num}
               /\ \A i \in DOMAIN docs[Ws(c)] : docs'[Ws(c)][i] = docs[Ws(c)][i]
               /\ task[c].num \notin DOMAIN docs[Ws(c)] =>
                    /\ docs'[Ws(c)][task[c].num].end = 0
                    /\ docs'[Ws(c)][task[c].num].job \in task[c].left
<1> DEFINE m == Ws(c)
           num == task[c].num
           id == CHOOSE id \in task[c].left : TRUE
           new == [job |-> id, end |-> 0]
<1>0. m \in Names /\ task[c] \in Tasks
  BY WsIsName
<1>1. At(c, "start") /\ num \in Nat \ {0} /\ id \in task[c].left /\ id \in JobIds
  <2>1. At(c, "start") /\ task[c].left # {} /\ num # 0
    BY DEF StartRun, Phases, InPhase, At
  <2> QED BY <1>0, <2>1 DEF Tasks
<1>f. PICK f : f = Added(docs[m], num, new)
  OBVIOUS
<1>2. \/ /\ Go(c, "log job") /\ torn' = torn /\ exists' = exists \cup {m}
         /\ logs' = [logs EXCEPT ![m] = @ \cup {num}] /\ docs' = [docs EXCEPT ![m] = f]
      \/ Quit(c) /\ torn' = torn \cup {m} /\ UNCHANGED <<exists, logs, docs>>
  BY <1>f DEF StartRun, Fail
<1>3. UNCHANGED <<counters, jobs, nextJob, archive, mixed, holders>>
  BY DEF StartRun
<1> HIDE DEF m, num
<1>4. new \in RunDocs /\ new.end = 0 /\ new.job = id
  BY <1>1 DEF RunDocs
<1> HIDE DEF new, id
<1>5. docs[m] \in Tables
  BY <1>0 DEF Typed
<1>6. /\ f \in Tables /\ DOMAIN f = DOMAIN docs[m] \cup {num}
      /\ \A i \in DOMAIN docs[m] : f[i] = docs[m][i]
      /\ num \notin DOMAIN docs[m] => f[num] = new
  <2>1. PICK t \in Tables, k \in Nat \ {0}, d \in RunDocs : t = docs[m] /\ k = num /\ d = new
    BY <1>1, <1>4, <1>5
  <2>2. f = Added(t, k, d)
    BY <1>f, <2>1
  <2>3. f \in Tables /\ DOMAIN f = DOMAIN t \cup {k} /\ (\A i \in DOMAIN t : f[i] = t[i])
        /\ (k \notin DOMAIN t => f[k] = d)
    BY <2>2, TableAdds
  <2> QED BY <2>1, <2>3
<1>7. StoreTyped' /\ archive' \in Archives
  <2>1. logs' \in [Names -> SUBSET Nat]
    <3>1. CASE logs' = [logs EXCEPT ![m] = @ \cup {num}]
      BY <1>0, <1>1, <3>1 DEF Typed
    <3>2. CASE logs' = logs
      BY <3>2 DEF Typed
    <3> QED BY <1>2, <3>1, <3>2
  <2>2. docs' \in [Names -> Tables] /\ exists' \subseteq Names
    BY <1>0, <1>2, <1>6, ZenonT(60) DEF Typed
  <2> QED BY <1>3, <2>1, <2>2 DEF Typed, StoreTyped
<1>8. Elsewhere(m)
  BY <1>0, <1>2, <1>3, JobsStay DEF Elsewhere, Typed
<1>9. "log job" \in Places /\ "log job" \in PlacesOf(task[c].cmd)
  BY <1>1, PlacesAreDisjoint DEF At, Running, Places, PlacesOf
<1>10. GoesOn(c)
  BY <1>2, <1>9, QuitGoesOn, GoGoesOn
<1>11. Typed'
  BY <1>7, <1>10, TypedNext DEF GoesOn
<1>12. Quit(c) => Over(c)
  BY QuitEffect
<1>13. Go(c, "log job") => Went(c, "log job")
  BY <1>9, GoEffect
<1>14. docs' = [docs EXCEPT ![m] = f] => docs'[m] = f
  BY <1>0 DEF Typed
<1> QED BY <1>1, <1>2, <1>3, <1>4, <1>6, <1>8, <1>10, <1>11, <1>12, <1>13, <1>14 DEF m, num

LEMMA LogJobStep ==
  ASSUME Typed, Phases, NEW c \in Clients, LogJob(c)
  PROVE  /\ Elsewhere(Ws(c)) /\ GoesOn(c) /\ Typed'
         /\ At(c, "log job") /\ UNCHANGED <<store, docs, counters, archive, mixed, torn>>
         /\ Others(c) /\ task'[c].at = "end" /\ task'[c].cmd = task[c].cmd
         /\ task'[c].ws = task[c].ws /\ task'[c].num = task[c].num
         /\ \A n : JobsOf(n)' = IF n = Ws(c) THEN JobsOf(n) \cup task[c].left ELSE JobsOf(n)
<1> DEFINE m == Ws(c)
           L == task[c].left
<1>0. m \in Names /\ L \in SUBSET JobIds
  BY WsIsName DEF Tasks
<1>1. /\ At(c, "log job") /\ UNCHANGED <<store, docs, counters, nextJob, archive, mixed, torn>>
      /\ Update(c, [task[c] EXCEPT !.at = "end", !.left = {}])
      /\ jobs' = jobs \cup {Job(id, m, TRUE) : id \in L}
  BY DEF LogJob
<1> HIDE DEF m, L
<1>2. jobs' \subseteq JobDocs /\ \A n : JobsOf(n)' = IF n = m THEN JobsOf(n) \cup L ELSE JobsOf(n)
  BY <1>0, <1>1, JobsAdded
<1>3. StoreTyped' /\ archive' \in Archives
  BY <1>0, <1>1, <1>2 DEF Typed, StoreTyped, store
<1>4. Elsewhere(m)
  BY <1>0, <1>1, <1>2 DEF Elsewhere, Typed, store
<1>5. "end" \in Places /\ "end" \in PlacesOf(task[c].cmd)
  BY <1>1, PlacesAreDisjoint DEF At, Running, Places, PlacesOf
<1>6. Others(c) /\ task'[c].at = "end" /\ task'[c].cmd = task[c].cmd
      /\ task'[c].ws = task[c].ws /\ task'[c].num = task[c].num
  <2>1. PICK S \in SUBSET JobIds : S = {}
    OBVIOUS
  <2>2. Update(c, [task[c] EXCEPT !.at = "end", !.left = S])
    BY <1>1, <2>1
  <2> QED BY <1>5, <2>2, LeftChanges
<1>7. GoesOn(c) /\ Typed'
  BY <1>3, <1>5, <1>6, TypedNext DEF GoesOn
<1> QED BY <1>1, <1>2, <1>4, <1>6, <1>7 DEF m, L

LEMMA EndRunStep ==
  ASSUME Typed, Phases, NEW c \in Clients, EndRun(c)
  PROVE  /\ Elsewhere(Ws(c)) /\ GoesOn(c) /\ Typed'
         /\ At(c, "end") /\ UNCHANGED <<jobs, archive, mixed, holders>>
         /\ Over(c)
         /\ \/ torn' = torn \cup {Ws(c)}
            \/ /\ torn' = torn /\ exists' = exists \cup {Ws(c)}
               /\ counters'[Ws(c)].run = Counted(Ws(c)).run
               /\ counters'[Ws(c)].end = Counted(Ws(c)).end + 1
               /\ DOMAIN docs'[Ws(c)] = DOMAIN docs[Ws(c)]
               /\ \A i \in DOMAIN docs[Ws(c)] :
                    /\ docs'[Ws(c)][i].job = docs[Ws(c)][i].job
                    /\ i # task[c].num => docs'[Ws(c)][i] = docs[Ws(c)][i]
                    /\ i = task[c].num => docs'[Ws(c)][i].end = Counted(Ws(c)).end
<1> DEFINE m == Ws(c)
           num == task[c].num
           e == Counted(m).end
<1>0. m \in Names /\ task[c] \in Tasks /\ num \in Nat
  BY WsIsName DEF Tasks
<1>1. e \in Nat /\ Counted(m) \in Pairs /\ Counted(m).run \in Nat
  BY <1>0, CountedIsPair
<1>2. PICK pair : pair = [Counted(m) EXCEPT !.end = @ + 1]
  OBVIOUS
<1>3. pair \in Pairs /\ pair.run = Counted(m).run /\ pair.end = e + 1
  BY <1>1, <1>2 DEF Pairs
<1>4. PICK f : f = IF num \in DOMAIN docs[m] THEN [docs[m] EXCEPT ![num].end = e] ELSE docs[m]
  OBVIOUS
<1>5. docs[m] \in Tables
  BY <1>0 DEF Typed
<1>6. /\ f \in Tables /\ DOMAIN f = DOMAIN docs[m]
      /\ \A i \in DOMAIN docs[m] : /\ f[i].job = docs[m][i].job
                                   /\ i # num => f[i] = docs[m][i]
                                   /\ i = num => f[i].end = e
  <2>1. PICK t \in Tables : t = docs[m]
    BY <1>5
  <2> HIDE DEF num, e, m
  <2>2. CASE num \in DOMAIN t
    <3>1. PICK k \in DOMAIN t, x \in Nat : k = num /\ x = e
      BY <1>1, <2>2
    <3>2. f = WithEnd(t, k, x)
      BY <1>4, <2>1, <2>2, <3>1 DEF WithEnd
    <3>3. /\ f \in Tables /\ DOMAIN f = DOMAIN t
          /\ f[k].end = x /\ f[k].job = t[k].job
          /\ \A i \in DOMAIN t : i # k => f[i] = t[i]
      BY <3>2, TableEnds
    <3> QED BY <2>1, <3>1, <3>3
  <2>3. CASE num \notin DOMAIN t
    BY <1>4, <2>1, <2>3
  <2> QED BY <2>2, <2>3
<1>7. /\ At(c, "end") /\ Quit(c)
      /\ \/ /\ torn' = torn /\ exists' = exists \cup {m}
            /\ logs' = [logs EXCEPT ![m] = @ \cup {num}]
            /\ counters' = [counters EXCEPT ![m] = pair]
            /\ docs' = IF num \in DOMAIN docs[m]
                       THEN [docs EXCEPT ![m][num].end = e] ELSE docs
         \/ torn' = torn \cup {m} /\ UNCHANGED <<exists, logs, counters, docs>>
      /\ UNCHANGED <<holders, jobs, nextJob, archive, mixed>>
  BY <1>2 DEF EndRun, Fail
<1> HIDE DEF m, num, e
<1>8. ASSUME docs' = IF num \in DOMAIN docs[m]
                       THEN [docs EXCEPT ![m][num].end = e] ELSE docs
      PROVE  docs' = [docs EXCEPT ![m] = f]
  <2>1. CASE num \in DOMAIN docs[m]
    BY <1>4, <1>8, <2>1
  <2>2. CASE num \notin DOMAIN docs[m]
    BY <1>0, <1>4, <1>8, <2>2 DEF Typed
  <2> QED BY <2>1, <2>2
<1>9. \/ /\ torn' = torn /\ exists' = exists \cup {m}
         /\ logs' = [logs EXCEPT ![m] = @ \cup {num}]
         /\ counters' = [counters EXCEPT ![m] = pair]
         /\ docs' = [docs EXCEPT ![m] = f]
      \/ torn' = torn \cup {m} /\ UNCHANGED <<exists, logs, counters, docs>>
  BY <1>7, <1>8
<1>10. StoreTyped' /\ archive' \in Archives
  <2>1. logs' \in [Names -> SUBSET Nat]
    <3>1. CASE logs' = [logs EXCEPT ![m] = @ \cup {num}]
      BY <1>0, <3>1 DEF Typed
    <3>2. CASE logs' = logs
      BY <3>2 DEF Typed
    <3> QED BY <1>9, <3>1, <3>2
  <2>2. docs' \in [Names -> Tables]
    BY <1>0, <1>6, <1>9 DEF Typed
  <2>3. counters' \in [Names -> Pairs]
    BY <1>0, <1>3, <1>9 DEF Typed
  <2>4. exists' \subseteq Names
    BY <1>0, <1>9 DEF Typed
  <2> QED BY <1>7, <2>1, <2>2, <2>3, <2>4 DEF Typed, StoreTyped
<1>11. Elsewhere(m)
  <2>1. ASSUME NEW n \in Names, n # m
        PROVE  /\ (n \in exists' <=> n \in exists) /\ logs'[n] = logs[n]
               /\ docs'[n] = docs[n] /\ counters'[n] = counters[n]
    BY <1>9, <2>1 DEF Typed
  <2> QED BY <1>7, <2>1, JobsStay DEF Elsewhere
<1>12. Over(c) /\ GoesOn(c)
  BY <1>7, QuitEffect, QuitGoesOn
<1>13. Typed'
  BY <1>10, <1>12, TypedNext DEF GoesOn
<1>14. ASSUME docs' = [docs EXCEPT ![m] = f], counters' = [counters EXCEPT ![m] = pair]
       PROVE  /\ counters'[m].run = Counted(m).run /\ counters'[m].end = e + 1
              /\ DOMAIN docs'[m] = DOMAIN docs[m]
              /\ \A i \in DOMAIN docs[m] :
                   /\ docs'[m][i].job = docs[m][i].job
                   /\ i # num => docs'[m][i] = docs[m][i]
                   /\ i = num => docs'[m][i].end = e
  <2>1. docs'[m] = f /\ counters'[m] = pair
    BY <1>0, <1>14 DEF Typed
  <2> QED BY <1>3, <1>6, <2>1
<1>15. \/ torn' = torn \cup {m}
       \/ /\ torn' = torn /\ exists' = exists \cup {m}
          /\ counters'[m].run = Counted(m).run /\ counters'[m].end = e + 1
          /\ DOMAIN docs'[m] = DOMAIN docs[m]
          /\ \A i \in DOMAIN docs[m] :
                   /\ docs'[m][i].job = docs[m][i].job
                   /\ i # num => docs'[m][i] = docs[m][i]
                   /\ i = num => docs'[m][i].end = e
  BY <1>9, <1>14
<1> QED BY <1>7, <1>11, <1>12, <1>13, <1>15 DEF m, num, e

LEMMA JobNamesStep ==
  ASSUME Typed, Phases, NEW c \in Clients, JobNames(c)
  PROVE  /\ Elsewhere(Ws(c)) /\ GoesOn(c) /\ Typed'
         /\ At(c, "names") /\ UNCHANGED <<store, database, archive, mixed, torn>>
         /\ task'[c].at = "erase" /\ task'[c].ws = task[c].ws
         /\ task'[c].left = JobsOf(Ws(c))
<1> DEFINE m == Ws(c)
<1>0. m \in Names
  BY WsIsName
<1>1. PICK L : L = JobsOf(m)
  OBVIOUS
<1>2. L \in SUBSET JobIds
  BY <1>1 DEF JobsOf, Typed, JobDocs
<1>3. /\ At(c, "names") /\ UNCHANGED <<store, database, archive, mixed, torn>>
      /\ Update(c, [task[c] EXCEPT !.at = "erase", !.left = L])
  BY <1>1 DEF JobNames
<1>4. "erase" \in Places /\ "erase" \in PlacesOf(task[c].cmd)
  BY <1>3, PlacesAreDisjoint DEF At, Deleting, Places, PlacesOf
<1>5. Others(c) /\ task'[c].at = "erase" /\ task'[c].cmd = task[c].cmd
      /\ task'[c].ws = task[c].ws /\ task'[c].left = L
  BY <1>2, <1>3, <1>4, LeftChanges
<1>6. Elsewhere(m) /\ StoreTyped'
  BY <1>0, <1>3, StoreKept
<1>7. Typed'
  BY <1>3, <1>5, <1>6, TypedNext DEF Typed
<1> QED BY <1>1, <1>3, <1>4, <1>5, <1>6, <1>7 DEF GoesOn

LEMMA DeleteContainerStep ==
  ASSUME Typed, Phases, NEW c \in Clients, DeleteContainer(c)
  PROVE  /\ Elsewhere(Ws(c)) /\ GoesOn(c) /\ Typed'
         /\ At(c, "erase") /\ UNCHANGED <<database, archive, mixed>>
         /\ exists' = exists \ {Ws(c)}
         /\ \/ Over(c) /\ torn' = torn \cup {Ws(c)}
            \/ Over(c) /\ torn' = torn /\ Ws(c) \notin exists
            \/ Went(c, "drop") /\ torn' = torn
<1> DEFINE m == Ws(c)
<1>0. m \in Names
  BY WsIsName
<1>1. /\ At(c, "erase") /\ UNCHANGED <<docs, counters, jobs, nextJob, archive, mixed>>
      /\ exists' = exists \ {m}
      /\ holders' = [holders EXCEPT ![m] = {}] /\ logs' = [logs EXCEPT ![m] = {}]
      /\ \/ Quit(c) /\ torn' = torn \cup {m}
         \/ Quit(c) /\ torn' = torn /\ m \notin exists
         \/ Go(c, "drop") /\ torn' = torn
  BY DEF DeleteContainer, database, Fail
<1>2. "drop" \in Places /\ "drop" \in PlacesOf(task[c].cmd)
  BY <1>1, PlacesAreDisjoint DEF At, Deleting, Places, PlacesOf
<1> HIDE DEF m
<1>3. StoreTyped' /\ archive' \in Archives
  BY <1>0, <1>1 DEF Typed, StoreTyped
<1>4. Elsewhere(m)
  BY <1>0, <1>1, JobsStay DEF Elsewhere, Typed
<1>5. GoesOn(c)
  BY <1>1, <1>2, QuitGoesOn, GoGoesOn
<1>6. Typed'
  BY <1>3, <1>5, TypedNext DEF GoesOn
<1>7. Quit(c) => Over(c)
  BY QuitEffect
<1>8. Go(c, "drop") => Went(c, "drop")
  BY <1>2, GoEffect
<1> QED BY <1>1, <1>4, <1>5, <1>6, <1>7, <1>8 DEF m, database

LEMMA DropRunsStep ==
  ASSUME Typed, Phases, NEW c \in Clients, DropRuns(c)
  PROVE  /\ Elsewhere(Ws(c)) /\ GoesOn(c) /\ Typed' /\ Went(c, "counters")
         /\ At(c, "drop") /\ UNCHANGED <<store, counters, jobs, archive, mixed, torn>>
         /\ DOMAIN docs'[Ws(c)] = {}
<1> DEFINE m == Ws(c)
<1>0. m \in Names
  BY WsIsName
<1>1. /\ At(c, "drop") /\ UNCHANGED <<store, counters, jobs, nextJob, archive, mixed, torn>>
      /\ docs' = [docs EXCEPT ![m] = NoRuns] /\ Go(c, "counters")
  BY DEF DropRuns
<1>2. "counters" \in Places /\ "counters" \in PlacesOf(task[c].cmd)
  BY <1>1, PlacesAreDisjoint DEF At, Deleting, Places, PlacesOf
<1> HIDE DEF m
<1>3. StoreTyped' /\ archive' \in Archives
  BY <1>0, <1>1, NoRunsIsTable DEF Typed, StoreTyped, store
<1>4. Elsewhere(m)
  BY <1>0, <1>1, JobsStay DEF Elsewhere, Typed, store
<1>5. GoesOn(c) /\ Went(c, "counters")
  BY <1>1, <1>2, GoEffect, GoGoesOn
<1>6. Typed'
  BY <1>3, <1>5, TypedNext DEF GoesOn
<1>7. docs'[m] = NoRuns
  BY <1>0, <1>1 DEF Typed
<1> QED BY <1>1, <1>4, <1>5, <1>6, <1>7, NoRunsIsTable DEF m

LEMMA DropCountersStep ==
  ASSUME Typed, Phases, NEW c \in Clients, DropCounters(c)
  PROVE  /\ Elsewhere(Ws(c)) /\ GoesOn(c) /\ Typed' /\ Went(c, "delete jobs")
         /\ At(c, "counters") /\ UNCHANGED <<store, docs, jobs, archive, mixed, torn>>
         /\ counters'[Ws(c)] = [run |-> 0, end |-> 0]
<1> DEFINE m == Ws(c)
<1>0. m \in Names
  BY WsIsName
<1>1. PICK pair : pair = [run |-> 0, end |-> 0]
  OBVIOUS
<1>2. pair \in Pairs
  BY <1>1 DEF Pairs
<1>3. /\ At(c, "counters") /\ UNCHANGED <<store, docs, jobs, nextJob, archive, mixed, torn>>
      /\ counters' = [counters EXCEPT ![m] = pair] /\ Go(c, "delete jobs")
  BY <1>1 DEF DropCounters
<1>4. "delete jobs" \in Places /\ "delete jobs" \in PlacesOf(task[c].cmd)
  BY <1>3, PlacesAreDisjoint DEF At, Deleting, Places, PlacesOf
<1> HIDE DEF m
<1>5. StoreTyped' /\ archive' \in Archives
  BY <1>0, <1>2, <1>3 DEF Typed, StoreTyped, store
<1>6. Elsewhere(m)
  BY <1>0, <1>3, JobsStay DEF Elsewhere, Typed, store
<1>7. GoesOn(c) /\ Went(c, "delete jobs")
  BY <1>3, <1>4, GoEffect, GoGoesOn
<1>8. Typed'
  BY <1>5, <1>7, TypedNext DEF GoesOn
<1>9. counters'[m] = pair
  BY <1>0, <1>3 DEF Typed
<1> QED BY <1>1, <1>3, <1>6, <1>7, <1>8, <1>9 DEF m

LEMMA DeleteJobStep ==
  ASSUME Typed, Phases, NEW c \in Clients, DeleteJob(c)
  PROVE  /\ Elsewhere(Ws(c)) /\ GoesOn(c) /\ Typed'
         /\ At(c, "delete jobs") /\ UNCHANGED <<store, docs, counters, archive, mixed>>
         /\ torn \subseteq torn'
         /\ task'[c].at = "delete jobs" /\ task'[c].ws = task[c].ws
         /\ \E id : task'[c].left = task[c].left \ {id} /\ \A n : JobsOf(n)' = JobsOf(n) \ {id}
<1> DEFINE m == Ws(c)
<1>0. m \in Names
  BY WsIsName
<1>1. PICK id \in task[c].left :
        /\ At(c, "delete jobs") /\ UNCHANGED <<store, docs, counters, nextJob, archive, mixed>>
        /\ Update(c, [task[c] EXCEPT !.left = @ \ {id}])
        /\ jobs' = {j \in jobs : j.id # id}
        /\ torn' = torn \cup Robbed({id}, m)
  BY DEF DeleteJob
<1> HIDE DEF m
<1>2. /\ jobs' \subseteq JobDocs
      /\ \A n : JobsOf(n)' = JobsOf(n) \ {id}
      /\ \A n : n # m /\ n \notin torn' => n \notin torn /\ JobsOf(n)' = JobsOf(n)
  BY <1>0, <1>1, JobRemoved
<1>3. StoreTyped' /\ archive' \in Archives
  BY <1>0, <1>1, <1>2 DEF Typed, StoreTyped, store
<1>4. Elsewhere(m)
  BY <1>0, <1>1, <1>2 DEF Elsewhere, store
<1>5. "delete jobs" \in PlacesOf(task[c].cmd)
  BY <1>1 DEF At, Phases, InPhase
<1>6. /\ Others(c) /\ task'[c].at = "delete jobs" /\ task'[c].left = task[c].left \ {id}
      /\ task'[c].cmd = task[c].cmd /\ task'[c].ws = task[c].ws
  BY <1>1, LeftShrinks DEF At
<1>7. GoesOn(c) /\ Typed'
  BY <1>3, <1>5, <1>6, TypedNext DEF GoesOn
<1> QED BY <1>1, <1>2, <1>4, <1>6, <1>7 DEF m

LEMMA ExportCheckStep ==
  ASSUME Typed, Phases, NEW c \in Clients, ExportCheck(c)
  PROVE  /\ Elsewhere(Ws(c)) /\ GoesOn(c) /\ Typed'
         /\ At(c, "export") /\ UNCHANGED <<store, database, archive, mixed, torn>>
         /\ \/ Over(c)
            \/ /\ Others(c) /\ task'[c].at = "export jobs" /\ task'[c].ws = task[c].ws
               /\ task'[c].left = JobsOf(Ws(c)) /\ task'[c].runs = task[c].runs
               /\ task'[c].draft.runs = task[c].draft.runs
               /\ DOMAIN task'[c].draft.ended = Ended(Ws(c))
               /\ \A k \in Ended(Ws(c)) : task'[c].draft.ended[k] = docs[Ws(c)][k]
<1> DEFINE m == Ws(c)
<1>0. m \in Names
  BY WsIsName
<1>1. PICK L : L = JobsOf(m)
  OBVIOUS
<1>2. L \in SUBSET JobIds
  BY <1>1 DEF JobsOf, Typed, JobDocs
<1>3. PICK E : E = [num \in Ended(m) |-> docs[m][num]]
  OBVIOUS
<1>4. E \in Tables /\ DOMAIN E = Ended(m) /\ \A k \in Ended(m) : E[k] = docs[m][k]
  <2>1. PICK t \in Tables : t = docs[m]
    BY <1>0 DEF Typed
  <2>s. PICK S : S = Ended(m)
    OBVIOUS
  <2>2. S \in SUBSET DOMAIN t /\ E = [k \in S |-> t[k]]
    BY <1>3, <2>1, <2>s DEF Ended
  <2>3. E \in Tables /\ DOMAIN E = S /\ \A k \in S : E[k] = t[k]
    BY <2>2, TablePart
  <2> QED BY <2>1, <2>s, <2>3
<1>5. /\ At(c, "export") /\ UNCHANGED <<store, database, archive, mixed, torn>>
      /\ \/ Quit(c)
         \/ ExportBegun(c, L, E)
  BY <1>1, <1>3 DEF ExportCheck, ExportBegun
<1>6. "export jobs" \in PlacesOf(task[c].cmd)
  BY <1>5, PlacesAreDisjoint DEF At, Exporting, Places, PlacesOf
<1>7. Elsewhere(m) /\ StoreTyped'
  BY <1>0, <1>5, StoreKept
<1>8. Quit(c) => Over(c) /\ GoesOn(c)
  BY QuitEffect, QuitGoesOn
<1>9. ASSUME ExportBegun(c, L, E)
      PROVE  /\ Others(c) /\ task'[c].at = "export jobs" /\ task'[c].left = L
             /\ task'[c].cmd = task[c].cmd /\ task'[c].ws = task[c].ws
             /\ task'[c].runs = task[c].runs /\ task'[c].draft.ended = E
             /\ task'[c].draft.runs = task[c].draft.runs
  <2>1. E \in Tables
    BY <1>4
  <2> QED BY <1>2, <1>9, <2>1, ExportBegins
<1>10. GoesOn(c)
  BY <1>5, <1>6, <1>8, <1>9 DEF GoesOn
<1>11. Typed'
  BY <1>5, <1>7, <1>10, TypedNext DEF Typed, GoesOn
<1> QED BY <1>1, <1>4, <1>5, <1>7, <1>8, <1>9, <1>10, <1>11

LEMMA ExportJobStep ==
  ASSUME Typed, Phases, NEW c \in Clients, ExportJob(c)
  PROVE  /\ Elsewhere(Ws(c)) /\ GoesOn(c) /\ Typed'
         /\ At(c, "export jobs")
         /\ UNCHANGED <<store, docs, counters, archive, mixed, torn>>
         /\ \A n : JobsOf(n)' = JobsOf(n)
         /\ Others(c) /\ task'[c].at = "export runs" /\ task'[c].ws = task[c].ws
         /\ task'[c].draft.ended = task[c].draft.ended
         /\ task'[c].draft.runs = task[c].draft.runs
         /\ \E id : /\ task'[c].left = task[c].left \ {id}
                    /\ task'[c].draft.jobs = task[c].draft.jobs \cup {id}
                    /\ \A k : k \in DOMAIN task'[c].runs <=>
                                k \in DOMAIN docs[Ws(c)] /\ docs[Ws(c)][k].job = id
                    /\ \A k \in DOMAIN task'[c].runs : task'[c].runs[k] = docs[Ws(c)][k]
<1> DEFINE m == Ws(c)
<1>0. m \in Names
  BY WsIsName
<1>1. PICK id \in task[c].left :
        /\ At(c, "export jobs")
        /\ Update(c, [task[c] EXCEPT !.at = "export runs", !.left = @ \ {id},
             !.runs = [num \in {num \in DOMAIN docs[m] : docs[m][num].job = id} |-> docs[m][num]],
             !.draft.jobs = @ \cup {id},
             !.draft.files = IF \E j \in jobs : j.id = id /\ j.files THEN @ \cup {id} ELSE @])
        /\ \/ jobs' = jobs
           \/ jobs' = {IF j.id = id THEN [j EXCEPT !.files = FALSE] ELSE j : j \in jobs}
        /\ UNCHANGED <<store, docs, counters, nextJob, archive, mixed, torn>>
  BY DEF ExportJob
<1>2. PICK R : R = [num \in {num \in DOMAIN docs[m] : docs[m][num].job = id} |-> docs[m][num]]
  OBVIOUS
<1>3. PICK files \in BOOLEAN : files = \E j \in jobs : j.id = id /\ j.files
  OBVIOUS
<1>4. Update(c, [task[c] EXCEPT !.at = "export runs", !.left = @ \ {id}, !.runs = R,
                   !.draft.jobs = @ \cup {id},
                   !.draft.files = IF files THEN @ \cup {id} ELSE @])
  BY <1>1, <1>2, <1>3
<1>5. /\ R \in Tables /\ \A k \in DOMAIN R : R[k] = docs[m][k]
      /\ \A k : k \in DOMAIN R <=> k \in DOMAIN docs[m] /\ docs[m][k].job = id
  <2>1. PICK t \in Tables : t = docs[m]
    BY <1>0 DEF Typed
  <2>s. PICK S : S = {num \in DOMAIN docs[m] : docs[m][num].job = id}
    OBVIOUS
  <2>2. S \in SUBSET DOMAIN t /\ R = [k \in S |-> t[k]]
    BY <1>2, <2>1, <2>s
  <2>3. R \in Tables /\ DOMAIN R = S /\ \A k \in S : R[k] = t[k]
    BY <2>2, TablePart
  <2> QED BY <2>1, <2>s, <2>3
<1>6. id \in JobIds
  BY <1>1, WsIsName DEF Tasks
<1>7. /\ Others(c) /\ task'[c].at = "export runs" /\ task'[c].left = task[c].left \ {id}
      /\ task'[c].cmd = task[c].cmd /\ task'[c].ws = task[c].ws
      /\ task'[c].runs = R /\ task'[c].draft.ended = task[c].draft.ended
      /\ task'[c].draft.runs = task[c].draft.runs
      /\ task'[c].draft.jobs = task[c].draft.jobs \cup {id}
  BY <1>4, <1>5, <1>6, JobExported
<1>8. jobs' \subseteq JobDocs /\ \A n : JobsOf(n)' = JobsOf(n)
  BY <1>1, FilesDeleted
<1> HIDE DEF m
<1>9. StoreTyped' /\ archive' \in Archives
  BY <1>1, <1>8 DEF Typed, StoreTyped, store
<1>10. Elsewhere(m)
  BY <1>1, <1>8 DEF Elsewhere, store
<1>11. "export runs" \in PlacesOf(task[c].cmd)
  BY <1>1, PlacesAreDisjoint DEF At, Exporting, Places, PlacesOf
<1>12. GoesOn(c) /\ Typed'
  BY <1>7, <1>9, <1>11, TypedNext DEF GoesOn
<1>13. \E i : /\ task'[c].left = task[c].left \ {i}
              /\ task'[c].draft.jobs = task[c].draft.jobs \cup {i}
              /\ \A k : k \in DOMAIN task'[c].runs <=>
                          k \in DOMAIN docs[m] /\ docs[m][k].job = i
              /\ \A k \in DOMAIN task'[c].runs : task'[c].runs[k] = docs[m][k]
  BY <1>5, <1>7
<1> QED BY <1>1, <1>7, <1>8, <1>10, <1>12, <1>13 DEF m

LEMMA ExportRunStep ==
  ASSUME Typed, Phases, NEW c \in Clients, ExportRun(c)
  PROVE  /\ Elsewhere(Ws(c)) /\ GoesOn(c) /\ Typed'
         /\ At(c, "export runs")
         /\ UNCHANGED <<exists, holders, docs, counters, jobs, archive, mixed, torn>>
         /\ Others(c) /\ task'[c].at = "export runs" /\ task'[c].ws = task[c].ws
         /\ task'[c].left = task[c].left
         /\ task'[c].draft.ended = task[c].draft.ended
         /\ task'[c].draft.jobs = task[c].draft.jobs
         /\ \E num \in DOMAIN task[c].runs :
              /\ DOMAIN task'[c].runs = DOMAIN task[c].runs \ {num}
              /\ \A k \in DOMAIN task'[c].runs : task'[c].runs[k] = task[c].runs[k]
              /\ DOMAIN task'[c].draft.runs = DOMAIN task[c].draft.runs \cup {num}
              /\ \A k \in DOMAIN task[c].draft.runs :
                   task'[c].draft.runs[k] = task[c].draft.runs[k]
              /\ num \notin DOMAIN task[c].draft.runs =>
                   task'[c].draft.runs[num] = task[c].runs[num]
<1> DEFINE m == Ws(c)
<1>0. m \in Names /\ logs \in [Names -> SUBSET Nat]
  BY WsIsName DEF Typed
<1>1. PICK num \in DOMAIN task[c].runs :
        /\ At(c, "export runs")
        /\ Update(c, [task[c] EXCEPT !.runs = Without(@, num),
             !.draft.runs = Added(@, num, task[c].runs[num]),
             !.draft.logs = @ \cup (logs[m] \cap {num})])
        /\ logs' = logs \/ logs' = [logs EXCEPT ![m] = @ \ {num}]
        /\ UNCHANGED <<exists, holders, docs, counters, jobs, nextJob, archive, mixed, torn>>
  BY DEF ExportRun, database
<1>2. PICK T \in Tables, D \in Tables : T = task[c].runs /\ D = task[c].draft.runs
  BY WsIsName DEF Tasks, Archives
<1>3. PICK R, A, L : R = Without(T, num) /\ A = Added(D, num, T[num]) /\ L = logs[m] \cap {num}
  OBVIOUS
<1>4. T[num] \in RunDocs /\ num \in Nat \ {0}
  BY <1>1, <1>2, TableFacts
<1>5. /\ R \in Tables /\ DOMAIN R = DOMAIN T \ {num}
      /\ \A i \in DOMAIN T : i # num => R[i] = T[i]
  BY <1>3, TableWithout
<1>6. /\ A \in Tables /\ DOMAIN A = DOMAIN D \cup {num}
      /\ \A i \in DOMAIN D : A[i] = D[i]
      /\ num \notin DOMAIN D => A[num] = T[num]
  <2>1. PICK d \in RunDocs, k \in Nat \ {0} : d = T[num] /\ k = num
    BY <1>4
  <2>2. A = Added(D, k, d)
    BY <1>3, <2>1
  <2>3. /\ A \in Tables /\ DOMAIN A = DOMAIN D \cup {k}
        /\ \A i \in DOMAIN D : A[i] = D[i]
        /\ k \notin DOMAIN D => A[k] = d
    BY <2>2, TableAdds
  <2> QED BY <2>1, <2>3
<1>7. L \in SUBSET Nat
  BY <1>0, <1>3
<1>8. Update(c, [task[c] EXCEPT !.runs = R, !.draft.runs = A, !.draft.logs = @ \cup L])
  BY <1>1, <1>2, <1>3
<1>9. /\ Others(c) /\ task'[c].at = task[c].at /\ task'[c].left = task[c].left
      /\ task'[c].cmd = task[c].cmd /\ task'[c].ws = task[c].ws
      /\ task'[c].runs = R /\ task'[c].draft.ended = task[c].draft.ended
      /\ task'[c].draft.runs = A /\ task'[c].draft.jobs = task[c].draft.jobs
  BY <1>5, <1>6, <1>7, <1>8, RunExported
<1> HIDE DEF m
<1>10. StoreTyped' /\ archive' \in Archives
  <2>1. logs' \in [Names -> SUBSET Nat]
    <3>1. CASE logs' = [logs EXCEPT ![m] = @ \ {num}]
      BY <1>0, <3>1
    <3>2. CASE logs' = logs
      BY <1>0, <3>2
    <3> QED BY <1>1, <3>1, <3>2
  <2> QED BY <1>1, <2>1 DEF Typed, StoreTyped
<1>11. Elsewhere(m)
  BY <1>0, <1>1, JobsStay DEF Elsewhere
<1>12. task[c].at \in PlacesOf(task[c].cmd)
  BY DEF Phases, InPhase
<1>13. GoesOn(c) /\ Typed'
  BY <1>9, <1>10, <1>12, TypedNext DEF GoesOn
<1>14. \E k \in DOMAIN task[c].runs :
              /\ DOMAIN task'[c].runs = DOMAIN task[c].runs \ {k}
              /\ \A i \in DOMAIN task'[c].runs : task'[c].runs[i] = task[c].runs[i]
              /\ DOMAIN task'[c].draft.runs = DOMAIN task[c].draft.runs \cup {k}
              /\ \A i \in DOMAIN task[c].draft.runs :
                   task'[c].draft.runs[i] = task[c].draft.runs[i]
              /\ k \notin DOMAIN task[c].draft.runs =>
                   task'[c].draft.runs[k] = task[c].runs[k]
  BY <1>1, <1>2, <1>5, <1>6, <1>9
<1> QED BY <1>1, <1>9, <1>11, <1>13, <1>14 DEF m, At

LEMMA ExportDoneStep ==
  ASSUME Typed, Phases, NEW c \in Clients, ExportDone(c)
  PROVE  /\ Elsewhere(Ws(c)) /\ GoesOn(c) /\ Typed' /\ Over(c)
         /\ At(c, "export jobs") /\ task[c].left = {}
         /\ UNCHANGED <<store, database, mixed, torn>>
         /\ archive'.torn <=> Ws(c) \in torn
         /\ archive'.jobs = task[c].draft.jobs /\ archive'.runs = task[c].draft.runs
         /\ archive'.ended = task[c].draft.ended
<1>0. Ws(c) \in Names /\ task[c].draft \in Archives
  BY WsIsName DEF Tasks
<1>1. PICK b \in BOOLEAN : b <=> Ws(c) \in torn
  OBVIOUS
<1>2. /\ At(c, "export jobs") /\ task[c].left = {} /\ Quit(c)
      /\ archive' = [task[c].draft EXCEPT !.made = TRUE, !.torn = b]
      /\ UNCHANGED <<store, database, mixed, torn>>
  <2>1. b = (Ws(c) \in torn)
    BY <1>1
  <2> QED BY <2>1 DEF ExportDone
<1>3. /\ archive' \in Archives /\ archive'.torn = b /\ archive'.jobs = task[c].draft.jobs
      /\ archive'.runs = task[c].draft.runs /\ archive'.ended = task[c].draft.ended
  BY <1>0, <1>2 DEF Archives
<1>4. Elsewhere(Ws(c)) /\ StoreTyped'
  BY <1>0, <1>2, StoreKept
<1>5. Over(c) /\ GoesOn(c)
  BY <1>2, QuitEffect, QuitGoesOn
<1>6. Typed'
  BY <1>3, <1>4, <1>5, TypedNext DEF GoesOn
<1> QED BY <1>1, <1>2, <1>3, <1>4, <1>5, <1>6
-----------------------------------------------------------------------------
(* The highest number of an imported run *)

LEMMA LeastExists ==
  ASSUME NEW S \in SUBSET Nat, S # {} PROVE \E x \in S : \A y \in S : x <= y
<1> DEFINE R == {ss \in Nat \X Nat : ss[1] < ss[2]}
<1>1. R = OpToRel(<, Nat)
  BY DEF OpToRel
<1>2. IsWellFoundedOn(R, Nat)
  BY <1>1, NatLessThanWellFounded
<1>3. \E x \in S : \A y \in S : ~ (<<y, x>> \in R)
  <2> HIDE DEF R
  <2> QED BY <1>2, WFMin
<1>4. PICK x \in S : \A y \in S : ~ (<<y, x>> \in R)
  BY <1>3
<1>5. ASSUME NEW y \in S PROVE x <= y
  <2>1. x \in Nat /\ y \in Nat
    OBVIOUS
  <2>2. <<y, x>> \in Nat \X Nat /\ <<y, x>> \notin R
    BY <1>4, <2>1
  <2>3. ~ (y < x)
    BY <2>2
  <2> QED BY <2>1, <2>3
<1> QED BY <1>5

\* One that the fewest are higher than
LEMMA OneIsHighest ==
  ASSUME NEW D, IsFiniteSet(D), D # {}, NEW g, \A k \in D : g[k] \in Nat
  PROVE  \E k \in D : \A j \in D : g[j] <= g[k]
<1> DEFINE Higher(k) == {j \in D : g[j] > g[k]}
           Counts == {Cardinality(Higher(k)) : k \in D}
<1>1. ASSUME NEW k \in D PROVE Higher(k) \in SUBSET D
  OBVIOUS
<1>2. ASSUME NEW k \in D PROVE IsFiniteSet(Higher(k)) /\ Cardinality(Higher(k)) \in Nat
  <2> HIDE DEF Higher
  <2> QED BY <1>1, FS_Subset, FS_CardinalityType
<1>3. \A k, j \in D : g[j] > g[k] => j \in Higher(k) /\ j \notin Higher(j) /\ Higher(j) \subseteq Higher(k)
  OBVIOUS
<1> HIDE DEF Higher
<1>4. Counts \in SUBSET Nat /\ Counts # {}
  BY <1>2
<1>5. PICK x \in Counts : \A y \in Counts : x <= y
  <2> HIDE DEF Counts
  <2> QED BY <1>4, LeastExists
<1>6. PICK k \in D : \A j \in D : Cardinality(Higher(k)) <= Cardinality(Higher(j))
  BY <1>5
<1>7. ASSUME NEW j \in D, g[j] > g[k] PROVE FALSE
  <2>1. PICK S, T : S = Higher(k) /\ T = Higher(j)
    OBVIOUS
  <2>2. IsFiniteSet(S) /\ T \in SUBSET S /\ S # T /\ Cardinality(S) <= Cardinality(T)
    BY <1>2, <1>3, <1>6, <1>7, <2>1
  <2>3. Cardinality(T) <= Cardinality(S) /\ Cardinality(S) # Cardinality(T)
    BY <2>2, FS_Subset
  <2>4. Cardinality(S) \in Nat /\ Cardinality(T) \in Nat
    BY <1>2, <2>1
  <2> QED BY <2>2, <2>3, <2>4
<1> QED BY <1>7

LEMMA HighestIsHighest ==
  ASSUME NEW S \in SUBSET Nat, S # {} => \E x \in S : \A y \in S : y <= x
  PROVE  Highest(S) \in Nat /\ \A y \in S : y <= Highest(S)
<1>1. CASE S = {}
  BY <1>1 DEF Highest
<1>2. CASE S # {}
  <2>1. PICK x \in S : \A y \in S : x >= y
    BY <1>2
  <2>2. Max(S) \in S /\ \A y \in S : Max(S) >= y
    BY <2>1 DEF Max
  <2> QED BY <1>2, <2>2 DEF Highest
<1> QED BY <1>1, <1>2

\* What the counters start at is above every number and every end of the runs.
LEMMA CountersAreAbove ==
  ASSUME NEW f \in Tables, NEW E, E = {f[k].end : k \in DOMAIN f}
  PROVE  /\ Highest(DOMAIN f) \in Nat /\ Highest(E) \in Nat
         /\ \A k \in DOMAIN f : k <= Highest(DOMAIN f) /\ f[k].end <= Highest(E)
<1>1. PICK D : D = DOMAIN f
  OBVIOUS
<1>2. IsFiniteSet(D) /\ \A k \in D : k \in Nat /\ f[k].end \in Nat
  BY <1>1, TableFacts
<1>3. D \in SUBSET Nat /\ E \in SUBSET Nat
  BY <1>1, <1>2
<1>4. D # {} => \E x \in D : \A y \in D : y <= x
  <2>1. PICK g : g = [k \in D |-> k]
    OBVIOUS
  <2>2. ASSUME D # {} PROVE \E x \in D : \A y \in D : g[y] <= g[x]
    BY <1>2, <2>1, <2>2, OneIsHighest
  <2> QED BY <2>1, <2>2
<1>5. E # {} => \E x \in E : \A y \in E : y <= x
  <2>1. PICK g : g = [k \in D |-> f[k].end]
    OBVIOUS
  <2>2. ASSUME D # {} PROVE \E x \in D : \A y \in D : g[y] <= g[x]
    BY <1>2, <2>1, <2>2, OneIsHighest
  <2> QED BY <1>1, <2>1, <2>2
<1>6. Highest(D) \in Nat /\ \A y \in D : y <= Highest(D)
  BY <1>3, <1>4, HighestIsHighest
<1>7. Highest(E) \in Nat /\ \A y \in E : y <= Highest(E)
  BY <1>3, <1>5, HighestIsHighest
<1> QED BY <1>1, <1>6, <1>7

LEMMA ImportCheckStep ==
  ASSUME Typed, Phases, NEW c \in Clients, ImportCheck(c)
  PROVE  /\ Elsewhere(Ws(c)) /\ GoesOn(c) /\ Typed'
         /\ At(c, "import") /\ UNCHANGED <<store, database, archive, mixed>>
         /\ \/ Over(c) /\ torn' = torn
            \/ /\ Others(c) /\ task'[c].at = "create" /\ task'[c].ws = task[c].ws
               /\ task'[c].cmd = task[c].cmd /\ task'[c].runs = task[c].runs
               /\ task'[c].left = archive.jobs /\ task'[c].draft = archive
               /\ Ws(c) \notin exists
               /\ torn' = IF archive.torn THEN torn \cup {Ws(c)} ELSE torn
<1>0. Ws(c) \in Names
  BY WsIsName
<1>1. /\ At(c, "import") /\ UNCHANGED <<store, database, archive, mixed>>
      /\ \/ Quit(c) /\ torn' = torn
         \/ /\ Update(c, [task[c] EXCEPT !.at = "create", !.left = archive.jobs, !.draft = archive])
            /\ torn' = IF archive.torn THEN torn \cup {Ws(c)} ELSE torn
            /\ Ws(c) \notin exists
  BY DEF ImportCheck
<1>2. torn' = torn \/ torn' = torn \cup {Ws(c)}
  BY <1>1
<1>3. Elsewhere(Ws(c)) /\ StoreTyped'
  BY <1>0, <1>1, <1>2, StoreKept
<1>4. "create" \in PlacesOf(task[c].cmd)
  BY <1>1, PlacesAreDisjoint DEF At, Importing, Making
<1>5. Quit(c) => Over(c) /\ GoesOn(c)
  BY QuitEffect, QuitGoesOn
<1>6. ASSUME Update(c, [task[c] EXCEPT !.at = "create", !.left = archive.jobs, !.draft = archive])
      PROVE  /\ Others(c) /\ task'[c].at = "create" /\ task'[c].left = archive.jobs
             /\ task'[c].cmd = task[c].cmd /\ task'[c].ws = task[c].ws
             /\ task'[c].runs = task[c].runs /\ task'[c].draft = archive
  BY <1>6, ImportBegins
<1>7. GoesOn(c)
  BY <1>1, <1>4, <1>5, <1>6 DEF GoesOn
<1>8. Typed'
  BY <1>1, <1>3, <1>7, TypedNext DEF Typed, GoesOn
<1> QED BY <1>1, <1>3, <1>5, <1>6, <1>7, <1>8

LEMMA ImportJobStep ==
  ASSUME Typed, Phases, NEW c \in Clients, ImportJob(c)
  PROVE  /\ Elsewhere(Ws(c)) /\ GoesOn(c) /\ Typed'
         /\ At(c, "jobs") /\ UNCHANGED <<store, docs, counters, archive, mixed>>
         /\ torn \subseteq torn'
         /\ Others(c) /\ task'[c].at = "runs of job" /\ task'[c].ws = task[c].ws
         /\ task'[c].cmd = task[c].cmd /\ task'[c].draft = task[c].draft
         /\ \E id : /\ task'[c].left = task[c].left \ {id}
                    /\ \A k : k \in DOMAIN task'[c].runs <=>
                                /\ k \in DOMAIN task[c].draft.runs
                                /\ task[c].draft.runs[k].job = id
                    /\ \A k \in DOMAIN task'[c].runs :
                         task'[c].runs[k] = task[c].draft.runs[k]
                    /\ \A n : n = Ws(c) => JobsOf(n)' = JobsOf(n) \cup {NewId(id)}
<1>1. PICK m \in Names : m = Ws(c)
  BY WsIsName
<1>2. PICK id \in task[c].left :
        /\ At(c, "jobs")
        /\ Update(c, [task[c] EXCEPT !.at = "runs of job", !.left = @ \ {id},
             !.runs = [num \in {k \in DOMAIN task[c].draft.runs : task[c].draft.runs[k].job = id}
                         |-> task[c].draft.runs[num]]])
        /\ jobs' = {j \in jobs : j.id # NewId(id)} \cup
                   {Job(NewId(id), m, \E j \in jobs : j.id = NewId(id) /\ j.files)}
        /\ torn' = torn \cup Robbed({NewId(id)}, m)
        /\ UNCHANGED <<store, docs, counters, nextJob, archive, mixed>>
  BY <1>1 DEF ImportJob
<1>3. PICK D \in Tables : D = task[c].draft.runs
  BY WsIsName DEF Tasks, Archives
<1>4. PICK S : S = {k \in DOMAIN D : D[k].job = id}
  OBVIOUS
<1>5. PICK R : R = [k \in S |-> D[k]]
  OBVIOUS
<1>6. R \in Tables /\ DOMAIN R = S /\ \A k \in S : R[k] = D[k]
  <2>1. S \in SUBSET DOMAIN D
    BY <1>4
  <2> QED BY <1>5, <2>1, TablePart
<1>7. Update(c, [task[c] EXCEPT !.at = "runs of job", !.left = @ \ {id}, !.runs = R])
  BY <1>2, <1>3, <1>4, <1>5
<1>8. /\ Others(c) /\ task'[c].at = "runs of job" /\ task'[c].left = task[c].left \ {id}
      /\ task'[c].cmd = task[c].cmd /\ task'[c].ws = task[c].ws
      /\ task'[c].runs = R /\ task'[c].draft = task[c].draft
  BY <1>6, <1>7, JobImported
<1>9. PICK files \in BOOLEAN : files = \E j \in jobs : j.id = NewId(id) /\ j.files
  OBVIOUS
<1>10. PICK new \in JobIds : new = NewId(id)
  <2>1. id \in JobIds
    BY <1>2, WsIsName DEF Tasks
  <2> QED BY <2>1 DEF NewId, JobId, JobIds
<1>11. jobs' = {j \in jobs : j.id # new} \cup {Job(new, m, files)} /\ torn' = torn \cup Robbed({new}, m)
  BY <1>2, <1>9, <1>10
<1>12. /\ jobs' \subseteq JobDocs
       /\ JobsOf(m)' = JobsOf(m) \cup {new}
       /\ \A n : n # m /\ n \notin torn' => n \notin torn /\ JobsOf(n)' = JobsOf(n)
       /\ \A n : n # m => JobsOf(n)' = JobsOf(n) \ {new}
  BY <1>11, JobReplaced
<1>13. StoreTyped' /\ archive' \in Archives
  BY <1>2, <1>12 DEF Typed, StoreTyped, store
<1>14. Elsewhere(m)
  BY <1>2, <1>12 DEF Elsewhere, store
<1>15. "runs of job" \in PlacesOf(task[c].cmd)
  BY <1>2, PlacesAreDisjoint DEF At, Importing
<1>16. GoesOn(c) /\ Typed'
  BY <1>8, <1>13, <1>15, TypedNext DEF GoesOn
<1>17. \A n : n = m => JobsOf(n)' = JobsOf(n) \cup {NewId(id)}
  BY <1>10, <1>12
<1>18. \E i : /\ task'[c].left = task[c].left \ {i}
              /\ \A k : k \in DOMAIN task'[c].runs <=>
                          k \in DOMAIN task[c].draft.runs /\ task[c].draft.runs[k].job = i
              /\ \A k \in DOMAIN task'[c].runs : task'[c].runs[k] = task[c].draft.runs[k]
              /\ \A n : n = Ws(c) => JobsOf(n)' = JobsOf(n) \cup {NewId(i)}
  BY <1>1, <1>3, <1>4, <1>6, <1>8, <1>17
<1> QED BY <1>1, <1>2, <1>8, <1>14, <1>16, <1>18

Renamed(doc) == [doc EXCEPT !.job = NewId(@)]

LEMMA RenamedDoc ==
  ASSUME NEW d \in RunDocs
  PROVE  /\ Renamed(d) \in RunDocs /\ Renamed(d).end = d.end /\ Renamed(d).job = NewId(d.job)
BY DEF Renamed, RunDocs, NewId, JobId, JobIds

LEMMA ImportRunStep ==
  ASSUME Typed, Phases, NEW c \in Clients, ImportRun(c)
  PROVE  /\ Elsewhere(Ws(c)) /\ GoesOn(c) /\ Typed'
         /\ At(c, "runs of job") /\ UNCHANGED <<store, counters, jobs, archive, mixed>>
         /\ \/ Over(c) /\ torn' = torn \cup {Ws(c)}
            \/ /\ torn' = torn /\ Others(c)
               /\ task'[c].at = task[c].at /\ task'[c].left = task[c].left
               /\ task'[c].cmd = task[c].cmd /\ task'[c].ws = task[c].ws
               /\ task'[c].draft = task[c].draft
               /\ \E num \in DOMAIN task[c].runs :
                    /\ DOMAIN task'[c].runs = DOMAIN task[c].runs \ {num}
                    /\ \A k \in DOMAIN task'[c].runs : task'[c].runs[k] = task[c].runs[k]
                    /\ DOMAIN docs'[Ws(c)] = DOMAIN docs[Ws(c)] \cup {num}
                    /\ docs'[Ws(c)][num] = Renamed(task[c].runs[num])
                    /\ \A k \in DOMAIN docs[Ws(c)] :
                         k # num => docs'[Ws(c)][k] = docs[Ws(c)][k]
<1>1. PICK m \in Names : m = Ws(c)
  BY WsIsName
<1>2. PICK num \in DOMAIN task[c].runs :
        /\ At(c, "runs of job")
        /\ docs' = [docs EXCEPT ![m] = Put(@, num, Renamed(task[c].runs[num]))]
        /\ \/ Quit(c) /\ torn' = torn \cup {m}
           \/ Update(c, [task[c] EXCEPT !.runs = Without(@, num)]) /\ torn' = torn
        /\ UNCHANGED <<store, counters, jobs, nextJob, archive, mixed>>
  BY <1>1 DEF ImportRun, Renamed, Fail
<1>3. PICK T \in Tables : T = task[c].runs
  BY WsIsName DEF Tasks
<1>4. num \in Nat \ {0} /\ Renamed(T[num]) \in RunDocs
  BY <1>2, <1>3, TableFacts, RenamedDoc
<1>5. PICK R : R = Without(T, num)
  OBVIOUS
<1>6. /\ R \in Tables /\ DOMAIN R = DOMAIN T \ {num}
      /\ \A i \in DOMAIN T : i # num => R[i] = T[i]
  BY <1>5, TableWithout
<1>7. PICK D \in Tables : D = docs[m]
  BY DEF Typed
<1>d. PICK d : d = Renamed(T[num])
  OBVIOUS
<1>8. PICK P : P = Put(D, num, d)
  OBVIOUS
<1>9. P \in Tables /\ DOMAIN P = DOMAIN D \cup {num} /\ P[num] = d
      /\ \A i \in DOMAIN D : i # num => P[i] = D[i]
  <2>1. d \in RunDocs
    BY <1>4, <1>d
  <2>2. num \in Nat \ {0}
    BY <1>4
  <2>3. /\ Put(D, num, d) \in Tables /\ DOMAIN Put(D, num, d) = DOMAIN D \cup {num}
        /\ Put(D, num, d)[num] = d
        /\ \A i \in DOMAIN D : i # num => Put(D, num, d)[i] = D[i]
    BY <2>1, <2>2, TablePuts
  <2> QED BY <1>8, <2>3
<1>10. docs' = [docs EXCEPT ![m] = P]
  BY <1>2, <1>3, <1>7, <1>d, <1>8
<1>11. Update(c, [task[c] EXCEPT !.runs = Without(@, num)]) =>
         Update(c, [task[c] EXCEPT !.runs = R])
  BY <1>3, <1>5
<1>12. ASSUME Update(c, [task[c] EXCEPT !.runs = R])
       PROVE  /\ Others(c) /\ task'[c].at = task[c].at /\ task'[c].left = task[c].left
              /\ task'[c].cmd = task[c].cmd /\ task'[c].ws = task[c].ws
              /\ task'[c].runs = R /\ task'[c].draft = task[c].draft
  BY <1>6, <1>12, RunImported
<1>13. Quit(c) => Over(c) /\ GoesOn(c)
  BY QuitEffect, QuitGoesOn
<1>14. StoreTyped' /\ archive' \in Archives
  BY <1>2, <1>9, <1>10 DEF Typed, StoreTyped, store
<1>15. Elsewhere(m)
  BY <1>2, <1>10, JobsStay DEF Elsewhere, Typed, store
<1>16. task[c].at \in PlacesOf(task[c].cmd)
  BY DEF Phases, InPhase
<1>17. GoesOn(c)
  BY <1>2, <1>11, <1>12, <1>13, <1>16 DEF GoesOn
<1>18. Typed'
  BY <1>14, <1>17, TypedNext DEF GoesOn
<1>19. docs'[m] = P
  BY <1>10 DEF Typed
<1>20. ASSUME Update(c, [task[c] EXCEPT !.runs = R])
       PROVE  \E k \in DOMAIN task[c].runs :
                    /\ DOMAIN task'[c].runs = DOMAIN task[c].runs \ {k}
                    /\ \A i \in DOMAIN task'[c].runs : task'[c].runs[i] = task[c].runs[i]
                    /\ DOMAIN docs'[m] = DOMAIN docs[m] \cup {k}
                    /\ docs'[m][k] = Renamed(task[c].runs[k])
                    /\ \A i \in DOMAIN docs[m] : i # k => docs'[m][i] = docs[m][i]
  <2>1. /\ DOMAIN task'[c].runs = DOMAIN task[c].runs \ {num}
        /\ \A i \in DOMAIN task'[c].runs : task'[c].runs[i] = task[c].runs[i]
    BY <1>3, <1>6, <1>12, <1>20
  <2>2. /\ DOMAIN docs'[m] = DOMAIN docs[m] \cup {num}
        /\ docs'[m][num] = Renamed(task[c].runs[num])
        /\ \A i \in DOMAIN docs[m] : i # num => docs'[m][i] = docs[m][i]
    BY <1>3, <1>7, <1>d, <1>9, <1>19
  <2> QED BY <2>1, <2>2
<1> QED BY <1>1, <1>2, <1>11, <1>12, <1>13, <1>15, <1>17, <1>18, <1>20, ZenonT(60)

LEMMA ImportCountersStep ==
  ASSUME Typed, Phases, NEW c \in Clients, ImportCounters(c)
  PROVE  /\ Elsewhere(Ws(c)) /\ GoesOn(c) /\ Typed' /\ Over(c)
         /\ At(c, "jobs") /\ task[c].left = {}
         /\ UNCHANGED <<store, docs, jobs, archive, mixed, torn>>
         /\ \A k \in DOMAIN task[c].draft.runs :
              /\ k < counters'[Ws(c)].run
              /\ task[c].draft.runs[k].end < counters'[Ws(c)].end
<1>1. PICK m \in Names : m = Ws(c)
  BY WsIsName
<1>2. PICK D \in Tables : D = task[c].draft.runs
  BY WsIsName DEF Tasks, Archives
<1>3. PICK E : E = {D[k].end : k \in DOMAIN D}
  OBVIOUS
<1>4. PICK pair : pair = [run |-> 1 + Highest(DOMAIN D), end |-> 1 + Highest(E)]
  OBVIOUS
<1>5. /\ Imported(c) /\ Quit(c) /\ counters' = [counters EXCEPT ![m] = pair]
      /\ UNCHANGED <<store, docs, jobs, nextJob, archive, torn, mixed>>
  BY <1>1, <1>2, <1>3, <1>4 DEF ImportCounters
<1>6. /\ Highest(DOMAIN D) \in Nat /\ Highest(E) \in Nat
      /\ \A k \in DOMAIN D : k <= Highest(DOMAIN D) /\ D[k].end <= Highest(E)
  BY <1>3, CountersAreAbove
<1>7. pair \in Pairs /\ pair.run = 1 + Highest(DOMAIN D) /\ pair.end = 1 + Highest(E)
  BY <1>4, <1>6 DEF Pairs
<1>8. Over(c) /\ GoesOn(c)
  BY <1>5, QuitEffect, QuitGoesOn
<1>9. StoreTyped' /\ archive' \in Archives
  BY <1>5, <1>7 DEF Typed, StoreTyped, store
<1>10. Elsewhere(m)
  BY <1>5, JobsStay DEF Elsewhere, Typed, store
<1>11. Typed'
  BY <1>8, <1>9, TypedNext DEF GoesOn
<1>12. counters'[m] = pair
  BY <1>5 DEF Typed
<1>13. \A k \in DOMAIN D : k < counters'[m].run /\ D[k].end < counters'[m].end
  BY <1>6, <1>7, <1>12, TableFacts
<1> QED BY <1>1, <1>2, <1>5, <1>8, <1>10, <1>11, <1>13 DEF Imported
-----------------------------------------------------------------------------
(* How far the commands that only read come *)

LEMMA ReadingEffects ==
  ASSUME Typed, NEW c \in Clients
  PROVE  /\ Interrupt(c) => /\ Over(c) /\ torn' = torn \cup {Ws(c)}
                            /\ UNCHANGED <<store, database, archive, mixed>>
         /\ CreateCheck(c) => /\ Over(c) \/ Went(c, "container")
                              /\ At(c, "create")
                              /\ UNCHANGED <<store, database, archive, mixed, torn>>
         /\ EnsureWorkspace(c) => /\ \/ Went(c, "job") /\ Ws(c) \in exists
                                     \/ Went(c, "create")
                                  /\ At(c, "ensure")
                                  /\ UNCHANGED <<store, database, archive, mixed, torn>>
         /\ DeleteCheck(c) => /\ Over(c) \/ (Went(c, "names") /\ Ws(c) \in exists)
                              /\ At(c, "delete")
                              /\ UNCHANGED <<store, database, archive, mixed, torn>>
         /\ DeleteDone(c) => /\ Over(c) /\ At(c, "delete jobs") /\ task[c].left = {}
                             /\ torn' = IF c \in mixed THEN torn ELSE torn \ {Ws(c)}
                             /\ UNCHANGED <<store, database, archive, mixed>>
         /\ ExportFails(c) => /\ Over(c) /\ At(c, "export runs")
                              /\ UNCHANGED <<store, database, archive, mixed, torn>>
         /\ ExportRunsDone(c) => /\ Went(c, "export jobs") /\ At(c, "export runs")
                                 /\ DOMAIN task[c].runs = {}
                                 /\ UNCHANGED <<store, database, archive, mixed, torn>>
         /\ ImportRunsDone(c) => /\ Went(c, "jobs") /\ At(c, "runs of job")
                                 /\ DOMAIN task[c].runs = {}
                                 /\ UNCHANGED <<store, database, archive, mixed, torn>>
<1>1. Quit(c) => Over(c)
  BY QuitEffect
<1>2. {"container", "job", "create", "names", "export jobs", "jobs"} \subseteq Places
  BY DEF Places, Making, Running, Deleting, Exporting, Importing
<1>3. \A at \in Places : Go(c, at) => Went(c, at)
  BY GoEffect
<1>4. Interrupt(c) => /\ Quit(c) /\ torn' = torn \cup {Ws(c)}
                      /\ UNCHANGED <<store, database, archive, mixed>>
  BY DEF Interrupt, Fail
<1>5. CreateCheck(c) => /\ Quit(c) \/ Go(c, "container")
                        /\ At(c, "create")
                        /\ UNCHANGED <<store, database, archive, mixed, torn>>
  BY DEF CreateCheck
<1>6. EnsureWorkspace(c) => /\ \/ Go(c, "job") /\ Ws(c) \in exists
                               \/ Go(c, "create")
                            /\ At(c, "ensure")
                            /\ UNCHANGED <<store, database, archive, mixed, torn>>
  BY DEF EnsureWorkspace
<1>7. DeleteCheck(c) => /\ Quit(c) \/ (Go(c, "names") /\ Ws(c) \in exists)
                        /\ At(c, "delete")
                        /\ UNCHANGED <<store, database, archive, mixed, torn>>
  BY DEF DeleteCheck
<1>8. DeleteDone(c) => /\ Quit(c) /\ At(c, "delete jobs") /\ task[c].left = {}
                       /\ torn' = IF c \in mixed THEN torn ELSE torn \ {Ws(c)}
                       /\ UNCHANGED <<store, database, archive, mixed>>
  BY DEF DeleteDone, Deleted
<1>9. ExportFails(c) => /\ Quit(c) /\ At(c, "export runs")
                        /\ UNCHANGED <<store, database, archive, mixed, torn>>
  BY DEF ExportFails
<1>10. ExportRunsDone(c) => /\ Go(c, "export jobs") /\ At(c, "export runs")
                            /\ DOMAIN task[c].runs = {}
                            /\ UNCHANGED <<store, database, archive, mixed, torn>>
  BY DEF ExportRunsDone
<1>11. ImportRunsDone(c) => /\ Go(c, "jobs") /\ At(c, "runs of job")
                            /\ DOMAIN task[c].runs = {}
                            /\ UNCHANGED <<store, database, archive, mixed, torn>>
  BY DEF ImportRunsDone
<1> QED BY <1>1, <1>2, <1>3, <1>4, <1>5, <1>6, <1>7, <1>8, <1>9, <1>10, <1>11

LEMMA CreateContainerEffect ==
  ASSUME Typed, NEW c \in Clients, CreateContainer(c)
  PROVE  /\ At(c, "container") /\ UNCHANGED <<holders, logs, database, archive, torn, mixed>>
         /\ \/ Over(c) /\ UNCHANGED exists
            \/ Went(c, "runs") /\ exists' = exists \cup {Ws(c)} /\ Ws(c) \notin exists
<1>1. Quit(c) => Over(c)
  BY QuitEffect
<1>2. "runs" \in Places
  BY DEF Places, Making
<1>3. Go(c, "runs") => Went(c, "runs")
  BY <1>2, GoEffect
<1> QED BY <1>1, <1>3 DEF CreateContainer

-----------------------------------------------------------------------------
(* The steps keep the types and the phases *)

LEMMA StepsKeepTypes ==
  ASSUME Typed, Phases, NEW c \in Clients, StepOf(c)
  PROVE  Elsewhere(Ws(c)) /\ GoesOn(c) /\ Typed'
<1>1. CASE \/ Interrupt(c) \/ CreateCheck(c) \/ EnsureWorkspace(c) \/ DeleteCheck(c)
           \/ DeleteDone(c) \/ ExportFails(c) \/ ExportRunsDone(c) \/ ImportRunsDone(c)
  BY <1>1, ReadingSteps
<1>2. CASE CreateContainer(c) \/ CreateHolder(c)
  BY <1>2, CreateContainerStep, CreateHolderStep
<1>3. CASE NewJob(c) \/ TakeNumber(c) \/ StartRun(c) \/ LogJob(c) \/ EndRun(c)
  BY <1>3, NewJobStep, TakeNumberStep, StartRunStep, LogJobStep, EndRunStep
<1>4. CASE JobNames(c) \/ DeleteContainer(c) \/ DropRuns(c) \/ DropCounters(c) \/ DeleteJob(c)
  BY <1>4, JobNamesStep, DeleteContainerStep, DropRunsStep, DropCountersStep, DeleteJobStep
<1>5. CASE ExportCheck(c) \/ ExportJob(c) \/ ExportRun(c) \/ ExportDone(c)
  BY <1>5, ExportCheckStep, ExportJobStep, ExportRunStep, ExportDoneStep
<1>6. CASE ImportCheck(c) \/ ImportJob(c) \/ ImportRun(c) \/ ImportCounters(c)
  BY <1>6, ImportCheckStep, ImportJobStep, ImportRunStep, ImportCountersStep
<1> QED BY <1>1, <1>2, <1>3, <1>4, <1>5, <1>6 DEF StepOf

LEMMA IdleIsInPhase == InPhase(Idle)
BY IdleIsATask, NoRunsIsTable DEF InPhase, PlacesOf, Making, Imports

\* What must be remembered at the place a command goes on to.
LEMMA WentInPhase ==
  ASSUME Typed, Phases, NEW c \in Clients, NEW at \in PlacesOf(task[c].cmd), Went(c, at),
         at \in {"number", "start"} => task[c].left # {},
         at \in {"start", "log job", "end"} => task[c].num # 0,
         at \in Making => task[c].at \in Making \/ task[c].cmd \notin Imports,
         at \in {"export jobs", "jobs"} => DOMAIN task[c].runs = {},
         at \notin {"export", "import"}
  PROVE  InPhase(task'[c])
<1>1. InPhase(task[c])
  BY DEF Phases
<1> QED BY <1>1 DEF Went, InPhase

LEMMA HolderInPhase ==
  ASSUME Typed, Phases, NEW c \in Clients, CreateHolder(c) PROVE InPhase(task'[c])
<1>1. /\ Creating(c) /\ GoesOn(c)
      /\ \/ Over(c)
         \/ NextHolder(c) # "idle" /\ Went(c, NextHolder(c))
  BY CreateHolderStep
<1>2. CASE Over(c)
  BY <1>2, IdleIsInPhase DEF Over
<1>3. CASE NextHolder(c) # "idle" /\ Went(c, NextHolder(c))
  <2>1. PICK at : at = NextHolder(c)
    OBVIOUS
  <2>2. task'[c] # Idle
    BY <1>3, IdleIsATask DEF Went
  <2>3. at \in PlacesOf(task[c].cmd) /\ Went(c, at)
    BY <1>1, <1>3, <2>1, <2>2 DEF GoesOn, Went
  <2>4. task[c].at \in Making /\ InPhase(task[c]) /\ task[c].cmd \in {"none"} \cup Commands
    BY <1>1, WsIsName DEF Creating, Making, Phases, Tasks
  <2>5. at \in {"experiments", "next", "job", "jobs"} /\ (at = "jobs" => task[c].cmd \in Imports)
    <3>1. CASE task[c].at \in {"runs", "experiments"}
      BY <2>1, <3>1 DEF NextHolder
    <3>2. CASE task[c].at \notin {"runs", "experiments"}
      <4>1. at = AfterHolder(task[c].cmd) /\ task[c].at \notin {"idle"}
        BY <2>1, <2>4, <3>2 DEF NextHolder, Making
      <4>2. task[c].cmd \notin {"none", "delete", "export"}
        BY <2>4, <4>1, PlacesAreDisjoint DEF Making, Deleting, Exporting
      <4> QED BY <1>3, <2>1, <2>4, <4>1, <4>2 DEF AfterHolder, Commands, Imports
    <3> QED BY <3>1, <3>2
  <2>6. at = "jobs" => DOMAIN task[c].runs = {}
    BY <2>4, <2>5 DEF InPhase
  <2> QED BY <2>3, <2>4, <2>5, <2>6, WentInPhase
<1> QED BY <1>1, <1>2, <1>3

LEMMA StepsKeepPhases ==
  ASSUME Typed, Phases, NEW c \in Clients, StepOf(c)
  PROVE  Phases'
<1> USE DEF At
<1>1. GoesOn(c) /\ InPhase(task[c]) /\ task[c] \in Tasks
  BY StepsKeepTypes, WsIsName DEF Phases
<1>2. Over(c) => InPhase(task'[c])
  BY IdleIsInPhase DEF Over
<1>3. task'[c] # Idle => task'[c].at \in PlacesOf(task[c].cmd) /\ task'[c].cmd = task[c].cmd
  BY <1>1 DEF GoesOn
<1>4. ASSUME NEW at, Went(c, at), at # "idle"
      PROVE  at \in PlacesOf(task[c].cmd)
  BY <1>3, <1>4, IdleIsATask DEF Went
<1>5. ASSUME NEW at \in {"container", "job", "create", "names", "export jobs", "jobs", "runs",
                         "drop", "counters", "delete jobs", "log job"},
             Went(c, at),
             at \in {"container", "create", "runs"} =>
               task[c].at \in Making \/ task[c].cmd \notin Imports,
             at \in {"export jobs", "jobs"} => DOMAIN task[c].runs = {},
             at = "log job" => task[c].num # 0
      PROVE  InPhase(task'[c])
  BY <1>4, <1>5, WentInPhase DEF Making
<1> SUFFICES InPhase(task'[c])
  BY <1>1 DEF GoesOn, Others, Phases
<1>6. CASE Interrupt(c) \/ DeleteDone(c) \/ ExportFails(c)
  BY <1>2, <1>6, ReadingEffects
<1>7. CASE CreateCheck(c)
  BY <1>2, <1>5, <1>7, ReadingEffects DEF Making
<1>8. CASE EnsureWorkspace(c)
  <2>1. task[c].cmd \notin Imports
    BY <1>8, ReadingEffects, PlacesAreDisjoint DEF Running, Imports
  <2> QED BY <1>5, <1>8, <2>1, ReadingEffects
<1>9. CASE DeleteCheck(c)
  BY <1>2, <1>5, <1>9, ReadingEffects
<1>10. CASE ExportRunsDone(c) \/ ImportRunsDone(c)
  BY <1>5, <1>10, ReadingEffects
<1>11. CASE CreateContainer(c)
  BY <1>2, <1>5, <1>11, CreateContainerEffect DEF Making
<1>12. CASE CreateHolder(c)
  BY <1>12, HolderInPhase
<1>13. CASE NewJob(c)
  <2>1. task'[c].at = "number" /\ task'[c].left # {} /\ GoesOn(c)
    BY <1>13, NewJobStep
  <2> QED BY <1>3, <2>1, IdleIsATask DEF InPhase, Making
<1>14. CASE TakeNumber(c)
  <2>1. /\ At(c, "number")
        /\ \/ Over(c)
           \/ Went(c, "number")
           \/ /\ task'[c].at = "start" /\ task'[c].left = task[c].left
              /\ task'[c].num = Counted(Ws(c)).run
    BY <1>14, TakeNumberStep
  <2>2. Counted(Ws(c)).run # 0
    BY WsIsName, CountedIsPair
  <2>3. CASE Went(c, "number")
    BY <1>1, <1>4, <2>1, <2>3, WentInPhase DEF InPhase, Making
  <2>4. CASE task'[c].at = "start" /\ task'[c].left = task[c].left /\ task'[c].num = Counted(Ws(c)).run
    BY <1>1, <1>3, <2>1, <2>2, <2>4, IdleIsATask DEF InPhase, Making
  <2> QED BY <1>2, <2>1, <2>3, <2>4
<1>15. CASE StartRun(c)
  <2>1. task[c].num # 0 /\ (Over(c) \/ Went(c, "log job"))
    BY <1>1, <1>15, StartRunStep DEF InPhase
  <2> QED BY <1>2, <1>5, <2>1
<1>16. CASE LogJob(c)
  <2>1. task'[c].at = "end" /\ task'[c].num = task[c].num /\ task[c].num # 0
    BY <1>1, <1>16, LogJobStep DEF InPhase
  <2> QED BY <1>3, <2>1, IdleIsATask DEF InPhase, Making
<1>17. CASE EndRun(c)
  BY <1>2, <1>17, EndRunStep
<1>18. CASE JobNames(c)
  <2>1. task'[c].at = "erase"
    BY <1>18, JobNamesStep
  <2> QED BY <1>3, <2>1, IdleIsATask DEF InPhase, Making
<1>19. CASE DeleteContainer(c)
  BY <1>2, <1>5, <1>19, DeleteContainerStep
<1>20. CASE DropRuns(c)
  BY <1>5, <1>20, DropRunsStep
<1>21. CASE DropCounters(c)
  BY <1>5, <1>21, DropCountersStep
<1>22. CASE DeleteJob(c)
  <2>1. task'[c].at = "delete jobs"
    BY <1>22, DeleteJobStep
  <2> QED BY <1>3, <2>1, IdleIsATask DEF InPhase, Making
<1>23. CASE ExportCheck(c)
  <2>1. /\ At(c, "export")
        /\ Over(c) \/ (task'[c].at = "export jobs" /\ task'[c].runs = task[c].runs)
    BY <1>23, ExportCheckStep
  <2>2. CASE task'[c].at = "export jobs" /\ task'[c].runs = task[c].runs
    BY <1>1, <1>3, <2>1, <2>2, IdleIsATask DEF InPhase, Making
  <2> QED BY <1>2, <2>1, <2>2
<1>24. CASE ExportJob(c)
  <2>1. task'[c].at = "export runs"
    BY <1>24, ExportJobStep
  <2> QED BY <1>3, <2>1, IdleIsATask DEF InPhase, Making
<1>25. CASE ExportRun(c)
  <2>1. task'[c].at = "export runs"
    BY <1>25, ExportRunStep
  <2> QED BY <1>3, <2>1, IdleIsATask DEF InPhase, Making
<1>26. CASE ExportDone(c)
  BY <1>2, <1>26, ExportDoneStep
<1>27. CASE ImportCheck(c)
  <2>1. /\ At(c, "import")
        /\ Over(c) \/ (task'[c].at = "create" /\ task'[c].runs = task[c].runs)
    BY <1>27, ImportCheckStep
  <2>2. CASE task'[c].at = "create" /\ task'[c].runs = task[c].runs
    BY <1>1, <1>3, <2>1, <2>2, IdleIsATask DEF InPhase, Making
  <2> QED BY <1>2, <2>1, <2>2
<1>28. CASE ImportJob(c)
  <2>1. task'[c].at = "runs of job"
    BY <1>28, ImportJobStep
  <2> QED BY <1>3, <2>1, IdleIsATask DEF InPhase, Making
<1>29. CASE ImportRun(c)
  <2>1. Over(c) \/ (task'[c].at = "runs of job" /\ At(c, "runs of job"))
    BY <1>29, ImportRunStep
  <2>2. CASE task'[c].at = "runs of job"
    BY <1>3, <2>2, IdleIsATask DEF InPhase, Making
  <2> QED BY <1>2, <2>1, <2>2
<1>30. CASE ImportCounters(c)
  BY <1>2, <1>30, ImportCountersStep
<1> QED
  BY <1>6, <1>7, <1>8, <1>9, <1>10, <1>11, <1>12, <1>13, <1>14, <1>15, <1>16, <1>17, <1>18, <1>19,
     <1>20, <1>21, <1>22, <1>23, <1>24, <1>25, <1>26, <1>27, <1>28, <1>29, <1>30 DEF StepOf
-----------------------------------------------------------------------------
(* What holds of every workspace, and of the commands that work on it *)

Busy(c) == ~At(c, "idle")

GoneIsEmpty == \A n \in Names \ exists : holders[n] = {} /\ logs[n] = {}

\* A command that has met no other one is alone at its workspace, and a deletion
\* or an import is, unless the workspace is torn.
AloneOrMixed ==
  \A c, d \in Clients : c # d /\ Busy(c) /\ Busy(d) /\ Ws(c) = Ws(d) => c \in mixed
ExclusiveIsAlone ==
  \A c \in Clients : task[c].cmd \in {"delete"} \cup Imports /\ Ws(c) \notin torn => c \notin mixed

\* How far a deletion has come: what it has deleted stays deleted.
DeletionsInOrder ==
  \A c \in Clients \ mixed, n \in Names :
    Ws(c) = n =>
      /\ task[c].at \in {"drop", "counters", "delete jobs"} => n \notin exists
      /\ task[c].at \in {"erase", "drop", "counters", "delete jobs"} =>
           JobsOf(n) \subseteq task[c].left
      /\ task[c].at \in {"counters", "delete jobs"} => DOMAIN docs[n] = {}
      /\ task[c].at = "delete jobs" => counters[n] = [run |-> 0, end |-> 0]

LEMMA GoneStays ==
  ASSUME Typed, Phases, GoneIsEmpty, NEW c \in Clients, StepOf(c)
  PROVE  GoneIsEmpty'
<1>1. PICK m \in Names : m = Ws(c)
  BY WsIsName
<1>2. Elsewhere(m)
  BY <1>1, StepsKeepTypes
<1>3. m \notin exists => holders[m] = {} /\ logs[m] = {}
  BY DEF GoneIsEmpty
<1> SUFFICES m \notin exists' => holders'[m] = {} /\ logs'[m] = {}
  BY <1>2 DEF Elsewhere, GoneIsEmpty
<1>4. CASE UNCHANGED store
  BY <1>3, <1>4 DEF store
<1>5. CASE CreateContainer(c)
  BY <1>1, <1>3, <1>5, CreateContainerEffect
<1>6. CASE CreateHolder(c)
  BY <1>1, <1>3, <1>6, CreateHolderStep
<1>7. CASE StartRun(c)
  BY <1>1, <1>3, <1>7 DEF StartRun
<1>8. CASE EndRun(c)
  BY <1>1, <1>3, <1>8 DEF EndRun
<1>9. CASE DeleteContainer(c)
  BY <1>1, <1>9 DEF DeleteContainer, Typed
<1>10. CASE ExportRun(c)
  <2>1. exists' = exists /\ holders' = holders
    BY <1>10, ExportRunStep
  <2>2. \E num : logs' = logs \/ logs' = [logs EXCEPT ![m] = @ \ {num}]
    BY <1>1, <1>10 DEF ExportRun
  <2> QED BY <1>3, <2>1, <2>2 DEF Typed
<1>11. \/ UNCHANGED store \/ CreateContainer(c) \/ CreateHolder(c) \/ StartRun(c) \/ EndRun(c)
       \/ DeleteContainer(c) \/ ExportRun(c)
  BY ReadingEffects, NewJobStep, TakeNumberStep, LogJobStep, JobNamesStep, DropRunsStep,
     DropCountersStep, DeleteJobStep, ExportCheckStep, ExportJobStep, ExportDoneStep,
     ImportCheckStep, ImportJobStep, ImportRunStep, ImportCountersStep DEF StepOf
<1> QED BY <1>4, <1>5, <1>6, <1>7, <1>8, <1>9, <1>10, <1>11

\* Which steps change what the commands have met
LEMMA MixedKept ==
  ASSUME Typed, Phases, NEW c \in Clients, StepOf(c)
  PROVE  mixed' = mixed /\ (torn \subseteq torn' \/ (DeleteDone(c) /\ c \notin mixed /\ torn' = torn \ {Ws(c)}))
<1>1. CASE CreateContainer(c) \/ CreateHolder(c) \/ Interrupt(c)
  BY <1>1, CreateContainerEffect, CreateHolderStep, ReadingEffects
<1>2. CASE NewJob(c) \/ TakeNumber(c) \/ StartRun(c) \/ LogJob(c) \/ EndRun(c)
  BY <1>2, NewJobStep, TakeNumberStep, StartRunStep, LogJobStep, EndRunStep
<1>3. CASE CreateCheck(c) \/ EnsureWorkspace(c) \/ DeleteCheck(c) \/ DeleteDone(c) \/ ExportFails(c)
           \/ ExportRunsDone(c) \/ ImportRunsDone(c)
  BY <1>3, ReadingEffects
<1>4. CASE JobNames(c) \/ DeleteContainer(c) \/ DropRuns(c) \/ DropCounters(c) \/ DeleteJob(c)
  BY <1>4, JobNamesStep, DeleteContainerStep, DropRunsStep, DropCountersStep, DeleteJobStep
<1>5. CASE ExportCheck(c) \/ ExportJob(c) \/ ExportRun(c) \/ ExportDone(c)
  BY <1>5, ExportCheckStep, ExportJobStep, ExportRunStep, ExportDoneStep
<1>6. CASE ImportCheck(c) \/ ImportJob(c) \/ ImportRun(c) \/ ImportCounters(c)
  BY <1>6, ImportCheckStep, ImportJobStep, ImportRunStep, ImportCountersStep
<1> QED BY <1>1, <1>2, <1>3, <1>4, <1>5, <1>6 DEF StepOf

LEMMA StepsAreOfBusy == ASSUME NEW c \in Clients, StepOf(c) PROVE Busy(c)
<1>1. At(c, "idle") => FALSE
    BY DEF At, StepOf, Interrupt, CreateCheck, CreateContainer, CreateHolder, EnsureWorkspace,
         NewJob, TakeNumber, StartRun, LogJob, EndRun, DeleteCheck, JobNames, DeleteContainer,
         DropRuns, DropCounters, DeleteJob, DeleteDone, Deleted, ExportCheck, ExportJob, ExportRun,
         ExportFails, ExportRunsDone, ExportDone, ImportCheck, ImportJob, ImportRun, ImportRunsDone,
         ImportCounters, Imported
<1> QED BY <1>1 DEF Busy

\* The steps that bring a command to a place where it deletes
LEMMA OtherPlaces ==
  ASSUME Typed, Phases, NEW c \in Clients, StepOf(c), task'[c] # Idle,
         task'[c].at \in {"erase", "drop", "counters", "delete jobs"}
  PROVE  JobNames(c) \/ DeleteContainer(c) \/ DropRuns(c) \/ DropCounters(c) \/ DeleteJob(c)
<1>1. ~Interrupt(c) /\ ~CreateCheck(c) /\ ~EnsureWorkspace(c) /\ ~DeleteCheck(c) /\ ~DeleteDone(c)
      /\ ~ExportFails(c) /\ ~ExportRunsDone(c) /\ ~ImportRunsDone(c) /\ ~CreateContainer(c)
  BY ReadingEffects, CreateContainerEffect DEF Over, Went
<1>2. ~CreateHolder(c)
  <2>1. ASSUME CreateHolder(c) PROVE Creating(c) /\ Went(c, NextHolder(c))
    BY <2>1, CreateHolderStep DEF Over
  <2>2. NextHolder(c) \in {"experiments", "next", "idle", "job", "jobs"}
    <3>1. AfterHolder(task[c].cmd) \in {"idle", "job", "jobs"}
      BY DEF AfterHolder
    <3> QED BY <3>1 DEF NextHolder
  <2> QED BY <2>1, <2>2 DEF Went
<1>3. ~NewJob(c) /\ ~TakeNumber(c) /\ ~StartRun(c) /\ ~LogJob(c) /\ ~EndRun(c)
  BY NewJobStep, TakeNumberStep, StartRunStep, LogJobStep, EndRunStep DEF Over, Went
<1>4. ~ExportCheck(c) /\ ~ExportJob(c) /\ ~ExportRun(c) /\ ~ExportDone(c)
  BY ExportCheckStep, ExportJobStep, ExportRunStep, ExportDoneStep DEF Over
<1>5. ~ImportCheck(c) /\ ~ImportJob(c) /\ ~ImportRun(c) /\ ~ImportCounters(c)
  BY ImportCheckStep, ImportJobStep, ImportRunStep, ImportCountersStep DEF Over, At
<1> QED BY <1>1, <1>2, <1>3, <1>4, <1>5 DEF StepOf

LEMMA IdleHasNoCommand ==
  ASSUME NEW t, InPhase(t), t.at = "idle" PROVE t.cmd = "none"
BY DEF InPhase, PlacesOf, Making, Running, Deleting, Exporting, Importing

LEMMA AloneStays ==
  ASSUME Typed, Phases, AloneOrMixed, ExclusiveIsAlone, NEW c \in Clients, StepOf(c)
  PROVE  AloneOrMixed' /\ ExclusiveIsAlone'
<1>1. Busy(c)
  BY StepsAreOfBusy
<1>2. GoesOn(c) /\ Others(c)
  BY StepsKeepTypes DEF GoesOn
<1>3. \A d \in Clients : Busy(d)' => Busy(d) /\ Ws(d)' = Ws(d) /\ task'[d].cmd = task[d].cmd
  BY <1>1, <1>2, IdleIsATask DEF GoesOn, Others, Busy, At, Ws
<1>4. \A d \in Clients : ~Busy(d)' => task'[d].cmd = "none"
  BY StepsKeepPhases, IdleHasNoCommand DEF Phases, Busy, At
<1>5. mixed' = mixed
  BY MixedKept
<1>6. AloneOrMixed'
  BY <1>3, <1>5 DEF AloneOrMixed
<1>7. ASSUME NEW d \in Clients, task'[d].cmd \in {"delete"} \cup Imports, Ws(d)' \notin torn',
             d \in mixed
      PROVE  FALSE
  <2>1. Busy(d) /\ Busy(d)' /\ Ws(d)' = Ws(d) /\ task[d].cmd = task'[d].cmd
    BY <1>3, <1>4, <1>7 DEF Imports
  <2>2. Ws(d) \in torn
    BY <1>7, <2>1 DEF ExclusiveIsAlone
  <2>3. DeleteDone(c) /\ c \notin mixed /\ torn' = torn \ {Ws(c)} /\ Over(c)
    BY <1>7, <2>1, <2>2, MixedKept, ReadingEffects
  <2>4. Ws(c) = Ws(d) /\ c # d
    BY <1>7, <2>1, <2>2, <2>3
  <2> QED BY <1>1, <2>1, <2>3, <2>4 DEF AloneOrMixed
<1> QED BY <1>5, <1>6, <1>7 DEF ExclusiveIsAlone

LEMMA DeletionsStay ==
  ASSUME Typed, Phases, AloneOrMixed, DeletionsInOrder, NEW c \in Clients, StepOf(c)
  PROVE  DeletionsInOrder'
<1>0. mixed' = mixed /\ GoesOn(c) /\ Others(c) /\ Elsewhere(Ws(c))
  BY MixedKept, StepsKeepTypes DEF GoesOn
<1>1. Busy(c)
  BY StepsAreOfBusy
<1>2. ASSUME NEW d \in Clients \ mixed, d # c, NEW n \in Names, Ws(d)' = n,
             task'[d].at \in {"erase", "drop", "counters", "delete jobs"}
      PROVE  /\ task'[d] = task[d] /\ Ws(d) = n /\ (n \in exists' <=> n \in exists)
             /\ docs'[n] = docs[n] /\ counters'[n] = counters[n] /\ JobsOf(n)' \subseteq JobsOf(n)
  <2>1. task'[d] = task[d] /\ Ws(d) = n /\ Busy(d)
    BY <1>0, <1>2 DEF Others, Ws, Busy, At
  <2>2. n # Ws(c)
    BY <1>1, <1>2, <2>1 DEF AloneOrMixed
  <2> QED BY <1>0, <2>1, <2>2 DEF Elsewhere
<1>3. ASSUME NEW n \in Names, Ws(c)' = n, c \notin mixed,
             task'[c].at \in {"erase", "drop", "counters", "delete jobs"}
      PROVE  /\ task'[c].at \in {"drop", "counters", "delete jobs"} => n \notin exists'
             /\ JobsOf(n)' \subseteq task'[c].left
             /\ task'[c].at \in {"counters", "delete jobs"} => DOMAIN docs'[n] = {}
             /\ task'[c].at = "delete jobs" => counters'[n] = [run |-> 0, end |-> 0]
  <2>1. task'[c] # Idle /\ Ws(c) = n
    BY <1>0, <1>3, IdleIsATask DEF GoesOn, Ws
  <2>2. /\ task[c].at \in {"drop", "counters", "delete jobs"} => n \notin exists
        /\ task[c].at \in {"erase", "drop", "counters", "delete jobs"} => JobsOf(n) \subseteq task[c].left
        /\ task[c].at \in {"counters", "delete jobs"} => DOMAIN docs[n] = {}
        /\ task[c].at = "delete jobs" => counters[n] = [run |-> 0, end |-> 0]
    BY <1>3, <2>1 DEF DeletionsInOrder
  <2>3. CASE JobNames(c)
    <3>1. task'[c].at = "erase" /\ task'[c].left = JobsOf(n) /\ jobs' = jobs
      BY <2>1, <2>3, JobNamesStep DEF database
    <3> QED BY <3>1, JobsKept
  <2>4. CASE DeleteContainer(c)
    <3>1. /\ task[c].at = "erase" /\ exists' = exists \ {n} /\ jobs' = jobs
          /\ task'[c].at = "drop" /\ task'[c].left = task[c].left
      BY <2>1, <2>4, DeleteContainerStep DEF Over, Went, At, database
    <3>2. JobsOf(n)' = JobsOf(n)
      BY <3>1, JobsKept
    <3> QED BY <2>2, <3>1, <3>2
  <2>5. CASE DropRuns(c)
    <3>1. /\ task[c].at = "drop" /\ exists' = exists /\ jobs' = jobs /\ DOMAIN docs'[n] = {}
          /\ task'[c].at = "counters" /\ task'[c].left = task[c].left
      BY <2>1, <2>5, DropRunsStep DEF Went, At, store
    <3>2. JobsOf(n)' = JobsOf(n)
      BY <3>1, JobsKept
    <3> QED BY <2>2, <3>1, <3>2
  <2>6. CASE DropCounters(c)
    <3>1. /\ task[c].at = "counters" /\ exists' = exists /\ jobs' = jobs /\ docs' = docs
          /\ task'[c].at = "delete jobs" /\ task'[c].left = task[c].left
          /\ counters'[n] = [run |-> 0, end |-> 0]
      BY <2>1, <2>6, DropCountersStep DEF Went, At, store
    <3>2. JobsOf(n)' = JobsOf(n)
      BY <3>1, JobsKept
    <3> QED BY <2>2, <3>1, <3>2
  <2>7. CASE DeleteJob(c)
    <3>1. /\ task[c].at = "delete jobs" /\ exists' = exists /\ docs' = docs /\ counters' = counters
          /\ task'[c].at = "delete jobs"
          /\ \E id : task'[c].left = task[c].left \ {id} /\ JobsOf(n)' = JobsOf(n) \ {id}
      BY <2>1, <2>7, DeleteJobStep DEF At, store
    <3> QED BY <2>2, <3>1
  <2>8. \/ JobNames(c) \/ DeleteContainer(c) \/ DropRuns(c) \/ DropCounters(c) \/ DeleteJob(c)
    BY <1>3, <2>1, OtherPlaces
  <2> QED BY <2>3, <2>4, <2>5, <2>6, <2>7, <2>8
<1>4. ASSUME NEW d \in Clients \ mixed', NEW n \in Names, Ws(d)' = n
      PROVE  /\ task'[d].at \in {"drop", "counters", "delete jobs"} => n \notin exists'
             /\ task'[d].at \in {"erase", "drop", "counters", "delete jobs"} =>
                  JobsOf(n)' \subseteq task'[d].left
             /\ task'[d].at \in {"counters", "delete jobs"} => DOMAIN docs'[n] = {}
             /\ task'[d].at = "delete jobs" => counters'[n] = [run |-> 0, end |-> 0]
  <2>1. CASE d = c
    BY <1>0, <1>3, <1>4, <2>1
  <2>2. CASE d # c
    <3>1. SUFFICES ASSUME task'[d].at \in {"erase", "drop", "counters", "delete jobs"}
          PROVE  /\ task'[d].at \in {"drop", "counters", "delete jobs"} => n \notin exists'
                 /\ JobsOf(n)' \subseteq task'[d].left
                 /\ task'[d].at \in {"counters", "delete jobs"} => DOMAIN docs'[n] = {}
                 /\ task'[d].at = "delete jobs" => counters'[n] = [run |-> 0, end |-> 0]
      OBVIOUS
    <3>2. /\ task'[d] = task[d] /\ Ws(d) = n /\ (n \in exists' <=> n \in exists)
          /\ docs'[n] = docs[n] /\ counters'[n] = counters[n] /\ JobsOf(n)' \subseteq JobsOf(n)
          /\ d \in Clients \ mixed
      BY <1>0, <1>2, <1>4, <2>2, <3>1
    <3>3. /\ task[d].at \in {"drop", "counters", "delete jobs"} => n \notin exists
          /\ task[d].at \in {"erase", "drop", "counters", "delete jobs"} => JobsOf(n) \subseteq task[d].left
          /\ task[d].at \in {"counters", "delete jobs"} => DOMAIN docs[n] = {}
          /\ task[d].at = "delete jobs" => counters[n] = [run |-> 0, end |-> 0]
      BY <3>2 DEF DeletionsInOrder
    <3> QED BY <3>1, <3>2, <3>3
  <2> QED BY <2>1, <2>2
<1> QED BY <1>4 DEF DeletionsInOrder
-----------------------------------------------------------------------------
(* A workspace in order, which no failure has torn: its container, the      *)
(* numbers that are given to its runs, its run documents, and the exports   *)
(* and imports that are at work on it.                                      *)

\* The holder files of a container that is being filled; and the places a command
\* reaches only where there is a container.
Before(at) == CASE at = "runs" -> {} [] at = "experiments" -> {"runs"}
                [] OTHER -> {"runs", "experiments"}
Needs == {"job", "number", "start", "log job", "end", "names", "erase", "jobs", "runs of job"}

Filled(n) ==
  /\ FilledByOne(n)
  /\ \A c \in Clients :
       Ws(c) = n => /\ Creating(c) => n \in exists /\ holders[n] = Before(task[c].at)
                    /\ task[c].at \in Needs => n \in exists

\* A number that is taken is below the counter, nobody else has it, and from the
\* start of its run to its end it has a document of a run that has not ended.
Numbered(c) == task[c].at \in {"start", "log job", "end"}
HasNumber(c, n) ==
  LET num == task[c].num
  IN /\ num < counters[n].run
     /\ task[c].at = "start" => num \notin DOMAIN docs[n]
     /\ task[c].at # "start" => num \in DOMAIN docs[n] /\ docs[n][num].end = 0
     /\ task[c].at = "log job" => docs[n][num].job \in task[c].left
     /\ task[c].at = "end" => docs[n][num].job \in JobsOf(n)
NumbersInOrder(n) ==
  /\ \A c \in Clients : Numbered(c) /\ Ws(c) = n => HasNumber(c, n)
  /\ \A c, d \in Clients :
       Numbered(c) /\ Numbered(d) /\ Ws(c) = n /\ Ws(d) = n /\ task[c].num = task[d].num => c = d

UniqueEnds(f) == \A k, m \in DOMAIN f : f[k].end = f[m].end /\ f[k].end > 0 => k = m
BeingImported(n) == \E c \in Clients : Ws(c) = n /\ task[c].at \in {"jobs", "runs of job"}
Dropping(n) == \E c \in Clients : task[c].at = "drop" /\ Ws(c) = n
LoggedSoon(id, n) == \E c \in Clients : task[c].at = "log job" /\ Ws(c) = n /\ id \in task[c].left

RunsInOrder(n) ==
  /\ \A k \in DOMAIN docs[n] :
       /\ BeingImported(n) \/ (k < counters[n].run /\ docs[n][k].end < counters[n].end)
       /\ \/ docs[n][k].job \in JobsOf(n)
          \/ docs[n][k].end = 0 /\ LoggedSoon(docs[n][k].job, n)
  /\ UniqueEnds(docs[n])
  /\ n \notin exists => DOMAIN docs[n] = {} \/ Dropping(n)

\* The documents f that an export has read are those of the workspace, unless
\* their run has ended since.
Copied(t, f, n) ==
  \A k \in DOMAIN f :
    /\ k \in DOMAIN docs[n] /\ f[k].job = docs[n][k].job
    /\ f[k].end > 0 => f[k].end = docs[n][k].end
    /\ k \in DOMAIN t.draft.ended => f[k] = t.draft.ended[k]
    /\ f[k].job \in t.draft.jobs
Exported(t, n) ==
  /\ Copied(t, t.runs, n) /\ Copied(t, t.draft.runs, n)
  /\ \A k \in DOMAIN t.draft.ended :
       /\ k \in DOMAIN docs[n] /\ docs[n][k] = t.draft.ended[k] /\ t.draft.ended[k].end > 0
       /\ t.draft.ended[k].job \in t.left \/ k \in DOMAIN t.runs \cup DOMAIN t.draft.runs
ExportsInOrder(n) ==
  \A c \in Clients : Ws(c) = n /\ task[c].at \in {"export jobs", "export runs"} => Exported(task[c], n)

\* An archive that is not of a torn workspace has every run that had ended when
\* its export began, and no run of a job it does not have.
Sound(a) ==
  /\ \A k \in DOMAIN a.ended : k \in DOMAIN a.runs /\ a.runs[k] = a.ended[k]
  /\ \A k \in DOMAIN a.runs : a.runs[k].job \in a.jobs
  /\ UniqueEnds(a.runs)
ArchiveInOrder == ~archive.torn => Sound(archive)

\* An import of such an archive finds no run, and adds those of the archive.
ImportedSoFar(t, n) ==
  /\ Sound(t.draft)
  /\ t.at \in Making => DOMAIN docs[n] = {} /\ t.left = t.draft.jobs
  /\ t.at \in {"jobs", "runs of job"} =>
       /\ \A k \in DOMAIN docs[n] :
            k \in DOMAIN t.draft.runs /\ docs[n][k] = Renamed(t.draft.runs[k])
       /\ \A k \in DOMAIN t.runs : /\ k \in DOMAIN t.draft.runs /\ t.runs[k] = t.draft.runs[k]
                                   /\ NewId(t.runs[k].job) \in JobsOf(n)
       /\ \A k \in DOMAIN t.draft.runs :
            t.draft.runs[k].job \in t.left \/ k \in DOMAIN t.runs \cup DOMAIN docs[n]
ImportsInOrder(n) ==
  \A c \in Clients :
    Ws(c) = n /\ task[c].cmd \in Imports /\ task[c].at # "import" => ImportedSoFar(task[c], n)

InOrder(n) ==
  /\ Filled(n) /\ NumbersInOrder(n) /\ RunsInOrder(n)
  /\ ExportsInOrder(n) /\ ImportsInOrder(n)

IInv ==
  /\ Phases /\ GoneIsEmpty /\ AloneOrMixed /\ ExclusiveIsAlone /\ DeletionsInOrder
  /\ ArchiveInOrder
  /\ \A n \in Names \ torn : InOrder(n)

-----------------------------------------------------------------------------
(* A command that plays no part in a workspace leaves it in order *)

LEMMA FilledKept ==
  ASSUME NEW n, NEW c \in Clients, Filled(n), Others(c), n \in exists' <=> n \in exists,
         holders'[n] = holders[n], ~(Creating(c) /\ Ws(c) = n),
         Ws(c)' = n => /\ task'[c].at \notin {"runs", "experiments", "next"}
                       /\ task'[c].at \in Needs => n \in exists
  PROVE  Filled(n)'
<1>1. \A d \in Clients : Creating(d)' /\ Ws(d)' = n => d # c /\ task'[d] = task[d] /\ Creating(d) /\ Ws(d) = n
  BY DEF Others, Creating, Ws
<1>2. \A d \in Clients : Creating(d) /\ Ws(d) = n => Creating(d)' /\ Ws(d)' = n
  BY DEF Others, Creating, Ws
<1>3. FilledByOne(n)'
  BY <1>1, <1>2 DEF Filled, FilledByOne
<1>4. ASSUME NEW d \in Clients, Ws(d)' = n
      PROVE  /\ Creating(d)' => n \in exists' /\ holders'[n] = Before(task'[d].at)
             /\ task'[d].at \in Needs => n \in exists'
  <2>1. CASE d = c
    BY <1>1, <1>4, <2>1
  <2>2. CASE d # c
    <3>1. task'[d] = task[d] /\ Ws(d) = n /\ (Creating(d)' => Creating(d))
      BY <1>1, <1>4, <2>2 DEF Others, Ws
    <3> QED BY <3>1 DEF Filled
  <2> QED BY <2>1, <2>2
<1> QED BY <1>3, <1>4 DEF Filled

LEMMA NumbersKept ==
  ASSUME NEW n \in Names, NEW c \in Clients, NumbersInOrder(n), Others(c), Typed,
         \A k \in Nat : k < counters[n].run => k < counters'[n].run, docs'[n] = docs[n], JobsOf(n) \subseteq JobsOf(n)',
         Ws(c)' = n => task'[c].at \notin {"start", "log job", "end"}
  PROVE  NumbersInOrder(n)'
<1>1. \A d \in Clients : Numbered(d)' /\ Ws(d)' = n => d # c /\ task'[d] = task[d] /\ Numbered(d) /\ Ws(d) = n
  BY DEF Others, Numbered, Ws
<1>2. ASSUME NEW d \in Clients, Numbered(d)', Ws(d)' = n PROVE HasNumber(d, n)'
  <2>1. task'[d] = task[d] /\ HasNumber(d, n)
    BY <1>1, <1>2 DEF NumbersInOrder
  <2>2. task[d].num \in Nat
    BY WsIsName DEF Tasks
  <2>3. task[d].num < counters[n].run
    BY <2>1 DEF HasNumber
  <2>4. task'[d].num < counters'[n].run
    BY <2>1, <2>2, <2>3
  <2> QED BY <2>1, <2>4 DEF HasNumber
<1>3. \A d, e \in Clients :
        Numbered(d)' /\ Numbered(e)' /\ Ws(d)' = n /\ Ws(e)' = n /\ task'[d].num = task'[e].num => d = e
  BY <1>1 DEF NumbersInOrder
<1> QED BY <1>2, <1>3 DEF NumbersInOrder

LEMMA RunsKept ==
  ASSUME NEW n, NEW c \in Clients, RunsInOrder(n), Others(c),
         docs'[n] = docs[n], counters'[n] = counters[n], JobsOf(n) \subseteq JobsOf(n)',
         n \in exists => n \in exists',
         Ws(c) = n => /\ task[c].at \notin {"log job", "drop"}
                      /\ \/ task[c].at \notin {"jobs", "runs of job"}
                         \/ Ws(c)' = n /\ task'[c].at \in {"jobs", "runs of job"}
  PROVE  RunsInOrder(n)'
<1>1. BeingImported(n) => BeingImported(n)'
  BY DEF BeingImported, Others, Ws
<1>2. Dropping(n) => Dropping(n)'
  BY DEF Dropping, Others, Ws
<1>3. \A id : LoggedSoon(id, n) => LoggedSoon(id, n)'
  BY DEF LoggedSoon, Others, Ws
<1> QED BY <1>1, <1>2, <1>3 DEF RunsInOrder

LEMMA ExportsKept ==
  ASSUME NEW n, NEW c \in Clients, ExportsInOrder(n), Others(c), docs'[n] = docs[n],
         Ws(c)' = n => task'[c].at \notin {"export jobs", "export runs"}
  PROVE  ExportsInOrder(n)'
<1>1. ASSUME NEW d \in Clients, Ws(d)' = n, task'[d].at \in {"export jobs", "export runs"}
      PROVE  Exported(task[d], n) /\ task'[d] = task[d]
  BY <1>1 DEF ExportsInOrder, Others, Ws
<1>2. ASSUME NEW t, Exported(t, n) PROVE Exported(t, n)'
  BY <1>2, ZenonT(60) DEF Exported, Copied
<1>3. ASSUME NEW d \in Clients, Ws(d)' = n, task'[d].at \in {"export jobs", "export runs"}
      PROVE  Exported(task[d], n)'
  <2>1. PICK t : t = task[d]
    OBVIOUS
  <2>2. task'[d] = t /\ Exported(t, n)'
    BY <1>1, <1>2, <1>3, <2>1
  <2> QED BY <2>2
<1> QED BY <1>3 DEF ExportsInOrder

LEMMA ImportsKept ==
  ASSUME NEW n, NEW c \in Clients, ImportsInOrder(n), Others(c), docs'[n] = docs[n],
         JobsOf(n) \subseteq JobsOf(n)',
         Ws(c)' = n => task'[c].cmd \notin Imports \/ task'[c].at = "import"
  PROVE  ImportsInOrder(n)'
<1>1. ASSUME NEW t, ImportedSoFar(t, n) PROVE ImportedSoFar(t, n)'
  BY <1>1 DEF ImportedSoFar
<1>2. ASSUME NEW d \in Clients, Ws(d)' = n, task'[d].cmd \in Imports, task'[d].at # "import"
      PROVE  ImportedSoFar(task[d], n)'
  <2>1. PICK t : t = task[d]
    OBVIOUS
  <2>2. task'[d] = t /\ ImportedSoFar(t, n)
    BY <1>2, <2>1 DEF ImportsInOrder, Others, Ws
  <2> QED BY <1>1, <2>2
<1> QED BY <1>2 DEF ImportsInOrder

\* A command of another workspace
LEMMA ForeignStep ==
  ASSUME Typed, Phases, Typed', NEW n \in Names, InOrder(n), NEW c \in Clients, GoesOn(c),
         Ws(c) # n, Elsewhere(Ws(c)), n \notin torn'
  PROVE  n \notin torn /\ InOrder(n)'
<1>1. /\ n \in exists' <=> n \in exists
      /\ holders'[n] = holders[n] /\ docs'[n] = docs[n] /\ counters'[n] = counters[n]
      /\ JobsOf(n)' = JobsOf(n) /\ n \notin torn
  BY DEF Elsewhere
<1>2. Ws(c)' = n => task'[c].at = "idle" /\ task'[c].cmd = "none"
  BY IdleIsATask DEF GoesOn, Ws
<1>3. Others(c)
  BY DEF GoesOn
<1>4. Filled(n)'
  BY <1>1, <1>2, <1>3, FilledKept DEF InOrder, Needs
<1>5. NumbersInOrder(n)'
  BY <1>1, <1>2, <1>3, NumbersKept DEF InOrder
<1>6. RunsInOrder(n)'
  BY <1>1, <1>2, <1>3, RunsKept DEF InOrder
<1>7. ExportsInOrder(n)'
  BY <1>1, <1>2, <1>3, ExportsKept DEF InOrder
<1>8. ImportsInOrder(n)'
  BY <1>1, <1>2, <1>3, ImportsKept DEF InOrder, Imports
<1> QED BY <1>1, <1>4, <1>5, <1>6, <1>7, <1>8 DEF InOrder

\* A command begins
LEMMA BeginKeeps ==
  ASSUME Typed, IInv, NEW c \in Clients, NEW cmd \in Commands, NEW m \in Names, Begin(c, cmd, m)
  PROVE  Typed' /\ IInv'
<1>1. /\ Others(c) /\ At(c, "idle")
      /\ task'[c].at = Start(cmd) /\ task'[c].cmd = cmd /\ task'[c].ws = m
      /\ task'[c].runs = NoRuns /\ task'[c].draft = NoArchive
  BY BeginEffect
<1>2. UNCHANGED <<provider, store, database, archive, interrupts>>
  BY DEF Begin
<1>3. Typed'
  <2>1. StoreTyped' /\ archive' \in Archives
    BY <1>2 DEF Typed, StoreTyped, store, database
  <2> QED BY <1>1, <2>1, TypedNext
<1>4. Start(cmd) \in PlacesOf(cmd) /\ Start(cmd) \in {"create", "ensure", "delete", "export", "import"}
      /\ (Start(cmd) = "create" => cmd = "create")
  BY DEF Start, PlacesOf, Making, Running, Deleting, Exporting, Importing, Commands
<1>5. Phases'
  <2>1. InPhase(task'[c])
    BY <1>1, <1>4, IdleIsATask, NoRunsIsTable DEF InPhase, Imports, Making
  <2> QED BY <1>1, <2>1 DEF IInv, Phases, Others
<1>6. GoneIsEmpty'
  BY <1>2 DEF IInv, GoneIsEmpty, store
<1>7. PICK met : met = {d \in Clients \ {c} : Busy(d) /\ Ws(d) = m}
  OBVIOUS
<1>8. /\ mixed' = IF met = {} THEN mixed \ {c} ELSE mixed \cup met \cup {c}
      /\ torn \subseteq torn'
      /\ \A d \in met : {cmd, task[d].cmd} \cap {"delete", "import", "overwrite"} # {} => m \in torn'
  BY <1>7 DEF Begin, Busy
<1>9. /\ \A d \in Clients : d # c => task'[d] = task[d] /\ (Busy(d)' <=> Busy(d)) /\ Ws(d)' = Ws(d)
      /\ Ws(c)' = m
  BY <1>1 DEF Others, Busy, At, Ws
<1>10. AloneOrMixed'
  <2>1. ASSUME NEW d \in Clients, NEW e \in Clients, d # e, Busy(d)', Busy(e)', Ws(d)' = Ws(e)'
        PROVE  d \in mixed'
    <3>1. CASE d = c
      BY <1>7, <1>8, <1>9, <2>1, <3>1
    <3>2. CASE e = c
      BY <1>7, <1>8, <1>9, <2>1, <3>2
    <3>3. CASE d # c /\ e # c
      BY <1>8, <1>9, <2>1, <3>3 DEF IInv, AloneOrMixed
    <3> QED BY <3>1, <3>2, <3>3
  <2> QED BY <2>1 DEF AloneOrMixed
<1>11. ExclusiveIsAlone'
  <2>1. ASSUME NEW d \in Clients, task'[d].cmd \in {"delete"} \cup Imports, Ws(d)' \notin torn', d \in mixed'
        PROVE  FALSE
    <3>1. CASE d = c
      BY <1>1, <1>7, <1>8, <1>9, <2>1, <3>1 DEF Imports
    <3>2. CASE d # c
      <4>1. d \notin mixed
        BY <1>8, <1>9, <2>1, <3>2 DEF IInv, ExclusiveIsAlone
      <4>2. d \in met
        BY <1>8, <2>1, <3>2, <4>1
      <4> QED BY <1>7, <1>8, <1>9, <2>1, <3>2, <4>2 DEF Imports
    <3> QED BY <3>1, <3>2
  <2> QED BY <2>1 DEF ExclusiveIsAlone
<1>12. \A n \in Names : JobsOf(n)' = JobsOf(n)
  BY <1>2, JobsKept DEF database
<1>13. DeletionsInOrder'
  <2>1. ASSUME NEW d \in Clients, d \notin mixed', NEW n \in Names, Ws(d)' = n,
               task'[d].at \in {"erase", "drop", "counters", "delete jobs"}
        PROVE  d \notin mixed /\ task'[d] = task[d] /\ Ws(d) = n
    BY <1>1, <1>4, <1>8, <1>9, <2>1
  <2> QED BY <1>2, <1>12, <2>1, ZenonT(60) DEF IInv, DeletionsInOrder, store, database
<1>14. ArchiveInOrder'
  BY <1>2 DEF IInv, ArchiveInOrder
<1>15. ASSUME NEW n \in Names \ torn' PROVE InOrder(n)'
  <2>2. /\ holders'[n] = holders[n] /\ docs'[n] = docs[n] /\ counters'[n] = counters[n]
        /\ JobsOf(n)' = JobsOf(n) /\ InOrder(n) /\ (n \in exists' <=> n \in exists)
    BY <1>2, <1>8, <1>12, <1>15 DEF IInv, store, database
  <2>3. /\ task[c].at = "idle" /\ task'[c].at \in {"create", "ensure", "delete", "export", "import"}
        /\ task'[c].cmd \in Imports => task'[c].at = "import"
    BY <1>1, <1>4 DEF At, Imports, Start
  <2>4. Filled(n)'
    BY <1>1, <2>2, <2>3, FilledKept DEF InOrder, Needs, Creating
  <2>5. NumbersInOrder(n)'
    BY <1>1, <1>3, <2>2, <2>3, NumbersKept DEF InOrder
  <2>6. RunsInOrder(n)'
    BY <1>1, <2>2, <2>3, RunsKept DEF InOrder
  <2>7. ExportsInOrder(n)'
    BY <1>1, <2>2, <2>3, ExportsKept DEF InOrder
  <2>8. ImportsInOrder(n)'
    BY <1>1, <2>2, <2>3, ImportsKept DEF InOrder
  <2> QED BY <2>4, <2>5, <2>6, <2>7, <2>8 DEF InOrder
<1> QED BY <1>3, <1>5, <1>6, <1>10, <1>11, <1>13, <1>14, <1>15 DEF IInv

-----------------------------------------------------------------------------
(* A deletion leaves its workspace in order *)

\* Two commands that work on a workspace that is not torn delete and import nothing.
LEMMA Company ==
  ASSUME AloneOrMixed, ExclusiveIsAlone, NEW c \in Clients, NEW d \in Clients, c # d,
         Busy(c), Busy(d), Ws(c) = Ws(d), Ws(c) \notin torn
  PROVE  {task[c].cmd, task[d].cmd} \cap ({"delete"} \cup Imports) = {}
BY DEF AloneOrMixed, ExclusiveIsAlone

LEMMA NobodyElse ==
  ASSUME NEW n \in Names, NEW c \in Clients, Others(c), Phases,
         \A d \in Clients : d # c /\ Ws(d) = n => ~Busy(d),
         Ws(c)' = n => task'[c].at \in {"idle", "drop", "counters", "delete jobs"} /\ task'[c].cmd \notin Imports,
         n \notin exists', RunsInOrder(n)'
  PROVE  InOrder(n)'
<1>1. \A d \in Clients : Ws(d)' = n =>
        task'[d].at \in {"idle", "drop", "counters", "delete jobs"} /\ task'[d].cmd \notin Imports
  <2>1. ASSUME NEW d \in Clients, d # c, Ws(d)' = n
        PROVE  task'[d].at = "idle" /\ task'[d].cmd = "none"
    <3>1. task'[d] = task[d] /\ task[d].at = "idle" /\ InPhase(task[d])
      BY <2>1 DEF Others, Ws, Busy, At, Phases
    <3> QED BY <3>1, IdleHasNoCommand
  <2> QED BY <2>1 DEF Imports
<1>2. Filled(n)'
  BY <1>1 DEF Filled, FilledByOne, Creating, Needs
<1>3. NumbersInOrder(n)'
  BY <1>1 DEF NumbersInOrder, Numbered
<1>4. ExportsInOrder(n)'
  BY <1>1 DEF ExportsInOrder
<1>5. ImportsInOrder(n)'
  BY <1>1 DEF ImportsInOrder
<1> QED BY <1>2, <1>3, <1>4, <1>5 DEF InOrder

LEMMA NoRunsInOrder ==
  ASSUME NEW n, DOMAIN docs'[n] = {} PROVE RunsInOrder(n)'
BY DEF RunsInOrder, UniqueEnds

LEMMA DeletionKeeps ==
  ASSUME Typed, IInv, NEW c \in Clients, NEW n \in Names, Ws(c) = n, n \notin torn',
         DeleteContainer(c) \/ DropRuns(c) \/ DropCounters(c) \/ DeleteJob(c) \/ DeleteDone(c)
  PROVE  InOrder(n)'
<1> USE DEF At
<1>1. StepOf(c) /\ Phases /\ AloneOrMixed /\ ExclusiveIsAlone
  BY DEF StepOf, IInv
<1>2. Others(c) /\ Busy(c) /\ mixed' = mixed
  BY <1>1, StepsKeepTypes, StepsAreOfBusy, MixedKept DEF GoesOn
<1>3. task[c].at \in {"erase", "drop", "counters", "delete jobs"} /\ task[c].cmd = "delete"
  <2>1. task[c].at \in {"erase", "drop", "counters", "delete jobs"}
    BY DEF DeleteContainer, DropRuns, DropCounters, DeleteJob, DeleteDone, Deleted
  <2> QED BY <1>1, <2>1, PlacesAreDisjoint DEF Deleting
<1>4. c \notin mixed
  <2>1. CASE n \in torn
    BY <1>1, <2>1, MixedKept
  <2>2. CASE n \notin torn
    BY <1>1, <1>3, <2>2 DEF ExclusiveIsAlone
  <2> QED BY <2>1, <2>2
<1>5. \A d \in Clients : d # c /\ Ws(d) = n => ~Busy(d)
  BY <1>1, <1>2, <1>4 DEF AloneOrMixed
<1>6. /\ task[c].at \in {"drop", "counters", "delete jobs"} => n \notin exists
      /\ task[c].at \in {"counters", "delete jobs"} => DOMAIN docs[n] = {}
  BY <1>4 DEF IInv, DeletionsInOrder
<1>7. Idle.at = "idle" /\ Idle.cmd \notin Imports /\ "delete" \notin Imports
  BY IdleIsATask DEF Imports
<1>8. CASE DeleteContainer(c)
  <2>1. /\ task[c].at = "erase" /\ UNCHANGED database /\ exists' = exists \ {n}
        /\ (Over(c) /\ torn' = torn /\ n \notin exists) \/ (Went(c, "drop") /\ torn' = torn)
    BY <1>1, <1>8, DeleteContainerStep
  <2>2. InOrder(n)
    BY <2>1 DEF IInv
  <2>3. Went(c, "drop")
    BY <1>3, <2>1, <2>2 DEF InOrder, Filled, Needs
  <2>4. docs' = docs /\ counters' = counters /\ JobsOf(n)' = JobsOf(n)
    BY <2>1, JobsKept DEF database
  <2>5. ~BeingImported(n) /\ \A id : ~LoggedSoon(id, n)
    BY <1>5, <2>1 DEF BeingImported, LoggedSoon, Busy
  <2>6. Dropping(n)'
    BY <2>3 DEF Dropping, Went, Ws
  <2>7. RunsInOrder(n)'
    BY <2>2, <2>4, <2>5, <2>6 DEF InOrder, RunsInOrder
  <2>8. Ws(c)' = n => task'[c].at = "drop" /\ task'[c].cmd \notin Imports
    BY <1>3, <1>7, <2>3 DEF Went
  <2> QED BY <1>1, <1>2, <1>5, <2>1, <2>7, <2>8, NobodyElse
<1>9. CASE DropRuns(c)
  <2>1. /\ task[c].at = "drop" /\ Went(c, "counters") /\ UNCHANGED store /\ DOMAIN docs'[n] = {}
    BY <1>1, <1>9, DropRunsStep
  <2>2. task'[c].at = "counters" /\ task'[c].cmd \notin Imports /\ n \notin exists'
    BY <1>3, <1>6, <1>7, <2>1 DEF Went, store
  <2> QED BY <1>1, <1>2, <1>5, <2>1, <2>2, NoRunsInOrder, NobodyElse
<1>10. CASE DropCounters(c)
  <2>1. /\ task[c].at = "counters" /\ Went(c, "delete jobs") /\ UNCHANGED <<store, docs>>
    BY <1>1, <1>10, DropCountersStep
  <2>2. /\ task'[c].at = "delete jobs" /\ task'[c].cmd \notin Imports /\ n \notin exists'
        /\ DOMAIN docs'[n] = {}
    BY <1>3, <1>6, <1>7, <2>1 DEF Went, store
  <2> QED BY <1>1, <1>2, <1>5, <2>2, NoRunsInOrder, NobodyElse
<1>11. CASE DeleteJob(c)
  <2>1. /\ task[c].at = "delete jobs" /\ task'[c].at = "delete jobs" /\ UNCHANGED <<store, docs>>
        /\ GoesOn(c)
    BY <1>1, <1>11, DeleteJobStep
  <2>2. task'[c].cmd = "delete"
    BY <1>3, <1>7, <2>1 DEF GoesOn
  <2>3. task'[c].cmd \notin Imports /\ n \notin exists' /\ DOMAIN docs'[n] = {}
    BY <1>6, <1>7, <2>1, <2>2 DEF store
  <2> QED BY <1>1, <1>2, <1>5, <2>1, <2>3, NoRunsInOrder, NobodyElse
<1>12. CASE DeleteDone(c)
  <2>1. /\ task[c].at = "delete jobs" /\ Over(c) /\ UNCHANGED <<store, database>>
    BY <1>1, <1>12, ReadingEffects
  <2>2. /\ task'[c].at = "idle" /\ task'[c].cmd \notin Imports /\ n \notin exists'
        /\ DOMAIN docs'[n] = {}
    BY <1>6, <1>7, <2>1 DEF Over, store, database
  <2> QED BY <1>1, <1>2, <1>5, <2>2, NoRunsInOrder, NobodyElse
<1> QED BY <1>8, <1>9, <1>10, <1>11, <1>12

-----------------------------------------------------------------------------
(* The steps of the other commands leave the container of their workspace in order *)

Deletes(c) == DeleteContainer(c) \/ DropRuns(c) \/ DropCounters(c) \/ DeleteJob(c) \/ DeleteDone(c)

\* A step at a workspace that was not torn, and is not now
OwnStep(c, n) == StepOf(c) /\ ~Deletes(c) /\ Ws(c) = n /\ n \notin torn /\ n \notin torn'

LEMMA FilledHere ==
  ASSUME Typed, IInv, NEW c \in Clients, NEW n \in Names, OwnStep(c, n)
  PROVE  Filled(n)'
<1> USE DEF At
<1>1. /\ Phases /\ Others(c) /\ Ws(c) = n /\ n \notin torn' /\ Filled(n) /\ StepOf(c) /\ ~Deletes(c)
      /\ task[c].at \in Needs => n \in exists
  BY StepsKeepTypes DEF OwnStep, IInv, InOrder, Filled, GoesOn
<1>2. Idle.at = "idle"
  BY IdleIsATask
<1>3. ASSUME n \in exists' <=> n \in exists, holders'[n] = holders[n], ~Creating(c),
             task'[c].at \notin {"runs", "experiments", "next"},
             task'[c].at \in Needs => n \in exists
      PROVE  Filled(n)'
  BY <1>1, <1>3, FilledKept
<1>4. CASE CreateContainer(c)
  <2>1. /\ task[c].at = "container" /\ holders' = holders
        /\ \/ Over(c) /\ UNCHANGED exists
           \/ Went(c, "runs") /\ exists' = exists \cup {n} /\ n \notin exists
    BY <1>1, <1>4, CreateContainerEffect
  <2>2. CASE Over(c) /\ UNCHANGED exists
    BY <1>2, <1>3, <2>1, <2>2 DEF Over, Creating, Needs
  <2>3. CASE Went(c, "runs") /\ exists' = exists \cup {n} /\ n \notin exists
    <3>1. \A d \in Clients : Ws(d) = n => ~Creating(d) /\ task[d].at \notin Needs
      BY <1>1, <2>3 DEF Filled
    <3>2. holders'[n] = {}
      BY <2>1, <2>3 DEF IInv, GoneIsEmpty
    <3>3. task'[c].at = "runs" /\ task'[c].ws = task[c].ws
      BY <2>3 DEF Went
    <3>4. ASSUME NEW d \in Clients, Ws(d)' = n
          PROVE  /\ Creating(d)' => d = c
                 /\ task'[d].at \in Needs => n \in exists'
                 /\ d = c => Creating(d)' /\ Before(task'[d].at) = {}
      <4>1. CASE d = c
        BY <2>3, <3>3, <4>1 DEF Creating, Before
      <4>2. CASE d # c
        <5>1. task'[d] = task[d] /\ Ws(d) = n
          BY <1>1, <3>4, <4>2 DEF Others, Ws
        <5> QED BY <3>1, <4>2, <5>1 DEF Creating
      <4> QED BY <4>1, <4>2
    <3>5. Ws(c)' = n
      BY <1>1, <3>3 DEF Ws
    <3> QED BY <2>3, <3>2, <3>4, <3>5 DEF Filled, FilledByOne
  <2> QED BY <2>1, <2>2, <2>3
<1>5. CASE CreateHolder(c)
  <2>1. /\ Creating(c) /\ exists' = exists \cup {n} /\ holders' = [holders EXCEPT ![n] = @ \cup {task[c].at}]
        /\ \/ NextHolder(c) = "idle" /\ Over(c)
           \/ NextHolder(c) # "idle" /\ Went(c, NextHolder(c))
    BY <1>1, <1>5, CreateHolderStep
  <2>2. n \in exists /\ holders[n] = Before(task[c].at) /\ \A d \in Clients : Creating(d) /\ Ws(d) = n => d = c
    BY <1>1, <2>1 DEF Filled, FilledByOne
  <2>3. holders'[n] = Before(task[c].at) \cup {task[c].at} /\ n \in exists'
    BY <2>1, <2>2 DEF Typed
  <2>4. \/ /\ task[c].at = "runs" /\ task'[c].at = "experiments" /\ Ws(c)' = n
        \/ /\ task[c].at = "experiments" /\ task'[c].at = "next" /\ Ws(c)' = n
        \/ /\ task[c].at = "next" /\ task'[c].at \in {"idle", "job", "jobs"}
    <3>1. AfterHolder(task[c].cmd) \in {"idle", "job", "jobs"}
      BY DEF AfterHolder
    <3>2. CASE task[c].at = "next"
      BY <1>2, <2>1, <3>1, <3>2 DEF NextHolder, Over, Went
    <3>3. CASE task[c].at \in {"runs", "experiments"}
      BY <1>1, <2>1, <3>3 DEF NextHolder, Over, Went, Ws
    <3> QED BY <2>1, <3>2, <3>3 DEF Creating
  <2>5. /\ Creating(c)' => holders'[n] = Before(task'[c].at) /\ Ws(c)' = n
        /\ "next" \notin holders'[n] => Creating(c)'
    BY <2>3, <2>4 DEF Before, Creating
  <2>6. \A d \in Clients : Ws(d)' = n /\ Creating(d)' => d = c
    BY <1>1, <2>2 DEF Others, Ws, Creating
  <2> QED BY <2>3, <2>5, <2>6 DEF Filled, FilledByOne
<1>6. CASE CreateCheck(c) \/ EnsureWorkspace(c) \/ DeleteCheck(c) \/ ExportFails(c)
           \/ ExportRunsDone(c) \/ ImportRunsDone(c)
  <2>1. /\ UNCHANGED store /\ ~Creating(c)
        /\ \/ Over(c)
           \/ \E at \in {"container", "create", "export jobs"} : Went(c, at)
           \/ \E at \in {"job", "names"} : Went(c, at) /\ n \in exists
           \/ Went(c, "jobs") /\ task[c].at = "runs of job"
    BY <1>1, <1>6, ReadingEffects DEF Creating
  <2> QED BY <1>1, <1>2, <1>3, <2>1 DEF Over, Went, Needs, store
<1>7. CASE NewJob(c)
  BY <1>1, <1>3, <1>7, NewJobStep DEF Needs, store, Creating, NewJob
<1>8. CASE TakeNumber(c)
  <2>1. /\ task[c].at = "number" /\ UNCHANGED store
        /\ task'[c].at \in {"idle", "number", "start"}
    BY <1>2, <1>8, TakeNumberStep, <1>1 DEF Over, Went
  <2> QED BY <1>1, <1>3, <2>1 DEF Needs, store, Creating
<1>9. CASE StartRun(c)
  <2>1. /\ task[c].at = "start" /\ holders' = holders /\ exists' = exists \cup {n}
        /\ task'[c].at = "log job"
    BY <1>1, <1>9, StartRunStep DEF Went
  <2> QED BY <1>1, <1>3, <2>1 DEF Needs, Creating
<1>10. CASE LogJob(c)
  BY <1>1, <1>3, <1>10, LogJobStep DEF Needs, store, Creating
<1>11. CASE EndRun(c)
  <2>1. /\ task[c].at = "end" /\ holders' = holders /\ exists' = exists \cup {n}
        /\ task'[c].at = "idle"
    BY <1>1, <1>2, <1>11, EndRunStep DEF Over
  <2> QED BY <1>1, <1>3, <2>1 DEF Needs, Creating
<1>12. CASE JobNames(c)
  BY <1>1, <1>3, <1>12, JobNamesStep DEF Needs, store, Creating
<1>13. CASE ExportCheck(c)
  <2>1. task[c].at = "export" /\ UNCHANGED store /\ task'[c].at \in {"idle", "export jobs"}
    BY <1>1, <1>2, <1>13, ExportCheckStep DEF Over
  <2> QED BY <1>1, <1>3, <2>1 DEF Needs, store, Creating
<1>14. CASE ExportJob(c)
  BY <1>1, <1>3, <1>14, ExportJobStep DEF Needs, store, Creating
<1>15. CASE ExportRun(c)
  BY <1>1, <1>3, <1>15, ExportRunStep DEF Needs, Creating
<1>16. CASE ExportDone(c)
  BY <1>1, <1>2, <1>3, <1>16, ExportDoneStep DEF Needs, store, Creating, Over
<1>17. CASE ImportCheck(c)
  <2>1. task[c].at = "import" /\ UNCHANGED store /\ task'[c].at \in {"idle", "create"}
    BY <1>1, <1>2, <1>17, ImportCheckStep DEF Over
  <2> QED BY <1>1, <1>3, <2>1 DEF Needs, store, Creating
<1>18. CASE ImportJob(c)
  BY <1>1, <1>3, <1>18, ImportJobStep DEF Needs, store, Creating
<1>19. CASE ImportRun(c)
  <2>1. /\ task[c].at = "runs of job" /\ UNCHANGED store /\ task'[c].at \in {"idle", "runs of job"}
    BY <1>1, <1>2, <1>19, ImportRunStep DEF Over
  <2> QED BY <1>1, <1>3, <2>1 DEF Needs, store, Creating
<1>20. CASE ImportCounters(c)
  BY <1>1, <1>2, <1>3, <1>20, ImportCountersStep DEF Needs, store, Creating, Over
<1>21. ~Interrupt(c)
  BY <1>1, ReadingEffects
<1> QED BY <1>1, <1>4, <1>5, <1>6, <1>7, <1>8, <1>9, <1>10, <1>11, <1>12, <1>13, <1>14, <1>15,
           <1>16, <1>17, <1>18, <1>19, <1>20, <1>21 DEF StepOf, Deletes

-----------------------------------------------------------------------------
(* The numbers of runs *)

LEMMA ImportersImport ==
  ASSUME Typed, Phases, NEW c \in Clients, task[c].at \in Importing
  PROVE  task[c].cmd \in Imports
<1>1. task[c].cmd \in {"none"} \cup Commands
  BY WsIsName DEF Tasks
<1>2. task[c].at \in PlacesOf(task[c].cmd)
  BY DEF Phases, InPhase
<1>3. task[c].cmd \notin {"none", "create"}
  BY <1>2 DEF PlacesOf, Making, Importing
<1>4. task[c].cmd # "run"
  BY <1>2 DEF PlacesOf, Making, Running, Importing
<1>5. task[c].cmd \notin {"delete", "export"}
  BY PlacesAreDisjoint DEF Importing, Deleting, Exporting
<1> QED BY <1>1, <1>3, <1>4, <1>5 DEF Commands, Imports

\* While a run is at work in a workspace that is not torn, it is not imported.
LEMMA NoImportBeside ==
  ASSUME Typed, Phases, AloneOrMixed, ExclusiveIsAlone, NEW c \in Clients, NEW n \in Names,
         Ws(c) = n, n \notin torn, task[c].at \in Running \cup Exporting
  PROVE  /\ ~BeingImported(n) /\ ~Dropping(n)
         /\ \A d \in Clients : Ws(d) = n => task[d].cmd \notin {"delete"} \cup Imports
<1>1. task[c].cmd \in {"run", "export"} /\ Busy(c)
  BY PlacesAreDisjoint DEF Busy, At, Running, Exporting
<1>2. ASSUME NEW d \in Clients, Ws(d) = n PROVE task[d].cmd \notin {"delete"} \cup Imports
  <2>1. CASE d = c
    BY <1>1, <2>1 DEF Imports
  <2>2. CASE d # c /\ Busy(d)
    BY <1>1, <1>2, <2>2, Company
  <2>3. CASE ~Busy(d)
    <3>1. task[d].cmd = "none"
      BY <2>3, IdleHasNoCommand DEF Phases, Busy, At
    <3> QED BY <3>1 DEF Imports
  <2> QED BY <2>1, <2>2, <2>3
<1>3. \A d \in Clients : Ws(d) = n => task[d].at \notin {"jobs", "runs of job", "drop"}
  BY <1>2, ImportersImport, PlacesAreDisjoint DEF Importing, Deleting
<1> QED BY <1>2, <1>3 DEF BeingImported, Dropping

\* An import is alone.
LEMMA ImportIsAlone ==
  ASSUME Phases, AloneOrMixed, ExclusiveIsAlone, NEW c \in Clients, Busy(c),
         task[c].cmd \in Imports, Ws(c) \notin torn
  PROVE  \A d \in Clients : d # c /\ Ws(d) = Ws(c) => task[d].at = "idle"
BY Company DEF Busy, At

LEMMA NumbersByOthers ==
  ASSUME NEW n \in Names, NEW c \in Clients, Others(c), NumbersInOrder(n),
         \A d \in Clients : d # c /\ Numbered(d) /\ Ws(d) = n => HasNumber(d, n)',
         task'[c].at \in {"start", "log job", "end"} /\ Ws(c)' = n =>
           /\ HasNumber(c, n)'
           /\ \A d \in Clients : d # c /\ Numbered(d) /\ Ws(d) = n => task[d].num # task'[c].num
  PROVE  NumbersInOrder(n)'
<1>1. \A d \in Clients : d # c => /\ task'[d] = task[d] /\ (Numbered(d)' <=> Numbered(d))
                                  /\ (Ws(d)' = n <=> Ws(d) = n)
  BY DEF Others, Numbered, Ws
<1>2. Numbered(c)' <=> task'[c].at \in {"start", "log job", "end"}
  BY DEF Numbered
<1>3. ASSUME NEW d \in Clients, Numbered(d)', Ws(d)' = n PROVE HasNumber(d, n)'
  BY <1>1, <1>2, <1>3
<1>4. ASSUME NEW d \in Clients, NEW e \in Clients, Numbered(d)', Numbered(e)', Ws(d)' = n, Ws(e)' = n,
             task'[d].num = task'[e].num
      PROVE  d = e
  <2>1. CASE d # c /\ e # c
    BY <1>1, <1>4, <2>1 DEF NumbersInOrder
  <2>2. CASE d = c \/ e = c
    BY <1>1, <1>2, <1>4, <2>2
  <2> QED BY <2>1, <2>2
<1> QED BY <1>3, <1>4 DEF NumbersInOrder

LEMMA NumbersHere ==
  ASSUME Typed, IInv, NEW c \in Clients, NEW n \in Names, OwnStep(c, n)
  PROVE  NumbersInOrder(n)'
<1> USE DEF At
<1>1. /\ Phases /\ Others(c) /\ Ws(c) = n /\ n \notin torn /\ n \notin torn' /\ StepOf(c) /\ ~Deletes(c)
      /\ NumbersInOrder(n) /\ RunsInOrder(n) /\ AloneOrMixed /\ ExclusiveIsAlone /\ Busy(c)
  BY StepsKeepTypes, StepsAreOfBusy DEF OwnStep, IInv, InOrder, GoesOn
<1>2. Idle.at = "idle"
  BY IdleIsATask
<1>3. ASSUME \A k \in Nat : k < counters[n].run => k < counters'[n].run,
             docs'[n] = docs[n], JobsOf(n) \subseteq JobsOf(n)',
             task'[c].at \notin {"start", "log job", "end"}
      PROVE  NumbersInOrder(n)'
  BY <1>1, <1>3, NumbersKept
<1>4. \A d \in Clients : d # c /\ Numbered(d) /\ Ws(d) = n => HasNumber(d, n) /\ task[d].num \in Nat
  BY <1>1, WsIsName DEF NumbersInOrder, Tasks
<1>5. Numbered(c) => /\ HasNumber(c, n)
                     /\ \A d \in Clients : d # c /\ Numbered(d) /\ Ws(d) = n => task[d].num # task[c].num
  BY <1>1 DEF NumbersInOrder
<1>6. CASE TakeNumber(c)
  <2>1. /\ task[c].at = "number" /\ UNCHANGED <<docs, jobs>>
        /\ counters'[n].run = Counted(n).run + 1
        /\ \/ task'[c].at = "number"
           \/ task'[c].at = "start" /\ task'[c].num = Counted(n).run
    BY <1>1, <1>6, TakeNumberStep DEF Went
  <2>2. /\ Counted(n).run \in Nat /\ counters[n].run \in Nat /\ counters[n].run <= Counted(n).run
    BY CountedIsPair
  <2>3. \A k \in Nat : k < counters[n].run => k < counters'[n].run /\ k # Counted(n).run
    BY <2>1, <2>2
  <2>4. JobsOf(n)' = JobsOf(n)
    BY <2>1, JobsKept
  <2>5. CASE task'[c].at = "number"
    BY <1>3, <2>1, <2>3, <2>4, <2>5
  <2>6. CASE task'[c].at = "start" /\ task'[c].num = Counted(n).run
    <3>1. ASSUME NEW d \in Clients, d # c, Numbered(d), Ws(d) = n
          PROVE  HasNumber(d, n)' /\ task[d].num # Counted(n).run
      <4>1. task'[d] = task[d] /\ HasNumber(d, n) /\ task[d].num \in Nat
        BY <1>1, <1>4, <3>1 DEF Others
      <4>2. task'[d].num < counters'[n].run /\ task[d].num # Counted(n).run
        BY <2>3, <4>1 DEF HasNumber
      <4> QED BY <2>1, <2>4, <4>1, <4>2 DEF HasNumber
    <3>2. Counted(n).run \notin DOMAIN docs[n]
      <4>1. ~BeingImported(n)
        BY <1>1, <2>1, NoImportBeside DEF Running
      <4>2. \A k \in DOMAIN docs[n] : k \in Nat /\ k < counters[n].run
        BY <1>1, <4>1, TableFacts DEF RunsInOrder, Typed
      <4> QED BY <2>3, <4>2
    <3>3. HasNumber(c, n)'
      BY <2>1, <2>2, <2>6, <3>2 DEF HasNumber
    <3> QED BY <1>1, <2>6, <3>1, <3>3, NumbersByOthers
  <2> QED BY <2>1, <2>5, <2>6
<1>7. CASE StartRun(c)
  <2>1. /\ task[c].at = "start" /\ UNCHANGED <<counters, jobs>>
        /\ Went(c, "log job")
        /\ DOMAIN docs'[n] = DOMAIN docs[n] \cup {task[c].num}
        /\ \A i \in DOMAIN docs[n] : docs'[n][i] = docs[n][i]
        /\ task[c].num \notin DOMAIN docs[n] =>
             /\ docs'[n][task[c].num].end = 0
             /\ docs'[n][task[c].num].job \in task[c].left
    BY <1>1, <1>7, StartRunStep
  <2>2. HasNumber(c, n) /\ \A d \in Clients : d # c /\ Numbered(d) /\ Ws(d) = n => task[d].num # task[c].num
    BY <1>5, <2>1 DEF Numbered
  <2>3. JobsOf(n)' = JobsOf(n)
    BY <2>1, JobsKept
  <2>4. ASSUME NEW d \in Clients, d # c, Numbered(d), Ws(d) = n PROVE HasNumber(d, n)'
    <3>1. task'[d] = task[d] /\ HasNumber(d, n) /\ task[d].num # task[c].num
      BY <1>1, <1>4, <2>2, <2>4 DEF Others
    <3>2. task[d].num \notin DOMAIN docs[n] => task[d].num \notin DOMAIN docs'[n]
      BY <2>1, <3>1
    <3>3. task[d].num \in DOMAIN docs[n] => /\ task[d].num \in DOMAIN docs'[n]
                                           /\ docs'[n][task[d].num] = docs[n][task[d].num]
      BY <2>1
    <3>4. counters' = counters
      BY <2>1
    <3> QED BY <2>3, <3>1, <3>2, <3>3, <3>4 DEF HasNumber
  <2>5. HasNumber(c, n)'
    BY <2>1, <2>2 DEF HasNumber, Went
  <2>6. task'[c].num = task[c].num
    BY <2>1 DEF Went
  <2> QED BY <1>1, <2>2, <2>4, <2>5, <2>6, NumbersByOthers
<1>8. CASE LogJob(c)
  <2>1. /\ task[c].at = "log job" /\ UNCHANGED <<counters, docs>>
        /\ task'[c].at = "end" /\ task'[c].num = task[c].num
        /\ JobsOf(n)' = JobsOf(n) \cup task[c].left
    BY <1>1, <1>8, LogJobStep
  <2>2. HasNumber(c, n) /\ \A d \in Clients : d # c /\ Numbered(d) /\ Ws(d) = n => task[d].num # task[c].num
    BY <1>5, <2>1 DEF Numbered
  <2>3. ASSUME NEW d \in Clients, d # c, Numbered(d), Ws(d) = n PROVE HasNumber(d, n)'
    <3>1. task'[d] = task[d] /\ HasNumber(d, n)
      BY <1>1, <1>4, <2>3 DEF Others
    <3>2. JobsOf(n) \subseteq JobsOf(n)' /\ docs' = docs /\ counters' = counters
      BY <2>1
    <3> HIDE <1>8
    <3> QED BY <3>1, <3>2 DEF HasNumber
  <2>4. HasNumber(c, n)'
    BY <2>1, <2>2 DEF HasNumber
  <2> QED BY <1>1, <2>1, <2>2, <2>3, <2>4, NumbersByOthers
<1>9. CASE EndRun(c)
  <2>1. /\ task[c].at = "end" /\ jobs' = jobs
        /\ task'[c].at = "idle"
        /\ counters'[n].run = Counted(n).run
        /\ DOMAIN docs'[n] = DOMAIN docs[n]
        /\ \A i \in DOMAIN docs[n] : i # task[c].num => docs'[n][i] = docs[n][i]
    BY <1>1, <1>2, <1>9, EndRunStep DEF Over
  <2>2. HasNumber(c, n) /\ \A d \in Clients : d # c /\ Numbered(d) /\ Ws(d) = n => task[d].num # task[c].num
    BY <1>5, <2>1 DEF Numbered
  <2>3. JobsOf(n)' = JobsOf(n)
    BY <2>1, JobsKept
  <2>4. counters'[n].run = counters[n].run
    <3>1. task[c].num < counters[n].run /\ task[c].num \in Nat /\ counters[n].run \in Nat
      BY <2>2, WsIsName, CountedIsPair DEF HasNumber, Tasks
    <3> QED BY <2>1, <3>1, CountedIsPair
  <2>5. ASSUME NEW d \in Clients, d # c, Numbered(d), Ws(d) = n PROVE HasNumber(d, n)'
    <3>1. task'[d] = task[d] /\ HasNumber(d, n) /\ task[d].num # task[c].num
      BY <1>1, <1>4, <2>2, <2>5 DEF Others
    <3> QED BY <2>1, <2>3, <2>4, <3>1 DEF HasNumber
  <2> QED BY <1>1, <2>1, <2>5, NumbersByOthers
<1>10. CASE UNCHANGED <<docs, counters, jobs>> /\ task'[c].at \notin {"start", "log job", "end"}
  BY <1>3, <1>10, JobsKept
<1>11. CASE ImportJob(c) \/ ImportRun(c) \/ ImportCounters(c)
  <2>1. task[c].at \in Importing /\ task'[c].at \notin {"start", "log job", "end"}
    BY <1>1, <1>2, <1>11, ImportJobStep, ImportRunStep, ImportCountersStep DEF Importing, Over
  <2>2. \A d \in Clients : d # c /\ Ws(d) = n => ~Numbered(d)
    BY <1>1, <2>1, ImportersImport, ImportIsAlone DEF Numbered
  <2> QED BY <1>1, <2>1, <2>2, NumbersByOthers
<1>12. CASE ExportJob(c)
  <2>1. UNCHANGED <<docs, counters>> /\ JobsOf(n)' = JobsOf(n) /\ task'[c].at = "export runs"
    BY <1>1, <1>12, ExportJobStep
  <2> QED BY <1>3, <2>1
<1>13. CASE CreateCheck(c) \/ EnsureWorkspace(c) \/ DeleteCheck(c) \/ ExportFails(c)
           \/ ExportRunsDone(c) \/ ImportRunsDone(c) \/ CreateContainer(c)
  BY <1>1, <1>2, <1>10, <1>13, ReadingEffects, CreateContainerEffect DEF Over, Went, database
<1>14. CASE CreateHolder(c)
  <2>1. NextHolder(c) \in {"experiments", "next", "idle", "job", "jobs"}
    <3>1. AfterHolder(task[c].cmd) \in {"idle", "job", "jobs"}
      BY DEF AfterHolder
    <3> QED BY <3>1 DEF NextHolder
  <2> QED BY <1>1, <1>2, <1>10, <1>14, <2>1, CreateHolderStep DEF Over, Went
<1>15. CASE NewJob(c) \/ JobNames(c) \/ ExportCheck(c) \/ ExportRun(c) \/ ExportDone(c) \/ ImportCheck(c)
  BY <1>1, <1>2, <1>10, <1>15, NewJobStep, JobNamesStep, ExportCheckStep, ExportRunStep, ExportDoneStep,
     ImportCheckStep DEF Over, database
<1>16. ~Interrupt(c)
  BY <1>1, ReadingEffects
<1> QED BY <1>1, <1>6, <1>7, <1>8, <1>9, <1>11, <1>12, <1>13, <1>14, <1>15, <1>16 DEF StepOf, Deletes

-----------------------------------------------------------------------------
(* The documents of runs *)

\* A document is within the counters, or its workspace is being imported; its job
\* is one of the workspace, or will be.
Within(d, k, n) == k < counters[n].run /\ d.end < counters[n].end
Belongs(d, n) == d.job \in JobsOf(n) \/ (d.end = 0 /\ LoggedSoon(d.job, n))

\* A run that is at work has its document within the counters.
LEMMA RunsBeside ==
  ASSUME Typed, IInv, NEW c \in Clients, NEW n \in Names, Ws(c) = n, n \notin torn,
         task[c].at \in Running
  PROVE  /\ ~BeingImported(n) /\ ~Dropping(n)
         /\ \A k \in DOMAIN docs[n] :
              /\ k \in Nat /\ docs[n][k].end \in Nat /\ docs[n][k] \in RunDocs
              /\ k < counters[n].run /\ docs[n][k].end < counters[n].end
              /\ Belongs(docs[n][k], n)
         /\ UniqueEnds(docs[n]) /\ (n \notin exists => DOMAIN docs[n] = {})
<1>1. ~BeingImported(n) /\ ~Dropping(n)
  BY NoImportBeside DEF IInv
<1>2. docs[n] \in Tables
  BY DEF Typed
<1> QED BY <1>1, <1>2, TableFacts DEF IInv, InOrder, RunsInOrder, Belongs

LEMMA RunStarts ==
  ASSUME Typed, IInv, NEW c \in Clients, NEW n \in Names, OwnStep(c, n), StartRun(c)
  PROVE  RunsInOrder(n)'
<1>1. /\ Phases /\ Others(c) /\ Ws(c) = n /\ n \notin torn /\ n \notin torn' /\ Typed'
      /\ NumbersInOrder(n) /\ Idle.at = "idle"
  BY StepsKeepTypes, IdleIsATask DEF OwnStep, IInv, InOrder, GoesOn
<1>2. /\ task[c].at = "start" /\ UNCHANGED <<counters, jobs>>
      /\ Went(c, "log job") /\ n \in exists'
      /\ DOMAIN docs'[n] = DOMAIN docs[n] \cup {task[c].num}
      /\ \A i \in DOMAIN docs[n] : docs'[n][i] = docs[n][i]
      /\ task[c].num \notin DOMAIN docs[n] =>
           /\ docs'[n][task[c].num].end = 0
           /\ docs'[n][task[c].num].job \in task[c].left
  BY <1>1, StartRunStep DEF At
<1>3. PICK num \in Nat : num = task[c].num
  BY WsIsName DEF Tasks
<1>4. num < counters[n].run /\ num \notin DOMAIN docs[n]
  BY <1>1, <1>2, <1>3 DEF NumbersInOrder, Numbered, HasNumber
<1>5. 0 < counters[n].end
  BY <1>4 DEF Typed, Pairs
<1>6. /\ \A k \in DOMAIN docs[n] :
           /\ k < counters[n].run /\ docs[n][k].end < counters[n].end
           /\ Belongs(docs[n][k], n)
      /\ UniqueEnds(docs[n])
  BY <1>1, <1>2, RunsBeside DEF Running
<1>7. JobsOf(n)' = JobsOf(n) /\ counters' = counters
  BY <1>2, JobsKept
<1>8. \A id : LoggedSoon(id, n) => LoggedSoon(id, n)'
  BY <1>1, <1>2 DEF LoggedSoon, Others, Ws
<1>9. LoggedSoon(docs[n][num].job, n)'
  BY <1>1, <1>2, <1>3, <1>4 DEF LoggedSoon, Went, Ws
<1>10. ASSUME NEW k \in DOMAIN docs'[n] PROVE Within(docs[n][k], k, n)' /\ Belongs(docs[n][k], n)'
  <2>1. CASE k \in DOMAIN docs[n]
    <3>1. docs'[n][k] = docs[n][k]
      BY <1>2, <2>1
    <3> QED BY <1>6, <1>7, <1>8, <2>1, <3>1 DEF Within, Belongs
  <2>2. CASE k = num
    <3>1. docs'[n][k].end = 0
      BY <1>2, <1>3, <1>4, <2>2
    <3> QED BY <1>4, <1>5, <1>7, <1>9, <2>2, <3>1 DEF Within, Belongs
  <2> QED BY <1>2, <1>3, <1>10, <2>1, <2>2
<1>11. UniqueEnds(docs[n])'
  <2>1. docs'[n][num].end = 0 /\ DOMAIN docs'[n] = DOMAIN docs[n] \cup {num}
    BY <1>2, <1>3, <1>4
  <2>2. ASSUME NEW k \in DOMAIN docs'[n], NEW m \in DOMAIN docs'[n],
               docs'[n][k].end = docs'[n][m].end, docs'[n][k].end > 0
        PROVE  k = m
    <3>1. k # num /\ m # num
      BY <2>1, <2>2
    <3>2. /\ k \in DOMAIN docs[n] /\ m \in DOMAIN docs[n]
          /\ docs'[n][k] = docs[n][k] /\ docs'[n][m] = docs[n][m]
      BY <1>2, <2>1, <2>2, <3>1
    <3> QED BY <1>6, <2>2, <3>2 DEF UniqueEnds
  <2> QED BY <2>2 DEF UniqueEnds
<1> QED BY <1>2, <1>10, <1>11 DEF RunsInOrder, Within, Belongs

LEMMA RunEnds ==
  ASSUME Typed, IInv, NEW c \in Clients, NEW n \in Names, OwnStep(c, n), EndRun(c)
  PROVE  RunsInOrder(n)'
<1>1. /\ Phases /\ Others(c) /\ Ws(c) = n /\ n \notin torn /\ n \notin torn' /\ Typed'
      /\ NumbersInOrder(n) /\ Idle.at = "idle"
  BY StepsKeepTypes, IdleIsATask DEF OwnStep, IInv, InOrder, GoesOn
<1>2. /\ task[c].at = "end" /\ jobs' = jobs /\ task'[c].at = "idle" /\ n \in exists'
      /\ counters'[n].run = Counted(n).run
      /\ counters'[n].end = Counted(n).end + 1
      /\ DOMAIN docs'[n] = DOMAIN docs[n]
      /\ \A i \in DOMAIN docs[n] :
           /\ docs'[n][i].job = docs[n][i].job
           /\ i # task[c].num => docs'[n][i] = docs[n][i]
           /\ i = task[c].num => docs'[n][i].end = Counted(n).end
  BY <1>1, EndRunStep DEF Over, At
<1>3. PICK num \in Nat : num = task[c].num
  BY WsIsName DEF Tasks
<1>4. num < counters[n].run /\ docs[n][num].job \in JobsOf(n)
  BY <1>1, <1>2, <1>3 DEF NumbersInOrder, Numbered, HasNumber
<1>5. Counted(n) = counters[n] /\ counters[n].run \in Nat /\ counters[n].end \in Nat \ {0}
  BY <1>4, CountedIsPair
<1>6. /\ \A k \in DOMAIN docs[n] :
           /\ k \in Nat /\ docs[n][k].end \in Nat
           /\ k < counters[n].run /\ docs[n][k].end < counters[n].end
           /\ Belongs(docs[n][k], n)
      /\ UniqueEnds(docs[n])
  BY <1>1, <1>2, RunsBeside DEF Running
<1>7. JobsOf(n)' = JobsOf(n)
  BY <1>2, JobsKept
<1>8. \A id : LoggedSoon(id, n) => LoggedSoon(id, n)'
  BY <1>1, <1>2 DEF LoggedSoon, Others, Ws
<1>9. /\ counters'[n].run = counters[n].run /\ counters'[n].end = counters[n].end + 1
  BY <1>2, <1>5
<1>10. ASSUME NEW k \in DOMAIN docs'[n] PROVE Within(docs[n][k], k, n)' /\ Belongs(docs[n][k], n)'
  <2>1. CASE k # num
    <3>1. docs'[n][k] = docs[n][k] /\ k \in DOMAIN docs[n]
      BY <1>2, <1>3, <1>10, <2>1
    <3>2. Within(docs[n][k], k, n)'
      BY <1>5, <1>6, <1>9, <3>1 DEF Within
    <3> QED BY <1>6, <1>7, <1>8, <3>1, <3>2 DEF Belongs
  <2>2. CASE k = num
    <3>1. docs'[n][k].end = counters[n].end /\ docs'[n][k].job = docs[n][num].job
      BY <1>2, <1>3, <1>5, <1>10, <2>2
    <3>2. Within(docs[n][k], k, n)'
      BY <1>4, <1>5, <1>9, <2>2, <3>1 DEF Within
    <3> QED BY <1>4, <1>7, <3>1, <3>2 DEF Belongs
  <2> QED BY <2>1, <2>2
<1>11. UniqueEnds(docs[n])'
  <2>1. ASSUME NEW k \in DOMAIN docs'[n], NEW m \in DOMAIN docs'[n],
               docs'[n][k].end = docs'[n][m].end, docs'[n][k].end > 0
        PROVE  k = m
    <3>1. \A i \in DOMAIN docs[n] : /\ i # num => docs'[n][i] = docs[n][i]
                                    /\ i = num => docs'[n][i].end = counters[n].end
      BY <1>2, <1>3, <1>5
    <3>2. k \in DOMAIN docs[n] /\ m \in DOMAIN docs[n]
      BY <1>2, <2>1
    <3>3. CASE k # num /\ m # num
      BY <1>6, <2>1, <3>1, <3>2, <3>3 DEF UniqueEnds
    <3>4. CASE k = num /\ m # num
      BY <1>5, <1>6, <2>1, <3>1, <3>2, <3>4
    <3>5. CASE m = num /\ k # num
      BY <1>5, <1>6, <2>1, <3>1, <3>2, <3>5
    <3> QED BY <3>3, <3>4, <3>5
  <2> QED BY <2>1 DEF UniqueEnds
<1> QED BY <1>2, <1>10, <1>11 DEF RunsInOrder, Within, Belongs

\* What the documents of an import belong to.
LEMMA RunIsImported ==
  ASSUME Typed, IInv, NEW c \in Clients, NEW n \in Names, OwnStep(c, n), ImportRun(c)
  PROVE  RunsInOrder(n)'
<1>1. /\ Phases /\ Others(c) /\ Ws(c) = n /\ n \notin torn /\ n \notin torn' /\ Typed'
      /\ AloneOrMixed /\ ExclusiveIsAlone /\ Busy(c) /\ Filled(n) /\ RunsInOrder(n)
      /\ ImportsInOrder(n)
  BY StepsKeepTypes, StepsAreOfBusy DEF OwnStep, IInv, InOrder, GoesOn
<1>2. /\ task[c].at = "runs of job" /\ UNCHANGED <<store, counters, jobs>>
      /\ task'[c].at = "runs of job" /\ task'[c].ws = n
      /\ \E num \in DOMAIN task[c].runs :
           /\ DOMAIN docs'[n] = DOMAIN docs[n] \cup {num}
           /\ docs'[n][num] = Renamed(task[c].runs[num])
           /\ \A k \in DOMAIN docs[n] : k # num => docs'[n][k] = docs[n][k]
  BY <1>1, ImportRunStep DEF At, Ws
<1>3. PICK num \in DOMAIN task[c].runs :
           /\ DOMAIN docs'[n] = DOMAIN docs[n] \cup {num}
           /\ docs'[n][num] = Renamed(task[c].runs[num])
           /\ \A k \in DOMAIN docs[n] : k # num => docs'[n][k] = docs[n][k]
  BY <1>2
<1>4. task[c].cmd \in Imports
  BY <1>1, <1>2, ImportersImport DEF Importing
<1>5. ImportedSoFar(task[c], n)
  BY <1>1, <1>2, <1>4 DEF ImportsInOrder
<1>6. PICK R \in Tables : R = task[c].draft.runs
  BY WsIsName DEF Tasks, Archives
<1>7. /\ \A k \in DOMAIN docs[n] : k \in DOMAIN R /\ docs[n][k] = Renamed(R[k])
      /\ num \in DOMAIN R /\ task[c].runs[num] = R[num]
      /\ NewId(R[num].job) \in JobsOf(n) /\ UniqueEnds(R)
  BY <1>2, <1>5, <1>6 DEF ImportedSoFar, Sound
<1>8. \A k \in DOMAIN docs'[n] : k \in DOMAIN R /\ docs'[n][k] = Renamed(R[k])
  BY <1>3, <1>7
<1>9. \A k \in DOMAIN R : Renamed(R[k]).end = R[k].end /\ Renamed(R[k]).job = NewId(R[k].job)
  BY TableFacts, RenamedDoc
<1>10. BeingImported(n)'
  BY <1>2 DEF BeingImported, Ws
<1>11. JobsOf(n)' = JobsOf(n)
  BY <1>2, JobsKept
<1>13. \A id : ~LoggedSoon(id, n)
  BY <1>1, <1>2, <1>4, ImportIsAlone DEF LoggedSoon
<1>14. ASSUME NEW k \in DOMAIN docs'[n] PROVE Belongs(docs[n][k], n)'
  <2>1. CASE k = num
    BY <1>3, <1>7, <1>9, <1>11, <2>1 DEF Belongs
  <2>2. CASE k # num
    <3>1. k \in DOMAIN docs[n] /\ docs'[n][k] = docs[n][k]
      BY <1>3, <1>14, <2>2
    <3>2. docs[n][k].job \in JobsOf(n)
      BY <1>1, <1>13, <3>1 DEF RunsInOrder
    <3> QED BY <1>11, <3>1, <3>2 DEF Belongs
  <2> QED BY <2>1, <2>2
<1>15. UniqueEnds(docs[n])'
  BY <1>7, <1>8, <1>9 DEF UniqueEnds
<1>16. n \in exists'
  <2>1. n \in exists
    BY <1>1, <1>2 DEF Filled, Needs
  <2> QED BY <1>2, <2>1 DEF store
<1> QED BY <1>10, <1>14, <1>15, <1>16 DEF RunsInOrder, Belongs

\* The counters of an import are above what was imported.
LEMMA CountersAreImported ==
  ASSUME Typed, IInv, NEW c \in Clients, NEW n \in Names, OwnStep(c, n), ImportCounters(c)
  PROVE  RunsInOrder(n)'
<1>1. /\ Phases /\ Others(c) /\ Ws(c) = n /\ n \notin torn /\ n \notin torn' /\ Typed'
      /\ AloneOrMixed /\ ExclusiveIsAlone /\ Busy(c) /\ Filled(n) /\ RunsInOrder(n)
      /\ ImportsInOrder(n)
  BY StepsKeepTypes, StepsAreOfBusy DEF OwnStep, IInv, InOrder, GoesOn
<1>2. /\ task[c].at = "jobs" /\ UNCHANGED <<store, docs, jobs>>
      /\ \A k \in DOMAIN task[c].draft.runs :
           /\ k < counters'[n].run
           /\ task[c].draft.runs[k].end < counters'[n].end
  BY <1>1, ImportCountersStep DEF At
<1>3. task[c].cmd \in Imports
  BY <1>1, <1>2, ImportersImport DEF Importing
<1>4. ImportedSoFar(task[c], n)
  BY <1>1, <1>2, <1>3 DEF ImportsInOrder
<1>5. PICK R \in Tables : R = task[c].draft.runs
  BY WsIsName DEF Tasks, Archives
<1>6. \A k \in DOMAIN docs[n] : k \in DOMAIN R /\ docs[n][k] = Renamed(R[k])
  BY <1>2, <1>4, <1>5 DEF ImportedSoFar
<1>7. \A k \in DOMAIN R : Renamed(R[k]).end = R[k].end
  BY TableFacts, RenamedDoc
<1>8. \A k \in DOMAIN docs[n] : k < counters'[n].run /\ docs[n][k].end < counters'[n].end
  BY <1>2, <1>5, <1>6, <1>7
<1>9. JobsOf(n)' = JobsOf(n) /\ docs' = docs
  BY <1>2, JobsKept
<1>10. \A k \in DOMAIN docs[n] : docs[n][k].job \in JobsOf(n)
  <2>1. \A id : ~LoggedSoon(id, n)
    BY <1>1, <1>2, <1>3, ImportIsAlone DEF LoggedSoon
  <2> QED BY <1>1, <2>1 DEF RunsInOrder
<1>11. n \in exists'
  <2>1. n \in exists
    BY <1>1, <1>2 DEF Filled, Needs
  <2> QED BY <1>2, <2>1 DEF store
<1>12. UniqueEnds(docs[n])'
  BY <1>1, <1>9 DEF RunsInOrder
<1> QED BY <1>8, <1>9, <1>10, <1>11, <1>12 DEF RunsInOrder

\* A run that takes a number has the counters go on.
LEMMA NumberIsTaken ==
  ASSUME Typed, IInv, NEW c \in Clients, NEW n \in Names, OwnStep(c, n), TakeNumber(c)
  PROVE  RunsInOrder(n)'
<1>1. /\ Phases /\ Others(c) /\ Ws(c) = n /\ n \notin torn /\ n \notin torn'
  BY StepsKeepTypes DEF OwnStep, IInv, GoesOn
<1>2. /\ task[c].at = "number" /\ UNCHANGED <<store, docs, jobs>>
      /\ counters'[n].run = Counted(n).run + 1 /\ counters'[n].end = Counted(n).end
  BY <1>1, TakeNumberStep DEF At
<1>3. /\ \A k \in DOMAIN docs[n] :
           /\ k \in Nat /\ k < counters[n].run /\ docs[n][k].end < counters[n].end
           /\ Belongs(docs[n][k], n)
      /\ UniqueEnds(docs[n]) /\ (n \notin exists => DOMAIN docs[n] = {})
  BY <1>1, <1>2, RunsBeside DEF Running
<1>4. JobsOf(n)' = JobsOf(n) /\ docs' = docs /\ exists' = exists
  BY <1>2, JobsKept DEF store
<1>5. \A id : LoggedSoon(id, n) => LoggedSoon(id, n)'
  BY <1>1, <1>2 DEF LoggedSoon, Others, Ws
<1>6. ASSUME NEW k \in DOMAIN docs[n] PROVE k < counters'[n].run /\ docs[n][k].end < counters'[n].end
  <2>1. k \in Nat /\ k < counters[n].run /\ counters[n].run \in Nat /\ docs[n][k].end < counters[n].end
    BY <1>3, CountedIsPair
  <2>2. Counted(n) = counters[n]
    BY <2>1, CountedIsPair
  <2> QED BY <1>2, <2>1, <2>2
<1> QED BY <1>3, <1>4, <1>5, <1>6 DEF RunsInOrder, Belongs

LEMMA RunsHere ==
  ASSUME Typed, IInv, NEW c \in Clients, NEW n \in Names, OwnStep(c, n)
  PROVE  RunsInOrder(n)'
<1> USE DEF At
<1>1. /\ Phases /\ Others(c) /\ Ws(c) = n /\ n \notin torn /\ n \notin torn' /\ StepOf(c) /\ ~Deletes(c)
      /\ RunsInOrder(n)
  BY StepsKeepTypes DEF OwnStep, IInv, InOrder, GoesOn
<1>2. ASSUME docs'[n] = docs[n], counters'[n] = counters[n], JobsOf(n) \subseteq JobsOf(n)',
             n \in exists => n \in exists', task[c].at \notin {"log job", "drop"},
             \/ task[c].at \notin {"jobs", "runs of job"}
             \/ Ws(c)' = n /\ task'[c].at \in {"jobs", "runs of job"}
      PROVE  RunsInOrder(n)'
  BY <1>1, <1>2, RunsKept
<1>3. CASE LogJob(c)
  <2>1. /\ task[c].at = "log job" /\ docs' = docs /\ counters' = counters /\ exists' = exists
        /\ JobsOf(n)' = JobsOf(n) \cup task[c].left
    BY <1>1, <1>3, LogJobStep DEF store
  <2>2. /\ \A k \in DOMAIN docs[n] :
             /\ k < counters[n].run /\ docs[n][k].end < counters[n].end
             /\ Belongs(docs[n][k], n)
        /\ UniqueEnds(docs[n]) /\ (n \notin exists => DOMAIN docs[n] = {})
    BY <1>1, <2>1, RunsBeside DEF Running
  <2>3. \A id : LoggedSoon(id, n) => id \in JobsOf(n)' \/ LoggedSoon(id, n)'
    BY <1>1, <2>1 DEF LoggedSoon, Others, Ws
  <2>4. JobsOf(n) \subseteq JobsOf(n)'
    BY <2>1
  <2>5. \A k \in DOMAIN docs[n] : Belongs(docs[n][k], n)'
    BY <2>1, <2>2, <2>3, <2>4 DEF Belongs
  <2> HIDE <1>3
  <2> QED BY <2>1, <2>2, <2>5 DEF RunsInOrder, Belongs
<1>4. CASE UNCHANGED <<docs, counters, jobs, exists>> /\ task[c].at \notin {"log job", "drop", "jobs", "runs of job"}
  BY <1>2, <1>4, JobsKept
<1>5. CASE CreateCheck(c) \/ EnsureWorkspace(c) \/ DeleteCheck(c) \/ ExportFails(c) \/ ExportRunsDone(c)
  BY <1>1, <1>4, <1>5, ReadingEffects DEF database, store
<1>6. CASE ImportRunsDone(c)
  BY <1>1, <1>2, <1>6, ReadingEffects, JobsKept DEF database, store, Went, Ws
<1>7. CASE CreateContainer(c)
  BY <1>1, <1>2, <1>7, CreateContainerEffect, JobsKept DEF database
<1>8. CASE CreateHolder(c)
  BY <1>1, <1>2, <1>8, CreateHolderStep, JobsKept DEF Creating
<1>9. CASE NewJob(c)
  BY <1>1, <1>4, <1>9, NewJobStep DEF store, NewJob
<1>10. CASE JobNames(c) \/ ExportCheck(c) \/ ExportDone(c) \/ ImportCheck(c)
  BY <1>1, <1>4, <1>10, JobNamesStep, ExportCheckStep, ExportDoneStep, ImportCheckStep DEF store, database
<1>11. CASE ExportJob(c)
  BY <1>1, <1>2, <1>11, ExportJobStep, ZenonT(60) DEF store
<1>12. CASE ExportRun(c)
  BY <1>1, <1>4, <1>12, ExportRunStep
<1>13. CASE ImportJob(c)
  <2>1. /\ task[c].at = "jobs" /\ UNCHANGED <<store, docs, counters>>
        /\ task'[c].at = "runs of job" /\ task'[c].ws = task[c].ws
        /\ \E id : \A m : m = Ws(c) => JobsOf(m)' = JobsOf(m) \cup {NewId(id)}
    BY <1>1, <1>13, ImportJobStep
  <2>2. JobsOf(n) \subseteq JobsOf(n)'
    BY <1>1, <2>1
  <2> HIDE <1>13
  <2> QED BY <1>1, <1>2, <2>1, <2>2 DEF store, Ws
<1>14. ~Interrupt(c)
  BY <1>1, ReadingEffects
<1>15. TakeNumber(c) \/ StartRun(c) \/ EndRun(c) \/ ImportRun(c) \/ ImportCounters(c) => RunsInOrder(n)'
  BY NumberIsTaken, RunStarts, RunEnds, RunIsImported, CountersAreImported
<1> QED BY <1>1, <1>3, <1>5, <1>6, <1>7, <1>8, <1>9, <1>10, <1>11, <1>12, <1>13, <1>14, <1>15
        DEF StepOf, Deletes

-----------------------------------------------------------------------------
(* What exports have read *)

LEMMA ExportsByOthers ==
  ASSUME NEW n, NEW c \in Clients, ExportsInOrder(n), Others(c),
         \A t \in Tasks : Exported(t, n) => Exported(t, n)', Typed,
         \/ task'[c].at \notin {"export jobs", "export runs"}
         \/ \E t \in Tasks : t = task'[c] /\ Exported(t, n)'
  PROVE  ExportsInOrder(n)'
<1>1. ASSUME NEW d \in Clients, Ws(d)' = n, task'[d].at \in {"export jobs", "export runs"}
      PROVE  \E t \in Tasks : task'[d] = t /\ Exported(t, n)'
  <2>1. CASE d = c
    BY <1>1, <2>1
  <2>2. CASE d # c
    <3>1. PICK t \in Tasks : t = task[d]
      BY WsIsName
    <3>2. task'[d] = t /\ Exported(t, n)
      BY <1>1, <2>2, <3>1 DEF ExportsInOrder, Others, Ws
    <3> QED BY <3>2
  <2> QED BY <2>1, <2>2
<1>2. ASSUME NEW d \in Clients, Ws(d)' = n, task'[d].at \in {"export jobs", "export runs"}
      PROVE  Exported(task[d], n)'
  <2>1. PICK t \in Tasks : task'[d] = t /\ Exported(t, n)'
    BY <1>1, <1>2
  <2> QED BY <2>1
<1> QED BY <1>2 DEF ExportsInOrder

\* What an export has read stays true while documents are added, and while runs
\* end that had not.
LEMMA ExportedStays ==
  ASSUME NEW n, NEW t, Exported(t, n), DOMAIN docs[n] \subseteq DOMAIN docs'[n],
         \A k \in DOMAIN docs[n] : /\ docs'[n][k].job = docs[n][k].job
                                   /\ docs[n][k].end > 0 => docs'[n][k] = docs[n][k]
  PROVE  Exported(t, n)'
<1>1. ASSUME NEW f, Copied(t, f, n) PROVE Copied(t, f, n)'
  <2> SUFFICES ASSUME NEW k \in DOMAIN f
               PROVE  /\ k \in DOMAIN docs'[n] /\ f[k].job = docs'[n][k].job
                      /\ f[k].end > 0 => f[k].end = docs'[n][k].end
                      /\ k \in DOMAIN t.draft.ended => f[k] = t.draft.ended[k]
                      /\ f[k].job \in t.draft.jobs
    BY DEF Copied
  <2>1. /\ k \in DOMAIN docs[n] /\ f[k].job = docs[n][k].job
        /\ f[k].end > 0 => f[k].end = docs[n][k].end
        /\ k \in DOMAIN t.draft.ended => f[k] = t.draft.ended[k]
        /\ f[k].job \in t.draft.jobs
    BY <1>1 DEF Copied
  <2> QED BY <2>1
<1>2. Copied(t, t.runs, n)' /\ Copied(t, t.draft.runs, n)'
  BY <1>1 DEF Exported
<1>3. ASSUME NEW k \in DOMAIN t.draft.ended
      PROVE  /\ k \in DOMAIN docs'[n] /\ docs'[n][k] = t.draft.ended[k] /\ t.draft.ended[k].end > 0
             /\ t.draft.ended[k].job \in t.left \/ k \in DOMAIN t.runs \cup DOMAIN t.draft.runs
  <2>1. /\ k \in DOMAIN docs[n] /\ docs[n][k] = t.draft.ended[k] /\ t.draft.ended[k].end > 0
        /\ t.draft.ended[k].job \in t.left \/ k \in DOMAIN t.runs \cup DOMAIN t.draft.runs
    BY <1>3 DEF Exported
  <2> QED BY <2>1
<1> QED BY <1>2, <1>3 DEF Exported

\* What is copied of two sets of documents is.
LEMMA CopiedOf ==
  ASSUME NEW n, NEW s, NEW t, NEW f, NEW g, NEW h, Copied(s, f, n), Copied(s, g, n),
         t.draft.ended = s.draft.ended, t.draft.jobs = s.draft.jobs,
         \A k \in DOMAIN h : \/ k \in DOMAIN f /\ h[k] = f[k]
                             \/ k \in DOMAIN g /\ h[k] = g[k]
  PROVE  Copied(t, h, n)
<1> SUFFICES ASSUME NEW k \in DOMAIN h
             PROVE  /\ k \in DOMAIN docs[n] /\ h[k].job = docs[n][k].job
                    /\ h[k].end > 0 => h[k].end = docs[n][k].end
                    /\ k \in DOMAIN t.draft.ended => h[k] = t.draft.ended[k]
                    /\ h[k].job \in t.draft.jobs
  BY DEF Copied
<1>1. CASE k \in DOMAIN f /\ h[k] = f[k]
  BY <1>1 DEF Copied
<1>2. CASE k \in DOMAIN g /\ h[k] = g[k]
  BY <1>2 DEF Copied
<1> QED BY <1>1, <1>2

LEMMA ExportChecked ==
  ASSUME Typed, IInv, NEW c \in Clients, NEW n \in Names, OwnStep(c, n), ExportCheck(c)
  PROVE  ExportsInOrder(n)'
<1>1. /\ Phases /\ Others(c) /\ Ws(c) = n /\ n \notin torn /\ n \notin torn' /\ Typed'
      /\ ExportsInOrder(n) /\ RunsInOrder(n) /\ Idle.at = "idle"
  BY StepsKeepTypes, IdleIsATask DEF OwnStep, IInv, InOrder, GoesOn
<1>2. /\ task[c].at = "export" /\ UNCHANGED <<docs, jobs>>
      /\ \/ task'[c].at = "idle"
         \/ /\ task'[c].left = JobsOf(n) /\ task'[c].runs = task[c].runs
            /\ task'[c].draft.runs = task[c].draft.runs
            /\ DOMAIN task'[c].draft.ended = Ended(n)
            /\ \A k \in Ended(n) : task'[c].draft.ended[k] = docs[n][k]
  BY <1>1, ExportCheckStep DEF At, Over, database
<1>3. \A t \in Tasks : Exported(t, n) => Exported(t, n)'
  BY <1>2, ExportedStays
<1>4. CASE task'[c].at = "idle"
  BY <1>1, <1>3, <1>4, ExportsByOthers
<1>5. CASE task'[c].at # "idle"
  <2>1. PICK t \in Tasks : t = task'[c]
    BY <1>1 DEF Others
  <2>2. DOMAIN t.runs = {} /\ DOMAIN t.draft.runs = {}
    BY <1>1, <1>2, <1>5, <2>1 DEF Phases, InPhase
  <2>3. \A k \in Ended(n) : docs[n][k].end > 0 /\ docs[n][k].job \in JobsOf(n) /\ k \in DOMAIN docs[n]
    BY <1>1 DEF RunsInOrder, Ended
  <2>4. /\ DOMAIN t.draft.ended = Ended(n) /\ t.left = JobsOf(n) /\ docs' = docs
        /\ \A k \in Ended(n) : t.draft.ended[k] = docs[n][k]
    BY <1>2, <1>5, <2>1
  <2>5. Copied(t, t.runs, n)' /\ Copied(t, t.draft.runs, n)'
    BY <2>2 DEF Copied
  <2>6. Exported(t, n)'
    BY <2>3, <2>4, <2>5 DEF Exported
  <2> QED BY <1>1, <1>3, <2>1, <2>6, ExportsByOthers
<1> QED BY <1>4, <1>5

LEMMA JobIsExported ==
  ASSUME Typed, IInv, NEW c \in Clients, NEW n \in Names, OwnStep(c, n), ExportJob(c)
  PROVE  ExportsInOrder(n)'
<1>1. /\ Phases /\ Others(c) /\ Ws(c) = n /\ n \notin torn /\ n \notin torn' /\ Typed'
      /\ ExportsInOrder(n)
  BY StepsKeepTypes DEF OwnStep, IInv, InOrder, GoesOn
<1>2. /\ task[c].at = "export jobs" /\ docs' = docs
      /\ task'[c].draft.ended = task[c].draft.ended
      /\ task'[c].draft.runs = task[c].draft.runs
      /\ \E id : /\ task'[c].left = task[c].left \ {id}
                 /\ task'[c].draft.jobs = task[c].draft.jobs \cup {id}
                 /\ \A k : k \in DOMAIN task'[c].runs <=>
                             k \in DOMAIN docs[n] /\ docs[n][k].job = id
                 /\ \A k \in DOMAIN task'[c].runs : task'[c].runs[k] = docs[n][k]
  <2>1. /\ task[c].at = "export jobs" /\ docs' = docs
        /\ task'[c].draft.ended = task[c].draft.ended
        /\ task'[c].draft.runs = task[c].draft.runs
        /\ \E id : /\ task'[c].left = task[c].left \ {id}
                   /\ task'[c].draft.jobs = task[c].draft.jobs \cup {id}
                   /\ \A k : k \in DOMAIN task'[c].runs <=>
                               k \in DOMAIN docs[Ws(c)] /\ docs[Ws(c)][k].job = id
                   /\ \A k \in DOMAIN task'[c].runs : task'[c].runs[k] = docs[Ws(c)][k]
    BY <1>1, ExportJobStep DEF At
  <2>2. Ws(c) = n
    BY <1>1
  <2> HIDE DEF Ws
  <2> QED BY <2>1, <2>2
<1>3. \A u \in Tasks : Exported(u, n) => Exported(u, n)'
  BY <1>2, ExportedStays
<1>4. PICK s \in Tasks, t \in Tasks : s = task[c] /\ t = task'[c]
  BY <1>1, WsIsName DEF Others
<1>5. PICK id : /\ t.left = s.left \ {id}
                /\ t.draft.jobs = s.draft.jobs \cup {id}
                /\ \A k : k \in DOMAIN t.runs <=> k \in DOMAIN docs[n] /\ docs[n][k].job = id
                /\ \A k \in DOMAIN t.runs : t.runs[k] = docs[n][k]
  BY <1>2, <1>4
<1>6. Exported(s, n) /\ DOMAIN s.runs = {}
  BY <1>1, <1>2, <1>4 DEF ExportsInOrder, Phases, InPhase
<1>7. t.draft.ended = s.draft.ended /\ t.draft.runs = s.draft.runs
  BY <1>2, <1>4
<1>8. \A k \in DOMAIN s.draft.ended :
        /\ k \in DOMAIN docs[n] /\ docs[n][k] = s.draft.ended[k] /\ s.draft.ended[k].end > 0
        /\ s.draft.ended[k].job \in s.left \/ k \in DOMAIN s.draft.runs
  BY <1>6 DEF Exported
<1>9. Copied(t, t.runs, n)'
  BY <1>2, <1>5, <1>7, <1>8 DEF Copied
<1>10. Copied(t, t.draft.runs, n)'
  BY <1>2, <1>5, <1>6, <1>7, ZenonT(60) DEF Copied, Exported
<1>11. Exported(t, n)'
  <2>1. \A k \in DOMAIN t.draft.ended :
          /\ k \in DOMAIN docs'[n] /\ docs'[n][k] = t.draft.ended[k] /\ t.draft.ended[k].end > 0
          /\ t.draft.ended[k].job \in t.left \/ k \in DOMAIN t.runs \cup DOMAIN t.draft.runs
    BY <1>2, <1>5, <1>7, <1>8, ZenonT(60)
  <2> QED BY <1>9, <1>10, <2>1 DEF Exported
<1> QED BY <1>1, <1>3, <1>4, <1>11, ExportsByOthers

LEMMA RunIsExported ==
  ASSUME Typed, IInv, NEW c \in Clients, NEW n \in Names, OwnStep(c, n), ExportRun(c)
  PROVE  ExportsInOrder(n)'
<1>1. /\ Phases /\ Others(c) /\ Ws(c) = n /\ n \notin torn /\ n \notin torn' /\ Typed'
      /\ ExportsInOrder(n)
  BY StepsKeepTypes DEF OwnStep, IInv, InOrder, GoesOn
<1>2. /\ task[c].at = "export runs" /\ docs' = docs
      /\ task'[c].draft.ended = task[c].draft.ended
      /\ task'[c].draft.jobs = task[c].draft.jobs
      /\ task'[c].left = task[c].left
      /\ \E num \in DOMAIN task[c].runs :
           /\ DOMAIN task'[c].runs = DOMAIN task[c].runs \ {num}
           /\ \A k \in DOMAIN task'[c].runs : task'[c].runs[k] = task[c].runs[k]
           /\ DOMAIN task'[c].draft.runs = DOMAIN task[c].draft.runs \cup {num}
           /\ \A k \in DOMAIN task[c].draft.runs :
                task'[c].draft.runs[k] = task[c].draft.runs[k]
           /\ num \notin DOMAIN task[c].draft.runs =>
                task'[c].draft.runs[num] = task[c].runs[num]
  BY <1>1, ExportRunStep DEF At
<1>3. \A u \in Tasks : Exported(u, n) => Exported(u, n)'
  BY <1>2, ExportedStays
<1>4. PICK s \in Tasks, t \in Tasks : s = task[c] /\ t = task'[c]
  BY <1>1, WsIsName DEF Others
<1>5. PICK num \in DOMAIN s.runs :
           /\ DOMAIN t.runs = DOMAIN s.runs \ {num}
           /\ \A k \in DOMAIN t.runs : t.runs[k] = s.runs[k]
           /\ DOMAIN t.draft.runs = DOMAIN s.draft.runs \cup {num}
           /\ \A k \in DOMAIN s.draft.runs : t.draft.runs[k] = s.draft.runs[k]
           /\ num \notin DOMAIN s.draft.runs => t.draft.runs[num] = s.runs[num]
  BY <1>2, <1>4
<1>6. Exported(s, n)
  BY <1>1, <1>2, <1>4 DEF ExportsInOrder
<1>7. t.draft.ended = s.draft.ended /\ t.draft.jobs = s.draft.jobs /\ t.left = s.left
  BY <1>2, <1>4
<1>8. Copied(s, s.runs, n) /\ Copied(s, s.draft.runs, n)
  BY <1>6 DEF Exported
<1>9. Copied(t, t.runs, n)
  <2>1. \A k \in DOMAIN t.runs : k \in DOMAIN s.runs /\ t.runs[k] = s.runs[k]
    BY <1>5
  <2> QED BY <1>7, <1>8, <2>1, CopiedOf
<1>10. \A k \in DOMAIN t.draft.runs : \/ k \in DOMAIN s.draft.runs /\ t.draft.runs[k] = s.draft.runs[k]
                                      \/ k \in DOMAIN s.runs /\ t.draft.runs[k] = s.runs[k]
  BY <1>5
<1>11. Copied(t, t.draft.runs, n)
  BY <1>7, <1>8, <1>10, CopiedOf
<1>12. Exported(t, n)
  <2>1. \A k \in DOMAIN s.draft.ended :
          /\ k \in DOMAIN docs[n] /\ docs[n][k] = s.draft.ended[k] /\ s.draft.ended[k].end > 0
          /\ s.draft.ended[k].job \in s.left \/ k \in DOMAIN s.runs \cup DOMAIN s.draft.runs
    BY <1>6 DEF Exported
  <2>2. \A k : k \in DOMAIN s.runs \cup DOMAIN s.draft.runs =>
                 k \in DOMAIN t.runs \cup DOMAIN t.draft.runs
    BY <1>5
  <2>3. \A k \in DOMAIN t.draft.ended :
          /\ k \in DOMAIN docs[n] /\ docs[n][k] = t.draft.ended[k] /\ t.draft.ended[k].end > 0
          /\ t.draft.ended[k].job \in t.left \/ k \in DOMAIN t.runs \cup DOMAIN t.draft.runs
    BY <1>7, <2>1, <2>2
  <2> QED BY <1>9, <1>11, <2>3 DEF Exported
<1> QED BY <1>1, <1>3, <1>4, <1>12, ExportsByOthers

LEMMA ExportsHere ==
  ASSUME Typed, IInv, NEW c \in Clients, NEW n \in Names, OwnStep(c, n)
  PROVE  ExportsInOrder(n)'
<1> USE DEF At
<1>1. /\ Phases /\ Others(c) /\ Ws(c) = n /\ n \notin torn /\ n \notin torn' /\ StepOf(c) /\ ~Deletes(c)
      /\ ExportsInOrder(n) /\ AloneOrMixed /\ ExclusiveIsAlone /\ Busy(c) /\ Idle.at = "idle"
  BY StepsKeepTypes, StepsAreOfBusy, IdleIsATask DEF OwnStep, IInv, InOrder, GoesOn
<1>2. ASSUME docs'[n] = docs[n], task'[c].at \notin {"export jobs", "export runs"}
      PROVE  ExportsInOrder(n)'
  BY <1>1, <1>2, ExportsKept
<1>3. CASE StartRun(c)
  <2>1. /\ DOMAIN docs[n] \subseteq DOMAIN docs'[n] /\ task'[c].at = "log job"
        /\ \A k \in DOMAIN docs[n] : docs'[n][k] = docs[n][k]
    BY <1>1, <1>3, StartRunStep DEF Went
  <2>2. \A t \in Tasks : Exported(t, n) => Exported(t, n)'
    BY <2>1, ExportedStays
  <2> QED BY <1>1, <2>1, <2>2, ExportsByOthers
<1>4. CASE EndRun(c)
  <2>1. /\ task[c].at = "end" /\ task'[c].at = "idle" /\ DOMAIN docs'[n] = DOMAIN docs[n]
        /\ \A i \in DOMAIN docs[n] : /\ docs'[n][i].job = docs[n][i].job
                                     /\ i # task[c].num => docs'[n][i] = docs[n][i]
    BY <1>1, <1>4, EndRunStep DEF Over
  <2>2. docs[n][task[c].num].end = 0
    BY <1>1, <2>1 DEF IInv, InOrder, NumbersInOrder, HasNumber, Numbered
  <2>3. \A t \in Tasks : Exported(t, n) => Exported(t, n)'
    BY <2>1, <2>2, ExportedStays
  <2> QED BY <1>1, <2>1, <2>3, ExportsByOthers
<1>5. CASE ExportRunsDone(c)
  <2>1. /\ Went(c, "export jobs") /\ task[c].at = "export runs" /\ docs' = docs
    BY <1>1, <1>5, ReadingEffects DEF database
  <2>2. \A t \in Tasks : Exported(t, n) => Exported(t, n)'
    BY <2>1, ExportedStays
  <2>3. PICK s \in Tasks, t \in Tasks : s = task[c] /\ t = task'[c]
    BY <1>1, WsIsName DEF Others
  <2>4. Exported(s, n)'
    BY <1>1, <2>1, <2>2, <2>3 DEF ExportsInOrder
  <2>5. t.runs = s.runs /\ t.draft = s.draft /\ t.left = s.left
    BY <2>1, <2>3 DEF Went
  <2>6. Exported(t, n)'
    BY <2>4, <2>5 DEF Exported, Copied
  <2> QED BY <1>1, <2>2, <2>3, <2>6, ExportsByOthers
<1>6. CASE ImportRun(c)
  <2>1. task[c].at = "runs of job" /\ task'[c].at \in {"idle", "runs of job"}
    BY <1>1, <1>6, ImportRunStep DEF Over
  <2>2. \A d \in Clients : Ws(d)' = n => task'[d].at \notin {"export jobs", "export runs"}
    BY <1>1, <2>1, ImportersImport, ImportIsAlone DEF Importing, Others, Ws
  <2> QED BY <2>2 DEF ExportsInOrder
<1>7. CASE CreateCheck(c) \/ EnsureWorkspace(c) \/ DeleteCheck(c) \/ ExportFails(c) \/ ImportRunsDone(c)
           \/ CreateContainer(c)
  BY <1>1, <1>2, <1>7, ReadingEffects, CreateContainerEffect DEF database, Over, Went
<1>8. CASE CreateHolder(c)
  <2>1. NextHolder(c) \in {"experiments", "next", "idle", "job", "jobs"}
    <3>1. AfterHolder(task[c].cmd) \in {"idle", "job", "jobs"}
      BY DEF AfterHolder
    <3> QED BY <3>1 DEF NextHolder
  <2> QED BY <1>1, <1>2, <1>8, <2>1, CreateHolderStep DEF Over, Went
<1>9. CASE NewJob(c) \/ JobNames(c) \/ LogJob(c) \/ ExportDone(c) \/ ImportCheck(c)
  BY <1>1, <1>2, <1>9, NewJobStep, JobNamesStep, LogJobStep, ExportDoneStep, ImportCheckStep DEF Over, database
<1>10. CASE TakeNumber(c)
  BY <1>1, <1>2, <1>10, TakeNumberStep DEF Over, Went
<1>11. CASE ImportJob(c) \/ ImportCounters(c)
  BY <1>1, <1>2, <1>11, ImportJobStep, ImportCountersStep DEF Over
<1>12. ~Interrupt(c)
  BY <1>1, ReadingEffects
<1>13. ExportCheck(c) \/ ExportJob(c) \/ ExportRun(c) => ExportsInOrder(n)'
  BY ExportChecked, JobIsExported, RunIsExported
<1> QED BY <1>1, <1>3, <1>4, <1>5, <1>6, <1>7, <1>8, <1>9, <1>10, <1>11, <1>12, <1>13
        DEF StepOf, Deletes

-----------------------------------------------------------------------------
(* How far imports have come *)

\* In a workspace that an import is alone at, only its own task counts.
LEMMA ImportsByOne ==
  ASSUME Phases, AloneOrMixed, ExclusiveIsAlone, NEW n, NEW c \in Clients, Ws(c) = n, n \notin torn,
         Busy(c), task[c].cmd \in Imports, Others(c), Phases',
         \/ task'[c] = Idle
         \/ \E t : t = task'[c] /\ ImportedSoFar(t, n)'
  PROVE  ImportsInOrder(n)'
<1>1. ASSUME NEW d \in Clients, Ws(d)' = n, task'[d].cmd \in Imports
      PROVE  \E t : task'[d] = t /\ ImportedSoFar(t, n)'
  <2>1. CASE d = c
    BY <1>1, <2>1, IdleIsATask DEF Imports
  <2>2. CASE d # c
    <3>1. task'[d] = task[d] /\ Ws(d) = n
      BY <1>1, <2>2 DEF Others, Ws
    <3>2. task[d].at = "idle"
      BY <2>2, <3>1, ImportIsAlone
    <3>3. task[d].cmd = "none"
      BY <3>2, IdleHasNoCommand DEF Phases
    <3> QED BY <1>1, <3>1, <3>3 DEF Imports
  <2> QED BY <2>1, <2>2
<1>2. ASSUME NEW d \in Clients, Ws(d)' = n, task'[d].cmd \in Imports
      PROVE  ImportedSoFar(task[d], n)'
  <2>1. PICK t : task'[d] = t /\ ImportedSoFar(t, n)'
    BY <1>1, <1>2
  <2> QED BY <2>1
<1> QED BY <1>2 DEF ImportsInOrder

\* The commands that do not import are not beside one that does.
LEMMA NoImportHere ==
  ASSUME Typed, Phases, AloneOrMixed, ExclusiveIsAlone, NEW n, NEW c \in Clients, Ws(c) = n, n \notin torn,
         Busy(c), task[c].cmd \notin Imports, GoesOn(c)
  PROVE  ImportsInOrder(n)'
<1>1. Others(c) /\ (task'[c].cmd = task[c].cmd \/ task'[c].cmd = "none")
  BY IdleIsATask DEF GoesOn
<1>2. ASSUME NEW d \in Clients, Ws(d)' = n, task'[d].cmd \in Imports PROVE FALSE
  <2>1. d # c
    BY <1>1, <1>2 DEF Imports
  <2>2. task'[d] = task[d] /\ Ws(d) = n /\ task[d].cmd \in Imports
    BY <1>1, <1>2, <2>1 DEF Others, Ws
  <2>3. CASE Busy(d)
    BY <2>1, <2>2, <2>3, Company
  <2>4. CASE ~Busy(d)
    <3>1. task[d].cmd = "none"
      BY <2>4, IdleHasNoCommand DEF Phases, Busy, At
    <3> QED BY <2>2, <3>1 DEF Imports
  <2> QED BY <2>3, <2>4
<1> QED BY <1>2 DEF ImportsInOrder

\* Making the workspace of an import
LEMMA ImportMakes ==
  ASSUME Typed, IInv, NEW c \in Clients, NEW n \in Names, OwnStep(c, n), task[c].cmd \in Imports,
         CreateCheck(c) \/ CreateContainer(c) \/ CreateHolder(c)
  PROVE  ImportsInOrder(n)'
<1> USE DEF At
<1>1. /\ Phases /\ Phases' /\ Others(c) /\ Ws(c) = n /\ n \notin torn /\ AloneOrMixed /\ ExclusiveIsAlone
      /\ Busy(c) /\ ImportsInOrder(n)
  BY StepsKeepTypes, StepsKeepPhases, StepsAreOfBusy DEF OwnStep, IInv, InOrder, GoesOn
<1>2. /\ task[c].at \in Making /\ UNCHANGED <<docs, jobs>>
      /\ \/ task'[c] = Idle
         \/ Went(c, "container")
         \/ Went(c, "runs")
         \/ NextHolder(c) # "idle" /\ Went(c, NextHolder(c)) /\ task[c].at \in {"runs", "experiments", "next"}
  <2>1. CASE CreateCheck(c)
    BY <1>1, <2>1, ReadingEffects DEF Over, Making, database
  <2>2. CASE CreateContainer(c)
    BY <1>1, <2>2, CreateContainerEffect DEF Over, Making, database
  <2>3. CASE CreateHolder(c)
    BY <1>1, <2>3, CreateHolderStep DEF Over, Making, Creating
  <2> QED BY <2>1, <2>2, <2>3
<1>3. CASE task'[c] = Idle
  BY <1>1, <1>3, ImportsByOne
<1>4. CASE task'[c] # Idle
  <2>1. PICK s, t : s = task[c] /\ t = task'[c]
    OBVIOUS
  <2>2. task[c].at # "import"
    BY <1>2 DEF Making
  <2>3. ImportedSoFar(s, n)
    BY <1>1, <2>1, <2>2 DEF ImportsInOrder
  <2>4. t.at \in Making \/ t.at = "jobs"
    <3>1. AfterHolder(task[c].cmd) \in {"jobs"}
      BY DEF AfterHolder, Imports
    <3>2. NextHolder(c) \in {"experiments", "next", "jobs"}
      BY <3>1 DEF NextHolder
    <3> QED BY <1>2, <1>4, <2>1, <3>2 DEF Went, Making
  <2>5. t.left = s.left /\ t.runs = s.runs /\ t.draft = s.draft
    BY <1>2, <1>4, <2>1 DEF Went
  <2>6. /\ Sound(t.draft) /\ DOMAIN docs[n] = {} /\ t.left = t.draft.jobs /\ docs' = docs
    BY <1>2, <2>1, <2>3, <2>5 DEF ImportedSoFar
  <2>7. DOMAIN t.runs = {}
    BY <1>1, <1>2, <2>1, <2>5 DEF Phases, InPhase
  <2>8. \A k \in DOMAIN t.draft.runs : t.draft.runs[k].job \in t.left
    BY <2>6 DEF Sound
  <2>9. ImportedSoFar(t, n)'
    BY <2>4, <2>6, <2>7, <2>8 DEF ImportedSoFar
  <2> QED BY <1>1, <2>1, <2>9, ImportsByOne
<1> QED BY <1>3, <1>4

LEMMA ImportIsChecked ==
  ASSUME Typed, IInv, NEW c \in Clients, NEW n \in Names, OwnStep(c, n), ImportCheck(c)
  PROVE  ImportsInOrder(n)'
<1> USE DEF At
<1>1. /\ Phases /\ Phases' /\ Others(c) /\ Ws(c) = n /\ n \notin torn /\ n \notin torn'
      /\ AloneOrMixed /\ ExclusiveIsAlone /\ Busy(c) /\ RunsInOrder(n) /\ ArchiveInOrder
  BY StepsKeepTypes, StepsKeepPhases, StepsAreOfBusy DEF OwnStep, IInv, InOrder, GoesOn
<1>2. /\ task[c].at = "import" /\ UNCHANGED <<docs, exists>>
      /\ \/ task'[c] = Idle
         \/ /\ task'[c].at = "create" /\ task'[c].left = archive.jobs /\ task'[c].draft = archive
            /\ n \notin exists /\ ~archive.torn
  BY <1>1, ImportCheckStep DEF Over, store, database
<1>3. task[c].cmd \in Imports
  BY <1>1, <1>2, ImportersImport DEF Importing
<1>4. CASE task'[c] = Idle
  BY <1>1, <1>3, <1>4, ImportsByOne
<1>5. CASE task'[c] # Idle
  <2>1. PICK t : t = task'[c]
    OBVIOUS
  <2>2. Sound(archive)
    BY <1>1, <1>2, <1>5 DEF ArchiveInOrder
  <2>3. ~Dropping(n)
    BY <1>1, <1>2, <1>3, ImportIsAlone DEF Dropping
  <2>4. DOMAIN docs[n] = {}
    BY <1>1, <1>2, <1>5, <2>3 DEF RunsInOrder
  <2>5. t.at = "create" /\ t.left = t.draft.jobs /\ Sound(t.draft)
    BY <1>2, <1>5, <2>1, <2>2
  <2>6. ImportedSoFar(t, n)'
    BY <1>2, <2>4, <2>5 DEF ImportedSoFar, Making
  <2> QED BY <1>1, <1>3, <2>1, <2>6, ImportsByOne
<1> QED BY <1>4, <1>5

LEMMA JobIsImported ==
  ASSUME Typed, IInv, NEW c \in Clients, NEW n \in Names, OwnStep(c, n), ImportJob(c)
  PROVE  ImportsInOrder(n)'
<1> USE DEF At
<1>1. /\ Phases /\ Phases' /\ Others(c) /\ Ws(c) = n /\ n \notin torn
      /\ AloneOrMixed /\ ExclusiveIsAlone /\ Busy(c) /\ ImportsInOrder(n)
  BY StepsKeepTypes, StepsKeepPhases, StepsAreOfBusy DEF OwnStep, IInv, InOrder, GoesOn
<1>2. /\ task[c].at = "jobs" /\ docs' = docs
      /\ task'[c].at = "runs of job" /\ task'[c].draft = task[c].draft
      /\ \E id : /\ task'[c].left = task[c].left \ {id}
                 /\ \A k : k \in DOMAIN task'[c].runs <=>
                             /\ k \in DOMAIN task[c].draft.runs
                             /\ task[c].draft.runs[k].job = id
                 /\ \A k \in DOMAIN task'[c].runs :
                      task'[c].runs[k] = task[c].draft.runs[k]
                 /\ \A m : m = Ws(c) => JobsOf(m)' = JobsOf(m) \cup {NewId(id)}
  BY <1>1, ImportJobStep
<1>3. task[c].cmd \in Imports
  BY <1>1, <1>2, ImportersImport DEF Importing
<1>4. PICK s, t : s = task[c] /\ t = task'[c]
  OBVIOUS
<1>5. PICK id : /\ t.left = s.left \ {id}
                /\ \A k : k \in DOMAIN t.runs <=>
                            k \in DOMAIN s.draft.runs /\ s.draft.runs[k].job = id
                /\ \A k \in DOMAIN t.runs : t.runs[k] = s.draft.runs[k]
                /\ \A m : m = Ws(c) => JobsOf(m)' = JobsOf(m) \cup {NewId(id)}
  BY <1>2, <1>4
<1>6. ImportedSoFar(s, n)
  BY <1>1, <1>2, <1>3, <1>4 DEF ImportsInOrder
<1>7. DOMAIN s.runs = {}
  BY <1>1, <1>2, <1>4 DEF Phases, InPhase
<1>8. t.at = "runs of job" /\ t.draft = s.draft /\ s.at = "jobs"
  BY <1>2, <1>4
<1>9. NewId(id) \in JobsOf(n)'
  BY <1>1, <1>5
<1>10. /\ Sound(s.draft)
       /\ \A k \in DOMAIN docs[n] :
            k \in DOMAIN s.draft.runs /\ docs[n][k] = Renamed(s.draft.runs[k])
       /\ \A k \in DOMAIN s.draft.runs : s.draft.runs[k].job \in s.left \/ k \in DOMAIN docs[n]
  BY <1>6, <1>7, <1>8 DEF ImportedSoFar
<1>11. \A k \in DOMAIN t.runs : /\ k \in DOMAIN t.draft.runs /\ t.runs[k] = t.draft.runs[k]
                                /\ NewId(t.runs[k].job) \in JobsOf(n)'
  BY <1>5, <1>8, <1>9
<1>12. \A k \in DOMAIN t.draft.runs :
         t.draft.runs[k].job \in t.left \/ k \in DOMAIN t.runs \cup DOMAIN docs[n]
  BY <1>5, <1>8, <1>10
<1>13. ImportedSoFar(t, n)'
  BY <1>2, <1>8, <1>10, <1>11, <1>12 DEF ImportedSoFar, Making
<1> QED BY <1>1, <1>3, <1>4, <1>13, ImportsByOne

LEMMA ImportOfRun ==
  ASSUME Typed, IInv, NEW c \in Clients, NEW n \in Names, OwnStep(c, n), ImportRun(c)
  PROVE  ImportsInOrder(n)'
<1> USE DEF At
<1>1. /\ Phases /\ Phases' /\ Others(c) /\ Ws(c) = n /\ n \notin torn /\ n \notin torn'
      /\ AloneOrMixed /\ ExclusiveIsAlone /\ Busy(c) /\ ImportsInOrder(n)
  BY StepsKeepTypes, StepsKeepPhases, StepsAreOfBusy DEF OwnStep, IInv, InOrder, GoesOn
<1>2. /\ task[c].at = "runs of job" /\ jobs' = jobs
      /\ task'[c].at = "runs of job" /\ task'[c].left = task[c].left
      /\ task'[c].draft = task[c].draft
      /\ \E num \in DOMAIN task[c].runs :
           /\ DOMAIN task'[c].runs = DOMAIN task[c].runs \ {num}
           /\ \A k \in DOMAIN task'[c].runs : task'[c].runs[k] = task[c].runs[k]
           /\ DOMAIN docs'[n] = DOMAIN docs[n] \cup {num}
           /\ docs'[n][num] = Renamed(task[c].runs[num])
           /\ \A k \in DOMAIN docs[n] : k # num => docs'[n][k] = docs[n][k]
  BY <1>1, ImportRunStep
<1>3. task[c].cmd \in Imports
  BY <1>1, <1>2, ImportersImport DEF Importing
<1>4. PICK s, t : s = task[c] /\ t = task'[c]
  OBVIOUS
<1>5. PICK num \in DOMAIN s.runs :
           /\ DOMAIN t.runs = DOMAIN s.runs \ {num}
           /\ \A k \in DOMAIN t.runs : t.runs[k] = s.runs[k]
           /\ DOMAIN docs'[n] = DOMAIN docs[n] \cup {num}
           /\ docs'[n][num] = Renamed(s.runs[num])
           /\ \A k \in DOMAIN docs[n] : k # num => docs'[n][k] = docs[n][k]
  BY <1>2, <1>4
<1>6. ImportedSoFar(s, n)
  BY <1>1, <1>2, <1>3, <1>4 DEF ImportsInOrder
<1>7. t.at = "runs of job" /\ t.draft = s.draft /\ s.at = "runs of job" /\ t.left = s.left
  BY <1>2, <1>4
<1>8. /\ Sound(s.draft)
      /\ \A k \in DOMAIN docs[n] :
           k \in DOMAIN s.draft.runs /\ docs[n][k] = Renamed(s.draft.runs[k])
      /\ \A k \in DOMAIN s.runs : /\ k \in DOMAIN s.draft.runs /\ s.runs[k] = s.draft.runs[k]
                                  /\ NewId(s.runs[k].job) \in JobsOf(n)
      /\ \A k \in DOMAIN s.draft.runs :
           s.draft.runs[k].job \in s.left \/ k \in DOMAIN s.runs \cup DOMAIN docs[n]
  BY <1>6, <1>7 DEF ImportedSoFar
<1>9. JobsOf(n)' = JobsOf(n)
  BY <1>2, JobsKept
<1>10. \A k \in DOMAIN docs'[n] : k \in DOMAIN t.draft.runs /\ docs'[n][k] = Renamed(t.draft.runs[k])
  BY <1>5, <1>7, <1>8
<1>11. \A k \in DOMAIN t.runs : /\ k \in DOMAIN t.draft.runs /\ t.runs[k] = t.draft.runs[k]
                                /\ NewId(t.runs[k].job) \in JobsOf(n)'
  BY <1>5, <1>7, <1>8, <1>9
<1>12. \A k \in DOMAIN t.draft.runs :
         t.draft.runs[k].job \in t.left \/ k \in DOMAIN t.runs \cup DOMAIN docs'[n]
  BY <1>5, <1>7, <1>8
<1>13. ImportedSoFar(t, n)'
  BY <1>7, <1>8, <1>10, <1>11, <1>12 DEF ImportedSoFar, Making
<1> QED BY <1>1, <1>3, <1>4, <1>13, ImportsByOne

LEMMA ImportsHere ==
  ASSUME Typed, IInv, NEW c \in Clients, NEW n \in Names, OwnStep(c, n)
  PROVE  ImportsInOrder(n)'
<1> USE DEF At
<1>1. /\ Phases /\ Phases' /\ Others(c) /\ GoesOn(c) /\ Ws(c) = n /\ n \notin torn /\ StepOf(c) /\ ~Deletes(c)
      /\ AloneOrMixed /\ ExclusiveIsAlone /\ Busy(c) /\ ImportsInOrder(n)
  BY StepsKeepTypes, StepsKeepPhases, StepsAreOfBusy DEF OwnStep, IInv, InOrder, GoesOn
<1>2. CASE task[c].cmd \notin Imports
  BY <1>1, <1>2, NoImportHere
<1>3. CASE task[c].cmd \in Imports
  <2>1. task[c].at \in Making \cup Importing
    <3>1. task[c].at \in PlacesOf(task[c].cmd)
      BY <1>1 DEF Phases, InPhase
    <3> QED BY <1>3, <3>1 DEF PlacesOf, Imports
  <2>2. /\ ~EnsureWorkspace(c) /\ ~NewJob(c) /\ ~TakeNumber(c) /\ ~StartRun(c) /\ ~LogJob(c) /\ ~EndRun(c)
        /\ ~DeleteCheck(c) /\ ~JobNames(c)
        /\ ~ExportCheck(c) /\ ~ExportJob(c) /\ ~ExportRun(c) /\ ~ExportFails(c)
        /\ ~ExportRunsDone(c) /\ ~ExportDone(c)
    BY <2>1 DEF Making, Importing, EnsureWorkspace, NewJob, TakeNumber, StartRun, LogJob, EndRun,
       DeleteCheck, JobNames, ExportCheck, ExportJob, ExportRun, ExportFails, ExportRunsDone, ExportDone
  <2>3. ~Interrupt(c)
    BY <1>1, ReadingEffects DEF OwnStep
  <2>4. CASE ImportCounters(c)
    <3>1. task'[c] = Idle
      BY <1>1, <2>4, ImportCountersStep DEF Over
    <3> QED BY <1>1, <1>3, <3>1, ImportsByOne
  <2>5. CASE ImportRunsDone(c)
    <3>1. /\ Went(c, "jobs") /\ task[c].at = "runs of job" /\ DOMAIN task[c].runs = {}
          /\ UNCHANGED <<docs, jobs>>
      BY <1>1, <2>5, ReadingEffects DEF database
    <3>2. PICK s, t : s = task[c] /\ t = task'[c]
      OBVIOUS
    <3>3. ImportedSoFar(s, n) /\ s.at = "runs of job" /\ t.at = "jobs"
      BY <1>1, <1>3, <3>1, <3>2 DEF ImportsInOrder, Went
    <3>4. t.left = s.left /\ t.runs = s.runs /\ t.draft = s.draft
      BY <3>1, <3>2 DEF Went
    <3>5. JobsOf(n)' = JobsOf(n) /\ docs' = docs
      BY <3>1, JobsKept
    <3>6. ImportedSoFar(t, n)'
      BY <3>3, <3>4, <3>5 DEF ImportedSoFar, Making
    <3> QED BY <1>1, <1>3, <3>2, <3>6, ImportsByOne
  <2>6. CASE CreateCheck(c) \/ CreateContainer(c) \/ CreateHolder(c)
    BY <1>3, <2>6, ImportMakes
  <2>7. CASE ImportCheck(c) \/ ImportJob(c) \/ ImportRun(c)
    BY <2>7, ImportIsChecked, JobIsImported, ImportOfRun
  <2> QED BY <1>1, <2>2, <2>3, <2>4, <2>5, <2>6, <2>7 DEF StepOf, Deletes
<1> QED BY <1>2, <1>3

-----------------------------------------------------------------------------
(* Every step keeps the invariant *)

LEMMA ArchiveStays ==
  ASSUME Typed, IInv, NEW c \in Clients, StepOf(c)
  PROVE  ArchiveInOrder'
<1> USE DEF At
<1>1. Phases /\ ArchiveInOrder
  BY DEF IInv
<1>2. archive' = archive \/ ExportDone(c)
  BY <1>1, ReadingEffects, CreateContainerEffect, CreateHolderStep, NewJobStep, TakeNumberStep, StartRunStep,
     LogJobStep, EndRunStep, JobNamesStep, DeleteContainerStep, DropRunsStep, DropCountersStep,
     DeleteJobStep, ExportCheckStep, ExportJobStep, ExportRunStep, ImportCheckStep, ImportJobStep,
     ImportRunStep, ImportCountersStep DEF StepOf, database
<1>3. CASE archive' = archive
  BY <1>1, <1>3 DEF ArchiveInOrder
<1>4. CASE ExportDone(c)
  <2>1. /\ task[c].at = "export jobs" /\ task[c].left = {}
        /\ archive'.torn <=> Ws(c) \in torn
        /\ archive'.jobs = task[c].draft.jobs /\ archive'.runs = task[c].draft.runs
        /\ archive'.ended = task[c].draft.ended
    BY <1>1, <1>4, ExportDoneStep
  <2>a. PICK n \in Names : n = Ws(c)
    BY WsIsName
  <2>b. PICK t, a : t = task[c] /\ a = archive'
    OBVIOUS
  <2>2. n = Ws(c) /\ t = task[c] /\ a = archive'
    BY <2>a, <2>b
  <2> SUFFICES ASSUME n \notin torn PROVE Sound(a)
    BY <2>1, <2>2 DEF ArchiveInOrder
  <2>3. Exported(t, n) /\ UniqueEnds(docs[n]) /\ DOMAIN t.runs = {}
    BY <1>1, <2>1, <2>2 DEF IInv, InOrder, ExportsInOrder, RunsInOrder, Phases, InPhase
  <2>4. t.left = {} /\ a.jobs = t.draft.jobs /\ a.runs = t.draft.runs /\ a.ended = t.draft.ended
    BY <2>1, <2>2
  <2>5. \A k \in DOMAIN a.runs :
          /\ k \in DOMAIN docs[n]
          /\ a.runs[k].end > 0 => a.runs[k].end = docs[n][k].end
          /\ k \in DOMAIN a.ended => a.runs[k] = a.ended[k]
          /\ a.runs[k].job \in a.jobs
    BY <2>3, <2>4 DEF Exported, Copied
  <2>6. \A k \in DOMAIN a.ended : k \in DOMAIN a.runs
    BY <2>3, <2>4 DEF Exported
  <2>7. UniqueEnds(a.runs)
    BY <2>3, <2>5 DEF UniqueEnds
  <2> QED BY <2>5, <2>6, <2>7 DEF Sound
<1> QED BY <1>2, <1>3, <1>4

LEMMA StepKeeps ==
  ASSUME Typed, IInv, NEW c \in Clients, StepOf(c)
  PROVE  Typed' /\ IInv'
<1>1. Phases /\ AloneOrMixed /\ ExclusiveIsAlone /\ GoneIsEmpty /\ DeletionsInOrder
  BY DEF IInv
<1>2. Typed' /\ GoesOn(c) /\ Elsewhere(Ws(c)) /\ Ws(c) \in Names
  BY <1>1, StepsKeepTypes, WsIsName
<1>3. Phases' /\ GoneIsEmpty' /\ AloneOrMixed' /\ ExclusiveIsAlone' /\ DeletionsInOrder'
  BY <1>1, StepsKeepPhases, GoneStays, AloneStays, DeletionsStay
<1>4. ArchiveInOrder'
  BY ArchiveStays
<1>5. ASSUME NEW n \in Names, n \notin torn' PROVE InOrder(n)'
  <2>1. CASE Ws(c) # n
    <3>1. n \notin torn
      BY <1>2, <1>5, <2>1 DEF Elsewhere
    <3>2. InOrder(n)
      BY <3>1 DEF IInv
    <3> QED BY <1>1, <1>2, <1>5, <2>1, <3>2, ForeignStep
  <2>2. CASE Ws(c) = n /\ Deletes(c)
    BY <1>5, <2>2, DeletionKeeps DEF Deletes
  <2>3. CASE Ws(c) = n /\ ~Deletes(c)
    <3>1. n \notin torn
      BY <1>1, <1>5, <2>3, MixedKept DEF Deletes
    <3>2. OwnStep(c, n)
      BY <1>5, <2>3, <3>1 DEF OwnStep
    <3>3. Filled(n)' /\ NumbersInOrder(n)' /\ RunsInOrder(n)'
      BY <3>2, FilledHere, NumbersHere, RunsHere
    <3>4. ExportsInOrder(n)' /\ ImportsInOrder(n)'
      BY <3>2, ExportsHere, ImportsHere
    <3> QED BY <3>3, <3>4 DEF InOrder
  <2> QED BY <2>1, <2>2, <2>3
<1> QED BY <1>2, <1>3, <1>4, <1>5 DEF IInv

\* The same workspace, the same commands
LEMMA NothingChanges ==
  ASSUME Typed, IInv, UNCHANGED vars
  PROVE  Typed' /\ IInv'
<1>1. UNCHANGED <<provider, exists, holders, logs, docs, counters, jobs, nextJob, archive, task, torn, mixed>>
  BY DEF vars, store, database
<1>2. Typed'
  BY <1>1 DEF Typed
<1>3. \A n : JobsOf(n)' = JobsOf(n)
  BY <1>1, JobsKept
<1>4. Phases' /\ GoneIsEmpty' /\ AloneOrMixed' /\ ExclusiveIsAlone' /\ ArchiveInOrder'
  BY <1>1 DEF IInv, Phases, GoneIsEmpty, AloneOrMixed, ExclusiveIsAlone, ArchiveInOrder, Busy, At, Ws
<1>5. DeletionsInOrder'
  BY <1>1, <1>3 DEF IInv, DeletionsInOrder, Ws
<1>6. ASSUME NEW n \in Names \ torn' PROVE InOrder(n)'
  <2>1. InOrder(n)
    BY <1>1, <1>6 DEF IInv
  <2>2. Filled(n)'
    BY <1>1, <2>1 DEF InOrder, Filled, FilledByOne, Creating, Ws
  <2>3. NumbersInOrder(n)'
    BY <1>1, <1>3, <2>1 DEF InOrder, NumbersInOrder, HasNumber, Numbered, Ws
  <2>4. RunsInOrder(n)'
    BY <1>1, <1>3, <2>1 DEF InOrder, RunsInOrder, BeingImported, Dropping, LoggedSoon, Ws
  <2>5. ASSUME NEW t PROVE Exported(t, n)' <=> Exported(t, n)
    BY <1>1 DEF Exported, Copied
  <2>6. ExportsInOrder(n)'
    BY <1>1, <2>1, <2>5 DEF InOrder, ExportsInOrder, Ws
  <2>7. ASSUME NEW t PROVE ImportedSoFar(t, n)' <=> ImportedSoFar(t, n)
    BY <1>1, <1>3 DEF ImportedSoFar
  <2>8. ImportsInOrder(n)'
    BY <1>1, <2>1, <2>7 DEF InOrder, ImportsInOrder, Ws
  <2> QED BY <2>2, <2>3, <2>4, <2>6, <2>8 DEF InOrder
<1> QED BY <1>2, <1>4, <1>5, <1>6 DEF IInv

LEMMA NextKeeps == Typed /\ IInv /\ [Next]_vars => Typed' /\ IInv'
<1> SUFFICES ASSUME Typed, IInv, [Next]_vars PROVE Typed' /\ IInv'
  OBVIOUS
<1>1. CASE Next
  <2>1. PICK c \in Clients : StepOf(c) \/ \E cmd \in Commands, n \in Names : Begin(c, cmd, n)
    BY <1>1 DEF Next, StepOf
  <2>2. CASE StepOf(c)
    BY <2>2, StepKeeps
  <2>3. CASE \E cmd \in Commands, n \in Names : Begin(c, cmd, n)
    BY <2>3, BeginKeeps
  <2> QED BY <2>1, <2>2, <2>3
<1>2. CASE UNCHANGED vars
  BY <1>2, NothingChanges
<1> QED BY <1>1, <1>2

-----------------------------------------------------------------------------
(* The store in the beginning *)

LEMMA OneRun ==
  ASSUME NEW f, f = [k \in {1} |-> [job |-> First, end |-> 1]]
  PROVE  f \in Tables /\ DOMAIN f = {1} /\ f[1].job = First /\ f[1].end = 1
<1>1. First \in JobIds
  BY DEF First, JobId, JobIds
<1>2. f \in [{1} -> RunDocs] /\ IsFiniteSet({1})
  BY <1>1, FS_Singleton DEF RunDocs
<1>3. {1} \in SUBSET (Nat \ {0})
  OBVIOUS
<1> QED BY <1>2, <1>3 DEF Tables

LEMMA BeginsTyped == Init => Typed
<1> SUFFICES ASSUME Init PROVE Typed
  OBVIOUS
<1>1. task \in [Clients -> Tasks] /\ archive \in Archives
  BY IdleIsATask DEF Init
<1>2. docs \in [Names -> Tables]
  BY OneRun, NoRunsIsTable DEF Init
<1>3. counters \in [Names -> Pairs]
  BY DEF Init, Pairs
<1>4. jobs \subseteq JobDocs
  BY SourceIsName DEF Init, Job, JobDocs, First, JobId, JobIds
<1>5. /\ holders \in [Names -> SUBSET {"runs", "experiments", "next"}]
      /\ logs \in [Names -> SUBSET Nat]
  <2>1. {"runs", "experiments", "next"} \in SUBSET {"runs", "experiments", "next"} /\ {1} \in SUBSET Nat
    OBVIOUS
  <2> QED BY <2>1 DEF Init
<1>6. exists \subseteq Names /\ nextJob \in Nat
  BY SourceIsName DEF Init
<1> QED BY <1>1, <1>2, <1>3, <1>4, <1>5, <1>6 DEF Typed

LEMMA BeginsInOrder == Init => IInv
<1> SUFFICES ASSUME Init PROVE IInv
  OBVIOUS
<1>1. \A c \in Clients : task[c] = Idle
  BY DEF Init
<1>2. \A c \in Clients : task[c].at = "idle" /\ task[c].cmd = "none"
  BY <1>1, IdleIsATask
<1>3. Phases
  BY <1>1, IdleIsInPhase DEF Phases
<1>4. GoneIsEmpty
  BY DEF Init, GoneIsEmpty
<1>5. AloneOrMixed /\ ExclusiveIsAlone /\ DeletionsInOrder
  BY <1>2 DEF AloneOrMixed, ExclusiveIsAlone, DeletionsInOrder, Busy, At, Imports
<1>6. ArchiveInOrder
  BY NoRunsIsTable, IdleIsATask DEF Init, ArchiveInOrder, Sound, UniqueEnds
<1>7. ASSUME NEW n \in Names PROVE InOrder(n)
  <2>1. Filled(n)
    BY <1>2 DEF Filled, FilledByOne, Creating, Needs, Init
  <2>2. NumbersInOrder(n) /\ ExportsInOrder(n) /\ ImportsInOrder(n)
    BY <1>2 DEF NumbersInOrder, ExportsInOrder, ImportsInOrder, Numbered, Imports
  <2>3. RunsInOrder(n)
    <3>1. CASE n = Source
      <4>1. /\ DOMAIN docs[n] = {1} /\ docs[n][1].job = First /\ docs[n][1].end = 1
        BY <3>1, OneRun, SourceIsName DEF Init
      <4>2. First \in JobsOf(n)
        <5>1. Job(First, Source, TRUE) \in jobs
          BY DEF Init
        <5>2. Job(First, Source, TRUE).ws = Source /\ Job(First, Source, TRUE).id = First
          BY DEF Job
        <5> QED BY <3>1, <5>1, <5>2, JobsOfFacts
      <4>3. counters[n].run = 2 /\ counters[n].end = 2 /\ n \in exists
        BY <3>1 DEF Init
      <4> QED BY <4>1, <4>2, <4>3 DEF RunsInOrder, UniqueEnds
    <3>2. CASE n # Source
      BY <3>2, NoRunsIsTable DEF Init, RunsInOrder, UniqueEnds
    <3> QED BY <3>1, <3>2
  <2> QED BY <2>1, <2>2, <2>3 DEF InOrder
<1> QED BY <1>3, <1>4, <1>5, <1>6, <1>7 DEF IInv

LEMMA Inductive == Spec => [](Typed /\ IInv)
<1> QED BY BeginsTyped, BeginsInOrder, NextKeeps, PTL DEF Spec

-----------------------------------------------------------------------------
(* What users rely on *)

\* Containers are filled by one client at a time, and none is left half filled;
\* every run belongs to a job of its workspace, has an end id of its own, and is
\* below the counters unless it is being imported.
THEOREM WorkspacesStayInOrder == Spec => []WorkspacesInOrder
<1>1. Typed /\ IInv => WorkspacesInOrder
  <2> SUFFICES ASSUME Typed, IInv, NEW n \in Names \ torn PROVE FilledByOne(n) /\ Accounted(n)
    BY DEF WorkspacesInOrder
  <2>1. Filled(n) /\ RunsInOrder(n)
    BY DEF IInv, InOrder
  <2>2. \A id : LoggedSoon(id, n) => id \in Submitting(n)
    BY DEF LoggedSoon, Submitting, At, Ws
  <2>3. Accounted(n)
    BY <2>1, <2>2 DEF RunsInOrder, UniqueEnds, BeingImported, Accounted
  <2> QED BY <2>1, <2>3 DEF Filled
<1> QED BY <1>1, Inductive, PTL

\* A run that starts gets a number of which its workspace has no document.
THEOREM StartsWithAFreeNumber == Spec => []NumbersAreFree
<1>1. Typed /\ IInv => NumbersAreFree
  <2> SUFFICES ASSUME Typed, IInv, NEW c \in Clients, task[c].at = "start", NEW n \in Names \ torn, n = Ws(c)
               PROVE  task[c].num \notin DOMAIN docs[n]
    BY WsIsName DEF NumbersAreFree, At
  <2> QED BY DEF IInv, InOrder, NumbersInOrder, Numbered, HasNumber
<1> QED BY <1>1, Inductive, PTL

\* What a deletion that met no other command has deleted is gone from the three
\* services.
THEOREM DeletionIsComplete == Spec => []DeletedIsGone
<1>1. Typed /\ IInv => DeletedIsGone
  <2> SUFFICES ASSUME Typed, IInv, NEW c \in Clients, Deleted(c), c \notin mixed, NEW n \in Names, n = Ws(c)
               PROVE  /\ n \notin exists /\ holders[n] = {} /\ logs[n] = {}
                      /\ DOMAIN docs[n] = {} /\ counters[n] = [run |-> 0, end |-> 0]
                      /\ JobsOf(n) = {}
    BY WsIsName DEF DeletedIsGone
  <2>1. task[c].at = "delete jobs" /\ task[c].left = {}
    BY DEF Deleted, At
  <2>2. /\ n \notin exists /\ JobsOf(n) \subseteq task[c].left /\ DOMAIN docs[n] = {}
        /\ counters[n] = [run |-> 0, end |-> 0]
    BY <2>1 DEF IInv, DeletionsInOrder
  <2>3. holders[n] = {} /\ logs[n] = {}
    BY <2>2 DEF IInv, GoneIsEmpty
  <2> QED BY <2>1, <2>2, <2>3
<1> QED BY <1>1, Inductive, PTL

\* A workspace made of an archive has every run that had ended when the export of
\* the archive began.
THEOREM ImportsAreOfExports == Spec => ImportedIsExported
<1>1. Typed /\ IInv /\ [Next]_vars =>
        [\A c \in Clients : ImportCounters(c) /\ Ws(c) \notin torn => EndedRunsAreIn(c)]_vars
  <2> SUFFICES ASSUME Typed, IInv, NEW c \in Clients, ImportCounters(c), Ws(c) \notin torn
               PROVE  EndedRunsAreIn(c)
    OBVIOUS
  <2>1. Phases
    BY DEF IInv
  <2>2. task[c].at = "jobs" /\ task[c].left = {} /\ docs' = docs
    BY <2>1, ImportCountersStep DEF At
  <2>3. task[c].cmd \in Imports
    BY <2>1, <2>2, ImportersImport DEF Importing
  <2>4. PICK n \in Names, t \in Tasks : n = Ws(c) /\ t = task[c]
    BY WsIsName
  <2>5. ImportedSoFar(t, n) /\ DOMAIN t.runs = {} /\ t.at = "jobs" /\ t.left = {}
    BY <2>1, <2>2, <2>3, <2>4 DEF IInv, InOrder, ImportsInOrder, Phases, InPhase
  <2>6. \A k \in DOMAIN t.draft.ended : k \in DOMAIN t.draft.runs /\ t.draft.runs[k] = t.draft.ended[k]
    BY <2>5 DEF ImportedSoFar, Sound
  <2>7. \A k \in DOMAIN t.draft.runs : k \in DOMAIN docs[n] /\ docs[n][k] = Renamed(t.draft.runs[k])
    BY <2>5 DEF ImportedSoFar
  <2>8. \A k \in DOMAIN t.draft.ended :
          k \in DOMAIN docs[n] /\ docs[n][k] = [t.draft.ended[k] EXCEPT !.job = NewId(@)]
    BY <2>6, <2>7 DEF Renamed
  <2> QED BY <2>2, <2>4, <2>8 DEF EndedRunsAreIn
<1> QED BY <1>1, Inductive, PTL DEF Spec, ImportedIsExported
=============================================================================
