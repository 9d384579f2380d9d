---------------------------- MODULE RunHistory ----------------------------
(***************************************************************************)
(* The runs of a workspace in the database: how they get their numbers     *)
(* (run7) and, when they end, their end ids, from one counters document,   *)
(* and how the hyperparameter searches of the controllers keep up with the *)
(* runs that have ended, each reading only the end ids above the highest   *)
(* one it has seen.                                                        *)
(*                                                                         *)
(* Its specification is HistorySpec: the counters of a job's document      *)
(* (JobCounters), in the same database, are next to it in CountersProofs.  *)
(***************************************************************************)
EXTENDS Naturals

CONSTANTS Runs,        \* the runs that are created, each by one command
          Children,    \* those created by a controller under a given name
          Searchers,   \* the controllers that search with a run history
          LegacyNext,  \* the next run number in the workspace's control file
          LegacyRuns,  \* numbers that already belong to a run
          MaxRestarts, \* bound: runs executed again after they had ended
          MaxFailures  \* bound: documents that could not be inserted

ASSUME ChildRuns == Children \subseteq Runs
ASSUME LegacyIds == LegacyNext \in Nat \ {0} /\ LegacyRuns \subseteq Nat
ASSUME HistoryBounds == MaxRestarts \in Nat /\ MaxFailures \in Nat

VARIABLES counters, \* the counters document: whether it exists, its next ids
          stage,       \* stage[r]: how far r has come
          num,      \* num[r]: the number r got, 0 if none yet
          tries,    \* tries[r]: how often its number was found taken
          logs,     \* the numbers for which there is a run log
          inJob,    \* inJob[r]: its document has the job and experiment
          taken,    \* taken[r]: the end id allocated by its wrapup, 0 if none
          end,      \* end[r]: the end id in its document, 0 if none
          history,  \* history[s]: the (run, end id) pairs s works with
          seen,     \* seen[s]: the highest end id in it (HParamSearch.end_id)
          late,     \* late[s]: end ids s has passed before they were written
          restarts, failures

create == <<logs, inJob, failures>>
search == <<history, seen, late>>
historyVars == <<counters, stage, num, tries, create, taken, end, search, restarts>>

HistoryInit ==
  /\ counters = [exists |-> FALSE, next_run |-> LegacyNext, next_end |-> 1]
  /\ stage = [r \in Runs |-> IF r \in Children THEN "name" ELSE "find"]
  /\ num = [r \in Runs |-> 0]
  /\ tries = [r \in Runs |-> 0]
  /\ logs = LegacyRuns
  /\ inJob = [r \in Runs |-> FALSE]
  /\ taken = [r \in Runs |-> 0]
  /\ end = [r \in Runs |-> 0]
  /\ history = [s \in Searchers |-> {}]
  /\ seen = [s \in Searchers |-> 0]
  /\ late = [s \in Searchers |-> {}]
  /\ restarts = 0 /\ failures = 0

At(r, where) == stage[r] = where
Enter(r, where) == stage' = [stage EXCEPT ![r] = where]

-----------------------------------------------------------------------------
(* A command creates a run: _create_next_run_directory, start_run_core *)

\* get_next_sequential_ws_id looks for the document in a call of its own.
FindCounters(r) ==
  /\ At(r, "find") /\ Enter(r, IF counters.exists THEN "next" ELSE "insert")
  /\ UNCHANGED <<counters, num, tries, create, taken, end, search, restarts>>

\* Mutant: the document is written whether or not another client made one.
InsertCountersAnyway(r) ==
  /\ At(r, "insert") /\ Enter(r, "next")
  /\ counters' = [exists |-> TRUE, next_run |-> LegacyNext, next_end |-> 1]
  /\ UNCHANGED <<num, tries, create, taken, end, search, restarts>>

\* Only one of two clients can insert it; the other ends with an exception.
InsertCounters(r) ==
  /\ At(r, "insert")
  /\ IF counters.exists
     THEN Enter(r, "failed") /\ UNCHANGED counters
     ELSE /\ counters' = [exists |-> TRUE, next_run |-> LegacyNext, next_end |-> 1]
          /\ Enter(r, "next")
  /\ UNCHANGED <<num, tries, create, taken, end, search, restarts>>

NextRun(r) ==
  /\ At(r, "next") /\ Enter(r, "exists")
  /\ num' = [num EXCEPT ![r] = counters.next_run]
  /\ counters' = [counters EXCEPT !.next_run = @ + 1]
  /\ UNCHANGED <<tries, create, taken, end, search, restarts>>

\* Three more numbers are tried when a run with that number exists.
RunExists(r) ==
  /\ At(r, "exists")
  /\ IF num[r] \notin logs THEN Enter(r, "create") /\ UNCHANGED tries
     ELSE IF tries[r] < 3
     THEN Enter(r, "find") /\ tries' = [tries EXCEPT ![r] = @ + 1]
     ELSE Enter(r, "failed") /\ UNCHANGED tries
  /\ UNCHANGED <<counters, num, create, taken, end, search, restarts>>

\* start_child_run: the name was given with the entry of the run, by a
\* controller whose parent run has been created before.
ChildName(r) ==
  /\ At(r, "name") /\ counters.exists
  /\ Enter(r, "create")
  /\ UNCHANGED <<counters, num, tries, create, taken, end, search, restarts>>

\* create_mongo_run ignores errors.
CreateDocument(r) ==
  /\ At(r, "create") /\ Enter(r, "log")
  /\ \/ inJob' = [inJob EXCEPT ![r] = TRUE] /\ UNCHANGED failures
     \/ failures < MaxFailures /\ failures' = failures + 1 /\ UNCHANGED inJob
  /\ UNCHANGED <<counters, num, tries, logs, taken, end, search, restarts>>

\* The created event: a first line in the run log; the document is upserted.
LogCreated(r) ==
  /\ At(r, "log") /\ Enter(r, "running")
  /\ logs' = IF r \in Children THEN logs ELSE logs \cup {num[r]}
  /\ UNCHANGED <<counters, num, tries, inJob, failures, taken, end, search, restarts>>

-----------------------------------------------------------------------------
(* A controller ends a run: update_mongo_run_at_end *)

TakeEndId(r) ==
  /\ At(r, "running") /\ Enter(r, "ending")
  /\ taken' = [taken EXCEPT ![r] = counters.next_end]
  /\ counters' = [counters EXCEPT !.next_end = @ + 1]
  /\ UNCHANGED <<num, tries, create, end, search, restarts>>

\* Mutant: the document keeps the end id of the run's first end.
WriteEndOnce(r) ==
  /\ At(r, "ending") /\ Enter(r, "ended")
  /\ end' = [end EXCEPT ![r] = IF @ = 0 THEN taken[r] ELSE @]
  /\ taken' = [taken EXCEPT ![r] = 0]
  /\ UNCHANGED <<counters, num, tries, create, search, restarts>>

WriteEnd(r) ==
  /\ At(r, "ending") /\ Enter(r, "ended")
  /\ end' = [end EXCEPT ![r] = taken[r]]
  /\ taken' = [taken EXCEPT ![r] = 0]
  /\ UNCHANGED <<counters, num, tries, create, search, restarts>>

\* A node preempted before it marked the run completed starts it once more.
Restart(r) ==
  /\ stage[r] \in {"ending", "ended"} /\ restarts < MaxRestarts
  /\ restarts' = restarts + 1
  /\ Enter(r, "running")
  /\ taken' = [taken EXCEPT ![r] = 0]
  /\ UNCHANGED <<counters, num, tries, create, end, search>>

-----------------------------------------------------------------------------
(* A search reads the runs that have ended: get_completed_runs *)

NewRuns(s) == {r \in Runs : inJob[r] /\ end[r] > seen[s]}
InFlight(m) == {taken[r] : r \in {x \in Runs : taken[x] # 0 /\ taken[x] < m}}

\* Mutant: the search remembers how many runs it has.
SearchByCount(s) ==
  /\ history' = [history EXCEPT ![s] = @ \cup {[run |-> r, id |-> end[r]] : r \in NewRuns(s)}]
  /\ seen' = [seen EXCEPT ![s] = IF NewRuns(s) = {} THEN @ ELSE @ + 1]
  /\ UNCHANGED <<counters, stage, num, tries, create, taken, end, late, restarts>>

Search(s) ==
  /\ history' = [history EXCEPT ![s] = @ \cup {[run |-> r, id |-> end[r]] : r \in NewRuns(s)}]
  /\ \/ NewRuns(s) = {} /\ UNCHANGED <<seen, late>>
     \/ \E last \in NewRuns(s) :
          /\ \A r \in NewRuns(s) : end[r] <= end[last]
          /\ seen' = [seen EXCEPT ![s] = end[last]]
          /\ late' = [late EXCEPT ![s] = @ \cup InFlight(end[last])]
  /\ UNCHANGED <<counters, stage, num, tries, create, taken, end, restarts>>

-----------------------------------------------------------------------------
Run(r) == \/ FindCounters(r) \/ InsertCounters(r) \/ NextRun(r) \/ RunExists(r)
          \/ ChildName(r) \/ CreateDocument(r) \/ LogCreated(r)
          \/ TakeEndId(r) \/ WriteEnd(r) \/ Restart(r)

HistoryNext == (\E r \in Runs : Run(r)) \/ (\E s \in Searchers : Search(s))

HistorySpec == HistoryInit /\ [][HistoryNext]_historyVars

-----------------------------------------------------------------------------
Steps == {"find", "insert", "next", "exists", "name", "create", "log", "running",
          "ending", "ended", "failed"}

\* Every variable has its type.
HistoryTypeOK ==
  /\ counters \in [exists : BOOLEAN, next_run : Nat, next_end : Nat]
  /\ stage \in [Runs -> Steps]
  /\ num \in [Runs -> Nat] /\ tries \in [Runs -> 0..3]
  /\ logs \subseteq Nat /\ inJob \in [Runs -> BOOLEAN]
  /\ taken \in [Runs -> Nat] /\ end \in [Runs -> Nat]
  /\ history \in [Searchers -> SUBSET [run : Runs, id : Nat]]
  /\ seen \in [Searchers -> Nat] /\ late \in [Searchers -> SUBSET Nat]
  /\ restarts \in Nat /\ failures \in Nat

\* No two commands get the same run number, also when both find that the
\* workspace has no counters yet (get_next_sequential_ws_id).
NumbersAreUnique ==
  \A q, r \in Runs : num[q] # 0 /\ num[q] = num[r] => q = r

\* Two runs never have the same end id, in their documents or on the way
\* there, and no two wrapups work with the same one.
EndIdsAreUnique ==
  \A q, r \in Runs : q # r =>
    /\ end[q] # 0 => end[q] \notin {end[r], taken[r]}
    /\ taken[q] # 0 => taken[q] # taken[r]

\* What a search does not know although it has passed the end id was, with
\* that end id, between the two calls of update_mongo_run_at_end when the
\* search read past it: there is no other way to miss a run.
MissedWereLate ==
  \A s \in Searchers, r \in Runs :
    inJob[r] /\ end[r] # 0 /\ end[r] <= seen[s]
      => [run |-> r, id |-> end[r]] \in history[s] \/ end[r] \in late[s]

\* Each end of a run gives it a higher end id than any before, so that the
\* searches see a restarted run again with its new results
\* (update_mongo_run_at_end).
EndIdsGrow ==
  [][\A r \in Runs : stage[r] = "ending" /\ stage'[r] = "ended" => end'[r] > end[r]]_historyVars

-----------------------------------------------------------------------------
(* The inductive invariant behind these properties *)

NotEnded == Steps \ {"running", "ending", "ended"}

\* Nobody has a number before the counters exist, which start at their first
\* values, and every number given is below the next.
NumbersBelowNext ==
  /\ \A r \in Runs : num[r] # 0 => num[r] < counters.next_run
  /\ \A r \in Runs : stage[r] \notin {"find", "insert", "name"} => counters.exists
  /\ ~counters.exists =>
       counters = [exists |-> FALSE, next_run |-> LegacyNext, next_end |-> 1]

\* The same of the end ids; a run has none before it ends, and the one of a
\* wrapup is higher than the one of the run's last end.
EndIdsBelowNext ==
  /\ counters.next_end > 0
  /\ \A r \in Runs :
       /\ end[r] < counters.next_end /\ taken[r] < counters.next_end
       /\ taken[r] # 0 <=> stage[r] = "ending"
       /\ taken[r] # 0 => end[r] < taken[r]
       /\ stage[r] \in NotEnded => end[r] = 0
  /\ \A s \in Searchers : seen[s] < counters.next_end

\* What a search has passed on the way to a document is in late.
PassedAreLate ==
  \A s \in Searchers, r \in Runs :
    taken[r] # 0 /\ taken[r] <= seen[s] => taken[r] \in late[s]

IInv == /\ HistoryTypeOK /\ NumbersBelowNext /\ NumbersAreUnique
        /\ EndIdsBelowNext /\ EndIdsAreUnique /\ PassedAreLate /\ MissedWereLate

=============================================================================
