---------------------------- MODULE MongoRunIndex ----------------------------
(***************************************************************************)
(* Allocation of the child runs of a job to its nodes.                     *)
(*                                                                         *)
(* A job's document in MongoDB holds "active_runs", one entry per child    *)
(* run.  Every node of the job runs one XT controller; its queue worker    *)
(* claims entries one at a time (storage/mongo_run_index.py), starts the   *)
(* child, and the thread that reads the child's output marks the entry     *)
(* completed when the process ends.  A node may be preempted at any moment *)
(* and boot again, or be asked to restart its controller in place; both    *)
(* open a new session that first puts the node's unfinished entries back.  *)
(*                                                                         *)
(* Each find_and_modify is one atomic action.  A call is made through      *)
(* mongo_with_retries: its reply may be lost after the update was applied, *)
(* and the same command is then sent again.                                *)
(***************************************************************************)
EXTENDS Integers, FiniteSets

CONSTANTS
  NodeCount,        \* nodes of the job
  RunCount,         \* entries of active_runs
  Schedule,         \* the job's "schedule" property: "static" or "dynamic"
  Concurrent,       \* the controller's --concurrent
  MaxCrashes,       \* bound: preemptions of nodes, all nodes together
  MaxRestarts,      \* bound: "restart controller" requests
  MaxLostReplies,   \* bound: replies lost after the update was applied
  ChildrenAreSlow,  \* timing: a child outlives the queue_check that starts it
  GraceSuffices     \* timing: a wrapup ends within on_shutdown's two seconds

ASSUME CountAssumption ==
  /\ NodeCount \in Nat \ {0}
  /\ RunCount \in Nat
  /\ Concurrent \in Nat \ {0}
ASSUME ScheduleAssumption == Schedule \in {"static", "dynamic"}
ASSUME BoundAssumption ==
  /\ MaxCrashes \in Nat
  /\ MaxRestarts \in Nat
  /\ MaxLostReplies \in Nat
ASSUME TimingAssumption ==
  /\ ChildrenAreSlow \in BOOLEAN
  /\ GraceSuffices \in BOOLEAN

Nodes == 0 .. NodeCount - 1
Runs  == 0 .. RunCount - 1

NoNode == -1
NoName == <<>>

EntryStatus ==
  {"unstarted", "started", "restarted", "waiting_for_restart", "completed"}

Active == {"started", "restarted"}

VARIABLES
  \* the job's document
  status,      \* active_runs[r].status
  owner,       \* active_runs[r].node_id
  name,        \* active_runs[r].run_name: <<node of the parent, number>>
  nextChild,   \* ws_counters: next_child.<parent run of node n>
  \* the controllers
  pc,          \* where node n's queue worker is
  fresh,       \* the child name fetched for the claim under way
  stamped,     \* entries that carry the guid of the claim under way
  execs,       \* child runs whose process runs on node n
  wraps,       \* child runs being wrapped up, and how far their thread is
  session,     \* sessions opened by node n
  \* what happened so far, for the bounds
  crashes, restarts, lost

jobVars == <<status, owner, name, nextChild>>
nodeVars == <<pc, fresh, stamped, execs, wraps, session>>
faultVars == <<crashes, restarts, lost>>
vars == <<jobVars, nodeVars, faultVars>>

WrapPhases == {"assert", "write"}

PCs == {"restarting", "ready", "claimWaiting", "getName", "claimUnstarted",
        "idleCheck", "parentDone", "down", "exited", "failed"}

\* The controller process exists.
Up(n) == pc[n] \notin {"down", "exited", "failed"}

WrapsOf(n) == {w \in wraps : w.node = n}

(***************************************************************************)
(* Initial state: build_active_runs deals the runs to the nodes in turn    *)
(* (static) or leaves them without a node (dynamic).                       *)
(***************************************************************************)
\* Mutant: the node index wraps one node too late.
DealtNodeLate(r) == IF Schedule = "static" THEN r % (NodeCount + 1) ELSE NoNode

DealtNode(r) == IF Schedule = "static" THEN r % NodeCount ELSE NoNode

Init ==
  /\ status = [r \in Runs |-> "unstarted"]
  /\ owner = [r \in Runs |-> DealtNode(r)]
  /\ name = [r \in Runs |-> NoName]
  /\ nextChild = [n \in Nodes |-> 1]
  /\ pc = [n \in Nodes |-> "restarting"]
  /\ fresh = [n \in Nodes |-> NoName]
  /\ stamped = [n \in Nodes |-> {}]
  /\ execs = [n \in Nodes |-> {}]
  /\ wraps = {}
  /\ session = [n \in Nodes |-> 1]
  /\ crashes = 0
  /\ restarts = 0
  /\ lost = 0

Goto(n, label) == pc' = [pc EXCEPT ![n] = label]

(***************************************************************************)
(* find_and_modify on active_runs                                          *)
(***************************************************************************)

\* $elemMatch with the positional "$" touches the first entry that matches.
IsFirst(r, S) == r \in S /\ \A q \in S : r <= q

\* Mutant: a static claim takes entries of every node.
ClaimableAnyNode(n, st) == {r \in Runs : status[r] = st}

\* Entries a claim of node n may take from the given status.
Claimable(n, st) ==
  {r \in Runs : status[r] = st /\ (Schedule = "static" => owner[r] = n)}

\* The fields a claim writes; a static claim leaves node_id as it is.
Take(n, r, st, nm) ==
  /\ status' = [status EXCEPT ![r] = st]
  /\ owner' = [owner EXCEPT ![r] = IF Schedule = "static" THEN @ ELSE n]
  /\ name' = [name EXCEPT ![r] = nm]

(***************************************************************************)
(* _restart_runs_for_node: one entry at a time until none is left.         *)
(***************************************************************************)
\* Mutants: the filter without the node, and with every status but two.
ToPutBackAnyNode(n) == {r \in Runs : status[r] \in Active}

ToPutBackFinished(n) ==
  {r \in Runs : owner[r] = n /\ status[r] \notin {"unstarted", "waiting_for_restart"}}

ToPutBack(n) == {r \in Runs : owner[r] = n /\ status[r] \in Active}

PutBack(n) ==
  /\ pc[n] = "restarting"
  /\ \E r \in Runs :
       /\ IsFirst(r, ToPutBack(n))
       /\ status' = [status EXCEPT ![r] = "waiting_for_restart"]
  /\ UNCHANGED <<owner, name, nextChild, nodeVars, faultVars>>

\* Mutant: a single update instead of the loop.
PutBackDoneEarly(n) ==
  /\ pc[n] = "restarting"
  /\ Goto(n, "ready")
  /\ UNCHANGED <<jobVars, fresh, stamped, execs, wraps, session, faultVars>>

PutBackDone(n) ==
  /\ pc[n] = "restarting"
  /\ ToPutBack(n) = {}
  /\ Goto(n, "ready")
  /\ UNCHANGED <<jobVars, fresh, stamped, execs, wraps, session, faultVars>>

(***************************************************************************)
(* queue_check with the parent run at the top of the queue.                *)
(***************************************************************************)
QueueCheck(n) ==
  /\ pc[n] = "ready"
  /\ Goto(n, IF Cardinality(execs[n]) < Concurrent
             THEN "claimWaiting" ELSE "idleCheck")
  /\ stamped' = [stamped EXCEPT ![n] = {}]
  /\ UNCHANGED <<jobVars, fresh, execs, wraps, session, faultVars>>

\* _get_first_entry looks its guid up in the document it gets back: the
\* entry found is the first stamped one, and its child is started at once.
StartChild(n, S) ==
  /\ \E r \in Runs : IsFirst(r, S) /\ execs' = [execs EXCEPT ![n] = @ \cup {r}]
  /\ stamped' = [stamped EXCEPT ![n] = {}]
  /\ fresh' = [fresh EXCEPT ![n] = NoName]
  /\ Goto(n, "idleCheck")
  /\ UNCHANGED <<wraps, session>>

\* The reply is lost: the entry is taken, and the command will be sent again.
LoseReply(n, r) ==
  /\ lost < MaxLostReplies
  /\ lost' = lost + 1
  /\ stamped' = [stamped EXCEPT ![n] = @ \cup {r}]
  /\ UNCHANGED <<pc, fresh, execs, wraps, session, crashes, restarts>>

\* Mutant: a restarted entry gets a new name.
ClaimWaitingRenames(n) ==
  /\ pc[n] = "claimWaiting"
  /\ \E r \in Runs :
       /\ IsFirst(r, Claimable(n, "waiting_for_restart"))
       /\ Take(n, r, "restarted", <<n, nextChild[n]>>)
       /\ StartChild(n, stamped[n] \cup {r})
  /\ nextChild' = [nextChild EXCEPT ![n] = @ + 1]
  /\ UNCHANGED faultVars

\* First half of get_next_child_run: an entry waiting for its restart.
ClaimWaiting(n) ==
  /\ pc[n] = "claimWaiting"
  /\ \E r \in Runs :
       /\ IsFirst(r, Claimable(n, "waiting_for_restart"))
       /\ Take(n, r, "restarted", name[r])
       /\ \/ StartChild(n, stamped[n] \cup {r}) /\ UNCHANGED faultVars
          \/ LoseReply(n, r)
  /\ UNCHANGED nextChild

NoneWaiting(n) ==
  /\ pc[n] = "claimWaiting"
  /\ Claimable(n, "waiting_for_restart") = {}
  /\ Goto(n, "getName")
  /\ stamped' = [stamped EXCEPT ![n] = {}]
  /\ UNCHANGED <<jobVars, fresh, execs, wraps, session, faultVars>>

\* _get_next_child_name: the number is spent even if no entry is left.
GetName(n) ==
  /\ pc[n] = "getName"
  /\ fresh' = [fresh EXCEPT ![n] = <<n, nextChild[n]>>]
  /\ nextChild' = [nextChild EXCEPT ![n] = @ + 1]
  /\ Goto(n, "claimUnstarted")
  /\ UNCHANGED <<status, owner, name, stamped, execs, wraps, session, faultVars>>

\* Second half: an entry never started.
ClaimUnstarted(n) ==
  /\ pc[n] = "claimUnstarted"
  /\ \E r \in Runs :
       /\ IsFirst(r, Claimable(n, "unstarted"))
       /\ Take(n, r, "started", fresh[n])
       /\ \/ StartChild(n, stamped[n] \cup {r}) /\ UNCHANGED faultVars
          \/ LoseReply(n, r)
  /\ UNCHANGED nextChild

\* No entry: get_next_child_run returns None and the parent run completes.
NoneUnstarted(n) ==
  /\ pc[n] = "claimUnstarted"
  /\ Claimable(n, "unstarted") = {}
  /\ Goto(n, "parentDone")
  /\ fresh' = [fresh EXCEPT ![n] = NoName]
  /\ stamped' = [stamped EXCEPT ![n] = {}]
  /\ UNCHANGED <<jobVars, execs, wraps, session, faultVars>>

(***************************************************************************)
(* End of queue_check: on_idle when no run has the status "running".       *)
(***************************************************************************)
NotIdle(n) ==
  /\ pc[n] = "idleCheck"
  /\ execs[n] # {}
  /\ Goto(n, "ready")
  /\ UNCHANGED <<jobVars, fresh, stamped, execs, wraps, session, faultVars>>

\* on_idle, on_shutdown: the process ends, and with it any wrapup that is
\* not over by then.  The parent may still be in the queue.
Shutdown(n) ==
  /\ pc[n] \in {"idleCheck", "parentDone"}
  /\ execs[n] = {}
  /\ GraceSuffices => WrapsOf(n) = {}
  /\ Goto(n, "exited")
  /\ wraps' = wraps \ WrapsOf(n)
  /\ UNCHANGED <<jobVars, fresh, stamped, execs, session, faultVars>>

(***************************************************************************)
(* The thread that reads a child's output.                                 *)
(***************************************************************************)
ChildExit(n, r) ==
  /\ r \in execs[n]
  /\ Up(n)
  /\ ChildrenAreSlow => pc[n] # "idleCheck"
  /\ execs' = [execs EXCEPT ![n] = @ \ {r}]
  /\ wraps' = wraps \cup
       {[node |-> n, run |-> r, session |-> session[n], phase |-> "assert"]}
  /\ UNCHANGED <<jobVars, pc, fresh, stamped, session, faultVars>>

\* mark_child_run_completed, first the assertion on the entry as read ...
MarkAssert(w) ==
  /\ w \in wraps /\ w.phase = "assert"
  /\ status[w.run] # "completed"
  /\ wraps' = (wraps \ {w}) \cup {[w EXCEPT !.phase = "write"]}
  /\ UNCHANGED <<jobVars, pc, fresh, stamped, execs, session, faultVars>>

\* ... whose failure ends the controller (read_from_pipe calls os._exit) ...
MarkFails(w) ==
  /\ w \in wraps /\ w.phase = "assert"
  /\ status[w.run] = "completed"
  /\ Goto(w.node, "failed")
  /\ execs' = [execs EXCEPT ![w.node] = {}]
  /\ wraps' = wraps \ WrapsOf(w.node)
  /\ UNCHANGED <<jobVars, fresh, stamped, session, faultVars>>

\* Mutant: the update without the run_index, which hits the first entry.
MarkWriteFirst(w) ==
  /\ w \in wraps /\ w.phase = "write"
  /\ status' = [status EXCEPT ![0] = "completed"]
  /\ wraps' = wraps \ {w}
  /\ UNCHANGED <<owner, name, nextChild, pc, fresh, stamped, execs, session,
                 faultVars>>

\* ... then the update, which selects the entry by its run_index alone.
MarkWrite(w) ==
  /\ w \in wraps /\ w.phase = "write"
  /\ status' = [status EXCEPT ![w.run] = "completed"]
  /\ wraps' = wraps \ {w}
  /\ UNCHANGED <<owner, name, nextChild, pc, fresh, stamped, execs, session,
                 faultVars>>

(***************************************************************************)
(* Preemption, reboot, and the "restart controller" command.               *)
(***************************************************************************)
Crash(n) ==
  /\ Up(n)
  /\ crashes < MaxCrashes
  /\ crashes' = crashes + 1
  /\ Goto(n, "down")
  /\ execs' = [execs EXCEPT ![n] = {}]
  /\ wraps' = wraps \ WrapsOf(n)
  /\ stamped' = [stamped EXCEPT ![n] = {}]
  /\ fresh' = [fresh EXCEPT ![n] = NoName]
  /\ UNCHANGED <<jobVars, session, restarts, lost>>

\* Mutant: the child numbers start over with the session.
RebootRenumbers(n) ==
  /\ pc[n] = "down"
  /\ Goto(n, "restarting")
  /\ session' = [session EXCEPT ![n] = @ + 1]
  /\ nextChild' = [nextChild EXCEPT ![n] = 1]
  /\ UNCHANGED <<status, owner, name, fresh, stamped, execs, wraps, faultVars>>

Reboot(n) ==
  /\ pc[n] = "down"
  /\ Goto(n, "restarting")
  /\ session' = [session EXCEPT ![n] = @ + 1]
  /\ UNCHANGED <<jobVars, fresh, stamped, execs, wraps, faultVars>>

\* exposed_restart_controller kills the runs without wrapping them up; on_idle
\* then resets the controller.  Threads that were already past the test of
\* killed_for_restart go on with their wrapup.
RestartController(n) ==
  /\ pc[n] \in {"idleCheck", "parentDone"}
  /\ restarts < MaxRestarts
  /\ restarts' = restarts + 1
  /\ execs' = [execs EXCEPT ![n] = {}]
  /\ Goto(n, "restarting")
  /\ session' = [session EXCEPT ![n] = @ + 1]
  /\ UNCHANGED <<jobVars, fresh, stamped, wraps, crashes, lost>>

-----------------------------------------------------------------------------
QueueWorker(n) ==
  \/ PutBack(n)        \/ PutBackDone(n)
  \/ QueueCheck(n)
  \/ ClaimWaiting(n)   \/ NoneWaiting(n)
  \/ GetName(n)
  \/ ClaimUnstarted(n) \/ NoneUnstarted(n)
  \/ NotIdle(n)        \/ Shutdown(n)

Wrapup(n) ==
  \E w \in WrapsOf(n) : MarkAssert(w) \/ MarkFails(w) \/ MarkWrite(w)

AllGone == \A n \in Nodes : pc[n] \in {"exited", "failed"}

\* Every controller has ended.
Terminated == AllGone /\ UNCHANGED vars

Next ==
  \/ \E n \in Nodes :
       \/ QueueWorker(n)
       \/ \E r \in Runs : ChildExit(n, r)
       \/ Wrapup(n)
       \/ Crash(n)
       \/ Reboot(n)
       \/ RestartController(n)
  \/ Terminated

Spec == Init /\ [][Next]_vars

\* Threads of a live controller run, users' processes end, and the service
\* boots a preempted node again.
Fairness ==
  /\ \A n \in Nodes :
       /\ WF_vars(QueueWorker(n))
       /\ WF_vars(Wrapup(n))
       /\ WF_vars(Reboot(n))
  /\ \A n \in Nodes, r \in Runs : SF_vars(ChildExit(n, r))

FairSpec == Spec /\ Fairness

-----------------------------------------------------------------------------
(***************************************************************************)
(* Type invariant                                                          *)
(***************************************************************************)
Names == {NoName} \cup (Nodes \X Nat)

WrapThreads == [node : Nodes, run : Runs, session : Nat, phase : WrapPhases]

\* The document and the controllers' variables have their types.
TypeOK ==
  /\ status \in [Runs -> EntryStatus]
  /\ owner \in [Runs -> Nodes \cup {NoNode}]
  /\ name \in [Runs -> Names]
  /\ nextChild \in [Nodes -> Nat]
  /\ pc \in [Nodes -> PCs]
  /\ fresh \in [Nodes -> Names]
  /\ stamped \in [Nodes -> SUBSET Runs]
  /\ execs \in [Nodes -> SUBSET Runs]
  /\ wraps \in SUBSET WrapThreads
  /\ session \in [Nodes -> Nat]
  /\ crashes \in Nat /\ restarts \in Nat /\ lost \in Nat

(***************************************************************************)
(* Safety                                                                  *)
(***************************************************************************)

\* No two nodes execute the same child run, whatever was preempted, restarted
\* or sent twice: what the claims and _restart_runs_for_node are atomic for.
OneExecutorPerRun ==
  \A m, n \in Nodes : execs[m] \cap execs[n] # {} => m = n

\* A claimed entry is never orphaned: its owner executes it, wraps it up, or
\* will put it back when it opens its next session.
NoOrphan ==
  \A r \in Runs : status[r] \in Active =>
    /\ owner[r] \in Nodes
    /\ LET n == owner[r] IN
       \/ pc[n] \in {"down", "restarting"}
       \/ r \in execs[n]
       \/ \E w \in WrapsOf(n) : w.run = r

\* Two child runs never get the same run_name, not even when one of them was
\* started before a crash and the other after it.
NamesAreUnique ==
  \A q, r \in Runs : name[q] = name[r] /\ name[q] # NoName => q = r

\* The assertion in mark_child_run_completed ("run already marked completed")
\* never fails: no controller dies of it.
NeverMarkedTwice == \A n \in Nodes : pc[n] # "failed"

\* When every controller has shut down normally no entry is left behind,
\* although each of them decides alone that there is nothing more to claim.
NothingLeftBehind ==
  (\A n \in Nodes : pc[n] = "exited") => \A r \in Runs : status[r] = "completed"

\* The entries are in order: names, the entries marked, and those left behind.
EntriesInOrder == NamesAreUnique /\ NeverMarkedTwice /\ NothingLeftBehind

(***************************************************************************)
(* Action properties                                                       *)
(***************************************************************************)

\* "completed" is final: a completed entry is not claimed, put back, renamed
\* or given to another node by a claim, a retry or a restart that overlaps.
CompletedIsFinal ==
  [][\A r \in Runs : status[r] = "completed" =>
       status'[r] = "completed" /\ owner'[r] = owner[r] /\ name'[r] = name[r]]_vars

\* A run keeps its name for life: a restarted run continues under the name
\* its first start gave it, on whichever node it is restarted.
NameIsForLife ==
  [][\A r \in Runs : name[r] # NoName => name'[r] = name[r]]_vars

\* Nobody takes a run away from a node that is up and executes it.
NoTakeover ==
  [][\A n \in Nodes, r \in Runs :
       r \in execs[n] /\ r \in execs'[n] => owner'[r] = n]_vars

(***************************************************************************)
(* Liveness                                                                *)
(***************************************************************************)

\* Every child run of the job is eventually completed, on some node.
EveryRunCompletes == \A r \in Runs : <>(status[r] = "completed")

-----------------------------------------------------------------------------
(***************************************************************************)
(* Refinement: an active entry is held by its owner, an entry never started *)
(* or put back is free.                                                    *)
(***************************************************************************)
DoneRun == -2

Holder ==
  [r \in Runs |-> CASE status[r] \in Active -> owner[r]
                    [] status[r] = "completed" -> DoneRun
                    [] OTHER -> NoNode]

Allocation ==
  INSTANCE RunAllocation WITH holder <- Holder, Free <- NoNode, Done <- DoneRun

\* The document's entries behave as the abstract allocation: only the node
\* that holds a run finishes it, and a run is taken only when it is free.
AllocationSpec == Allocation!Spec

=============================================================================
