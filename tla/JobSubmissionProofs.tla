------------------------- MODULE JobSubmissionProofs -------------------------
(***************************************************************************)
(* Proofs about JobSubmission, for any number of nodes and child runs, any *)
(* service and schedule, a client interrupted anywhere and any number of   *)
(* cancel commands.                                                        *)
(***************************************************************************)
EXTENDS JobSubmission, FiniteSetTheorems, WellFoundedInduction, TLAPS

Statuses == {"none", "completed", "cancelled"} \cup Unwrapped
Controllers ==
  [pc : NodeSteps, entry : Entries \cup {NoEntry}, run : Names \cup {NoRun},
   counted : BOOLEAN]
Users ==
  [op : {"none", "job", "run", "all"}, pc : UserSteps, left : SUBSET Nodes,
   hit : SUBSET Nodes, runs : SUBSET Names, submitted : BOOLEAN]
Tasks == {"none", "waiting", "running", "dying", "ended", "killed"}

-----------------------------------------------------------------------------
(* The inductive invariant *)

\* TypeOK names the fields the program reads; a proof also needs the records
\* they are fields of.
Records ==
  /\ doc \in Documents \cup {NoDoc}
  /\ ctl \in [Nodes -> Controllers]
  /\ user \in Users

\* TypeOK, without the bound on the executions of an entry, which follows from
\* ClaimedTwice.
Typed ==
  /\ job \in Jobs /\ client \in [pc : ClientSteps, node : Nodes]
  /\ files \subseteq {"context", "code"}
  /\ task \in [Nodes -> Tasks]
  /\ status \in [Names -> Statuses] /\ ends \in [Names -> Nat]
  /\ listed \subseteq Names /\ executed \in [Entries -> Nat]
  /\ cancels \in 0..job.cancels /\ reset \in BOOLEAN
  /\ Records

\* Until the primary job info is logged there is nothing but parent runs.
BeforeDoc ==
  ~doc.logged =>
    /\ \A x \in Names : /\ ends[x] = 0
                        /\ status[x] = "none" \/ (status[x] = "created" /\ x[2] = 0)
    /\ \A n \in Nodes : task[n] = "none"
    /\ listed = {} /\ user.pc \in {"idle", "done", "failed"}

AfterDoc ==
  doc.logged => files = {"context", "code"} /\ \A n \in Nodes : status[Parent(n)] # "none"

ClientInOrder ==
  /\ client.pc \in {"runs", "context", "upload", "primary"} => ~doc.logged
  /\ client.pc \in {"submit", "service", "done"} => doc.logged
  /\ client.pc \in {"upload", "primary"} => "context" \in files
  /\ client.pc = "primary" => "code" \in files
  /\ client.pc = "runs" =>
       \A n \in Nodes : n < client.node => status[Parent(n)] # "none"
  /\ client.pc \in {"context", "upload", "primary"} =>
       \A n \in Nodes : status[Parent(n)] # "none"

\* Which tasks have been submitted; on Batch all of them, or none.
TasksInOrder ==
  /\ client.pc = "submit" =>
       \A n \in Nodes : IF job.service = "batch" \/ client.node <= n
                       THEN task[n] = "none" ELSE task[n] # "none"
  /\ client.pc \in {"service", "done"} => \A n \in Nodes : task[n] # "none"
  /\ job.service = "batch" => \A n, m \in Nodes : task[n] = "none" => task[m] = "none"
  /\ Prompt => \A n \in Nodes : task[n] # "dying"

ServicesAreKnown ==
  doc.logged => /\ doc.known <=> client.pc = "done"
                /\ doc.services = IF doc.known THEN Nodes ELSE {}

\* What a controller holds at each of its steps.
Holding == {"spawn", "list", "start"}
NodeInOrder(n) ==
  /\ task[n] \in {"none", "waiting", "ended"} => ctl[n].pc = "off"
  /\ ctl[n].pc \in {"spawn", "list", "start", "run", "finish"} => ctl[n].entry \in Entries
  /\ ctl[n].pc \in {"spawn", "list", "start", "run", "end", "write", "finish"} =>
       /\ ctl[n].run \in RunsOf(n)
       /\ (ctl[n].entry = NoEntry) <=> (ctl[n].run = Parent(n))
  /\ ctl[n].pc = "spawn" =>
       /\ status[ctl[n].run] = "none"
       /\ \A x \in RunsOf(n) : x[2] < ctl[n].run[2] => status[x] # "none"
  /\ ctl[n].pc \in {"list", "start", "run", "end", "write", "finish"} =>
       status[ctl[n].run] # "none"
NodesInOrder == \A n \in Nodes : NodeInOrder(n)

\* The runs of a node are numbered without gaps.
Numbered ==
  \A n \in Nodes : \A x, y \in RunsOf(n) :
    (status[x] # "none" /\ y[2] <= x[2]) => status[y] # "none"

\* Each child was claimed, and an entry is claimed once, or twice when the
\* second write of the document offered it again.
Children == {x \in Names : x[2] > 0 /\ status[x] # "none"}
Spawning == {n \in Nodes : ctl[n].pc = "spawn"}
Claimed == {e \in Entries : doc.logged /\ doc.active_runs[e].status # "unstarted"}
Rounds == IF client.pc = "done" THEN 1 ELSE 0
Holders(e) == {n \in Nodes : ctl[n].pc \in Holding /\ ctl[n].entry = e}
ChildrenAreClaims ==
  Cardinality(Children) + Cardinality(Spawning) <= Cardinality(Claimed) + Rounds * RunCount
ClaimedTwice ==
  \A e \in Entries :
    executed[e] + Cardinality(Holders(e)) <= (IF e \in Claimed THEN 1 ELSE 0) + Rounds

\* The log of a run that has not ended in its document has no end, or the one
\* its controller wrote just now.
Written(n, x) == ctl[n].pc = "write" /\ ctl[n].run = x
EndsOf(n, x) ==
  /\ status[x] \in Unwrapped \cup {"none"} => ends[x] = 0 \/ (ends[x] = 1 /\ Written(n, x))
  /\ status[x] \in {"completed", "cancelled"} => ends[x] > 0
  /\ ends[x] > 1 => ends[x] = 2 /\ task[n] = "killed" /\ Written(n, x)
  /\ Written(n, x) => ends[x] > 0
EndsInOrder == Prompt => \A n \in Nodes : \A x \in RunsOf(n) : EndsOf(n, x)

\* The runs of a node at work are open.
LiveRuns ==
  Prompt => \A n \in Nodes :
    /\ (doc.logged /\ task[n] \in {"none", "waiting"}) => status[Parent(n)] \in Unwrapped
    /\ (task[n] = "running" /\ ctl[n].pc # "idle") => status[Parent(n)] \in Unwrapped
    /\ (task[n] = "running" /\ ctl[n].pc \in {"list", "start", "run", "end", "write"})
         => status[ctl[n].run] \in Unwrapped

\* The cancel command: what it has still to do, and what it has done.
UserInOrder ==
  /\ user.pc \in {"nodes", "query", "task"} => user.left # {}
  /\ user.pc \in {"nodes", "query"} => user.op = "job"
  /\ user.pc = "task" => user.op # "job"
  /\ user.pc # "wrapup" => user.runs = {}
  /\ user.pc \in {"done", "failed"} => user.left = {}
  /\ (user.op = "job" /\ user.pc \in {"nodes", "query", "wrapup"}) => doc.logged /\ doc.known
  /\ (user.op = "job" /\ user.pc = "failed") => ~user.submitted
  /\ user.op # "job" => \A n \in user.left : task[n] # "none"
HitsAreKilled == \A n \in user.hit : Prompt /\ task[n] = "killed"
RunsExist ==
  /\ \A x \in listed : status[x] # "none"
  /\ \A x \in user.runs : status[x] # "none"
UserRunsAreOpen ==
  Prompt => \A n \in Nodes : \A x \in user.runs \cap RunsOf(n) :
    Over(n) /\ status[x] \in Unwrapped
JobCancelled ==
  user.op = "job" =>
    /\ user.pc = "nodes" => \A n \in Nodes \ user.left : Over(n)
    /\ user.pc \in {"query", "wrapup", "done"} =>
         \A n \in Nodes :
           Over(n) /\ (Prompt /\ n \notin user.left => Open(n) \subseteq user.runs)
RunCancelled ==
  (user.op # "job" /\ job.service = "batch") =>
    \A n \in user.hit : \A x \in Open(n) :
      x \in user.runs \/ (x \notin listed /\ x # Parent(n)) \/ Written(n, x)

IInv ==
  /\ Typed /\ BeforeDoc /\ AfterDoc /\ ClientInOrder /\ TasksInOrder /\ ServicesAreKnown
  /\ NodesInOrder /\ Numbered /\ ChildrenAreClaims /\ ClaimedTwice /\ RunsExist
  /\ EndsInOrder /\ LiveRuns /\ UserInOrder /\ HitsAreKilled /\ UserRunsAreOpen
  /\ JobCancelled /\ RunCancelled

-----------------------------------------------------------------------------
(* Names, documents and controllers *)

LEMMA NamesAreRuns ==
  /\ \A n \in Nodes : /\ Parent(n) \in Names /\ Parent(n) \in RunsOf(n)
                      /\ Parent(n)[1] = n /\ Parent(n)[2] = 0
  /\ \A x \in Names : x[1] \in Nodes /\ x[2] \in 0..2 * RunCount /\ x \in RunsOf(x[1])
  /\ \A n \in Nodes : \A x \in RunsOf(n) : x \in Names /\ x[1] = n
                                           /\ (x[2] = 0 <=> x = Parent(n))
  /\ \A n \in Nodes : \A x, y \in RunsOf(n) : x[2] = y[2] => x = y
  /\ \A n, m \in Nodes : \A x \in RunsOf(n) : x \in RunsOf(m) => n = m
  /\ 2 * RunCount \in Nat
<1>1. 2 * RunCount \in Nat /\ 0 \in 0..2 * RunCount
  BY CountsArePositive
<1>2. Names = Nodes \X (0..2 * RunCount)
  BY DEF Names
<1> HIDE DEF Nodes
<1>3. \A n \in Nodes : /\ Parent(n) \in Names /\ Parent(n) \in RunsOf(n)
                       /\ Parent(n)[1] = n /\ Parent(n)[2] = 0
  BY <1>1, <1>2 DEF Parent, RunsOf
<1>4. \A x \in Names : /\ x[1] \in Nodes /\ x[2] \in 0..2 * RunCount /\ x \in RunsOf(x[1])
                       /\ x = <<x[1], x[2]>>
  BY <1>2 DEF RunsOf
<1>5. \A n \in Nodes : \A x \in RunsOf(n) : x \in Names /\ x[1] = n
  BY DEF RunsOf
<1>6. \A n \in Nodes : \A x, y \in RunsOf(n) : x[2] = y[2] => x = y
  BY <1>4, <1>5
<1>7. \A n \in Nodes : \A x \in RunsOf(n) : x[2] = 0 <=> x = Parent(n)
  BY <1>3, <1>6
<1>8. \A n, m \in Nodes : \A x \in RunsOf(n) : x \in RunsOf(m) => n = m
  BY <1>5
<1> QED BY <1>1, <1>3, <1>4, <1>5, <1>6, <1>7, <1>8

LEMMA LoggedIsADocument ==
  ASSUME doc \in Documents \cup {NoDoc}
  PROVE  doc.logged \in BOOLEAN /\ (doc.logged <=> doc \in Documents)
<1>1. ASSUME doc \in Documents PROVE doc.logged = TRUE
  BY <1>1 DEF Documents
<1>2. NoDoc.logged = FALSE
  BY DEF NoDoc
<1> QED BY <1>1, <1>2

\* What the document becomes in each of the steps that write it.
ActiveRun == [status : {"unstarted", "started", "completed"}, node : Nodes \cup {AnyNode}]

LEMMA PrimaryIsADocument ==
  ASSUME job \in Jobs
  PROVE  /\ PrimaryInfo \in Documents /\ PrimaryInfo.known = FALSE
         /\ PrimaryInfo.services = {}
         /\ \A e \in Entries : PrimaryInfo.active_runs[e].status = "unstarted"
         /\ [PrimaryInfo EXCEPT !.known = TRUE, !.services = Nodes] \in Documents
         /\ [PrimaryInfo EXCEPT !.known = TRUE, !.services = Nodes].known = TRUE
         /\ [PrimaryInfo EXCEPT !.known = TRUE, !.services = Nodes].services = Nodes
         /\ \A e \in Entries :
              [PrimaryInfo EXCEPT !.known = TRUE, !.services = Nodes].active_runs[e].status
                = "unstarted"
<1>1. BuildActiveRuns \in [Entries -> ActiveRun]
  <2>1. \A e \in Entries : e % NodeCount \in Nodes
    BY CountsArePositive DEF Entries, Nodes
  <2> QED BY <2>1 DEF BuildActiveRuns, ActiveRun
<1>2. \A e \in Entries : BuildActiveRuns[e].status = "unstarted"
  BY DEF BuildActiveRuns
<1> HIDE DEF BuildActiveRuns
<1>3. PrimaryInfo \in Documents
  BY <1>1 DEF PrimaryInfo, Documents, ActiveRun
<1>4. /\ PrimaryInfo.known = FALSE /\ PrimaryInfo.services = {}
      /\ PrimaryInfo.active_runs = BuildActiveRuns
  BY DEF PrimaryInfo
<1> DEFINE known == [PrimaryInfo EXCEPT !.known = TRUE, !.services = Nodes]
<1> HIDE DEF PrimaryInfo
<1>5. /\ known \in Documents /\ known.known = TRUE /\ known.services = Nodes
      /\ known.active_runs = PrimaryInfo.active_runs
  BY <1>3 DEF Documents
<1> QED BY <1>2, <1>3, <1>4, <1>5

\* A document written by a controller or a cancel command keeps what the
\* client told in it.
Rewrites(old, new) ==
  /\ new \in Documents /\ new.known = old.known /\ new.services = old.services

LEMMA ClaimedDocument ==
  ASSUME doc \in Documents, NEW e \in Entries, NEW n \in Nodes,
         NEW new, new = [doc EXCEPT !.active_runs[e] = [status |-> "started", node |-> n]]
  PROVE  /\ Rewrites(doc, new) /\ new.active_runs[e].status = "started"
         /\ \A f \in Entries : f # e => new.active_runs[f] = doc.active_runs[f]
BY DEF Documents, Rewrites

\* A document whose counters change.
LEMMA CountedDocument ==
  ASSUME doc \in Documents, NEW new, NEW nodes \in Int, NEW runs \in Int,
         NEW done \in Nat, NEW s \in {"submitted", "running", "completed"},
         \/ new = [doc EXCEPT !.running_runs = runs]
         \/ new = [doc EXCEPT !.running_runs = runs, !.completed_runs = done]
         \/ new = [doc EXCEPT !.running_nodes = nodes, !.job_status = s]
         \/ new = [doc EXCEPT !.running_runs = runs, !.running_nodes = nodes,
                              !.job_status = s]
  PROVE  Rewrites(doc, new) /\ new.active_runs = doc.active_runs
<1>1. CASE new = [doc EXCEPT !.running_runs = runs]
  BY <1>1 DEF Documents, Rewrites
<1>2. CASE new = [doc EXCEPT !.running_runs = runs, !.completed_runs = done]
  BY <1>2 DEF Documents, Rewrites
<1>3. CASE new = [doc EXCEPT !.running_nodes = nodes, !.job_status = s]
  BY <1>3 DEF Documents, Rewrites
<1>4. CASE new = [doc EXCEPT !.running_runs = runs, !.running_nodes = nodes,
                             !.job_status = s]
  BY <1>4 DEF Documents, Rewrites
<1> QED BY <1>1, <1>2, <1>3, <1>4

LEMMA CountsAreNumbers ==
  ASSUME doc \in Documents
  PROVE  /\ doc.running_nodes + 1 \in Int /\ doc.running_nodes - 1 \in Int
         /\ doc.running_runs + 1 \in Int /\ doc.running_runs - 1 \in Int
         /\ doc.completed_runs + 1 \in Nat
         /\ doc.job_status \in {"submitted", "running", "completed"}
BY DEF Documents

LEMMA FinishedDocument ==
  ASSUME doc \in Documents, NEW e \in Entries, NEW new,
         new = [doc EXCEPT !.running_runs = @ - 1, !.completed_runs = @ + 1,
                           !.active_runs[e].status = "completed"]
  PROVE  /\ Rewrites(doc, new) /\ new.active_runs[e].status = "completed"
         /\ \A f \in Entries : f # e => new.active_runs[f] = doc.active_runs[f]
<1>1. PICK r \in Int : r = doc.running_runs - 1
  BY DEF Documents
<1>2. PICK k \in Nat : k = doc.completed_runs + 1
  BY DEF Documents
<1>3. new = [doc EXCEPT !.running_runs = r, !.completed_runs = k,
                        !.active_runs[e].status = "completed"]
  BY <1>1, <1>2
<1> DEFINE runs == [doc.active_runs EXCEPT ![e].status = "completed"]
<1>4. /\ runs \in [Entries -> ActiveRun] /\ runs[e].status = "completed"
      /\ \A f \in Entries : f # e => runs[f] = doc.active_runs[f]
  BY DEF Documents, ActiveRun
<1>5. new = [doc EXCEPT !.running_runs = r, !.completed_runs = k, !.active_runs = runs]
  BY <1>3 DEF Documents
<1> HIDE DEF runs
<1> QED BY <1>4, <1>5 DEF Documents, Rewrites, ActiveRun

LEMMA ControllerGoesOn ==
  ASSUME ctl \in [Nodes -> Controllers], NEW n \in Nodes, NEW pc \in NodeSteps,
         CtlTo(n, pc)
  PROVE  /\ ctl' \in [Nodes -> Controllers] /\ ctl'[n].pc = pc
         /\ ctl'[n].entry = ctl[n].entry /\ ctl'[n].run = ctl[n].run
         /\ ctl'[n].counted = ctl[n].counted
         /\ \A m \in Nodes : m # n => ctl'[m] = ctl[m]
BY DEF CtlTo, Controllers

Takes(n, pc, e, x) == ctl' = [ctl EXCEPT ![n].pc = pc, ![n].entry = e, ![n].run = x]

LEMMA ControllerTakes ==
  ASSUME ctl \in [Nodes -> Controllers], NEW n \in Nodes, NEW pc \in NodeSteps,
         NEW e \in Entries \cup {NoEntry}, NEW x \in Names,
         Takes(n, pc, e, x)
  PROVE  /\ ctl' \in [Nodes -> Controllers] /\ ctl'[n].pc = pc
         /\ ctl'[n].entry = e /\ ctl'[n].run = x
         /\ \A m \in Nodes : m # n => ctl'[m] = ctl[m]
BY DEF Controllers, Takes

LEMMA LeastExists ==
  ASSUME NEW S \in SUBSET Nat, S # {} PROVE \E x \in S : \A y \in S : x <= y
<1> DEFINE R == {ss \in Nat \X Nat : ss[1] < ss[2]}
<1>1. R = OpToRel(<, Nat)
  BY DEF OpToRel
<1>2. IsWellFoundedOn(R, Nat)
  BY <1>1, NatLessThanWellFounded
<1>3. \E x \in S : \A y \in S : ~ (<<y, x>> \in R)
  <2> HIDE DEF R
  <2> QED BY <1>2, WFMin
<1>4. PICK x \in S : \A y \in S : ~ (<<y, x>> \in R)
  BY <1>3
<1>5. ASSUME NEW y \in S PROVE x <= y
  <2>1. x \in Nat /\ y \in Nat
    OBVIOUS
  <2>2. <<y, x>> \in Nat \X Nat /\ <<y, x>> \notin R
    BY <1>4, <2>1
  <2>3. ~ (y < x)
    BY <2>2
  <2> QED BY <2>1, <2>3
<1> QED BY <1>5

\* Min picks an element of the set, for the least node and the least entry.
LEMMA MinIsIn ==
  ASSUME NEW S, S # {}, S \subseteq Nodes \/ S \subseteq Entries
  PROVE  Min(S) \in S
<1>1. S \in SUBSET Nat
  BY CountsArePositive DEF Nodes, Entries
<1> QED BY <1>1, LeastExists DEF Min

-----------------------------------------------------------------------------
(* What a command's first step does *)

LEMMA CommandStarts ==
  ASSUME Typed, NEW op \in {"job", "run", "all"}, NEW fails \in BOOLEAN,
         NEW targets \in SUBSET Nodes, NEW pc \in {"nodes", "task"},
         Command(op, fails, targets, pc)
  PROVE  /\ user.pc \in {"idle", "done", "failed"}
         /\ cancels' \in 0..job.cancels
         /\ UNCHANGED <<job, client, files, doc, nodeVars, runVars, reset>>
         /\ user' \in Users /\ user'.op = op /\ user'.hit = {} /\ user'.runs = {}
         /\ fails => user'.pc = "failed" /\ user'.left = {}
         /\ (~fails /\ targets = {}) => user'.pc = "done" /\ user'.left = {}
         /\ (~fails /\ targets # {}) => user'.pc = pc /\ user'.left = targets
         /\ user'.submitted = (client.pc = "done")
<1> DEFINE next == IF fails THEN "failed" ELSE IF targets = {} THEN "done" ELSE pc
           left == IF fails THEN {} ELSE targets
<1>1. user' = [op |-> op, pc |-> next, left |-> left, hit |-> {}, runs |-> {},
               submitted |-> (client.pc = "done")]
  BY DEF Command, NoUser
<1>2. next \in UserSteps /\ left \in SUBSET Nodes
  BY DEF UserSteps
<1>3. cancels' \in 0..job.cancels
  BY KnownJobs DEF Command, MayCancel, Typed
<1> HIDE DEF next, left
<1>4. user' \in Users
  BY <1>1, <1>2 DEF Users
<1>5. /\ user'.op = op /\ user'.hit = {} /\ user'.runs = {} /\ user'.pc = next
      /\ user'.left = left /\ user'.submitted = (client.pc = "done")
  BY <1>1
<1> QED BY <1>3, <1>4, <1>5 DEF Command, MayCancel, next, left

Commands == \/ CancelJob \/ CancelAll \/ CancelAllOnBatch
            \/ \E n \in Nodes : CancelRun(n) \/ CancelRunOnBatch(n)

\* It ends at once, or it has the nodes of a submitted job to deal with.
Commanded ==
  /\ user.pc \in {"idle", "done", "failed"} /\ cancels' \in 0..job.cancels
  /\ UNCHANGED <<job, client, files, doc, nodeVars, runVars, reset>>
  /\ user' \in Users /\ user'.hit = {} /\ user'.runs = {}
  /\ \/ /\ user'.pc \in {"done", "failed"} /\ user'.left = {}
        /\ user'.op = "job" => user'.pc = "failed" /\ ~user'.submitted
     \/ user'.op = "job" /\ user'.pc = "nodes" /\ user'.left = Nodes
        /\ doc.logged /\ doc.known
     \/ user'.op # "job" /\ user'.pc = "task" /\ user'.left # {}
        /\ doc.logged /\ \A n \in user'.left : task[n] # "none"

LEMMA CommandsStart == IInv /\ Commands => Commanded
<1> SUFFICES ASSUME Typed, BeforeDoc, TasksInOrder, ServicesAreKnown, ClientInOrder, Commands
             PROVE  Commanded
  BY DEF IInv
<1> USE DEF Commanded
<1>0. /\ doc.logged \in BOOLEAN /\ (doc.logged => doc.known \in BOOLEAN)
      /\ Nodes # {} /\ 0 \in Nodes
  <2>1. doc \in Documents \cup {NoDoc}
    BY DEF Typed, Records
  <2>2. doc.logged \in BOOLEAN /\ (doc.logged <=> doc \in Documents)
    BY <2>1, LoggedIsADocument
  <2>3. doc \in Documents => doc.known \in BOOLEAN
    BY DEF Documents
  <2>4. 0 \in Nodes
    BY CountsArePositive DEF Nodes
  <2> QED BY <2>2, <2>3, <2>4
<1>1. doc.logged => doc.services \in SUBSET Nodes /\ (doc.services # {} => doc.known)
  <2>1. CASE doc.logged /\ doc.known
    BY <2>1 DEF ServicesAreKnown
  <2>2. CASE doc.logged /\ ~doc.known
    BY <2>2 DEF ServicesAreKnown
  <2> QED BY <2>1, <2>2
<1>2. doc.logged /\ doc.known => \A n \in Nodes : task[n] # "none"
  BY DEF ServicesAreKnown, TasksInOrder
<1>3. CASE CancelJob
  <2> DEFINE known == doc.logged /\ doc.known
             targets == IF known THEN doc.services ELSE {}
  <2>1. known \in BOOLEAN /\ (~known) \in BOOLEAN /\ targets \in SUBSET Nodes
    <3>1. targets \in SUBSET Nodes
      BY <1>1
    <3> QED BY <3>1, Zenon
  <2>2. Command("job", ~known, targets, "nodes")
    BY <1>3 DEF CancelJob
  <2>3. known => targets = Nodes /\ client.pc = "done"
    BY DEF ServicesAreKnown
  <2>4. ~known => client.pc # "done"
    BY <1>0 DEF ServicesAreKnown, ClientInOrder
  <2>5. known => doc.logged /\ doc.known
    OBVIOUS
  <2> HIDE DEF known, targets
  <2> QED BY <1>0, <2>1, <2>2, <2>3, <2>4, <2>5, CommandStarts
<1>4. CASE CancelAll
  <2> DEFINE fails == job.service = "pool" /\ ActiveJob /\ ~doc.known
             targets == IF job.service = "pool" /\ ActiveJob THEN doc.services ELSE {}
  <2>1. fails \in BOOLEAN /\ targets \in SUBSET Nodes
    BY <1>0, <1>1 DEF ActiveJob
  <2>2. Command("all", fails, targets, "task")
    BY <1>4 DEF CancelAll
  <2>3. targets # {} => doc.logged /\ \A n \in targets : task[n] # "none"
    BY <1>1, <1>2, <2>1 DEF ActiveJob
  <2> HIDE DEF fails, targets
  <2> QED BY <2>1, <2>2, <2>3, CommandStarts
<1>5. CASE CancelAllOnBatch
  <2> DEFINE fails == doc.logged /\ task[0] = "none"
             targets == IF doc.logged /\ \E n \in Nodes : ~Over(n) THEN Nodes ELSE {}
  <2>1. fails \in BOOLEAN /\ targets \in SUBSET Nodes
    BY <1>0
  <2>2. Command("all", fails, targets, "task") /\ job.service = "batch"
    BY <1>5 DEF CancelAllOnBatch
  <2>3. (targets # {} /\ ~fails) => doc.logged /\ \A n \in targets : task[n] # "none"
    BY <1>0, <2>2 DEF TasksInOrder
  <2> HIDE DEF fails, targets
  <2> QED BY <2>1, <2>2, <2>3, CommandStarts
<1>6. ASSUME NEW n \in Nodes, CancelRun(n) PROVE Commanded
  <2> DEFINE fails == job.service = "pool" /\ ActiveJob /\ ~doc.known
             targets == IF ActiveJob THEN {n} \cap doc.services ELSE {}
  <2>1. fails \in BOOLEAN /\ targets \in SUBSET Nodes
    BY <1>0, <1>1 DEF ActiveJob
  <2>2. Command("run", fails, targets, "task")
    BY <1>6 DEF CancelRun
  <2>3. targets # {} => doc.logged /\ \A m \in targets : task[m] # "none"
    BY <1>1, <1>2, <2>1 DEF ActiveJob
  <2> HIDE DEF fails, targets
  <2> QED BY <2>1, <2>2, <2>3, CommandStarts
<1>7. ASSUME NEW n \in Nodes, CancelRunOnBatch(n) PROVE Commanded
  <2> DEFINE fails == task[n] = "none"
             targets == {n}
  <2>1. fails \in BOOLEAN /\ targets \in SUBSET Nodes
    OBVIOUS
  <2>2. Command("run", fails, targets, "task") /\ job.service = "batch"
    BY <1>7 DEF CancelRunOnBatch
  <2>3. targets # {} /\ (~fails => doc.logged /\ \A m \in targets : task[m] # "none")
    BY <1>0 DEF BeforeDoc
  <2> HIDE DEF fails, targets
  <2> QED BY <2>1, <2>2, <2>3, CommandStarts
<1> QED BY <1>3, <1>4, <1>5, <1>6, <1>7 DEF Commands

\* What the further steps of a command do: with the nodes it has left, of which
\* it takes the least; with a node's task; with the runs of a node.
LEMMA NodeKilled ==
  ASSUME Typed, TasksInOrder, NEW n \in Nodes, KillNode(n)
  PROVE  /\ task' \in [Nodes -> Tasks]
         /\ \A m \in Nodes : m # n => task'[m] = task[m]
         /\ Over(n) => task' = task
         /\ task'[n] \in {"ended", "killed", "dying"}
         /\ Prompt => task'[n] # "dying" /\ (~Over(n) => task'[n] = "killed")
BY DEF Typed, TasksInOrder, KillNode, Over, Tasks

NodeDealtWith(n) ==
  /\ user.pc = "nodes" /\ KillNode(n)
  /\ user' \in Users /\ user'.op = user.op /\ user'.submitted = user.submitted
  /\ user'.runs = user.runs /\ user'.hit = user.hit \cup Hit(n)
  /\ \/ user.left = {n} /\ user'.pc = "query" /\ user'.left = doc.services
     \/ user.left # {n} /\ user'.pc = "nodes" /\ user'.left = user.left \ {n}
  /\ UNCHANGED <<job, client, files, doc, ctl, listed, executed, runVars, cancels, reset>>

RunsQueried(n) ==
  /\ user.pc = "query"
  /\ user' \in Users /\ user'.op = user.op /\ user'.submitted = user.submitted
  /\ user'.hit = user.hit /\ user'.left = user.left \ {n} /\ user'.pc = "wrapup"
  /\ user'.runs = Open(n)
  /\ UNCHANGED <<job, client, files, doc, nodeVars, runVars, cancels, reset>>

TaskKilled(n) ==
  /\ user.pc = "task" /\ KillNode(n)
  /\ user' \in Users /\ user'.op = user.op /\ user'.submitted = user.submitted
  /\ user'.hit = user.hit \cup Hit(n) /\ user'.left = user.left \ {n}
  /\ user'.pc = "wrapup" /\ user'.runs = (IF Over(n) THEN {} ELSE LogsToEnd(n))
  /\ UNCHANGED <<job, client, files, doc, ctl, listed, executed, runVars, cancels, reset>>

RunEnded(x) ==
  /\ user.pc = "wrapup" /\ x \in user.runs
  /\ EndRecord(x) /\ SetStatus(x, "cancelled")
  /\ user' \in Users /\ user'.op = user.op /\ user'.submitted = user.submitted
  /\ user'.hit = user.hit /\ user'.left = user.left /\ user'.pc = "wrapup"
  /\ user'.runs = user.runs \ {x}
  /\ doc' = [doc EXCEPT !.running_runs = @ - 1, !.completed_runs = @ + 1]
  /\ UNCHANGED <<job, client, files, nodeVars, cancels, reset>>

RunsDone ==
  /\ user.pc = "wrapup" /\ user.runs = {}
  /\ user' \in Users /\ user'.op = user.op /\ user'.submitted = user.submitted
  /\ user'.hit = user.hit /\ user'.left = user.left /\ user'.runs = {}
  /\ user'.pc = (IF user.left = {} THEN "done"
                 ELSE IF user.op = "job" THEN "query" ELSE "task")
  /\ UNCHANGED <<job, client, files, doc, nodeVars, runVars, cancels, reset>>

CommandGoesOn ==
  \/ \E n \in user.left : n \in Nodes /\ (NodeDealtWith(n) \/ RunsQueried(n) \/ TaskKilled(n))
  \/ \E x \in Names : RunEnded(x)
  \/ RunsDone

LEMMA CommandGoes == IInv /\ Cancelling => CommandGoesOn
<1> SUFFICES ASSUME Typed, ServicesAreKnown, UserInOrder, Cancelling
             PROVE  CommandGoesOn
  BY DEF IInv
<1>0. /\ user \in Users /\ user.left \in SUBSET Nodes /\ user.runs \in SUBSET Names
      /\ user.hit \in SUBSET Nodes /\ user.pc \in UserSteps
  BY DEF Typed, Records, Users
<1> DEFINE n == Min(user.left)
<1>1. user.pc \in {"nodes", "query", "task"} => n \in user.left /\ n \in Nodes
  BY <1>0, MinIsIn DEF UserInOrder
<1> HIDE DEF n
<1>2. \A m \in Nodes : Hit(m) \in SUBSET Nodes /\ Open(m) \in SUBSET Names
                       /\ LogsToEnd(m) \in SUBSET Names
  BY DEF Hit, Open, LogsToEnd, RunsOf
<1>3. CASE CancelNode
  <2> DEFINE next == IF user.left = {n} THEN "query" ELSE user.pc
             left == IF user.left = {n} THEN doc.services ELSE user.left \ {n}
  <2>1. user.pc = "nodes" /\ KillNode(n)
        /\ user' = [user EXCEPT !.pc = next, !.left = left, !.hit = user.hit \cup Hit(n)]
    BY <1>3 DEF CancelNode, n
  <2>2. doc.services \in SUBSET Nodes
    <3>1. doc.logged /\ doc.known
      BY <2>1 DEF UserInOrder
    <3> QED BY <3>1 DEF ServicesAreKnown
  <2>3. next \in UserSteps /\ left \in SUBSET Nodes
    BY <1>0, <2>2 DEF UserSteps
  <2>4. /\ user' \in Users /\ user'.op = user.op /\ user'.submitted = user.submitted
        /\ user'.runs = user.runs /\ user'.hit = user.hit \cup Hit(n)
        /\ user'.pc = next /\ user'.left = left
    <3> HIDE DEF next, left
    <3> QED BY <1>0, <1>1, <1>2, <2>1, <2>3 DEF Users
  <2>5. NodeDealtWith(n)
    BY <1>3, <2>1, <2>4 DEF CancelNode, NodeDealtWith
  <2> QED BY <1>1, <2>1, <2>5 DEF CommandGoesOn
<1>4. CASE QueryRuns
  <2>1. user.pc = "query"
        /\ user' = [user EXCEPT !.left = user.left \ {n}, !.pc = "wrapup", !.runs = Open(n)]
    BY <1>4 DEF QueryRuns, n
  <2>2. Open(n) \in SUBSET Names
    BY <1>1, <1>2, <2>1
  <2>3. /\ user' \in Users /\ user'.op = user.op /\ user'.submitted = user.submitted
        /\ user'.hit = user.hit /\ user'.left = user.left \ {n} /\ user'.pc = "wrapup"
        /\ user'.runs = Open(n)
    BY <1>0, <2>1, <2>2 DEF Users, UserSteps
  <2>4. RunsQueried(n)
    BY <1>4, <2>1, <2>3 DEF QueryRuns, RunsQueried
  <2> QED BY <1>1, <2>1, <2>4 DEF CommandGoesOn
<1>5. CASE KillTask
  <2> DEFINE runs == IF Over(n) THEN {} ELSE LogsToEnd(n)
  <2>1. user.pc = "task" /\ KillNode(n)
        /\ user' = [user EXCEPT !.pc = "wrapup", !.left = user.left \ {n},
                                !.hit = user.hit \cup Hit(n), !.runs = runs]
    BY <1>5 DEF KillTask, n
  <2>2. runs \in SUBSET Names
    BY <1>1, <1>2, <2>1
  <2> HIDE DEF runs
  <2>3. /\ user' \in Users /\ user'.op = user.op /\ user'.submitted = user.submitted
        /\ user'.hit = user.hit \cup Hit(n) /\ user'.left = user.left \ {n}
        /\ user'.pc = "wrapup" /\ user'.runs = runs
    BY <1>0, <1>1, <1>2, <2>1, <2>2 DEF Users, UserSteps
  <2>4. TaskKilled(n)
    BY <1>5, <2>1, <2>3 DEF KillTask, TaskKilled, runs
  <2> QED BY <1>1, <2>1, <2>4 DEF CommandGoesOn
<1>6. CASE WrapUpRun
  <2>1. PICK x \in user.runs : /\ EndRecord(x) /\ SetStatus(x, "cancelled")
                               /\ user' = [user EXCEPT !.runs = user.runs \ {x}]
    BY <1>6 DEF WrapUpRun
  <2>2. /\ user' \in Users /\ user'.op = user.op /\ user'.submitted = user.submitted
        /\ user'.hit = user.hit /\ user'.left = user.left /\ user'.pc = user.pc
        /\ user'.runs = user.runs \ {x}
    BY <1>0, <2>1 DEF Users
  <2>3. RunEnded(x)
    BY <1>6, <2>1, <2>2 DEF WrapUpRun, RunEnded
  <2> QED BY <1>0, <2>3 DEF CommandGoesOn
<1>7. CASE RunsWrappedUp
  <2> DEFINE next == IF user.left = {} THEN "done"
                     ELSE IF user.op = "job" THEN "query" ELSE "task"
  <2>1. next \in UserSteps /\ user' = [user EXCEPT !.pc = next]
    BY <1>7 DEF RunsWrappedUp, UserSteps
  <2>2. user' \in Users /\ user'.op = user.op /\ user'.submitted = user.submitted
        /\ user'.hit = user.hit /\ user'.left = user.left /\ user'.runs = user.runs
        /\ user'.pc = next
    <3> HIDE DEF next
    <3> QED BY <1>0, <2>1 DEF Users
  <2> QED BY <1>7, <2>2 DEF RunsWrappedUp, RunsDone, CommandGoesOn
<1> QED BY <1>3, <1>4, <1>5, <1>6, <1>7 DEF Cancelling

-----------------------------------------------------------------------------
(* Counting: the names of runs, and the next one of a node *)

LEMMA Finite ==
  /\ IsFiniteSet(Nodes) /\ IsFiniteSet(Names)
  /\ IsFiniteSet(Entries) /\ Cardinality(Entries) = RunCount
<1>0. /\ NodeCount - 1 \in Int /\ 2 * RunCount \in Int /\ RunCount - 1 \in Int
      /\ RunCount \in Nat /\ RunCount > 0 /\ RunCount - 1 - 0 + 1 = RunCount
  BY CountsArePositive
<1>1. IsFiniteSet(Nodes)
  BY <1>0, FS_Interval DEF Nodes
<1>2. IsFiniteSet(0..2 * RunCount)
  BY <1>0, FS_Interval
<1>3. IsFiniteSet(Names)
  BY <1>1, <1>2, FS_Product DEF Names
<1>4. PICK high \in Int : high = RunCount - 1
  BY <1>0
<1>5. IsFiniteSet(0..high) /\ Cardinality(0..high) = IF 0 > high THEN 0 ELSE high - 0 + 1
  BY FS_Interval
<1>6. IsFiniteSet(Entries) /\ Cardinality(Entries) = RunCount
  BY <1>0, <1>4, <1>5 DEF Entries
<1> QED BY <1>1, <1>3, <1>6

LEMMA FirstRuns ==
  ASSUME NEW n, NEW k \in Nat
  PROVE  IsFiniteSet({n} \X (0..k - 1)) /\ Cardinality({n} \X (0..k - 1)) = k
<1>1. PICK high \in Int : high = k - 1
  OBVIOUS
<1>2. IsFiniteSet(0..high) /\ Cardinality(0..high) = IF 0 > high THEN 0 ELSE high - 0 + 1
  BY FS_Interval
<1>3. Cardinality(0..high) = k
  BY <1>1, <1>2
<1>4. IsFiniteSet({n}) /\ Cardinality({n}) = 1
  BY FS_Singleton
<1>5. /\ IsFiniteSet({n} \X (0..high))
      /\ Cardinality({n} \X (0..high)) = Cardinality({n}) * Cardinality(0..high)
  BY <1>2, <1>4, FS_Product
<1>6. Cardinality({n} \X (0..high)) = k
  BY <1>3, <1>4, <1>5
<1> QED BY <1>1, <1>5, <1>6

LEMMA CountedSets ==
  ASSUME IInv
  PROVE  /\ IsFiniteSet(Children) /\ Cardinality(Children) \in Nat
         /\ IsFiniteSet(Spawning) /\ Cardinality(Spawning) \in Nat
         /\ IsFiniteSet(Claimed) /\ Cardinality(Claimed) \in 0..RunCount
         /\ \A e \in Entries : IsFiniteSet(Holders(e)) /\ Cardinality(Holders(e)) \in Nat
         /\ Rounds \in 0..1
<1>1. /\ Children \in SUBSET Names /\ Spawning \in SUBSET Nodes /\ Claimed \in SUBSET Entries
      /\ \A e \in Entries : Holders(e) \in SUBSET Nodes
  BY DEF Children, Spawning, Claimed, Holders
<1>2. IsFiniteSet(Children) /\ IsFiniteSet(Spawning)
  BY <1>1, Finite, FS_Subset
<1>3. IsFiniteSet(Claimed) /\ Cardinality(Claimed) <= RunCount
  BY <1>1, Finite, FS_Subset
<1>4. \A e \in Entries : IsFiniteSet(Holders(e))
  BY <1>1, Finite, FS_Subset
<1>5. RunCount \in Nat
  BY CountsArePositive
<1>6. Cardinality(Children) \in Nat /\ Cardinality(Spawning) \in Nat
      /\ Cardinality(Claimed) \in Nat
  BY <1>2, <1>3, FS_CardinalityType
<1>7. \A e \in Entries : Cardinality(Holders(e)) \in Nat
  BY <1>4, FS_CardinalityType
<1> QED BY <1>2, <1>3, <1>4, <1>5, <1>6, <1>7 DEF Rounds

\* The number a controller gives its next child is the next one, and there is
\* a name for it.
LEMMA NextIsFresh ==
  ASSUME IInv, NEW n \in Nodes, NEW e \in Claimable(n), doc.logged
  PROVE  /\ NextChild(n) \in RunsOf(n) /\ NextChild(n) # Parent(n)
         /\ status[NextChild(n)] = "none"
         /\ \A x \in RunsOf(n) : x[2] < NextChild(n)[2] => status[x] # "none"
<1> DEFINE there == {x \in RunsOf(n) : status[x] # "none"}
           k == Cardinality(there)
<1>0. /\ Numbered /\ AfterDoc /\ ChildrenAreClaims /\ RunCount \in Nat
      /\ \A x \in RunsOf(n) : x = <<n, x[2]>> /\ x[2] \in Nat
  BY CountsArePositive, NamesAreRuns DEF IInv, RunsOf, Names
<1>1. IsFiniteSet(there) /\ k \in Nat
  <2>1. there \in SUBSET Names
    BY NamesAreRuns
  <2>2. IsFiniteSet(there)
    BY <2>1, Finite, FS_Subset
  <2> QED BY <2>2, FS_CardinalityType
<1> HIDE DEF k
<1>2. k <= 2 * RunCount
  <2>1. there \ {Parent(n)} \in SUBSET Children
    BY NamesAreRuns DEF Children
  <2>2. /\ IsFiniteSet(there \ {Parent(n)})
        /\ Cardinality(there \ {Parent(n)}) <= Cardinality(Children)
    BY <2>1, CountedSets, FS_Subset
  <2>3. /\ IsFiniteSet(there \ {Parent(n)})
        /\ Cardinality(there \ {Parent(n)}) >= k - 1
    <3> HIDE DEF there
    <3>1. /\ IsFiniteSet(there \ {Parent(n)})
          /\ Cardinality(there \ {Parent(n)})
               = IF Parent(n) \in there THEN Cardinality(there) - 1 ELSE Cardinality(there)
      BY <1>1, FS_RemoveElement
    <3> QED BY <1>1, <3>1 DEF k
  <2>4. Claimed \in SUBSET (Entries \ {e}) /\ e \in Entries
    BY DEF Claimed, Claimable
  <2>5. IsFiniteSet(Entries \ {e}) /\ Cardinality(Entries \ {e}) = RunCount - 1
    BY <2>4, Finite, FS_RemoveElement
  <2>6. Cardinality(Claimed) <= RunCount - 1
    BY <2>4, <2>5, FS_Subset
  <2>7. Cardinality(there \ {Parent(n)}) \in Nat
    BY <2>2, FS_CardinalityType
  <2>8. Cardinality(Children) <= 2 * RunCount - 1
    <3>1. Rounds * RunCount <= RunCount
      BY <1>0 DEF Rounds
    <3>2. Rounds * RunCount \in Nat
      BY <1>0 DEF Rounds
    <3> QED BY <1>0, <2>6, <3>1, <3>2, CountedSets DEF ChildrenAreClaims
  <2> HIDE DEF there
  <2> QED BY <1>0, <1>1, <2>2, <2>3, <2>7, <2>8, CountedSets
<1>3. ASSUME NEW x \in RunsOf(n), x[2] < k PROVE status[x] # "none"
  <2> SUFFICES ASSUME status[x] = "none" PROVE FALSE
    OBVIOUS
  <2>1. there \in SUBSET ({n} \X (0..x[2] - 1))
    BY <1>0 DEF Numbered
  <2>2. /\ IsFiniteSet({n} \X (0..x[2] - 1)) /\ Cardinality({n} \X (0..x[2] - 1)) = x[2]
    BY <1>0, FirstRuns
  <2>3. k <= x[2]
    <3> HIDE DEF there
    <3> QED BY <2>1, <2>2, FS_Subset DEF k
  <2> QED BY <1>0, <1>1, <1>3, <2>3
<1>4. ASSUME NEW x \in there PROVE x[2] < k
  <2>0. x \in RunsOf(n) /\ x[2] + 1 \in Nat
    BY <1>0
  <2>1. {n} \X (0..x[2]) \in SUBSET there
    <3>1. ASSUME NEW i \in 0..x[2] PROVE <<n, i>> \in there
      <4>1. <<n, i>> \in RunsOf(n) /\ <<n, i>>[2] <= x[2]
        BY <1>0, <2>0, NamesAreRuns DEF RunsOf, Names
      <4> QED BY <1>0, <2>0, <4>1 DEF Numbered
    <3> QED BY <3>1
  <2>2. {n} \X (0..x[2]) = {n} \X (0..(x[2] + 1) - 1)
    BY <1>0, <2>0
  <2>3. Cardinality({n} \X (0..x[2])) = x[2] + 1
    BY <2>0, <2>2, FirstRuns
  <2>4. x[2] + 1 <= k
    <3> HIDE DEF there
    <3> QED BY <1>1, <2>1, <2>3, FS_Subset DEF k
  <2> QED BY <1>0, <1>1, <2>0, <2>4
<1>5. NextChild(n) = <<n, k>>
  BY DEF NextChild, k
<1>6. NextChild(n) \in RunsOf(n) /\ NextChild(n)[2] = k
  BY <1>1, <1>2, <1>5, NamesAreRuns DEF RunsOf, Names
<1>7. Parent(n) \in there
  BY <1>0, NamesAreRuns DEF AfterDoc
<1>8. NextChild(n) \notin there
  BY <1>1, <1>4, <1>6
<1> QED BY <1>3, <1>6, <1>7, <1>8

-----------------------------------------------------------------------------
(* What a controller's step does, and leaves alone *)

NodeFrame(n) ==
  /\ UNCHANGED <<job, client, files, userVars, reset>>
  /\ task[n] \in {"waiting", "running", "dying"} /\ doc \in Documents
  /\ ctl' \in [Nodes -> Controllers] /\ task' \in [Nodes -> Tasks]
  /\ \A m \in Nodes : m # n => ctl'[m] = ctl[m] /\ task'[m] = task[m]
  /\ status' \in [Names -> Statuses] /\ ends' \in [Names -> Nat] /\ listed' \subseteq Names
  /\ \A x \in Names : x \notin RunsOf(n) =>
       status'[x] = status[x] /\ ends'[x] = ends[x] /\ (x \in listed' <=> x \in listed)
  /\ executed' \in [Entries -> Nat] /\ Rewrites(doc, doc')

LEMMA NodeMoves == ASSUME IInv, NEW n \in Nodes, Node(n) PROVE NodeFrame(n)
<1>0. /\ ctl \in [Nodes -> Controllers] /\ task \in [Nodes -> Tasks]
      /\ status \in [Names -> Statuses] /\ ends \in [Names -> Nat] /\ listed \subseteq Names
      /\ executed \in [Entries -> Nat] /\ doc \in Documents \cup {NoDoc}
  BY DEF IInv, Typed, Records
<1>1. task[n] \in {"waiting", "running", "dying"}
  BY DEF Node, Boot, Claim, SpawnChild, ListChild, StartChild, ChildEnds, LogEnd, WriteEnd,
         FinishChild, ShutDown, TaskDies, Now
<1>2. doc.logged
  BY <1>1 DEF IInv, BeforeDoc
<1>3. doc \in Documents
  BY <1>0, <1>2, LoggedIsADocument
<1>4. Rewrites(doc, doc)
  BY <1>3 DEF Rewrites
<1>5. \A x \in Names : /\ x \in RunsOf(n) \/ x \notin RunsOf(n)
                       /\ Parent(n) \in Names /\ Parent(n) \in RunsOf(n)
  BY NamesAreRuns
<1>6. NodeInOrder(n)
  BY DEF IInv, NodesInOrder
<1> HIDE DEF Nodes, Names, Entries
<1> USE DEF NodeFrame, runVars, nodeVars, userVars
<1>11. CASE Boot(n)
  <2>1. task' \in [Nodes -> Tasks] /\ \A m \in Nodes : m # n => task'[m] = task[m]
    BY <1>0, <1>11 DEF Boot, Tasks
  <2>2. ctl' \in [Nodes -> Controllers] /\ \A m \in Nodes : m # n => ctl'[m] = ctl[m]
    BY <1>0, <1>11, ControllerGoesOn DEF Boot, NodeSteps
  <2> QED BY <1>0, <1>1, <1>3, <1>4, <1>11, <2>1, <2>2 DEF Boot
<1>12. CASE Claim(n)
  <2>1. CASE Claimable(n) = {}
    <3>1. ctl' \in [Nodes -> Controllers] /\ \A m \in Nodes : m # n => ctl'[m] = ctl[m]
      BY <1>0, <1>5, <1>12, <2>1, NamesAreRuns DEF Claim, Controllers, NodeSteps
    <3> QED BY <1>0, <1>1, <1>3, <1>4, <1>12, <2>1, <3>1 DEF Claim
  <2>2. CASE Claimable(n) # {}
    <3> DEFINE e == Min(Claimable(n))
    <3>1. e \in Claimable(n) /\ e \in Entries
      BY <2>2, MinIsIn DEF Claimable
    <3>2. /\ doc' = [doc EXCEPT !.active_runs[e] = [status |-> "started", node |-> n]]
          /\ ctl' = [ctl EXCEPT ![n].pc = "spawn", ![n].entry = e, ![n].run = NextChild(n)]
      BY <1>12, <2>2 DEF Claim
    <3> HIDE DEF e
    <3>3. Rewrites(doc, doc')
      BY <1>3, <3>1, <3>2, ClaimedDocument
    <3>4. NextChild(n) \in Names
      BY <1>2, <3>1, NextIsFresh, NamesAreRuns
    <3>5. ctl' \in [Nodes -> Controllers] /\ \A m \in Nodes : m # n => ctl'[m] = ctl[m]
      <4>1. "spawn" \in NodeSteps /\ e \in Entries \cup {NoEntry}
        BY <3>1 DEF NodeSteps
      <4>2. Takes(n, "spawn", e, NextChild(n))
        BY <3>2 DEF Takes
      <4> QED BY <1>0, <3>4, <4>1, <4>2, ControllerTakes
    <3> QED BY <1>0, <1>1, <1>3, <1>12, <3>3, <3>5 DEF Claim
  <2> QED BY <2>1, <2>2
<1>13. CASE SpawnChild(n)
  <2>1. ctl[n].run \in RunsOf(n) /\ ctl[n].run \in Names
    BY <1>6, <1>13, NamesAreRuns DEF SpawnChild, Now, NodeInOrder
  <2>2. status' \in [Names -> Statuses]
        /\ \A x \in Names : x \notin RunsOf(n) => status'[x] = status[x]
    BY <1>0, <1>5, <1>13, <2>1 DEF SpawnChild, Statuses, Unwrapped
  <2>3. ctl' \in [Nodes -> Controllers] /\ \A m \in Nodes : m # n => ctl'[m] = ctl[m]
    BY <1>0, <1>13, ControllerGoesOn DEF SpawnChild, NodeSteps
  <2> QED BY <1>0, <1>1, <1>3, <1>4, <1>13, <2>2, <2>3 DEF SpawnChild
<1>14. CASE ListChild(n)
  <2>1. ctl[n].run \in RunsOf(n) /\ ctl[n].run \in Names
    BY <1>6, <1>14, NamesAreRuns DEF ListChild, Now, NodeInOrder
  <2>2. ctl' \in [Nodes -> Controllers] /\ \A m \in Nodes : m # n => ctl'[m] = ctl[m]
    BY <1>0, <1>14, ControllerGoesOn DEF ListChild, NodeSteps
  <2> QED BY <1>0, <1>1, <1>3, <1>4, <1>14, <2>1, <2>2 DEF ListChild
<1>15. CASE StartChild(n)
  <2>1. ctl[n].run \in RunsOf(n) /\ ctl[n].run \in Names /\ ctl[n].entry \in Entries
    BY <1>6, <1>15, NamesAreRuns DEF StartChild, Now, NodeInOrder
  <2>2. ctl' \in [Nodes -> Controllers] /\ \A m \in Nodes : m # n => ctl'[m] = ctl[m]
    BY <1>0, <1>15, ZenonT(60) DEF StartChild, Controllers, NodeSteps
  <2>3. status' \in [Names -> Statuses]
        /\ \A x \in Names : x \notin RunsOf(n) => status'[x] = status[x]
    BY <1>0, <1>15, <2>1 DEF StartChild, SetStatus, Statuses, Unwrapped
  <2>4. Rewrites(doc, doc')
    BY <1>3, <1>15, CountsAreNumbers, CountedDocument DEF StartChild
  <2>5. executed' \in [Entries -> Nat]
    BY <1>0, <1>15, <2>1 DEF StartChild
  <2> QED BY <1>0, <1>1, <1>3, <1>15, <2>2, <2>3, <2>4, <2>5 DEF StartChild
<1>16. CASE ChildEnds(n)
  <2>1. status' \in [Names -> Statuses]
        /\ \A x \in Names : x \notin RunsOf(n) => status'[x] = status[x]
    BY <1>0, <1>5, <1>16 DEF ChildEnds, SetStatus, Statuses, Unwrapped
  <2>2. ctl' \in [Nodes -> Controllers] /\ \A m \in Nodes : m # n => ctl'[m] = ctl[m]
    BY <1>0, <1>16, ControllerGoesOn DEF ChildEnds, NodeSteps
  <2> QED BY <1>0, <1>1, <1>3, <1>4, <1>16, <2>1, <2>2 DEF ChildEnds
<1>17. CASE LogEnd(n)
  <2>1. ctl[n].run \in RunsOf(n) /\ ctl[n].run \in Names
    BY <1>6, <1>17, NamesAreRuns DEF LogEnd, Now, NodeInOrder
  <2>2. ends' \in [Names -> Nat] /\ \A x \in Names : x \notin RunsOf(n) => ends'[x] = ends[x]
    BY <1>0, <1>17, <2>1 DEF LogEnd, EndRecord
  <2>3. ctl' \in [Nodes -> Controllers] /\ \A m \in Nodes : m # n => ctl'[m] = ctl[m]
    BY <1>0, <1>17, ControllerGoesOn DEF LogEnd, NodeSteps
  <2> QED BY <1>0, <1>1, <1>3, <1>4, <1>17, <2>2, <2>3 DEF LogEnd
<1>18. CASE WriteEnd(n)
  <2>1. ctl[n].run \in RunsOf(n) /\ ctl[n].run \in Names
    BY <1>6, <1>18, NamesAreRuns DEF WriteEnd, Now, NodeInOrder
  <2>2. status' \in [Names -> Statuses]
        /\ \A x \in Names : x \notin RunsOf(n) => status'[x] = status[x]
    BY <1>0, <1>18, <2>1 DEF WriteEnd, SetStatus, Statuses
  <2>3. ctl' \in [Nodes -> Controllers] /\ \A m \in Nodes : m # n => ctl'[m] = ctl[m]
    BY <1>0, <1>18, ControllerGoesOn DEF WriteEnd, NodeSteps
  <2> QED BY <1>0, <1>1, <1>3, <1>4, <1>18, <2>2, <2>3 DEF WriteEnd
<1>19. CASE FinishChild(n)
  <2>1. ctl[n].entry \in Entries
    BY <1>6, <1>19 DEF FinishChild, Now, NodeInOrder
  <2>2. Rewrites(doc, doc')
    BY <1>3, <1>19, <2>1, FinishedDocument DEF FinishChild
  <2>3. ctl' \in [Nodes -> Controllers] /\ \A m \in Nodes : m # n => ctl'[m] = ctl[m]
    BY <1>0, <1>19, ControllerGoesOn DEF FinishChild, NodeSteps
  <2> QED BY <1>0, <1>1, <1>3, <1>19, <2>2, <2>3 DEF FinishChild
<1>20. CASE ShutDown(n)
  <2>1. Rewrites(doc, doc')
    <3> DEFINE left == doc.running_nodes - 1
               s == IF left = 0 THEN "completed" ELSE doc.job_status
    <3>1. doc' = doc \/ doc' = [doc EXCEPT !.running_nodes = left, !.job_status = s]
      BY <1>20 DEF ShutDown
    <3>2. left \in Int /\ s \in {"submitted", "running", "completed"}
      BY <1>3, CountsAreNumbers
    <3> HIDE DEF left, s
    <3> QED BY <1>3, <1>4, <3>1, <3>2, CountsAreNumbers, CountedDocument
  <2>2. ctl' \in [Nodes -> Controllers] /\ \A m \in Nodes : m # n => ctl'[m] = ctl[m]
    BY <1>0, <1>20, ControllerGoesOn DEF ShutDown, NodeSteps
  <2>3. task' \in [Nodes -> Tasks] /\ \A m \in Nodes : m # n => task'[m] = task[m]
    BY <1>0, <1>20 DEF ShutDown, Tasks
  <2> QED BY <1>0, <1>1, <1>3, <1>20, <2>1, <2>2, <2>3 DEF ShutDown
<1>21. CASE TaskDies(n)
  <2>1. task' \in [Nodes -> Tasks] /\ \A m \in Nodes : m # n => task'[m] = task[m]
    BY <1>0, <1>21 DEF TaskDies, Tasks
  <2> QED BY <1>0, <1>1, <1>3, <1>4, <1>21, <2>1 DEF TaskDies
<1> QED
  BY <1>11, <1>12, <1>13, <1>14, <1>15, <1>16, <1>17, <1>18, <1>19, <1>20, <1>21 DEF Node

-----------------------------------------------------------------------------
(* The steps, and the types *)

LEMMA Steps ==
  ASSUME IInv, [Next]_vars
  PROVE  \/ Client \/ Stop \/ Commanded \/ CommandGoesOn \/ UNCHANGED vars
         \/ \E n \in Nodes : Node(n) /\ NodeFrame(n)
BY CommandsStart, CommandGoes, NodeMoves DEF Next, Commands

LEMMA Logged ==
  ASSUME IInv
  PROVE  /\ doc \in Documents \cup {NoDoc} /\ doc.logged \in BOOLEAN
         /\ doc.logged <=> doc \in Documents
         /\ user.pc \in {"nodes", "query", "task", "wrapup"} => doc.logged
         /\ \A n \in Nodes : task[n] # "none" => doc.logged
BY LoggedIsADocument DEF IInv, Typed, Records, BeforeDoc

LEMMA EndedRunIsCounted ==
  ASSUME IInv, NEW x \in Names, RunEnded(x)
  PROVE  Rewrites(doc, doc') /\ doc'.active_runs = doc.active_runs
BY Logged, CountsAreNumbers, CountedDocument DEF RunEnded

LEMMA ClientTyped == IInv /\ (Client \/ Stop) => Typed'
<1> SUFFICES ASSUME IInv, Client \/ Stop PROVE Typed'
    OBVIOUS
<1>0. Typed /\ job \in Jobs
  BY DEF IInv, Typed
<1>1. client' \in [pc : ClientSteps, node : Nodes]
  BY <1>0, CountsArePositive
     DEF Typed, Client, Stop, CreateRun, WriteContext, Upload, LogPrimary, SubmitToBox,
         SubmitToAml, SubmitNode, SubmitToBatch, LogService, ClientTo, Last, Nodes,
         ClientSteps
<1>2. doc' \in Documents \cup {NoDoc}
  BY <1>0, PrimaryIsADocument
     DEF Typed, Records, Client, Stop, CreateRun, WriteContext, Upload, LogPrimary,
         SubmitToBox, SubmitToAml, SubmitNode, SubmitToBatch, LogService
<1>3. status' \in [Names -> Statuses]
  BY <1>0, NamesAreRuns
     DEF Typed, Client, Stop, CreateRun, WriteContext, Upload, LogPrimary, SubmitToBox,
         SubmitToAml, SubmitNode, SubmitToBatch, LogService, runVars, Statuses, Unwrapped
<1>4. task' \in [Nodes -> Tasks] /\ files' \subseteq {"context", "code"}
  BY <1>0
     DEF Typed, Client, Stop, CreateRun, WriteContext, Upload, LogPrimary, SubmitToBox,
         SubmitToAml, SubmitNode, SubmitToBatch, LogService, nodeVars, Tasks
<1>5. reset' \in BOOLEAN
  <2>1. reset' = reset \/ reset' = (doc # PrimaryInfo)
    BY Zenon DEF Client, Stop, CreateRun, WriteContext, Upload, LogPrimary, SubmitToBox,
         SubmitToAml, SubmitNode, SubmitToBatch, LogService
  <2>2. reset \in BOOLEAN
    BY <1>0 DEF Typed
  <2> QED BY <2>1, <2>2, Zenon
<1>6. UNCHANGED <<job, ctl, listed, executed, ends, user, cancels>>
  BY DEF Client, Stop, CreateRun, WriteContext, Upload, LogPrimary, SubmitToBox,
         SubmitToAml, SubmitNode, SubmitToBatch, LogService, nodeVars, runVars, userVars
<1> QED BY <1>0, <1>1, <1>2, <1>3, <1>4, <1>5, <1>6 DEF Typed, Records

LEMMA TypedStep == IInv /\ [Next]_vars => Typed'
<1> SUFFICES ASSUME IInv, [Next]_vars PROVE Typed'
    OBVIOUS
<1>0. Typed /\ TasksInOrder
  BY DEF IInv
<1>1. CASE Client \/ Stop
  BY <1>1, ClientTyped
<1>2. ASSUME NEW n \in Nodes, NodeFrame(n) PROVE Typed'
  BY <1>0, <1>2 DEF NodeFrame, Typed, Records, Rewrites, userVars
<1>3. CASE Commanded
  BY <1>0, <1>3 DEF Commanded, Typed, Records, nodeVars, runVars
<1>4. CASE CommandGoesOn
  <2>1. ASSUME NEW n \in Nodes, NodeDealtWith(n) \/ RunsQueried(n) \/ TaskKilled(n)
        PROVE  Typed'
    <3>1. task' \in [Nodes -> Tasks]
      BY <1>0, <2>1, NodeKilled DEF NodeDealtWith, RunsQueried, TaskKilled, nodeVars, Typed
    <3>2. /\ UNCHANGED <<job, client, files, doc, ctl, listed, executed, status, ends,
                         cancels, reset>>
          /\ user' \in Users
      BY <2>1 DEF NodeDealtWith, RunsQueried, TaskKilled, nodeVars, runVars
    <3> QED BY <1>0, <3>1, <3>2 DEF Typed, Records
  <2>2. ASSUME NEW x \in Names, RunEnded(x) PROVE Typed'
    <3>1. doc' \in Documents
      BY <2>2, EndedRunIsCounted DEF Rewrites
    <3>2. status' \in [Names -> Statuses] /\ ends' \in [Names -> Nat]
      BY <1>0, <2>2 DEF RunEnded, EndRecord, SetStatus, Typed, Statuses
    <3> QED BY <1>0, <2>2, <3>1, <3>2 DEF RunEnded, Typed, Records, nodeVars
  <2>3. CASE RunsDone
    BY <1>0, <2>3 DEF RunsDone, Typed, Records, nodeVars, runVars
  <2> QED BY <1>4, <2>1, <2>2, <2>3 DEF CommandGoesOn
<1>5. CASE UNCHANGED vars
  BY <1>0, <1>5 DEF Typed, Records, vars, nodeVars, runVars, userVars
<1> QED BY <1>1, <1>2, <1>3, <1>4, <1>5, Steps

\* A run's document stays, and so does the job's.
LEMMA RunsStay ==
  ASSUME IInv, [Next]_vars
  PROVE  /\ \A x \in Names : status[x] # "none" => status'[x] # "none"
         /\ doc.logged => doc'.logged
<1>0. /\ status \in [Names -> Statuses] /\ job \in Jobs
      /\ NodesInOrder /\ Names = {x \in Names : TRUE}
  BY DEF IInv, Typed
<1>1. CASE Client \/ Stop
  <2>1. doc' = doc \/ doc' = PrimaryInfo
        \/ doc' = [PrimaryInfo EXCEPT !.known = TRUE, !.services = Nodes]
    BY <1>1 DEF Client, Stop, CreateRun, WriteContext, Upload, LogPrimary, SubmitToBox,
         SubmitToAml, SubmitNode, SubmitToBatch, LogService
  <2>2. \A d \in Documents : d.logged
    BY DEF Documents
  <2>3. doc.logged => doc'.logged
    BY <1>0, <2>1, <2>2, PrimaryIsADocument
  <2>4. \A x \in Names : status[x] # "none" => status'[x] # "none"
    BY <1>0, <1>1, NamesAreRuns
       DEF Client, Stop, CreateRun, WriteContext, Upload, LogPrimary, SubmitToBox,
         SubmitToAml, SubmitNode, SubmitToBatch, LogService, runVars
  <2> QED BY <2>3, <2>4
<1>2. ASSUME NEW n \in Nodes, Node(n), NodeFrame(n)
      PROVE  /\ \A x \in Names : status[x] # "none" => status'[x] # "none"
             /\ doc.logged => doc'.logged
  <2>1. doc'.logged
    BY <1>2 DEF NodeFrame, Rewrites, Documents
  <2>2. ASSUME NEW x \in Names, status[x] # "none" PROVE status'[x] # "none"
    BY <1>0, <1>2, <2>2, NamesAreRuns
       DEF Node, Boot, Claim, SpawnChild, ListChild, StartChild, ChildEnds, LogEnd, WriteEnd,
           FinishChild, ShutDown, TaskDies, Now, SetStatus, runVars, NodesInOrder, NodeInOrder
  <2> QED BY <2>1, <2>2
<1>3. CASE Commanded
  BY <1>3 DEF Commanded, runVars
<1>4. CASE CommandGoesOn
  <2>1. ASSUME NEW x \in Names, RunEnded(x)
        PROVE  /\ \A y \in Names : status[y] # "none" => status'[y] # "none"
               /\ doc'.logged
    <3>1. doc'.logged
      BY <2>1, EndedRunIsCounted DEF Rewrites, Documents
    <3> QED BY <1>0, <2>1, <3>1 DEF RunEnded, SetStatus
  <2>2. CASE UNCHANGED <<status, doc>>
    BY <2>2
  <2> QED
    BY <1>4, <2>1, <2>2
       DEF CommandGoesOn, NodeDealtWith, RunsQueried, TaskKilled, RunsDone, runVars
<1>5. CASE UNCHANGED vars
  BY <1>5 DEF vars, runVars
<1> QED BY <1>1, <1>2, <1>3, <1>4, <1>5, Steps

LEMMA BeforeDocStep == IInv /\ [Next]_vars => BeforeDoc'
<1> SUFFICES ASSUME IInv, [Next]_vars, ~doc'.logged PROVE BeforeDoc'
    BY DEF BeforeDoc
<1>0. ~doc.logged /\ BeforeDoc /\ status \in [Names -> Statuses] /\ doc = NoDoc
      /\ job \in Jobs /\ task \in [Nodes -> Tasks]
  BY RunsStay, Logged DEF IInv, Typed
<1>1. /\ \A x \in Names : /\ ends[x] = 0
                          /\ status[x] = "none" \/ (status[x] = "created" /\ x[2] = 0)
      /\ \A n \in Nodes : task[n] = "none"
      /\ listed = {} /\ user.pc \in {"idle", "done", "failed"}
      /\ client.pc \notin {"submit", "service", "done"}
  BY <1>0 DEF BeforeDoc, IInv, ClientInOrder
<1>2. CASE Client \/ Stop
  <2>1. doc' # PrimaryInfo
    BY <1>0, PrimaryIsADocument DEF Documents
  <2>2. CASE CreateRun
    <3>1. PICK n \in Nodes : status' = [status EXCEPT ![Parent(n)] = "created"]
      BY <2>2 DEF CreateRun, IInv, Typed
    <3>2. \A x \in Names : status'[x] = status[x] \/ (status'[x] = "created" /\ x[2] = 0)
      BY <1>0, <3>1, NamesAreRuns
    <3> QED BY <1>1, <2>2, <3>2 DEF CreateRun, BeforeDoc, nodeVars, userVars
  <2>3. CASE UNCHANGED <<doc, nodeVars, runVars, userVars>>
    BY <1>0, <1>1, <2>3 DEF BeforeDoc, nodeVars, runVars, userVars
  <2> QED
    BY <1>1, <1>2, <2>1, <2>2, <2>3
       DEF Client, Stop, WriteContext, Upload, LogPrimary, SubmitToBox, SubmitToAml,
           SubmitToBatch, LogService
<1>3. ASSUME NEW n \in Nodes, NodeFrame(n) PROVE FALSE
  BY <1>1, <1>3 DEF NodeFrame
<1>4. CASE Commanded
  BY <1>0, <1>1, <1>4 DEF Commanded, BeforeDoc, nodeVars, runVars
<1>5. CASE CommandGoesOn
  BY <1>1, <1>5 DEF CommandGoesOn, NodeDealtWith, RunsQueried, TaskKilled, RunEnded, RunsDone
<1>6. CASE UNCHANGED vars
  BY <1>0, <1>1, <1>6 DEF BeforeDoc, vars, nodeVars, runVars, userVars
<1> QED BY <1>2, <1>3, <1>4, <1>5, <1>6, Steps

\* The client's steps are the only ones that change its place and the files.
LEMMA OnlyTheClient ==
  ASSUME IInv, [Next]_vars
  PROVE  Client \/ Stop \/ UNCHANGED <<job, client, files>>
BY Steps DEF NodeFrame, Commanded, CommandGoesOn, NodeDealtWith, RunsQueried, TaskKilled,
             RunEnded, RunsDone, vars

LEMMA AfterDocStep == IInv /\ [Next]_vars => AfterDoc'
<1> SUFFICES ASSUME IInv, [Next]_vars, doc'.logged
             PROVE  files' = {"context", "code"} /\ \A n \in Nodes : status'[Parent(n)] # "none"
    BY DEF AfterDoc
<1>1. CASE doc.logged
  <2>1. files = {"context", "code"} /\ \A n \in Nodes : status[Parent(n)] # "none"
    BY <1>1 DEF IInv, AfterDoc
  <2>2. \A n \in Nodes : status'[Parent(n)] # "none"
    BY <2>1, RunsStay, NamesAreRuns
  <2>3. files' = files
    BY <1>1, <2>1, OnlyTheClient
       DEF IInv, ClientInOrder, Client, Stop, CreateRun, WriteContext, Upload, LogPrimary,
           SubmitToBox, SubmitToAml, SubmitNode, SubmitToBatch, LogService
  <2> QED BY <2>1, <2>2, <2>3
<1>2. CASE ~doc.logged
  <2>1. doc' # doc
    BY <1>2
  <2>2. LogPrimary
    <3>1. ~\E n \in Nodes : NodeFrame(n)
      BY <1>2, Logged DEF NodeFrame
    <3>2. ~Commanded /\ ~CommandGoesOn /\ ~UNCHANGED vars
      BY <1>2, <2>1, Logged
         DEF Commanded, CommandGoesOn, NodeDealtWith, RunsQueried, TaskKilled, RunEnded,
             RunsDone, vars
    <3>3. client.pc # "service"
      BY <1>2 DEF IInv, ClientInOrder
    <3> QED
      BY <2>1, <3>1, <3>2, <3>3, Steps
         DEF Client, Stop, CreateRun, WriteContext, Upload, SubmitToBox, SubmitToAml,
             SubmitNode, SubmitToBatch, LogService
  <2>3. files = {"context", "code"} /\ \A n \in Nodes : status[Parent(n)] # "none"
    BY <2>2 DEF IInv, ClientInOrder, Typed, LogPrimary
  <2> QED
    BY <2>2, <2>3, RunsStay, NamesAreRuns DEF LogPrimary
<1>3. doc.logged \in BOOLEAN
  BY Logged
<1> QED BY <1>1, <1>2, <1>3

LEMMA ClientInOrderStep == IInv /\ [Next]_vars => ClientInOrder'
<1> SUFFICES ASSUME IInv, [Next]_vars PROVE ClientInOrder'
    OBVIOUS
<1>0. /\ ClientInOrder /\ client \in [pc : ClientSteps, node : Nodes]
      /\ status \in [Names -> Statuses] /\ doc.logged \in BOOLEAN /\ job \in Jobs
      /\ files \subseteq {"context", "code"}
  BY Logged DEF IInv, Typed
<1>1. \A n \in Nodes : status[Parent(n)] # "none" => status'[Parent(n)] # "none"
  BY RunsStay, NamesAreRuns
<1>2. CASE UNCHANGED <<job, client, files>>
  <2>1. doc.logged <=> doc'.logged
    <3>1. doc' = doc \/ doc.logged
      BY <1>2, Logged, Steps
         DEF Client, Stop, CreateRun, WriteContext, Upload, LogPrimary, SubmitToBox,
             SubmitToAml, SubmitToBatch, SubmitNode, LogService, ClientTo, Last,
             NodeFrame, Commanded, CommandGoesOn, NodeDealtWith, RunsQueried, TaskKilled,
             RunEnded, RunsDone, vars
    <3> QED BY <3>1, RunsStay, Zenon
  <2> QED BY <1>0, <1>1, <1>2, <2>1 DEF ClientInOrder
<1>3. CASE CreateRun
  <2>1. \A n \in Nodes : (n < client.node \/ n = client.node) => status'[Parent(n)] # "none"
    BY <1>0, <1>1, <1>3, NamesAreRuns DEF CreateRun, ClientInOrder
  <2>2. doc' = doc /\ files' = files /\ client.pc = "runs"
    BY <1>3 DEF CreateRun
  <2>3. CASE Last(client.node)
    <3>1. \A n \in Nodes : n < client.node \/ n = client.node
      BY <1>0, <2>3, CountsArePositive DEF Last, Nodes
    <3> QED BY <1>0, <1>3, <2>1, <2>2, <2>3, <3>1 DEF CreateRun, ClientTo, ClientInOrder
  <2>4. CASE ~Last(client.node)
    <3>1. \A n \in Nodes : n < client.node + 1 => n < client.node \/ n = client.node
      BY <1>0, CountsArePositive DEF Nodes
    <3> QED BY <1>0, <1>3, <2>1, <2>2, <2>4, <3>1 DEF CreateRun, ClientTo, ClientInOrder
  <2> QED BY <2>3, <2>4
<1>4. CASE WriteContext
  BY <1>0, <1>1, <1>4 DEF WriteContext, ClientTo, ClientInOrder
<1>5. CASE Upload
  BY <1>0, <1>1, <1>5 DEF Upload, ClientTo, ClientInOrder
<1>6. CASE LogPrimary
  BY <1>6, <1>0, PrimaryIsADocument DEF LogPrimary, ClientTo, ClientInOrder, Documents
<1>7. CASE SubmitToBox \/ SubmitToAml \/ SubmitToBatch
  BY <1>0, <1>7 DEF SubmitToBox, SubmitToAml, SubmitNode, SubmitToBatch, ClientTo, ClientInOrder
<1>8. CASE LogService
  <2>1. doc'.logged
    BY <1>0, <1>8, RunsStay DEF LogService, ClientInOrder
  <2> QED BY <1>8, <2>1 DEF LogService, ClientTo, ClientInOrder
<1>9. CASE Stop
  BY <1>9 DEF Stop, ClientTo, ClientInOrder
<1> QED
  BY <1>2, <1>3, <1>4, <1>5, <1>6, <1>7, <1>8, <1>9, OnlyTheClient DEF Client

LEMMA ServicesAreKnownStep == IInv /\ [Next]_vars => ServicesAreKnown'
<1> SUFFICES ASSUME IInv, [Next]_vars, doc'.logged
             PROVE  /\ doc'.known <=> client'.pc = "done"
                    /\ doc'.services = IF doc'.known THEN Nodes ELSE {}
    BY DEF ServicesAreKnown
<1>0. /\ ServicesAreKnown /\ ClientInOrder /\ doc.logged \in BOOLEAN /\ job \in Jobs
  BY Logged DEF IInv, Typed
<1>1. CASE LogPrimary
  BY <1>0, <1>1, PrimaryIsADocument DEF LogPrimary, ClientTo
<1>2. CASE LogService
  BY <1>0, <1>2, PrimaryIsADocument DEF LogService, ClientTo
<1>3. CASE UNCHANGED doc /\ (client.pc = "done" <=> client'.pc = "done")
  BY <1>0, <1>3 DEF ServicesAreKnown
<1>4. CASE client' = client /\ doc.logged /\ Rewrites(doc, doc')
  BY <1>0, <1>4 DEF ServicesAreKnown, Rewrites
<1>5. CASE Client \/ Stop
  BY <1>5, <1>1, <1>2, <1>3
     DEF Client, Stop, CreateRun, WriteContext, Upload, SubmitToBox, SubmitToAml, SubmitNode,
         SubmitToBatch, ClientTo
<1>6. ASSUME NEW n \in Nodes, NodeFrame(n) PROVE client' = client /\ doc.logged /\ Rewrites(doc, doc')
  BY <1>6, Logged DEF NodeFrame
<1>7. CASE Commanded
  BY <1>3, <1>7 DEF Commanded
<1>8. CASE CommandGoesOn
  <2>1. ASSUME NEW x \in Names, RunEnded(x)
        PROVE  client' = client /\ doc.logged /\ Rewrites(doc, doc')
    BY <2>1, EndedRunIsCounted, Logged DEF RunEnded
  <2> QED
    BY <1>3, <1>4, <1>8, <2>1
       DEF CommandGoesOn, NodeDealtWith, RunsQueried, TaskKilled, RunsDone
<1>9. CASE UNCHANGED vars
  BY <1>3, <1>9 DEF vars
<1> QED BY <1>4, <1>5, <1>6, <1>7, <1>8, <1>9, Steps

LEMMA TasksInOrderStep == IInv /\ [Next]_vars => TasksInOrder'
<1> SUFFICES ASSUME IInv, [Next]_vars PROVE TasksInOrder'
    OBVIOUS
<1>0. /\ TasksInOrder /\ ClientInOrder /\ job \in Jobs /\ task \in [Nodes -> Tasks]
      /\ client \in [pc : ClientSteps, node : Nodes] /\ BeforeDoc /\ doc.logged \in BOOLEAN
  BY Logged DEF IInv, Typed
<1>1. CASE LogPrimary
  <2>1. \A n \in Nodes : task[n] = "none" /\ 0 <= n
    BY <1>0, <1>1, CountsArePositive DEF ClientInOrder, LogPrimary, BeforeDoc, Nodes
  <2> QED BY <1>0, <1>1, <2>1 DEF LogPrimary, ClientTo, TasksInOrder, nodeVars, Prompt
<1>2. CASE SubmitToBox \/ SubmitToAml
  <2>1. /\ client.pc = "submit" /\ job.service # "batch" /\ job' = job
        /\ task' = [task EXCEPT ![client.node] = "waiting"]
    BY <1>2 DEF SubmitToBox, SubmitToAml, SubmitNode
  <2>2. task'[client.node] = "waiting" /\ \A n \in Nodes : n # client.node => task'[n] = task[n]
    BY <1>0, <2>1
  <2>3. CASE Last(client.node)
    <3>1. \A n \in Nodes : n < client.node \/ n = client.node
      BY <1>0, <2>3, CountsArePositive DEF Last, Nodes
    <3>2. \A n \in Nodes : n < client.node => ~(client.node <= n)
      BY <1>0, CountsArePositive DEF Nodes
    <3>3. \A n \in Nodes : task'[n] # "none"
      BY <1>0, <2>1, <2>2, <3>1, <3>2 DEF TasksInOrder
    <3>4. client' = [pc |-> "service", node |-> 0]
      BY <1>2, <2>3 DEF SubmitToBox, SubmitToAml, SubmitNode, ClientTo
    <3> QED BY <1>0, <2>1, <2>2, <3>3, <3>4 DEF TasksInOrder, Prompt
  <2>4. CASE ~Last(client.node)
    <3>1. client' = [pc |-> "submit", node |-> client.node + 1]
      BY <1>2, <2>4 DEF SubmitToBox, SubmitToAml, SubmitNode, ClientTo
    <3>2. \A n \in Nodes : (client.node + 1 <= n) <=> (client.node <= n /\ n # client.node)
      BY <1>0, CountsArePositive DEF Nodes
    <3> QED BY <1>0, <2>1, <2>2, <3>1, <3>2 DEF TasksInOrder, Prompt
  <2> QED BY <2>3, <2>4
<1>3. CASE SubmitToBatch
  BY <1>0, <1>3 DEF SubmitToBatch, ClientTo, TasksInOrder, Prompt
<1>4. CASE UNCHANGED <<job, task>> /\ (client' = client \/ client'.pc \notin {"submit", "service", "done"})
  BY <1>0, <1>4 DEF TasksInOrder, Prompt
<1>5. CASE LogService
  BY <1>0, <1>5 DEF LogService, ClientTo, TasksInOrder, Prompt, nodeVars
<1>6. CASE Client \/ Stop
  BY <1>1, <1>2, <1>3, <1>4, <1>5, <1>6
     DEF Client, Stop, CreateRun, WriteContext, Upload, ClientTo, nodeVars
<1>7. ASSUME UNCHANGED <<job, client>>, NEW n \in Nodes,
             \A m \in Nodes : m # n => task'[m] = task[m],
             task[n] # "none", task'[n] # "none", Prompt => task'[n] # "dying"
      PROVE  TasksInOrder'
  BY <1>0, <1>7 DEF TasksInOrder, Prompt
<1>8. ASSUME NEW n \in Nodes, Node(n), NodeFrame(n) PROVE TasksInOrder'
  <2>1. task'[n] # "none" /\ (Prompt => task'[n] # "dying")
    BY <1>0, <1>8
       DEF Node, Boot, Claim, SpawnChild, ListChild, StartChild, ChildEnds, LogEnd, WriteEnd,
           FinishChild, ShutDown, TaskDies, TasksInOrder, NodeFrame
  <2> QED BY <1>7, <1>8, <2>1 DEF NodeFrame
<1>9. CASE Commanded
  BY <1>4, <1>9 DEF Commanded, nodeVars
<1>10. CASE CommandGoesOn
  <2>1. ASSUME NEW n \in Nodes, n \in user.left, NodeDealtWith(n) \/ TaskKilled(n)
        PROVE  TasksInOrder'
    <3>1. task[n] # "none"
      <4>1. user.op = "job" \/ user.op # "job"
        OBVIOUS
      <4> QED BY <1>0, <2>1, <4>1
          DEF NodeDealtWith, TaskKilled, IInv, UserInOrder, ServicesAreKnown, TasksInOrder
    <3>2. /\ \A m \in Nodes : m # n => task'[m] = task[m]
          /\ task'[n] \in {"ended", "killed", "dying"} /\ (Prompt => task'[n] # "dying")
      BY <1>0, <2>1, NodeKilled DEF NodeDealtWith, TaskKilled, IInv
    <3> QED BY <1>7, <2>1, <3>1, <3>2 DEF NodeDealtWith, TaskKilled
  <2>2. CASE UNCHANGED <<job, client, task>>
    BY <1>4, <2>2
  <2> QED BY <1>10, <2>1, <2>2 DEF CommandGoesOn, RunsQueried, RunEnded, RunsDone, nodeVars
<1>11. CASE UNCHANGED vars
  BY <1>4, <1>11 DEF vars, nodeVars
<1> QED BY <1>6, <1>8, <1>9, <1>10, <1>11, Steps

\* A run's document is new when its client or its controller creates it.
LEMMA NewRuns ==
  ASSUME IInv, [Next]_vars, NEW x \in Names, status[x] = "none", status'[x] # "none"
  PROVE  x[2] = 0 \/ \E n \in Nodes : SpawnChild(n) /\ x = ctl[n].run
<1>0. /\ status \in [Names -> Statuses] /\ NodesInOrder /\ RunsExist
      /\ user.runs \subseteq Names
  BY DEF IInv, Typed, Records, Users
<1>1. CASE Client \/ Stop
  <2>1. CASE CreateRun
    <3>1. client.node \in Nodes
      BY DEF IInv, Typed
    <3> QED BY <1>0, <2>1, <3>1, NamesAreRuns DEF CreateRun
  <2> QED
    BY <1>0, <1>1, <2>1
       DEF Client, Stop, WriteContext, Upload, LogPrimary, SubmitToBox, SubmitToAml,
           SubmitNode, SubmitToBatch, LogService, runVars
<1>2. ASSUME NEW n \in Nodes, Node(n) PROVE SpawnChild(n) /\ x = ctl[n].run
  <2>1. /\ Parent(n) \in Names
        /\ SpawnChild(n) => x # Parent(n)
    <3>1. Parent(n) \in Names
      BY NamesAreRuns
    <3>2. task[n] # "none" => status[Parent(n)] # "none"
      BY Logged, NamesAreRuns DEF IInv, AfterDoc
    <3> QED BY <3>1, <3>2 DEF SpawnChild, Now
  <2>2. NodeInOrder(n)
    BY <1>0 DEF NodesInOrder
  <2>3. CASE SpawnChild(n)
    BY <1>0, <2>1, <2>3 DEF SpawnChild
  <2>4. CASE ChildEnds(n)
    <3>1. status[Parent(n)] # "none"
      BY <2>4, Logged, NamesAreRuns DEF IInv, AfterDoc, ChildEnds, Now
    <3> QED BY <1>0, <2>1, <2>4, <3>1 DEF ChildEnds, SetStatus
  <2>5. CASE StartChild(n) \/ WriteEnd(n)
    BY <1>0, <2>2, <2>5, NamesAreRuns DEF StartChild, WriteEnd, SetStatus, Now, NodeInOrder
  <2> QED
    BY <1>2, <2>3, <2>4, <2>5
       DEF Node, Boot, Claim, ListChild, LogEnd, FinishChild, ShutDown, TaskDies, runVars
<1>3. CASE Commanded
  BY <1>3 DEF Commanded, runVars
<1>4. CASE CommandGoesOn
  <2>1. ASSUME NEW y \in Names, RunEnded(y) PROVE FALSE
    BY <1>0, <2>1 DEF RunEnded, SetStatus, RunsExist
  <2> QED
    BY <1>4, <2>1
       DEF CommandGoesOn, NodeDealtWith, RunsQueried, TaskKilled, RunsDone, runVars
<1>5. CASE UNCHANGED vars
  BY <1>5 DEF vars, runVars
<1> QED BY <1>1, <1>2, <1>3, <1>4, <1>5, Steps

\* Only its own step changes a controller; a task is submitted, or killed, by others.
LEMMA OnlyTheNode ==
  ASSUME IInv, [Next]_vars, NEW n \in Nodes
  PROVE  \/ Node(n) /\ NodeFrame(n)
         \/ /\ ctl'[n] = ctl[n]
            /\ \/ task'[n] = task[n]
               \/ task[n] = "none" /\ task'[n] = "waiting"
               \/ user.pc \in {"nodes", "task"} /\ n \in user.left
                  /\ (NodeDealtWith(n) \/ TaskKilled(n))
<1>0. /\ task \in [Nodes -> Tasks] /\ client.node \in Nodes /\ TasksInOrder /\ Typed
  BY DEF IInv, Typed
<1>1. CASE Client \/ Stop
  <2>1. CASE SubmitToBox \/ SubmitToAml
    <3>1. task[client.node] = "none" /\ task' = [task EXCEPT ![client.node] = "waiting"]
      BY <1>0, <2>1, CountsArePositive
         DEF SubmitToBox, SubmitToAml, SubmitNode, TasksInOrder, Nodes
    <3> QED BY <1>0, <2>1, <3>1 DEF SubmitToBox, SubmitToAml, SubmitNode
  <2>2. CASE SubmitToBatch
    BY <1>0, <2>2 DEF SubmitToBatch, TasksInOrder
  <2> QED
    BY <1>1, <2>1, <2>2
       DEF Client, Stop, CreateRun, WriteContext, Upload, LogPrimary, LogService, nodeVars
<1>2. ASSUME NEW m \in Nodes, Node(m), NodeFrame(m)
      PROVE  (m = n) \/ (ctl'[n] = ctl[n] /\ task'[n] = task[n])
  BY <1>2 DEF NodeFrame
<1>3. CASE Commanded
  BY <1>3 DEF Commanded, nodeVars
<1>4. CASE CommandGoesOn
  <2>1. ASSUME NEW m \in Nodes, NodeDealtWith(m) \/ TaskKilled(m)
        PROVE  ctl' = ctl /\ (m # n => task'[n] = task[n])
    BY <1>0, <2>1, NodeKilled DEF NodeDealtWith, TaskKilled
  <2>2. CASE UNCHANGED <<ctl, task>>
    BY <2>2
  <2> QED
    BY <1>4, <2>1, <2>2
       DEF CommandGoesOn, NodeDealtWith, RunsQueried, TaskKilled, RunEnded, RunsDone, nodeVars
<1>5. CASE UNCHANGED vars
  BY <1>5 DEF vars, nodeVars
<1> QED BY <1>1, <1>2, <1>3, <1>4, <1>5, Steps

LEMMA NumberedStep == IInv /\ [Next]_vars => Numbered'
<1> SUFFICES ASSUME IInv, [Next]_vars, NEW n \in Nodes, NEW x \in RunsOf(n), NEW y \in RunsOf(n),
                    status'[x] # "none", y[2] <= x[2]
             PROVE  status'[y] # "none"
  <2>1. \A n \in Nodes : RunsOf(n)' = RunsOf(n)
    BY DEF RunsOf
  <2> QED BY <2>1 DEF Numbered
<1>0. /\ Numbered /\ NodesInOrder /\ x \in Names /\ y \in Names
      /\ \A z \in Names : status[z] # "none" => status'[z] # "none"
      /\ x[2] \in Nat /\ y[2] \in Nat
  BY RunsStay, NamesAreRuns DEF IInv
<1>1. CASE status[x] # "none"
  BY <1>0, <1>1 DEF Numbered
<1>2. CASE status[x] = "none"
  <2>1. CASE x[2] = 0
    <3>1. y = x
      BY <1>0, <2>1, NamesAreRuns
    <3> QED BY <3>1
  <2>2. ASSUME NEW m \in Nodes, SpawnChild(m), x = ctl[m].run PROVE status'[y] # "none"
    <3>1. /\ x \in RunsOf(m)
          /\ \A z \in RunsOf(m) : z[2] < ctl[m].run[2] => status[z] # "none"
      BY <1>0, <2>2 DEF SpawnChild, Now, NodesInOrder, NodeInOrder
    <3>2. m = n
      BY <3>1, NamesAreRuns
    <3>3. y[2] < x[2] => status[y] # "none"
      BY <2>2, <3>1, <3>2
    <3>4. y[2] = x[2] => y = x
      BY NamesAreRuns
    <3> QED BY <1>0, <3>3, <3>4
  <2> QED BY <1>0, <1>2, <2>1, <2>2, NewRuns
<1> QED BY <1>1, <1>2

LEMMA RunsExistStep == IInv /\ [Next]_vars => RunsExist'
<1> SUFFICES ASSUME IInv, [Next]_vars PROVE RunsExist'
    OBVIOUS
<1>0. /\ RunsExist /\ NodesInOrder /\ listed \subseteq Names /\ user.runs \subseteq Names
      /\ \A x \in Names : status[x] # "none" => status'[x] # "none"
  BY RunsStay DEF IInv, Typed, Records, Users
<1>1. \A x \in listed' : status'[x] # "none"
  <2>1. ASSUME NEW n \in Nodes, ListChild(n) PROVE \A x \in listed' : status[x] # "none"
    BY <1>0, <2>1 DEF ListChild, Now, NodesInOrder, NodeInOrder, RunsExist
  <2>2. ASSUME NEW n \in Nodes, ListChild(n) PROVE listed' \subseteq Names
    BY <2>2, Steps, NodeMoves DEF Node, NodeFrame
  <2>3. CASE listed' = listed
    BY <1>0, <2>3 DEF RunsExist
  <2>4. listed' = listed \/ \E n \in Nodes : ListChild(n)
    BY Steps
       DEF Client, Stop, CreateRun, WriteContext, Upload, LogPrimary, SubmitToBox,
         SubmitToAml, SubmitNode, SubmitToBatch, LogService, nodeVars,
         Node, Boot, Claim, SpawnChild, StartChild, ChildEnds, LogEnd, WriteEnd,
         FinishChild, ShutDown, TaskDies, Commanded, CommandGoesOn, NodeDealtWith,
         RunsQueried, TaskKilled, RunEnded, RunsDone, vars
  <2> QED BY <1>0, <2>1, <2>2, <2>3, <2>4
<1>2. \A x \in user'.runs : status'[x] # "none"
  <2>1. CASE user'.runs \subseteq user.runs
    BY <1>0, <2>1 DEF RunsExist
  <2>2. ASSUME NEW n \in Nodes, RunsQueried(n) PROVE \A x \in user'.runs : status'[x] # "none"
    BY <1>0, <2>2 DEF RunsQueried, Open, RunsOf, Unwrapped
  <2>3. ASSUME NEW n \in Nodes, TaskKilled(n) PROVE \A x \in user'.runs : status'[x] # "none"
    <3>1. doc.logged
      BY <2>3, Logged DEF TaskKilled
    <3>2. \A x \in user'.runs : x \in Names /\ (x = Parent(n) \/ x \in listed)
      BY <2>3 DEF TaskKilled, LogsToEnd, RunsOf
    <3>3. \A x \in user'.runs : status[x] # "none"
      BY <1>0, <3>1, <3>2 DEF RunsExist, IInv, AfterDoc
    <3> QED BY <1>0, <3>2, <3>3
  <2>4. user' = user \/ user'.runs \subseteq user.runs
        \/ \E n \in Nodes : RunsQueried(n) \/ TaskKilled(n)
    BY OnlyTheClient, Steps
       DEF Client, Stop, CreateRun, WriteContext, Upload, LogPrimary, SubmitToBox,
         SubmitToAml, SubmitNode, SubmitToBatch, LogService, userVars,
         NodeFrame, Commanded, CommandGoesOn, NodeDealtWith, RunEnded, RunsDone, vars
  <2> QED BY <2>1, <2>2, <2>3, <2>4
<1> QED BY <1>1, <1>2 DEF RunsExist

\* What every step keeps of a node's runs, unless its controller creates one.
LEMMA RunsKept ==
  ASSUME IInv, [Next]_vars, NEW n \in Nodes, NEW x \in RunsOf(n)
  PROVE  /\ status[x] # "none" => status'[x] # "none"
         /\ (status[x] = "none" /\ x # Parent(n) /\ ~SpawnChild(n)) => status'[x] = "none"
<1>1. x \in Names /\ (x[2] = 0 => x = Parent(n))
  BY NamesAreRuns
<1>2. ASSUME NEW m \in Nodes, SpawnChild(m), x = ctl[m].run PROVE m = n
  <2>1. x \in RunsOf(m)
    BY <1>2 DEF SpawnChild, Now, IInv, NodesInOrder, NodeInOrder
  <2> QED BY <2>1, NamesAreRuns
<1> QED BY <1>1, <1>2, RunsStay, NewRuns

LEMMA NodesInOrderStep == IInv /\ [Next]_vars => NodesInOrder'
<1> SUFFICES ASSUME IInv, [Next]_vars, NEW n \in Nodes PROVE NodeInOrder(n)'
    BY DEF NodesInOrder
<1>0. /\ NodeInOrder(n) /\ ctl \in [Nodes -> Controllers] /\ RunsOf(n)' = RunsOf(n)
      /\ Entries' = Entries /\ Parent(n) \in RunsOf(n) /\ task \in [Nodes -> Tasks]
      /\ NoEntry \notin Entries /\ status \in [Names -> Statuses]
  BY NamesAreRuns, CountsArePositive
     DEF IInv, Typed, Records, NodesInOrder, RunsOf, Entries, NoEntry
<1>00. \A x \in RunsOf(n) :
         /\ status[x] # "none" => status'[x] # "none"
         /\ (status[x] = "none" /\ x # Parent(n) /\ ~SpawnChild(n)) => status'[x] = "none"
  BY RunsKept
<1> HIDE DEF Entries, RunsOf, Names, Nodes, NoEntry, Parent
<1>1. CASE /\ ctl'[n] = ctl[n]
           /\ task'[n] \in {"none", "waiting", "ended"} => task[n] \in {"none", "waiting", "ended"}
           /\ ~SpawnChild(n)
  BY <1>0, <1>00, <1>1 DEF NodeInOrder
<1>2. CASE /\ ctl'[n] = ctl[n] /\ ~Node(n)
           /\ \/ task'[n] = task[n]
              \/ task[n] = "none" /\ task'[n] = "waiting"
              \/ NodeDealtWith(n) \/ TaskKilled(n)
  <2>1. task'[n] \in {"none", "waiting", "ended"} => task[n] \in {"none", "waiting", "ended"}
    BY <1>0, <1>2 DEF NodeDealtWith, TaskKilled, KillNode, Over
  <2>2. ~SpawnChild(n)
    BY <1>2 DEF Node
  <2> QED BY <1>1, <1>2, <2>1, <2>2
<1>3. ASSUME task[n] \in {"running", "dying"}, task'[n] = task[n], ~SpawnChild(n),
             ctl'[n].entry = ctl[n].entry, ctl'[n].run = ctl[n].run,
             \/ ctl'[n].pc \in {"claim", "idle"}
             \/ ctl[n].pc = "list" /\ ctl'[n].pc = "start"
             \/ ctl[n].pc = "start" /\ ctl'[n].pc = "run"
             \/ ctl[n].pc = "run" /\ ctl'[n].pc = "end"
             \/ ctl[n].pc = "end" /\ ctl'[n].pc = "write"
             \/ ctl[n].pc = "write" /\ ctl'[n].pc = "finish" /\ ctl[n].entry \in Entries
      PROVE  NodeInOrder(n)'
  BY <1>0, <1>00, <1>3 DEF NodeInOrder
<1>4. CASE Boot(n)
  <2>1. ctl'[n].pc = "claim" /\ task'[n] = "running"
    BY <1>0, <1>4, ControllerGoesOn DEF Boot, NodeSteps
  <2> QED BY <2>1 DEF NodeInOrder
<1>5. CASE Claim(n)
  <2>1. CASE Claimable(n) = {}
    <3>1. /\ task'[n] = task[n] /\ task[n] \in {"running", "dying"} /\ ctl'[n].pc = "end"
          /\ ctl'[n].entry = NoEntry /\ ctl'[n].run = Parent(n)
      BY <1>0, <1>5, <2>1 DEF Claim, Now, Controllers
    <3>2. status'[Parent(n)] # "none"
      BY <1>0, <1>00, <3>1, Logged DEF IInv, AfterDoc
    <3> QED BY <1>0, <3>1, <3>2 DEF NodeInOrder, Parent
  <2>2. CASE Claimable(n) # {}
    <3> DEFINE e == Min(Claimable(n))
    <3>1. e \in Claimable(n) /\ e \in Entries
      BY <2>2, MinIsIn DEF Claimable
    <3>2. ctl' = [ctl EXCEPT ![n].pc = "spawn", ![n].entry = e, ![n].run = NextChild(n)]
      BY <1>5, <2>2 DEF Claim
    <3>3. task[n] \in {"running", "dying"} /\ task'[n] = task[n] /\ status' = status
      BY <1>5 DEF Claim, Now, runVars
    <3> HIDE DEF e
    <3>4. /\ NextChild(n) \in RunsOf(n) /\ NextChild(n) # Parent(n)
          /\ status[NextChild(n)] = "none"
          /\ \A x \in RunsOf(n) : x[2] < NextChild(n)[2] => status[x] # "none"
      BY <3>1, <3>3, Logged, NextIsFresh
    <3>5. ctl'[n].pc = "spawn" /\ ctl'[n].entry = e /\ ctl'[n].run = NextChild(n)
      <4>1. NextChild(n) \in Names /\ "spawn" \in NodeSteps /\ e \in Entries \cup {NoEntry}
        BY <3>1, <3>4, NamesAreRuns DEF NodeSteps
      <4>2. Takes(n, "spawn", e, NextChild(n))
        BY <3>2 DEF Takes
      <4> QED BY <1>0, <4>1, <4>2, ControllerTakes
    <3>6. Parent(n)' = Parent(n)
      BY DEF Parent
    <3> QED BY <1>0, <3>1, <3>3, <3>4, <3>5, <3>6 DEF NodeInOrder
  <2> QED BY <2>1, <2>2
<1>6. CASE SpawnChild(n)
  <2>1. /\ ctl'[n].pc = "list" /\ ctl'[n].entry = ctl[n].entry /\ ctl'[n].run = ctl[n].run
        /\ task'[n] = task[n] /\ task[n] \in {"running", "dying"} /\ ctl[n].pc = "spawn"
    BY <1>0, <1>6, ControllerGoesOn DEF SpawnChild, NodeSteps, Now
  <2>2. ctl[n].run \in Names /\ status' = [status EXCEPT ![Parent(n)] = "spawning", ![ctl[n].run] = "created"]
    BY <1>0, <1>6, <2>1, NamesAreRuns DEF NodeInOrder, SpawnChild
  <2>3. status'[ctl[n].run] = "created"
    BY <1>0, <2>2
  <2>4. Parent(n)' = Parent(n)
    BY DEF Parent
  <2> QED BY <1>0, <2>1, <2>3, <2>4 DEF NodeInOrder
<1>7. CASE ListChild(n) \/ StartChild(n) \/ ChildEnds(n) \/ LogEnd(n) \/ WriteEnd(n) \/ FinishChild(n)
  <2>1. /\ task[n] \in {"running", "dying"} /\ task'[n] = task[n]
        /\ ~SpawnChild(n)
    BY <1>7 DEF ListChild, StartChild, ChildEnds, LogEnd, WriteEnd, FinishChild, SpawnChild, Now
  <2>2. ctl'[n].entry = ctl[n].entry /\ ctl'[n].run = ctl[n].run
    BY <1>0, <1>7 DEF ListChild, StartChild, ChildEnds, LogEnd, WriteEnd, FinishChild,
                      CtlTo, Controllers
  <2>3. \/ ctl'[n].pc \in {"claim", "idle"}
        \/ ctl[n].pc = "list" /\ ctl'[n].pc = "start"
        \/ ctl[n].pc = "start" /\ ctl'[n].pc = "run"
        \/ ctl[n].pc = "run" /\ ctl'[n].pc = "end"
        \/ ctl[n].pc = "end" /\ ctl'[n].pc = "write"
        \/ ctl[n].pc = "write" /\ ctl'[n].pc = "finish" /\ ctl[n].entry \in Entries
    BY <1>0, <1>7 DEF ListChild, StartChild, ChildEnds, LogEnd, WriteEnd, FinishChild, Now,
                      CtlTo, Controllers
  <2> QED BY <1>3, <2>1, <2>2, <2>3
<1>8. CASE ShutDown(n)
  <2>1. ctl'[n].pc = "off"
    BY <1>0, <1>8, ControllerGoesOn DEF ShutDown, NodeSteps
  <2> QED BY <2>1 DEF NodeInOrder
<1>9. CASE TaskDies(n)
  <2>1. ctl' = ctl /\ task'[n] = "killed" /\ ~SpawnChild(n) /\ task[n] = "dying"
    <3>1. ctl' = ctl /\ task'[n] = "killed" /\ task[n] = "dying"
      BY <1>0, <1>9 DEF TaskDies
    <3> QED BY <3>1 DEF SpawnChild
  <2> QED BY <1>1, <2>1
<1> QED
  BY <1>2, <1>4, <1>5, <1>6, <1>7, <1>8, <1>9, OnlyTheNode DEF Node

-----------------------------------------------------------------------------
(* Claims, executions and children *)

\* What was claimed stays claimed, until the second write of the document.
LEMMA ClaimsStay ==
  ASSUME IInv, [Next]_vars
  PROVE  LogService \/ (Claimed \subseteq Claimed' /\ Rounds' = Rounds)
<1>0. doc.logged \in BOOLEAN /\ (doc.logged => doc \in Documents) /\ job \in Jobs
  BY Logged DEF IInv, Typed
<1>1. ASSUME doc.logged,
             \A e \in Entries : doc.active_runs[e].status # "unstarted" =>
                                doc'.active_runs[e].status # "unstarted"
      PROVE  Claimed \subseteq Claimed'
  BY <1>1, RunsStay DEF Claimed
<1>2. CASE Client \/ Stop
  <2>1. CASE LogPrimary
    BY <2>1 DEF LogPrimary, ClientTo, IInv, ClientInOrder, Claimed, Rounds
  <2>2. CASE doc' = doc /\ Rounds' = Rounds
    BY <2>2 DEF Claimed
  <2> QED
    BY <1>2, <2>1, <2>2
       DEF Client, Stop, CreateRun, WriteContext, Upload, SubmitToBox, SubmitToAml,
           SubmitNode, SubmitToBatch, ClientTo, Rounds
<1>3. ASSUME NEW n \in Nodes, Node(n), NodeFrame(n)
      PROVE  Claimed \subseteq Claimed' /\ Rounds' = Rounds
  <2>1. Rounds' = Rounds
    BY <1>3 DEF NodeFrame, Rounds
  <2>2. CASE doc' = doc
    BY <2>1, <2>2 DEF Claimed
  <2>3. CASE Claim(n) /\ Claimable(n) # {}
    <3>1. Min(Claimable(n)) \in Entries
      BY <2>3, MinIsIn DEF Claimable
    <3>2. doc' = [doc EXCEPT !.active_runs[Min(Claimable(n))] = [status |-> "started", node |-> n]]
      BY <2>3 DEF Claim
    <3>3. \A e \in Entries : doc.active_runs[e].status # "unstarted" =>
                              doc'.active_runs[e].status # "unstarted"
      BY <1>3, <3>1, <3>2, ClaimedDocument DEF NodeFrame
    <3> QED BY <1>1, <1>3, <2>1, <3>3, Logged DEF NodeFrame
  <2>4. CASE StartChild(n)
    <3>1. doc'.active_runs = doc.active_runs
      BY <1>3, <2>4, CountsAreNumbers, CountedDocument DEF StartChild, NodeFrame
    <3> QED BY <1>1, <1>3, <2>1, <3>1, Logged DEF NodeFrame
  <2>5. CASE FinishChild(n)
    <3>1. ctl[n].entry \in Entries
      BY <2>5 DEF FinishChild, Now, IInv, NodesInOrder, NodeInOrder
    <3> DEFINE e == ctl[n].entry
    <3>3. /\ doc' = [doc EXCEPT !.running_runs = @ - 1, !.completed_runs = @ + 1,
                                !.active_runs[e].status = "completed"]
          /\ doc \in Documents
      BY <1>3, <2>5 DEF FinishChild, NodeFrame
    <3> HIDE DEF e
    <3>4. /\ doc'.active_runs[e].status = "completed"
          /\ \A f \in Entries : f # e => doc'.active_runs[f] = doc.active_runs[f]
      BY <3>1, <3>3, FinishedDocument DEF e
    <3>2. \A f \in Entries : doc.active_runs[f].status # "unstarted" =>
                              doc'.active_runs[f].status # "unstarted"
      BY <3>4
    <3> QED BY <1>1, <1>3, <2>1, <3>2, Logged DEF NodeFrame
  <2>6. CASE ShutDown(n)
    <3> DEFINE left == doc.running_nodes - 1
               s == IF left = 0 THEN "completed" ELSE doc.job_status
    <3>1. doc' = doc \/ doc' = [doc EXCEPT !.running_nodes = left, !.job_status = s]
      BY <2>6 DEF ShutDown
    <3>2. left \in Int /\ s \in {"submitted", "running", "completed"} /\ doc \in Documents
      BY <1>3, CountsAreNumbers DEF NodeFrame
    <3>3. doc'.active_runs = doc.active_runs
      <4> HIDE DEF left, s
      <4> QED BY <3>1, <3>2, CountsAreNumbers, CountedDocument
    <3> QED BY <1>1, <1>3, <2>1, <3>3, Logged DEF NodeFrame
  <2> QED
    BY <1>3, <2>2, <2>3, <2>4, <2>5, <2>6
       DEF Node, Boot, Claim, SpawnChild, ListChild, ChildEnds, LogEnd, WriteEnd, TaskDies
<1>4. CASE Commanded
  BY <1>4 DEF Commanded, Claimed, Rounds
<1>5. CASE CommandGoesOn
  <2>1. ASSUME NEW x \in Names, RunEnded(x) PROVE Claimed \subseteq Claimed' /\ Rounds' = Rounds
    <3>1. doc'.active_runs = doc.active_runs
      BY <2>1, EndedRunIsCounted
    <3> QED BY <1>1, <2>1, <3>1, Logged DEF RunEnded, Rounds
  <2>2. CASE UNCHANGED <<doc, client>>
    BY <2>2 DEF Claimed, Rounds
  <2> QED
    BY <1>5, <2>1, <2>2 DEF CommandGoesOn, NodeDealtWith, RunsQueried, TaskKilled, RunsDone
<1>6. CASE UNCHANGED vars
  BY <1>6 DEF vars, Claimed, Rounds
<1> QED BY <1>2, <1>3, <1>4, <1>5, <1>6, Steps

\* A claim: the entry was free, and its controller now holds it.
Claims(n, e) ==
  /\ Claim(n) /\ e \in Entries /\ e \notin Claimed /\ e \in Claimed'
  /\ ctl[n].pc = "claim" /\ ctl'[n].pc = "spawn" /\ ctl'[n].entry = e

LEMMA ClaimTakes ==
  ASSUME IInv, NEW n \in Nodes, Claim(n), NodeFrame(n)
  PROVE  \/ ctl[n].pc = "claim" /\ ctl'[n].pc = "end" /\ doc' = doc
         \/ \E e \in Entries : Claims(n, e)
<1>0. ctl \in [Nodes -> Controllers] /\ ctl[n].pc = "claim" /\ doc \in Documents /\ doc.logged
  BY Logged DEF IInv, Typed, Records, Claim, Now, NodeFrame
<1>1. CASE Claimable(n) = {}
  BY <1>0, <1>1 DEF Claim, Controllers
<1>2. CASE Claimable(n) # {}
  <2> DEFINE e == Min(Claimable(n))
  <2>1. e \in Claimable(n) /\ e \in Entries
    BY <1>2, MinIsIn DEF Claimable
  <2>2. /\ doc' = [doc EXCEPT !.active_runs[e] = [status |-> "started", node |-> n]]
        /\ Takes(n, "spawn", e, NextChild(n))
    BY <1>2 DEF Claim, Takes
  <2> HIDE DEF e
  <2>3. NextChild(n) \in Names /\ "spawn" \in NodeSteps /\ e \in Entries \cup {NoEntry}
    BY <1>0, <2>1, NextIsFresh, NamesAreRuns DEF NodeSteps
  <2>4. ctl'[n].pc = "spawn" /\ ctl'[n].entry = e
    BY <1>0, <2>2, <2>3, ControllerTakes
  <2>5. Rewrites(doc, doc') /\ doc'.active_runs[e].status = "started"
    BY <1>0, <2>1, <2>2, ClaimedDocument
  <2>6. e \notin Claimed /\ e \in Claimed'
    BY <2>1, <2>5 DEF Claimable, Claimed, Rewrites, Documents
  <2> QED BY <1>0, <2>1, <2>4, <2>6 DEF Claims
<1> QED BY <1>1, <1>2

\* Who holds an entry changes with a claim, and with a start.
HoldersKept(E) == \A f \in E : Holders(f)' = Holders(f)
HolderClaims(n, e) ==
  /\ Claims(n, e) /\ UNCHANGED <<executed, Children>> /\ Spawning' = Spawning \cup {n}
  /\ Holders(e)' = Holders(e) \cup {n} /\ HoldersKept(Entries \ {e})
HolderSpawns(n) ==
  /\ SpawnChild(n) /\ n \in Spawning /\ UNCHANGED executed /\ HoldersKept(Entries)
  /\ Spawning' = Spawning \ {n} /\ Children' = Children \cup {ctl[n].run}
HolderStarts(n, e) ==
  /\ StartChild(n) /\ e = ctl[n].entry /\ n \in Holders(e) /\ UNCHANGED <<Spawning, Children>>
  /\ executed' = [executed EXCEPT ![e] = @ + 1]
  /\ Holders(e)' = Holders(e) \ {n} /\ HoldersKept(Entries \ {e})
NothingHeld == UNCHANGED <<executed, Children, Spawning>> /\ HoldersKept(Entries)

LEMMA HoldersChange ==
  ASSUME IInv, [Next]_vars
  PROVE  \/ \E n \in Nodes : \E e \in Entries : HolderClaims(n, e)
         \/ \E n \in Nodes : HolderSpawns(n)
         \/ \E n \in Nodes : \E e \in Entries : HolderStarts(n, e)
         \/ NothingHeld
<1>0. /\ ctl \in [Nodes -> Controllers] /\ NodesInOrder
      /\ \A x \in Names : x[2] \in Nat
  BY NamesAreRuns DEF IInv, Typed, Records
<1> HIDE DEF Nodes, Names, Entries
<1>1. ASSUME ~\E n \in Nodes : SpawnChild(n) PROVE Children' = Children
  <2>1. \A x \in Names : x[2] > 0 => (status[x] = "none" <=> status'[x] = "none")
    BY <1>0, <1>1, RunsStay, NewRuns
  <2> QED BY <2>1 DEF Children
<1>2. ASSUME ctl' = ctl PROVE Spawning' = Spawning /\ \A f \in Entries : Holders(f)' = Holders(f)
  BY <1>2 DEF Spawning, Holders
<1>3. ASSUME NEW n \in Nodes, Node(n), NodeFrame(n), ctl'[n].entry = ctl[n].entry,
             ctl'[n].pc \in Holding <=> ctl[n].pc \in Holding
      PROVE  \A f \in Entries : Holders(f)' = Holders(f)
  BY <1>3 DEF NodeFrame, Holders
<1>4. ASSUME NEW n \in Nodes, NodeFrame(n), ctl'[n].pc # "spawn", ctl[n].pc # "spawn"
      PROVE  Spawning' = Spawning
  BY <1>4 DEF NodeFrame, Spawning
<1>5. ASSUME NEW n \in Nodes, Claim(n), NodeFrame(n), NEW e \in Entries, Claims(n, e)
      PROVE  HolderClaims(n, e)
  <2>1. status' = status /\ executed' = executed
    BY <1>5 DEF Claim, runVars
  <2>2. Spawning' = Spawning \cup {n}
    BY <1>5 DEF Claims, NodeFrame, Spawning
  <2>3. Holders(e)' = Holders(e) \cup {n}
    BY <1>5 DEF Claims, NodeFrame, Holders, Holding
  <2>4. \A f \in Entries \ {e} : Holders(f)' = Holders(f)
    BY <1>5 DEF Claims, NodeFrame, Holders, Holding
  <2> QED BY <1>5, <2>1, <2>2, <2>3, <2>4 DEF Children, HolderClaims, HoldersKept
<1>6. ASSUME NEW n \in Nodes, Claim(n), NodeFrame(n), ctl[n].pc = "claim", ctl'[n].pc = "end"
      PROVE  NothingHeld
  <2>1. status' = status /\ executed' = executed
    BY <1>6 DEF Claim, runVars
  <2>2. \A f \in Entries : Holders(f)' = Holders(f)
    BY <1>6 DEF NodeFrame, Holders, Holding
  <2> QED BY <1>4, <1>6, <2>1, <2>2 DEF Children, NothingHeld, HoldersKept
<1>7. ASSUME NEW n \in Nodes, SpawnChild(n), NodeFrame(n)
      PROVE  HolderSpawns(n)
  <2>1. /\ ctl[n].pc = "spawn" /\ ctl'[n].pc = "list" /\ ctl'[n].entry = ctl[n].entry
        /\ executed' = executed
    BY <1>0, <1>7, ControllerGoesOn DEF SpawnChild, Now, NodeSteps
  <2>2. n \in Spawning /\ Spawning' = Spawning \ {n}
    BY <1>7, <2>1 DEF NodeFrame, Spawning
  <2>3. \A f \in Entries : Holders(f)' = Holders(f)
    BY <1>7, <2>1 DEF NodeFrame, Holders, Holding
  <2>4. ctl[n].run \in RunsOf(n) /\ ctl[n].run # Parent(n)
    BY <1>0, <2>1, CountsArePositive DEF NodesInOrder, NodeInOrder, NoEntry, Entries
  <2>5. ctl[n].run \in Names /\ ctl[n].run[2] > 0
    BY <1>0, <2>4, NamesAreRuns
  <2>6. status'[ctl[n].run] = "created"
    BY <1>7, <2>5 DEF SpawnChild, IInv, Typed
  <2>7. ASSUME NEW m \in Nodes, SpawnChild(m) PROVE m = n
    BY <1>7, <2>1, <2>7, <1>0, ControllerGoesOn DEF SpawnChild, Now, NodeFrame, NodeSteps
  <2>8. \A x \in Names : x[2] > 0 => (status'[x] # "none" <=> status[x] # "none" \/ x = ctl[n].run)
    BY <1>0, <2>6, <2>7, RunsStay, NewRuns
  <2> QED BY <1>7, <2>1, <2>2, <2>3, <2>5, <2>8 DEF Children, HolderSpawns, HoldersKept
<1>8. ASSUME NEW n \in Nodes, StartChild(n), NodeFrame(n)
      PROVE  \E e \in Entries : HolderStarts(n, e)
  <2>1. /\ ctl[n].pc = "start" /\ ctl'[n].pc = "run" /\ ctl'[n].entry = ctl[n].entry
        /\ executed' = [executed EXCEPT ![ctl[n].entry] = @ + 1]
    BY <1>0, <1>8 DEF StartChild, Now, Controllers
  <2>2. PICK e \in Entries : e = ctl[n].entry
    BY <1>0, <2>1 DEF NodesInOrder, NodeInOrder
  <2>3. n \in Holders(e)
    BY <2>1, <2>2 DEF Holders, Holding
  <2>4. Holders(e)' = Holders(e) \ {n}
    BY <1>8, <2>1, <2>2 DEF NodeFrame, Holders, Holding
  <2>5. \A f \in Entries \ {e} : Holders(f)' = Holders(f)
    BY <1>8, <2>1, <2>2 DEF NodeFrame, Holders, Holding
  <2>6. Children' = Children
    <3>1. ASSUME NEW m \in Nodes, SpawnChild(m) PROVE FALSE
      BY <1>0, <1>8, <2>1, <3>1, ControllerGoesOn DEF SpawnChild, Now, NodeFrame, NodeSteps
    <3> QED BY <1>1, <3>1
  <2>7. Spawning' = Spawning
    BY <1>4, <1>8, <2>1
  <2> QED BY <1>8, <2>1, <2>2, <2>3, <2>4, <2>5, <2>6, <2>7 DEF HolderStarts, HoldersKept
<1>9. ASSUME NEW n \in Nodes, Node(n), NodeFrame(n), ~Claim(n), ~SpawnChild(n), ~StartChild(n)
      PROVE  NothingHeld
  <2>1. \/ /\ executed' = executed /\ ctl'[n].entry = ctl[n].entry
           /\ ctl'[n].pc # "spawn" /\ ctl[n].pc # "spawn"
           /\ ctl'[n].pc \in Holding <=> ctl[n].pc \in Holding
        \/ ctl' = ctl /\ executed' = executed
    <3>1. CASE Boot(n)
      <4>1. ctl[n].pc = "off"
        BY <3>1, <1>0 DEF Boot, NodesInOrder, NodeInOrder
      <4> QED BY <1>0, <3>1, <4>1, ControllerGoesOn DEF Boot, Holding, NodeSteps
    <3>2. CASE ListChild(n) \/ ChildEnds(n) \/ LogEnd(n) \/ FinishChild(n) \/ ShutDown(n)
      BY <1>0, <3>2, ControllerGoesOn
         DEF ListChild, ChildEnds, LogEnd, FinishChild, ShutDown, Now, Holding, NodeSteps
    <3>3. CASE WriteEnd(n)
      BY <1>0, <3>3, ControllerGoesOn DEF WriteEnd, Now, Holding, NodeSteps
    <3>4. CASE TaskDies(n)
      BY <3>4 DEF TaskDies
    <3> QED BY <1>9, <3>1, <3>2, <3>3, <3>4 DEF Node
  <2>2. Children' = Children
    <3>1. ASSUME NEW m \in Nodes, SpawnChild(m) PROVE FALSE
      <4>1. ctl[m].pc = "spawn" /\ ctl'[m].pc = "list"
        BY <1>0, <3>1, ControllerGoesOn DEF SpawnChild, Now, NodeSteps
      <4>2. m # n
        BY <1>9, <3>1
      <4> QED BY <1>9, <4>1, <4>2 DEF NodeFrame
    <3> QED BY <1>1, <3>1
  <2> QED BY <1>2, <1>3, <1>4, <1>9, <2>1, <2>2 DEF NothingHeld, HoldersKept
<1>10. CASE ctl' = ctl /\ executed' = executed
  <2>1. ASSUME NEW m \in Nodes, SpawnChild(m) PROVE FALSE
    BY <1>0, <1>10, <2>1, ControllerGoesOn DEF SpawnChild, Now, NodeSteps
  <2> QED BY <1>1, <1>2, <1>10, <2>1 DEF NothingHeld, HoldersKept
<1>11. ASSUME NEW n \in Nodes, Node(n), NodeFrame(n), Claim(n)
       PROVE  \/ \E e \in Entries : Claims(n, e)
              \/ ctl[n].pc = "claim" /\ ctl'[n].pc = "end"
  BY <1>11, ClaimTakes
<1>12. \/ \E n \in Nodes : Node(n) /\ NodeFrame(n)
       \/ ctl' = ctl /\ executed' = executed
  BY Steps
     DEF Client, Stop, CreateRun, WriteContext, Upload, LogPrimary, SubmitToBox, SubmitToAml,
         SubmitNode, SubmitToBatch, LogService, nodeVars, Commanded, CommandGoesOn,
         NodeDealtWith, RunsQueried, TaskKilled, RunEnded, RunsDone, vars
<1>13. ASSUME NEW n \in Nodes, Node(n), NodeFrame(n), Claim(n)
       PROVE  NothingHeld \/ \E e \in Entries : HolderClaims(n, e)
  BY <1>5, <1>6, <1>11, <1>13
<1> QED BY <1>7, <1>8, <1>9, <1>10, <1>12, <1>13

LEMMA SecondWrite ==
  ASSUME IInv, LogService
  PROVE  Rounds = 0 /\ Rounds' = 1 /\ ctl' = ctl
BY DEF LogService, ClientTo, Rounds, nodeVars

LEMMA ClaimedTwiceStep == IInv /\ [Next]_vars => ClaimedTwice'
<1> SUFFICES ASSUME IInv, [Next]_vars, NEW f \in Entries
             PROVE  executed'[f] + Cardinality(Holders(f)') <=
                      (IF f \in Claimed' THEN 1 ELSE 0) + Rounds'
    BY DEF ClaimedTwice, Entries
<1> DEFINE c == Cardinality(Holders(f))
           cc == Cardinality(Holders(f)')
<1>0. /\ IsFiniteSet(Holders(f)) /\ c \in Nat /\ Rounds \in 0..1
      /\ executed \in [Entries -> Nat] /\ executed[f] \in Nat
      /\ executed[f] + c <= (IF f \in Claimed THEN 1 ELSE 0) + Rounds
      /\ ctl \in [Nodes -> Controllers]
  BY CountedSets DEF IInv, ClaimedTwice, Typed, Records
<1> HIDE DEF c, cc
<1>1. CASE executed'[f] = executed[f] /\ cc = c
  <2>1. CASE LogService
    BY <1>0, <1>1, <2>1, SecondWrite DEF cc
  <2>2. CASE Claimed \subseteq Claimed' /\ Rounds' = Rounds
    BY <1>0, <1>1, <2>2 DEF cc
  <2> QED BY <2>1, <2>2, ClaimsStay
<1>2. ASSUME NEW E, HoldersKept(E), f \in E PROVE cc = c
  BY <1>2 DEF HoldersKept, c, cc
<1>3. ASSUME NEW n \in Nodes, NEW e \in Entries, HolderClaims(n, e)
      PROVE  executed'[f] + cc <= (IF f \in Claimed' THEN 1 ELSE 0) + Rounds'
  <2>1. CASE f # e
    BY <1>1, <1>2, <1>3, <2>1 DEF HolderClaims, cc
  <2>2. CASE f = e
    <3>1. cc = IF n \in Holders(f) THEN c ELSE c + 1
      BY <1>0, <1>3, <2>2, FS_AddElement DEF HolderClaims, c, cc
    <3>2. ~LogService
      BY <1>0, <1>3, SecondWrite DEF HolderClaims, Claims
    <3>3. Rounds' = Rounds
      BY <3>2, ClaimsStay
    <3>4. f \notin Claimed /\ f \in Claimed' /\ executed' = executed
      BY <1>3, <2>2 DEF HolderClaims, Claims
    <3> QED BY <1>0, <3>1, <3>3, <3>4
  <2> QED BY <2>1, <2>2
<1>4. ASSUME NEW n \in Nodes, HolderSpawns(n) PROVE executed'[f] = executed[f] /\ cc = c
  BY <1>2, <1>4 DEF HolderSpawns
<1>5. ASSUME NEW n \in Nodes, NEW e \in Entries, HolderStarts(n, e)
      PROVE  executed'[f] + cc <= (IF f \in Claimed' THEN 1 ELSE 0) + Rounds'
  <2>1. CASE f # e
    <3>1. executed'[f] = executed[f]
      BY <1>0, <1>5, <2>1 DEF HolderStarts
    <3> QED BY <1>1, <1>2, <1>5, <2>1, <3>1 DEF HolderStarts, cc
  <2>2. CASE f = e
    <3>1. cc = IF n \in Holders(f) THEN c - 1 ELSE c
      BY <1>0, <1>5, <2>2, FS_RemoveElement DEF HolderStarts, c, cc
    <3>2. n \in Holders(f) /\ executed'[f] = executed[f] + 1
      BY <1>0, <1>5, <2>2 DEF HolderStarts
    <3>3. ~LogService
      <4>1. ctl[n].pc = "start" /\ ctl'[n].pc = "run"
        BY <1>0, <1>5 DEF HolderStarts, StartChild, Now, Controllers
      <4> QED BY <4>1, SecondWrite
    <3>4. Claimed \subseteq Claimed' /\ Rounds' = Rounds
      BY <3>3, ClaimsStay
    <3> QED BY <1>0, <3>1, <3>2, <3>4
  <2> QED BY <2>1, <2>2
<1>6. CASE NothingHeld
  BY <1>1, <1>2, <1>6 DEF NothingHeld, cc
<1> QED
  <2>1. cc = Cardinality(Holders(f)')
    BY DEF cc
  <2> QED BY <1>1, <1>3, <1>4, <1>5, <1>6, <2>1, HoldersChange

LEMMA ChildrenAreClaimsStep == IInv /\ [Next]_vars => ChildrenAreClaims'
<1> SUFFICES ASSUME IInv, [Next]_vars
             PROVE  Cardinality(Children') + Cardinality(Spawning')
                      <= Cardinality(Claimed') + Rounds' * RunCount
    BY DEF ChildrenAreClaims
<1> DEFINE ch == Cardinality(Children)
           sp == Cardinality(Spawning)
           cl == Cardinality(Claimed)
           clp == Cardinality(Claimed')
<1>0. /\ IsFiniteSet(Children) /\ IsFiniteSet(Spawning) /\ IsFiniteSet(Claimed)
      /\ ch \in Nat /\ sp \in Nat /\ cl \in 0..RunCount /\ Rounds \in 0..1
      /\ RunCount \in Nat /\ ctl \in [Nodes -> Controllers]
      /\ ch + sp <= cl + Rounds * RunCount
  BY CountedSets, CountsArePositive DEF IInv, ChildrenAreClaims, Typed, Records
<1>1. IsFiniteSet(Claimed') /\ clp \in Nat
  <2>1. Claimed' \in SUBSET Entries
    BY DEF Claimed, Entries
  <2>2. IsFiniteSet(Claimed')
    BY <2>1, Finite, FS_Subset
  <2> QED BY <2>2, FS_CardinalityType
<1> HIDE DEF ch, sp, cl, clp
<1>2. Claimed \subseteq Claimed' => cl <= clp
  BY <1>1, FS_Subset DEF cl, clp
<1>3. CASE UNCHANGED <<Children, Spawning>>
  <2>1. CASE LogService
    <3>1. ch + sp <= RunCount
      BY <1>0, <2>1, SecondWrite
    <3>2. Rounds' = 1
      BY <2>1, SecondWrite
    <3> QED BY <1>0, <1>1, <1>3, <3>1, <3>2 DEF ch, sp, clp
  <2>2. CASE Claimed \subseteq Claimed' /\ Rounds' = Rounds
    <3>1. Rounds * RunCount \in Nat
      BY <1>0
    <3> QED BY <1>0, <1>1, <1>2, <1>3, <2>2, <3>1 DEF ch, sp, clp
  <2> QED BY <2>1, <2>2, ClaimsStay
<1>4. ASSUME NEW n \in Nodes, NEW e \in Entries, HolderClaims(n, e)
      PROVE  Cardinality(Children') + Cardinality(Spawning')
               <= Cardinality(Claimed') + Rounds' * RunCount
  <2>1. ~LogService
    BY <1>0, <1>4, SecondWrite DEF HolderClaims, Claims
  <2>2. Claimed \subseteq Claimed' /\ Rounds' = Rounds
    BY <2>1, ClaimsStay
  <2>3. Claimed \cup {e} \in SUBSET Claimed' /\ e \notin Claimed
    BY <1>4, <2>2 DEF HolderClaims, Claims
  <2>4. cl + 1 <= clp
    <3>1. IsFiniteSet(Claimed \cup {e}) /\ Cardinality(Claimed \cup {e}) = cl + 1
      BY <1>0, <2>3, FS_AddElement DEF cl
    <3> QED BY <1>1, <2>3, <3>1, FS_Subset DEF clp
  <2>5. Cardinality(Spawning') <= sp + 1 /\ Cardinality(Spawning') \in Nat
    <3>1. Cardinality(Spawning') = IF n \in Spawning THEN sp ELSE sp + 1
      BY <1>0, <1>4, FS_AddElement DEF HolderClaims, sp
    <3> QED BY <1>0, <3>1
  <2>6. Children' = Children
    BY <1>4 DEF HolderClaims
  <2>7. Rounds * RunCount \in Nat
    BY <1>0
  <2> QED BY <1>0, <1>1, <2>2, <2>4, <2>5, <2>6, <2>7 DEF ch, clp
<1>5. ASSUME NEW n \in Nodes, HolderSpawns(n)
      PROVE  Cardinality(Children') + Cardinality(Spawning')
               <= Cardinality(Claimed') + Rounds' * RunCount
  <2>1. ~LogService
    <3>1. ctl[n].pc = "spawn" /\ ctl'[n].pc = "list"
      BY <1>0, <1>5, ControllerGoesOn DEF HolderSpawns, SpawnChild, Now, NodeSteps
    <3> QED BY <3>1, SecondWrite
  <2>2. Claimed \subseteq Claimed' /\ Rounds' = Rounds
    BY <2>1, ClaimsStay
  <2>3. Cardinality(Children') <= ch + 1 /\ Cardinality(Children') \in Nat
    <3>1. Cardinality(Children') = IF ctl[n].run \in Children THEN ch ELSE ch + 1
      BY <1>0, <1>5, FS_AddElement DEF HolderSpawns, ch
    <3> QED BY <1>0, <3>1
  <2>4. Cardinality(Spawning') = sp - 1
    <3>1. Cardinality(Spawning') = IF n \in Spawning THEN sp - 1 ELSE sp
      BY <1>0, <1>5, FS_RemoveElement DEF HolderSpawns, sp
    <3> QED BY <1>5, <3>1 DEF HolderSpawns
  <2>5. Rounds * RunCount \in Nat
    BY <1>0
  <2> QED BY <1>0, <1>1, <1>2, <2>2, <2>3, <2>4, <2>5 DEF clp
<1>6. ASSUME NEW n \in Nodes, NEW e \in Entries, HolderStarts(n, e)
      PROVE  UNCHANGED <<Children, Spawning>>
  BY <1>6 DEF HolderStarts
<1> QED BY <1>3, <1>4, <1>5, <1>6, HoldersChange DEF NothingHeld

-----------------------------------------------------------------------------
(* The runs of a node: how they end, and who ends them *)

\* A step is the node's own, or the client's before the job has a document, or
\* a cancel command ends a run; no other step touches the runs of the node.
BeforeTheJob ==
  /\ ~doc.logged /\ UNCHANGED <<job, task, ctl, listed, ends, user>>
  /\ \A x \in Names : status'[x] = status[x] \/ status'[x] \in {"created", "queued"}
  /\ doc'.logged => \A n \in Nodes : status'[Parent(n)] = "queued"
RunsAlone(n) ==
  /\ ctl'[n] = ctl[n] /\ job' = job /\ (doc'.logged => doc.logged)
  /\ \A x \in RunsOf(n) : /\ status'[x] = status[x] /\ ends'[x] = ends[x]
                          /\ x \in listed' <=> x \in listed
  /\ \/ task'[n] = task[n]
     \/ task[n] = "none" /\ task'[n] = "waiting"
     \/ user.pc \in {"nodes", "task"} /\ n \in user.left
        /\ (NodeDealtWith(n) \/ TaskKilled(n))

LEMMA NodeOrNot ==
  ASSUME IInv, [Next]_vars, NEW n \in Nodes
  PROVE  \/ Node(n) /\ NodeFrame(n)
         \/ BeforeTheJob
         \/ RunsAlone(n)
         \/ \E x \in Names : RunEnded(x)
<1>0. /\ status \in [Names -> Statuses] /\ ends \in [Names -> Nat] /\ client.node \in Nodes
      /\ \A m \in Nodes : Parent(m) \in Names /\ Parent(m)[2] = 0
      /\ \A m \in Nodes : \A x \in RunsOf(m) : x \in Names /\ (m # n => x \notin RunsOf(n))
  BY NamesAreRuns DEF IInv, Typed
<1> HIDE DEF Nodes, Names, Parent, RunsOf
<1>1. CASE Client \/ Stop
  <2>1. CASE CreateRun
    BY <1>0, <2>1 DEF CreateRun, nodeVars, userVars, BeforeTheJob, IInv, ClientInOrder
  <2>2. CASE LogPrimary
    BY <1>0, <2>2 DEF LogPrimary, nodeVars, userVars, BeforeTheJob, IInv, ClientInOrder
  <2>3. CASE LogService
    <3>1. doc.logged
      BY <2>3 DEF LogService, IInv, ClientInOrder
    <3> QED BY <2>3, <3>1 DEF LogService, nodeVars, runVars, RunsAlone
  <2>4. CASE Stop \/ (Client /\ ~CreateRun /\ ~LogPrimary /\ ~LogService)
    <3>1. UNCHANGED <<job, doc, status, ends, listed, ctl>>
      BY <2>4 DEF Client, Stop, WriteContext, Upload, SubmitToBox, SubmitToAml, SubmitNode,
                  SubmitToBatch, nodeVars, runVars
    <3>2. task'[n] = task[n] \/ (task[n] = "none" /\ task'[n] = "waiting")
      <4>1. CASE SubmitToBox \/ SubmitToAml
        <5>1. task[client.node] = "none" /\ task' = [task EXCEPT ![client.node] = "waiting"]
          BY <1>0, <4>1, CountsArePositive
             DEF SubmitToBox, SubmitToAml, SubmitNode, IInv, TasksInOrder, Nodes
        <5> QED BY <1>0, <5>1 DEF IInv, Typed
      <4>2. CASE SubmitToBatch
        BY <4>2 DEF SubmitToBatch, IInv, TasksInOrder
      <4> QED BY <2>4, <4>1, <4>2 DEF Client, Stop, WriteContext, Upload, nodeVars
    <3> QED BY <3>1, <3>2 DEF RunsAlone
  <2> QED BY <1>1, <2>1, <2>2, <2>3, <2>4
<1>2. ASSUME NEW m \in Nodes, Node(m), NodeFrame(m), m # n PROVE RunsAlone(n)
  BY <1>0, <1>2, Logged DEF NodeFrame, RunsAlone
<1>3. CASE Commanded
  BY <1>3 DEF Commanded, nodeVars, runVars, RunsAlone
<1>4. CASE CommandGoesOn
  <2>1. CASE ~\E x \in Names : RunEnded(x)
    <3>1. UNCHANGED <<job, doc, status, ends, listed, ctl>>
      BY <1>4, <2>1 DEF CommandGoesOn, NodeDealtWith, RunsQueried, TaskKilled, RunsDone,
                        nodeVars, runVars
    <3> QED BY <3>1, OnlyTheNode DEF RunsAlone
  <2> QED BY <2>1
<1>5. CASE UNCHANGED vars
  BY <1>5 DEF vars, nodeVars, runVars, RunsAlone
<1> QED BY <1>1, <1>2, <1>3, <1>4, <1>5, Steps

\* A node that is over stays over, and when the service ends a task at once it
\* has no step left.
LEMMA OverStays ==
  ASSUME IInv, [Next]_vars, NEW n \in Nodes
  PROVE  /\ Over(n) => Over(n)'
         /\ task[n] = "killed" => task'[n] = "killed" /\ ~NodeFrame(n)
         /\ task[n] # "none" => task'[n] # "none"
         /\ Prompt /\ Over(n) => ~NodeFrame(n)
         /\ Prompt' = Prompt /\ job' = job
<1>0. /\ task \in [Nodes -> Tasks] /\ TasksInOrder /\ NodeInOrder(n)
      /\ ctl \in [Nodes -> Controllers]
  BY DEF IInv, Typed, Records, NodesInOrder
<1>1. CASE Node(n) /\ NodeFrame(n)
  <2>1. task'[n] = task[n] \/ task'[n] \in {"running", "ended", "killed"}
    BY <1>0, <1>1
       DEF Node, Boot, Claim, SpawnChild, ListChild, StartChild, ChildEnds, LogEnd, WriteEnd,
           FinishChild, ShutDown, TaskDies
  <2>2. Over(n) => task'[n] = task[n] \/ task'[n] \in {"ended", "killed"}
    BY <1>0, <1>1
       DEF Node, Boot, Claim, SpawnChild, ListChild, StartChild, ChildEnds, LogEnd, WriteEnd,
           FinishChild, ShutDown, TaskDies, Over
  <2>3. task[n] \in {"waiting", "running", "dying"} /\ job' = job
    BY <1>1 DEF NodeFrame
  <2>4. Prompt => task[n] # "dying"
    BY <1>0 DEF TasksInOrder
  <2> QED BY <2>1, <2>2, <2>3, <2>4 DEF Over, Prompt
<1>2. Prompt /\ Over(n) => ~NodeFrame(n)
  BY <1>0 DEF TasksInOrder, NodeFrame, Over
<1>3. task[n] = "killed" => ~NodeFrame(n)
  BY DEF NodeFrame
<1>4. CASE BeforeTheJob
  BY <1>2, <1>3, <1>4 DEF BeforeTheJob, Over, Prompt
<1>5. CASE RunsAlone(n)
  <2>1. task'[n] = task[n] \/ task'[n] \in {"waiting", "killed", "dying"}
    BY <1>0, <1>5 DEF RunsAlone, NodeDealtWith, TaskKilled, KillNode
  <2>2. Over(n) => task'[n] = task[n]
    BY <1>0, <1>5 DEF RunsAlone, NodeDealtWith, TaskKilled, KillNode, Over
  <2> QED BY <1>2, <1>3, <1>5, <2>1, <2>2 DEF RunsAlone, Over, Prompt
<1>6. ASSUME NEW x \in Names, RunEnded(x) PROVE task' = task /\ job' = job
  BY <1>6 DEF RunEnded, nodeVars
<1> QED BY <1>1, <1>2, <1>3, <1>4, <1>5, <1>6, NodeOrNot DEF Over, Prompt

LEMMA PromptStays == IInv /\ [Next]_vars => (Prompt' <=> Prompt) /\ job' = job
<1>1. 0 \in Nodes
  BY CountsArePositive DEF Nodes
<1> QED BY <1>1, OverStays DEF Prompt

LEMMA EndsInOrderStep == IInv /\ [Next]_vars => EndsInOrder'
<1> SUFFICES ASSUME IInv, [Next]_vars, Prompt, NEW n \in Nodes, NEW x \in RunsOf(n)
             PROVE  EndsOf(n, x)'
  <2>1. \A m \in Nodes : RunsOf(m)' = RunsOf(m)
    BY DEF RunsOf
  <2> QED BY <2>1, PromptStays DEF EndsInOrder, Nodes
<1>0. /\ status \in [Names -> Statuses] /\ ends \in [Names -> Nat] /\ x \in Names
      /\ task \in [Nodes -> Tasks] /\ ctl \in [Nodes -> Controllers] /\ EndsOf(n, x)
      /\ ends[x] \in Nat /\ NodeInOrder(n) /\ x[1] = n /\ Parent(n) \in RunsOf(n)
      /\ Parent(n) \in Names
  BY NamesAreRuns DEF IInv, Typed, Records, EndsInOrder, NodesInOrder
<1>1. CASE BeforeTheJob
  <2>1. ends[x] = 0 /\ status[x] \in {"none", "created"}
    BY <1>0, <1>1 DEF BeforeTheJob, IInv, BeforeDoc
  <2>2. ~Written(n, x)
    BY <1>0, <2>1 DEF EndsOf
  <2>3. status'[x] \in {"none", "created", "queued"}
    BY <1>0, <1>1, <2>1 DEF BeforeTheJob
  <2>4. ends'[x] = 0 /\ ~Written(n, x)'
    BY <1>1, <2>1, <2>2 DEF BeforeTheJob, Written
  <2> QED BY <2>3, <2>4 DEF EndsOf, Unwrapped
<1>2. CASE RunsAlone(n)
  <2>1. task[n] = "killed" => task'[n] = "killed"
    BY OverStays
  <2>2. status'[x] = status[x] /\ ends'[x] = ends[x] /\ (Written(n, x)' <=> Written(n, x))
    BY <1>2 DEF RunsAlone, Written
  <2> QED BY <1>0, <2>1, <2>2 DEF EndsOf
<1>3. ASSUME NEW y \in Names, RunEnded(y) PROVE EndsOf(n, x)'
  <2>1. task' = task /\ (Written(n, x)' <=> Written(n, x))
    BY <1>3 DEF RunEnded, nodeVars, Written
  <2>2. CASE x = y
    <3>1. Over(n) /\ status[x] \in Unwrapped
      BY <1>3, <2>2 DEF RunEnded, IInv, UserRunsAreOpen
    <3>2. status'[x] = "cancelled" /\ ends'[x] = ends[x] + 1
      BY <1>0, <1>3, <2>2 DEF RunEnded, EndRecord, SetStatus
    <3>3. Written(n, x) => task[n] = "killed"
      BY <1>0, <3>1 DEF Over, NodeInOrder, Written, IInv, TasksInOrder
    <3> QED BY <1>0, <2>1, <3>1, <3>2, <3>3 DEF EndsOf, Unwrapped
  <2>3. CASE x # y
    <3>1. status'[x] = status[x] /\ ends'[x] = ends[x]
      BY <1>0, <1>3, <2>3 DEF RunEnded, EndRecord, SetStatus
    <3> QED BY <1>0, <2>1, <3>1 DEF EndsOf
  <2> QED BY <2>2, <2>3
<1>4. ASSUME Node(n), NodeFrame(n) PROVE EndsOf(n, x)'
  <2> DEFINE run == ctl[n].run
  <2>1. task[n] \in {"waiting", "running"} /\ ends[x] \in 0..1 /\ doc.logged
    BY <1>0, <1>4, Logged DEF NodeFrame, EndsOf, IInv, TasksInOrder
  <2>2. (task[n] = "running" /\ ctl[n].pc # "idle") => status[Parent(n)] \in Unwrapped
    BY DEF IInv, LiveRuns
  <2>3. (task[n] = "running" /\ ctl[n].pc \in {"list", "start", "run", "end", "write"})
          => status[run] \in Unwrapped
    BY DEF IInv, LiveRuns
  <2>4. ctl[n].pc \in {"spawn", "list", "start", "run", "end", "write", "finish"} =>
          run \in RunsOf(n) /\ run \in Names
    BY <1>0, NamesAreRuns DEF NodeInOrder
  <2>5. CASE ends'[x] = ends[x] /\ ~Written(n, x) /\ ~Written(n, x)'
             /\ (status'[x] = status[x] \/ (status'[x] \in Unwrapped /\ ends[x] = 0))
    BY <1>0, <2>1, <2>5 DEF EndsOf, Unwrapped
  <2>6. CASE Boot(n)
    <3>1. ctl[n].pc = "off" /\ ctl'[n].pc = "claim"
      BY <1>0, <2>6, ControllerGoesOn DEF Boot, NodeInOrder, NodeSteps
    <3> QED BY <2>5, <2>6, <3>1 DEF Boot, runVars, Written
  <2>7. CASE Claim(n)
    <3>1. ctl[n].pc = "claim" /\ ctl'[n].pc # "write"
      <4>1. ASSUME NEW e \in Entries, Claims(n, e) PROVE ctl'[n].pc = "spawn"
        BY <4>1 DEF Claims
      <4>2. ctl[n].pc = "claim"
        BY <2>7 DEF Claim, Now
      <4>3. \/ ctl[n].pc = "claim" /\ ctl'[n].pc = "end" /\ doc' = doc
            \/ \E e \in Entries : Claims(n, e)
        BY <1>4, <2>7, ClaimTakes
      <4> QED BY <4>1, <4>2, <4>3
    <3> QED BY <2>5, <2>7, <3>1 DEF Claim, runVars, Written
  <2>8. CASE SpawnChild(n)
    <3>1. ctl[n].pc = "spawn" /\ ctl'[n].pc = "list" /\ task[n] = "running"
      BY <1>0, <2>1, <2>8, ControllerGoesOn DEF SpawnChild, Now, NodeSteps
    <3>2. status'[x] = status[x] \/ (status'[x] \in Unwrapped /\ x \in {Parent(n), run})
      BY <1>0, <2>4, <2>8, <3>1 DEF SpawnChild, Unwrapped
    <3>3. x \in {Parent(n), run} => status[x] \in Unwrapped \cup {"none"}
      BY <1>0, <2>2, <3>1 DEF NodeInOrder
    <3>4. ~Written(n, x) /\ ~Written(n, x)'
      BY <3>1 DEF Written
    <3> QED BY <1>0, <2>5, <2>8, <3>2, <3>3, <3>4 DEF SpawnChild, EndsOf
  <2>9. CASE ListChild(n) \/ FinishChild(n) \/ ShutDown(n)
    <3>1. ctl[n].pc # "write" /\ ctl'[n].pc # "write"
      BY <1>0, <2>9, ControllerGoesOn DEF ListChild, FinishChild, ShutDown, Now, NodeSteps
    <3> QED BY <2>5, <2>9, <3>1 DEF ListChild, FinishChild, ShutDown, runVars, Written
  <2>10. CASE StartChild(n)
    <3>1. ctl[n].pc = "start" /\ ctl'[n].pc = "run" /\ task[n] = "running"
      BY <1>0, <2>1, <2>10 DEF StartChild, Now, Controllers
    <3>2. status'[x] = status[x] \/ (status'[x] = "running" /\ x = run)
      BY <1>0, <2>4, <2>10, <3>1 DEF StartChild, SetStatus
    <3>3. ~Written(n, x) /\ ~Written(n, x)'
      BY <3>1 DEF Written
    <3> QED BY <1>0, <2>3, <2>5, <2>10, <3>1, <3>2, <3>3 DEF StartChild, EndsOf, Unwrapped
  <2>11. CASE ChildEnds(n)
    <3>1. ctl[n].pc = "run" /\ ctl'[n].pc = "end" /\ task[n] = "running"
      BY <1>0, <2>1, <2>11, ControllerGoesOn DEF ChildEnds, Now, NodeSteps
    <3>2. status'[x] = status[x] \/ (status'[x] = "queued" /\ x = Parent(n))
      BY <1>0, <2>11 DEF ChildEnds, SetStatus
    <3>3. ~Written(n, x) /\ ~Written(n, x)'
      BY <3>1 DEF Written
    <3> QED BY <1>0, <2>2, <2>5, <2>11, <3>1, <3>2, <3>3 DEF ChildEnds, EndsOf, Unwrapped
  <2>12. CASE LogEnd(n)
    <3>1. ctl[n].pc = "end" /\ ctl'[n].pc = "write" /\ ctl'[n].run = run /\ task[n] = "running"
      BY <1>0, <2>1, <2>12, ControllerGoesOn DEF LogEnd, Now, NodeSteps
    <3>2. ~Written(n, x) /\ (Written(n, x)' <=> x = run) /\ status' = status
      BY <2>12, <3>1 DEF Written, LogEnd
    <3>3. ends'[x] = IF x = run THEN ends[x] + 1 ELSE ends[x]
      BY <1>0, <2>4, <2>12, <3>1 DEF LogEnd, EndRecord
    <3>4. x = run => ends[x] = 0 /\ status[x] \in Unwrapped
      BY <1>0, <2>3, <3>1, <3>2 DEF EndsOf
    <3> QED BY <1>0, <2>5, <3>2, <3>3, <3>4 DEF EndsOf, Unwrapped
  <2>13. CASE WriteEnd(n)
    <3>1. ctl[n].pc = "write" /\ ctl'[n].pc # "write" /\ task[n] = "running"
      BY <1>0, <2>1, <2>13, ControllerGoesOn DEF WriteEnd, Now, NodeSteps
    <3>2. ~Written(n, x)' /\ (Written(n, x) <=> x = run) /\ ends' = ends
      BY <2>13, <3>1 DEF Written, WriteEnd
    <3>3. status'[x] = IF x = run THEN "completed" ELSE status[x]
      BY <1>0, <2>4, <2>13, <3>1 DEF WriteEnd, SetStatus
    <3> QED BY <1>0, <2>1, <2>5, <3>2, <3>3 DEF EndsOf, Unwrapped
  <2>14. CASE TaskDies(n)
    BY <2>1, <2>14 DEF TaskDies
  <2> QED
    BY <1>4, <2>6, <2>7, <2>8, <2>9, <2>10, <2>11, <2>12, <2>13, <2>14 DEF Node
<1> QED BY <1>1, <1>2, <1>3, <1>4, NodeOrNot

LEMMA LiveRunsStep == IInv /\ [Next]_vars => LiveRuns'
<1> DEFINE Live(n) ==
      /\ (doc.logged /\ task[n] \in {"none", "waiting"}) => status[Parent(n)] \in Unwrapped
      /\ (task[n] = "running" /\ ctl[n].pc # "idle") => status[Parent(n)] \in Unwrapped
      /\ (task[n] = "running" /\ ctl[n].pc \in {"list", "start", "run", "end", "write"})
           => status[ctl[n].run] \in Unwrapped
<1> SUFFICES ASSUME IInv, [Next]_vars, Prompt, NEW n \in Nodes PROVE Live(n)'
  BY PromptStays DEF LiveRuns, Nodes
<1>0. /\ status \in [Names -> Statuses] /\ task \in [Nodes -> Tasks]
      /\ ctl \in [Nodes -> Controllers] /\ NodeInOrder(n) /\ Live(n)
      /\ Parent(n) \in RunsOf(n) /\ Parent(n) \in Names
      /\ ctl[n].run \in RunsOf(n) => ctl[n].run \in Names
  BY NamesAreRuns DEF IInv, Typed, Records, LiveRuns, NodesInOrder
<1>00. Parent(n)' = Parent(n) /\ Unwrapped' = Unwrapped
  BY DEF Parent, Unwrapped
<1> HIDE DEF Nodes, Names, Parent, RunsOf
<1>1. CASE BeforeTheJob
  <2>1. task'[n] = "none" /\ (doc'.logged => status'[Parent(n)] = "queued")
    BY <1>1 DEF BeforeTheJob, IInv, BeforeDoc
  <2> QED BY <1>00, <2>1 DEF Unwrapped
<1>2. CASE RunsAlone(n)
  <2>1. /\ ctl'[n] = ctl[n] /\ (doc'.logged => doc.logged)
        /\ status'[Parent(n)] = status[Parent(n)]
        /\ ctl[n].run \in RunsOf(n) => status'[ctl[n].run] = status[ctl[n].run]
    BY <1>0, <1>2 DEF RunsAlone
  <2>2. \/ task'[n] = task[n]
        \/ task[n] = "none" /\ task'[n] = "waiting"
        \/ task'[n] \in {"ended", "killed", "dying"}
    BY <1>0, <1>2, NodeKilled DEF RunsAlone, NodeDealtWith, TaskKilled, IInv
  <2> QED BY <1>0, <1>00, <2>1, <2>2 DEF NodeInOrder
<1>3. ASSUME NEW x \in Names, RunEnded(x) PROVE Live(n)'
  <2>1. task' = task /\ ctl' = ctl /\ doc.logged
    BY <1>3, Logged DEF RunEnded, nodeVars
  <2>2. CASE x \in RunsOf(n)
    <3>1. Over(n)
      BY <1>3, <2>2 DEF RunEnded, IInv, UserRunsAreOpen
    <3> QED BY <2>1, <3>1 DEF Over
  <2>3. CASE x \notin RunsOf(n)
    <3>1. \A y \in RunsOf(n) : y \in Names => status'[y] = status[y]
      BY <1>0, <1>3, <2>3 DEF RunEnded, SetStatus
    <3> QED BY <1>0, <1>00, <2>1, <3>1 DEF NodeInOrder
  <2> QED BY <2>2, <2>3
<1>4. ASSUME Node(n), NodeFrame(n) PROVE Live(n)'
  <2> DEFINE run == ctl[n].run
  <2>1. task[n] \in {"waiting", "running"} /\ doc.logged
    BY <1>4, Logged DEF NodeFrame, IInv, TasksInOrder
  <2>2. CASE Boot(n)
    <3>1. task'[n] = "running" /\ ctl'[n].pc = "claim" /\ status' = status /\ task[n] = "waiting"
      BY <1>0, <2>2, ControllerGoesOn DEF Boot, NodeSteps, runVars
    <3> QED BY <1>0, <1>00, <2>1, <3>1
  <2>3. CASE Claim(n)
    <3>1. task' = task /\ status' = status /\ ctl[n].pc = "claim" /\ task[n] = "running"
      BY <2>1, <2>3 DEF Claim, runVars, Now
    <3>2. ctl'[n].pc = "spawn" \/ (ctl'[n].pc = "end" /\ ctl'[n].run = Parent(n))
      <4>1. CASE Claimable(n) = {}
        BY <1>0, <2>3, <4>1 DEF Claim, Controllers
      <4>2. CASE Claimable(n) # {}
        <5>1. ctl' = [ctl EXCEPT ![n].pc = "spawn", ![n].entry = Min(Claimable(n)),
                                 ![n].run = NextChild(n)]
          BY <2>3, <4>2 DEF Claim
        <5> HIDE DEF NextChild
        <5> QED BY <1>0, <5>1 DEF Controllers
      <4> QED BY <4>1, <4>2
    <3> QED BY <1>0, <1>00, <3>1, <3>2
  <2>4. CASE SpawnChild(n)
    <3>1. /\ ctl[n].pc = "spawn" /\ ctl'[n].pc = "list" /\ ctl'[n].run = run
          /\ task' = task /\ task[n] = "running" /\ run \in RunsOf(n)
      BY <1>0, <2>1, <2>4, ControllerGoesOn DEF SpawnChild, Now, NodeSteps, NodeInOrder
    <3>2. status'[Parent(n)] \in Unwrapped /\ status'[run] \in Unwrapped
      BY <1>0, <2>4, <3>1 DEF SpawnChild, Unwrapped
    <3> QED BY <1>00, <3>1, <3>2
  <2>5. CASE ListChild(n) \/ LogEnd(n)
    <3>1. /\ ctl[n].pc \in {"list", "end"} /\ ctl'[n].pc \in {"start", "write"}
          /\ ctl'[n].run = run /\ task' = task /\ task[n] = "running" /\ status' = status
      BY <1>0, <2>1, <2>5, ControllerGoesOn DEF ListChild, LogEnd, Now, NodeSteps, runVars
    <3> QED BY <1>0, <1>00, <3>1
  <2>6. CASE StartChild(n)
    <3>1. /\ ctl[n].pc = "start" /\ ctl'[n].pc = "run" /\ ctl'[n].run = run
          /\ task' = task /\ task[n] = "running" /\ run \in RunsOf(n)
      BY <1>0, <2>1, <2>6 DEF StartChild, Now, Controllers, NodeInOrder
    <3>2. /\ status'[run] = "running"
          /\ status'[Parent(n)] \in {status[Parent(n)], "running"}
      BY <1>0, <2>6, <3>1 DEF StartChild, SetStatus
    <3> QED BY <1>0, <1>00, <3>1, <3>2 DEF Unwrapped
  <2>7. CASE ChildEnds(n)
    <3>1. /\ ctl[n].pc = "run" /\ ctl'[n].pc = "end" /\ ctl'[n].run = run
          /\ task' = task /\ task[n] = "running" /\ run \in RunsOf(n)
      BY <1>0, <2>1, <2>7, ControllerGoesOn DEF ChildEnds, Now, NodeSteps, NodeInOrder
    <3>2. /\ status'[Parent(n)] = "queued"
          /\ status'[run] \in {status[run], "queued"}
      BY <1>0, <2>7, <3>1 DEF ChildEnds, SetStatus
    <3> QED BY <1>0, <1>00, <3>1, <3>2 DEF Unwrapped
  <2>8. CASE WriteEnd(n)
    <3>1. /\ ctl[n].pc = "write" /\ task' = task /\ task[n] = "running" /\ run \in RunsOf(n)
          /\ ctl'[n].pc = IF ctl[n].entry = NoEntry THEN "idle" ELSE "finish"
      BY <1>0, <2>1, <2>8, ControllerGoesOn DEF WriteEnd, Now, NodeSteps, NodeInOrder
    <3>2. run # Parent(n) => status'[Parent(n)] = status[Parent(n)]
      BY <1>0, <2>8, <3>1 DEF WriteEnd, SetStatus
    <3> QED BY <1>0, <1>00, <3>1, <3>2 DEF NodeInOrder
  <2>9. CASE FinishChild(n)
    <3>1. /\ ctl[n].pc = "finish" /\ ctl'[n].pc = "claim" /\ task' = task
          /\ task[n] = "running" /\ status' = status
      BY <1>0, <2>1, <2>9, ControllerGoesOn DEF FinishChild, Now, NodeSteps, runVars
    <3> QED BY <1>0, <1>00, <3>1
  <2>10. CASE ShutDown(n) \/ TaskDies(n)
    <3>1. task'[n] \in {"ended", "killed"}
      BY <1>0, <2>10 DEF ShutDown, TaskDies
    <3> QED BY <3>1
  <2> QED
    BY <1>4, <2>2, <2>3, <2>4, <2>5, <2>6, <2>7, <2>8, <2>9, <2>10 DEF Node
<1> QED BY <1>1, <1>2, <1>3, <1>4, NodeOrNot

-----------------------------------------------------------------------------
(* The cancel command *)

\* The steps of another leave the command alone, and what it knows of the job.
LEMMA OnlyTheUser ==
  ASSUME IInv, [Next]_vars
  PROVE  \/ Commanded
         \/ CommandGoesOn
         \/ user' = user
<1> QED
  BY Steps DEF NodeFrame, userVars, Client, Stop, CreateRun, WriteContext, Upload, LogPrimary,
               SubmitToBox, SubmitToAml, SubmitNode, SubmitToBatch, LogService, vars

LEMMA KnownStays ==
  ASSUME IInv, [Next]_vars, doc.logged, doc.known
  PROVE  doc'.logged /\ doc'.known /\ doc.services = Nodes
<1>0. ServicesAreKnown /\ client.pc = "done" /\ doc.services = Nodes
  BY DEF IInv, ServicesAreKnown
<1>1. doc'.logged
  BY RunsStay
<1>2. client'.pc = "done"
  BY <1>0, OnlyTheClient
     DEF Client, Stop, CreateRun, WriteContext, Upload, LogPrimary, SubmitToBox, SubmitToAml,
         SubmitToBatch, LogService
<1>3. ServicesAreKnown'
  BY ServicesAreKnownStep
<1> QED BY <1>0, <1>1, <1>2, <1>3 DEF ServicesAreKnown

LEMMA UserInOrderStep == IInv /\ [Next]_vars => UserInOrder'
<1> SUFFICES ASSUME IInv, [Next]_vars PROVE UserInOrder'
    OBVIOUS
<1>0. UserInOrder /\ user.left \in SUBSET Nodes /\ Nodes # {}
  <2>1. 0 \in Nodes
    BY CountsArePositive DEF Nodes
  <2> QED BY <2>1 DEF IInv, Typed, Records, Users
<1>1. \A n \in Nodes : task[n] # "none" => task'[n] # "none"
  BY OverStays
<1>2. (doc.logged /\ doc.known) => doc'.logged /\ doc'.known /\ doc.services = Nodes
  BY KnownStays
<1>3. CASE Commanded
  <2>1. user' \in Users /\ task' = task /\ doc' = doc
    BY <1>3 DEF Commanded, nodeVars
  <2>2. user'.left \in SUBSET Nodes
    BY <2>1 DEF Users
  <2> HIDE DEF Nodes
  <2> QED BY <1>0, <1>3, <2>1, <2>2 DEF Commanded, UserInOrder
<1>4. CASE CommandGoesOn
  <2>1. ASSUME NEW n \in Nodes, n \in user.left, NodeDealtWith(n) PROVE UserInOrder'
    BY <1>0, <1>1, <1>2, <2>1 DEF NodeDealtWith, UserInOrder
  <2>2. ASSUME NEW n \in Nodes, RunsQueried(n) PROVE UserInOrder'
    BY <1>0, <1>1, <1>2, <2>2 DEF RunsQueried, UserInOrder
  <2>3. ASSUME NEW n \in Nodes, TaskKilled(n) PROVE UserInOrder'
    BY <1>0, <1>1, <1>2, <2>3 DEF TaskKilled, UserInOrder
  <2>4. ASSUME NEW x \in Names, RunEnded(x) PROVE UserInOrder'
    BY <1>0, <1>1, <1>2, <2>4 DEF RunEnded, UserInOrder
  <2>5. CASE RunsDone
    BY <1>0, <1>1, <1>2, <2>5 DEF RunsDone, UserInOrder
  <2> QED BY <1>4, <2>1, <2>2, <2>3, <2>4, <2>5 DEF CommandGoesOn
<1>5. CASE user' = user
  BY <1>0, <1>1, <1>2, <1>5 DEF UserInOrder
<1> QED BY <1>3, <1>4, <1>5, OnlyTheUser

LEMMA HitsAreKilledStep == IInv /\ [Next]_vars => HitsAreKilled'
<1> SUFFICES ASSUME IInv, [Next]_vars, NEW n \in user'.hit PROVE Prompt /\ task'[n] = "killed"
    BY PromptStays DEF HitsAreKilled
<1>0. /\ \A m \in user.hit : m \in Nodes /\ Prompt /\ task[m] = "killed"
      /\ \A m \in Nodes : task[m] = "killed" => task'[m] = "killed"
  BY OverStays DEF IInv, Typed, Records, Users, HitsAreKilled
<1>1. CASE n \in user.hit
  BY <1>0, <1>1
<1>2. ASSUME NEW m \in Nodes, NodeDealtWith(m) \/ TaskKilled(m), n \notin user.hit
      PROVE  Prompt /\ task'[n] = "killed"
  <2>1. n = m /\ Prompt /\ ~Over(m)
    BY <1>2 DEF NodeDealtWith, TaskKilled, Hit
  <2> QED BY <1>2, <2>1, NodeKilled DEF NodeDealtWith, TaskKilled, IInv
<1>3. user'.hit = user.hit \/ user'.hit = {}
      \/ \E m \in Nodes : NodeDealtWith(m) \/ TaskKilled(m)
  BY OnlyTheUser DEF Commanded, CommandGoesOn, RunsQueried, RunEnded, RunsDone
<1> QED BY <1>1, <1>2, <1>3

\* The runs a command still has to end change with its own steps only.
LEMMA UserRunsAreOpenStep == IInv /\ [Next]_vars => UserRunsAreOpen'
<1> SUFFICES ASSUME IInv, [Next]_vars, Prompt, NEW n \in Nodes, NEW x \in user'.runs, x \in RunsOf(n)
             PROVE  Over(n)' /\ status'[x] \in Unwrapped
  BY PromptStays DEF UserRunsAreOpen, Nodes, RunsOf, Unwrapped
<1>0. /\ status \in [Names -> Statuses] /\ x \in Names /\ UserRunsAreOpen /\ UserInOrder
      /\ Over(n) => Over(n)' /\ ~NodeFrame(n)
      /\ \A m \in Nodes : x \in RunsOf(m) => m = n
  BY NamesAreRuns, OverStays DEF IInv, Typed
<1> HIDE DEF Nodes, Names, RunsOf
<1>1. CASE x \in user.runs
  <2>1. Over(n) /\ status[x] \in Unwrapped /\ doc.logged
    <3>1. user.pc = "wrapup"
      BY <1>0, <1>1 DEF UserInOrder
    <3> QED BY <1>0, <1>1, <3>1, Logged DEF UserRunsAreOpen
  <2>2. ASSUME NEW y \in Names, RunEnded(y) PROVE status'[x] = status[x]
    BY <1>0, <2>2 DEF RunEnded, SetStatus
  <2>3. status'[x] = status[x]
    BY <1>0, <2>1, <2>2, NodeOrNot DEF RunsAlone, BeforeTheJob
  <2> QED BY <1>0, <2>1, <2>3
<1>2. ASSUME NEW m \in Nodes, RunsQueried(m) PROVE Over(n)' /\ status'[x] \in Unwrapped
  <2>1. x \in Open(m) /\ status' = status /\ user.op = "job" /\ user.pc = "query"
    BY <1>0, <1>2 DEF RunsQueried, runVars, UserInOrder
  <2>2. m = n /\ status[x] \in Unwrapped
    BY <1>0, <2>1 DEF Open
  <2>3. Over(n)
    BY <2>1 DEF IInv, JobCancelled
  <2> QED BY <1>0, <2>1, <2>2, <2>3
<1>3. ASSUME NEW m \in Nodes, TaskKilled(m) PROVE Over(n)' /\ status'[x] \in Unwrapped
  <2>1. /\ x \in LogsToEnd(m) /\ status' = status /\ doc.logged
        /\ task'[m] \in {"ended", "killed", "dying"}
    BY <1>3, Logged, NodeKilled DEF TaskKilled, runVars, IInv
  <2>2. m = n /\ ends[x] = 0 /\ (x = Parent(n) \/ x \in listed)
    BY <1>0, <2>1 DEF LogsToEnd
  <2>3. status[x] # "none"
    BY <2>1, <2>2 DEF IInv, AfterDoc, RunsExist
  <2>4. status[x] \in Unwrapped
    BY <1>0, <2>2, <2>3 DEF IInv, EndsInOrder, EndsOf, Statuses
  <2> QED BY <2>1, <2>2, <2>4 DEF Over
<1>4. user'.runs \subseteq user.runs \/ \E m \in Nodes : RunsQueried(m) \/ TaskKilled(m)
  BY OnlyTheUser DEF Commanded, CommandGoesOn, NodeDealtWith, RunEnded, RunsDone
<1> QED BY <1>1, <1>2, <1>3, <1>4

\* A node that is over keeps its runs and its controller, but for the run the
\* command ends.
LEMMA OverIsQuiet ==
  ASSUME IInv, [Next]_vars, NEW n \in Nodes, Prompt, Over(n)
  PROVE  /\ ctl'[n] = ctl[n]
         /\ \A x \in RunsOf(n) : /\ x \in listed' <=> x \in listed
                                 /\ status'[x] = status[x] \/ RunEnded(x)
         /\ Open(n)' \subseteq Open(n)
<1>0. /\ status \in [Names -> Statuses] /\ ~NodeFrame(n) /\ doc.logged /\ RunsOf(n)' = RunsOf(n)
      /\ \A x \in RunsOf(n) : x \in Names
  BY OverStays, Logged, NamesAreRuns DEF IInv, Typed, Over, RunsOf
<1>1. CASE RunsAlone(n)
  BY <1>0, <1>1 DEF RunsAlone, Open
<1>2. ASSUME NEW y \in Names, RunEnded(y)
      PROVE  /\ ctl' = ctl /\ listed' = listed
             /\ \A x \in RunsOf(n) : x = y \/ status'[x] = status[x]
             /\ status'[y] \notin Unwrapped
  BY <1>0, <1>2 DEF RunEnded, SetStatus, nodeVars, Unwrapped
<1>3. ASSUME NEW y \in Names, RunEnded(y) PROVE Open(n)' \subseteq Open(n)
  BY <1>0, <1>2, <1>3 DEF Open
<1> QED BY <1>0, <1>1, <1>2, <1>3, NodeOrNot DEF BeforeTheJob

LEMMA JobCancelledStep == IInv /\ [Next]_vars => JobCancelled'
<1> SUFFICES ASSUME IInv, [Next]_vars, user'.op = "job" PROVE JobCancelled'
    BY DEF JobCancelled
<1>0. /\ JobCancelled /\ UserInOrder /\ (Prompt' <=> Prompt)
      /\ \A n \in Nodes : Over(n) => Over(n)'
      /\ \A n \in Nodes : Prompt /\ Over(n) => Open(n)' \subseteq Open(n)
  BY OverStays, PromptStays, OverIsQuiet DEF IInv
<1> HIDE DEF Nodes
<1>1. CASE Commanded
  BY <1>1 DEF Commanded, JobCancelled, Nodes
<1>2. CASE user' = user
  BY <1>0, <1>2 DEF JobCancelled, Nodes
<1>3. ASSUME NEW n \in Nodes, NodeDealtWith(n) PROVE JobCancelled'
  <2>1. Over(n)' /\ doc.services = Nodes /\ doc'.services = Nodes
    <3>1. task'[n] \in {"ended", "killed", "dying"}
      BY <1>3, NodeKilled DEF NodeDealtWith, IInv
    <3>2. user.op = "job" /\ user.pc = "nodes"
      BY <1>0, <1>3 DEF NodeDealtWith, UserInOrder
    <3>3. doc.services = Nodes /\ doc' = doc
      BY <1>0, <1>3, <3>2, KnownStays DEF NodeDealtWith, UserInOrder
    <3> QED BY <3>1, <3>3 DEF Over
  <2>2. \A m \in Nodes : (m = n \/ m \notin user.left) => Over(m)'
    BY <1>0, <1>3, <2>1 DEF NodeDealtWith, JobCancelled
  <2> QED BY <1>3, <2>1, <2>2 DEF NodeDealtWith, JobCancelled, Nodes
<1>4. ASSUME NEW n \in Nodes, RunsQueried(n) PROVE JobCancelled'
  <2>1. /\ user.pc = "query" /\ user.op = "job" /\ user.runs = {} /\ user'.runs = Open(n)
        /\ user'.left = user.left \ {n} /\ user'.pc = "wrapup"
    BY <1>0, <1>4 DEF RunsQueried, UserInOrder
  <2>2. \A m \in Nodes : Over(m) /\ (Prompt /\ m \notin user.left => Open(m) = {})
    BY <1>0, <2>1 DEF JobCancelled
  <2>3. \A m \in Nodes : Over(m)'
    BY <1>0, <2>2
  <2>4. ASSUME NEW m \in Nodes, Prompt, m \notin user'.left PROVE Open(m)' \subseteq user'.runs
    <3>1. CASE m = n
      BY <1>0, <2>1, <2>2, <2>4, <3>1
    <3>2. CASE m # n
      BY <1>0, <2>1, <2>2, <2>4, <3>2
    <3> QED BY <3>1, <3>2
  <2> QED BY <1>0, <2>1, <2>3, <2>4 DEF JobCancelled, Nodes
<1>5. ASSUME NEW n \in Nodes, TaskKilled(n) PROVE FALSE
  BY <1>0, <1>5 DEF TaskKilled, UserInOrder
<1>6. ASSUME NEW x \in Names, RunEnded(x) PROVE JobCancelled'
  <2>1. /\ user.pc = "wrapup" /\ user.op = "job" /\ user'.runs = user.runs \ {x}
        /\ user'.left = user.left /\ user'.pc = "wrapup"
    BY <1>6 DEF RunEnded
  <2>2. \A m \in Nodes : Over(m) /\ (Prompt /\ m \notin user.left => Open(m) \subseteq user.runs)
    BY <1>0, <2>1 DEF JobCancelled
  <2>3. status'[x] = "cancelled"
    BY <1>6 DEF RunEnded, SetStatus, IInv, Typed
  <2>4. \A m \in Nodes : x \notin Open(m)'
    BY <2>3 DEF Open, Unwrapped
  <2>5. \A m \in Nodes : Over(m)'
    BY <1>0, <2>2
  <2>6. \A m \in Nodes : (Prompt /\ m \notin user'.left) => Open(m)' \subseteq user'.runs
    BY <1>0, <2>1, <2>2, <2>4
  <2> QED BY <1>0, <2>1, <2>5, <2>6 DEF JobCancelled, Nodes
<1>7. CASE RunsDone
  BY <1>0, <1>7 DEF RunsDone, JobCancelled, Nodes
<1> QED
  BY <1>1, <1>2, <1>3, <1>4, <1>5, <1>6, <1>7, OnlyTheUser DEF CommandGoesOn

LEMMA RunCancelledStep == IInv /\ [Next]_vars => RunCancelled'
<1> SUFFICES ASSUME IInv, [Next]_vars, user'.op # "job", job.service = "batch",
                    NEW n \in user'.hit, NEW x \in Open(n)'
             PROVE  \/ x \in user'.runs \/ (x \notin listed' /\ x # Parent(n)) \/ Written(n, x)'
  BY PromptStays DEF RunCancelled, Parent
<1>0. /\ RunCancelled /\ UserInOrder /\ Prompt /\ user.hit \in SUBSET Nodes
      /\ \A m \in user.hit : Over(m) /\ m \in Nodes
      /\ x \in RunsOf(n) /\ x \in Names /\ n \in Nodes
      /\ status \in [Names -> Statuses]
  <2>1. user' \in Users
    BY TypedStep DEF Typed, Records
  <2>2. n \in Nodes
    BY <2>1 DEF Users
  <2>3. x \in RunsOf(n)
    BY DEF Open, RunsOf
  <2> QED
    BY <2>2, <2>3, NamesAreRuns
       DEF IInv, Typed, Records, Users, HitsAreKilled, Over, Prompt
<1> HIDE DEF Nodes, Names, RunsOf, Parent
\* What was hit before is quiet: its open runs are the command's, or exempt.
<1>1. ASSUME user.op # "job", n \in user.hit
      PROVE  /\ x \in user.runs \/ (x \notin listed' /\ x # Parent(n)) \/ Written(n, x)'
             /\ x \in Open(n)
  <2>1. ctl'[n] = ctl[n] /\ (x \in listed' <=> x \in listed) /\ x \in Open(n)
    BY <1>0, <1>1, OverIsQuiet
  <2> QED BY <1>0, <1>1, <2>1 DEF RunCancelled, Written
<1>2. CASE Commanded
  BY <1>2 DEF Commanded
<1>3. CASE user' = user
  BY <1>1, <1>3
<1>4. ASSUME NEW m \in Nodes, NodeDealtWith(m) \/ RunsQueried(m) PROVE FALSE
  BY <1>0, <1>4 DEF NodeDealtWith, RunsQueried, UserInOrder
<1>5. ASSUME NEW m \in Nodes, TaskKilled(m)
      PROVE  x \in user'.runs \/ (x \notin listed' /\ x # Parent(n)) \/ Written(n, x)'
  <2>1. /\ user.op # "job" /\ user.runs = {} /\ user'.hit = user.hit \cup Hit(m)
        /\ status' = status /\ ctl' = ctl /\ listed' = listed
        /\ user'.runs = IF Over(m) THEN {} ELSE LogsToEnd(m)
    BY <1>0, <1>5 DEF TaskKilled, runVars, UserInOrder
  <2>2. CASE n \in user.hit
    BY <1>1, <2>1, <2>2
  <2>3. CASE n \notin user.hit
    <3>1. n = m /\ ~Over(m)
      BY <2>1, <2>3 DEF Hit
    <3>2. status[x] \in Unwrapped
      BY <2>1 DEF Open, Unwrapped
    <3>3. ends[x] = 0 \/ Written(n, x)
      BY <1>0, <3>2 DEF IInv, EndsInOrder, EndsOf
    <3>4. Written(n, x)' <=> Written(n, x)
      BY <2>1 DEF Written
    <3> QED BY <1>0, <2>1, <3>1, <3>3, <3>4 DEF LogsToEnd
  <2> QED BY <2>2, <2>3
<1>6. ASSUME NEW y \in Names, RunEnded(y)
      PROVE  x \in user'.runs \/ (x \notin listed' /\ x # Parent(n)) \/ Written(n, x)'
  <2>1. user.op # "job" /\ n \in user.hit /\ user'.runs = user.runs \ {y}
    BY <1>6 DEF RunEnded
  <2>2. x # y
    <3>1. status'[y] = "cancelled"
      BY <1>0, <1>6 DEF RunEnded, SetStatus
    <3> QED BY <3>1 DEF Open, Unwrapped
  <2> QED BY <1>1, <2>1, <2>2
<1>7. CASE RunsDone
  BY <1>1, <1>7 DEF RunsDone
<1> QED
  BY <1>2, <1>3, <1>4, <1>5, <1>6, <1>7, OnlyTheUser DEF CommandGoesOn

-----------------------------------------------------------------------------
(* The invariant is inductive *)

LEMMA InitInv == Init => IInv
<1> SUFFICES ASSUME Init PROVE IInv
    OBVIOUS
<1>0. /\ doc.logged = FALSE /\ doc = NoDoc /\ 0 \in Nodes /\ NoRun \in Names \cup {NoRun}
      /\ user = NoUser /\ client = [pc |-> "runs", node |-> 0] /\ job \in Jobs /\ cancels = 0
      /\ task = [n \in Nodes |-> "none"] /\ ctl = [n \in Nodes |-> Off]
      /\ status = [x \in Names |-> "none"] /\ ends = [x \in Names |-> 0]
      /\ files = {} /\ listed = {} /\ executed = [e \in Entries |-> 0] /\ reset = FALSE
  BY CountsArePositive DEF Init, NoDoc, Nodes
<1> HIDE DEF Nodes, Names, Entries, NoRun, NoEntry
<1>1. Records
  <2>1. Off \in Controllers
    BY DEF Off, Controllers, NodeSteps
  <2>2. NoUser \in Users
    BY DEF NoUser, Users, UserSteps
  <2> QED BY <1>0, <2>1, <2>2 DEF Records
<1>2. \A n \in Nodes : ctl[n].pc = "off" /\ task[n] = "none"
  BY <1>0 DEF Off
<1>3. /\ user.op = "none" /\ user.pc = "idle" /\ user.left = {} /\ user.hit = {}
      /\ user.runs = {}
  BY <1>0 DEF NoUser
<1>4. \A x \in Names : status[x] = "none" /\ ends[x] = 0
  BY <1>0
<1>5. Typed
  <2>1. cancels \in 0..job.cancels
    BY <1>0, KnownJobs
  <2>2. client \in [pc : ClientSteps, node : Nodes]
    BY <1>0 DEF ClientSteps
  <2>3. executed \in [Entries -> Nat] /\ ends \in [Names -> Nat]
    BY <1>0
  <2>4. task \in [Nodes -> Tasks] /\ status \in [Names -> Statuses]
    BY <1>0 DEF Tasks, Statuses
  <2> QED BY <1>0, <1>1, <2>1, <2>2, <2>3, <2>4 DEF Typed
<1>6. BeforeDoc /\ AfterDoc /\ ServicesAreKnown
  BY <1>0, <1>2, <1>3, <1>4 DEF BeforeDoc, AfterDoc, ServicesAreKnown
<1>7. ClientInOrder
  BY <1>0 DEF ClientInOrder, Nodes
<1>8. TasksInOrder
  BY <1>0, <1>2 DEF TasksInOrder
<1>9. NodesInOrder
  BY <1>2 DEF NodesInOrder, NodeInOrder
<1>10. \A n \in Nodes : \A x \in RunsOf(n) : x \in Names
  BY DEF RunsOf
<1>11. Numbered /\ RunsExist /\ EndsInOrder
  BY <1>0, <1>2, <1>3, <1>4, <1>10 DEF Numbered, RunsExist, EndsInOrder, EndsOf, Written, Unwrapped
<1>12. LiveRuns /\ UserInOrder /\ HitsAreKilled /\ UserRunsAreOpen /\ JobCancelled /\ RunCancelled
  BY <1>0, <1>2, <1>3
     DEF LiveRuns, UserInOrder, HitsAreKilled, UserRunsAreOpen, JobCancelled, RunCancelled
<1>13. Children = {} /\ Spawning = {} /\ Claimed = {} /\ Rounds = 0
       /\ \A e \in Entries : Holders(e) = {} /\ executed[e] = 0
  BY <1>0, <1>2, <1>4 DEF Children, Spawning, Claimed, Rounds, Holders, Holding
<1>14. ChildrenAreClaims /\ ClaimedTwice
  <2>1. Cardinality({}) = 0 /\ 0 * RunCount = 0
    BY FS_EmptySet, CountsArePositive
  <2> QED BY <1>13, <2>1 DEF ChildrenAreClaims, ClaimedTwice
<1> QED BY <1>5, <1>6, <1>7, <1>8, <1>9, <1>11, <1>12, <1>14 DEF IInv

LEMMA Inductive == Spec => []IInv
<1>1. IInv /\ [Next]_vars => IInv'
  <2> SUFFICES ASSUME IInv, [Next]_vars PROVE IInv'
    OBVIOUS
  <2>1. Typed' /\ BeforeDoc' /\ AfterDoc' /\ ClientInOrder' /\ TasksInOrder'
        /\ ServicesAreKnown'
    BY TypedStep, BeforeDocStep, AfterDocStep, ClientInOrderStep, TasksInOrderStep,
       ServicesAreKnownStep
  <2>2. NodesInOrder' /\ Numbered' /\ ChildrenAreClaims' /\ ClaimedTwice' /\ RunsExist'
    BY NodesInOrderStep, NumberedStep, ChildrenAreClaimsStep, ClaimedTwiceStep, RunsExistStep
  <2>3. EndsInOrder' /\ LiveRuns' /\ UserInOrder' /\ HitsAreKilled' /\ UserRunsAreOpen'
        /\ JobCancelled' /\ RunCancelled'
    BY EndsInOrderStep, LiveRunsStep, UserInOrderStep, HitsAreKilledStep,
       UserRunsAreOpenStep, JobCancelledStep, RunCancelledStep
  <2> QED BY <2>1, <2>2, <2>3 DEF IInv
<1> QED BY <1>1, InitInv, PTL DEF Spec

\* The documents of a job are in order, and its nodes find them: an entry is
\* executed twice at most, and a node at work has the job's document, its files
\* and its parent run.
THEOREM SubmissionIsInOrder == Spec => []SubmissionInOrder
<1>1. IInv => SubmissionInOrder
  <2> SUFFICES ASSUME IInv PROVE SubmissionInOrder
    OBVIOUS
  <2>1. \A n \in Nodes : task[n] # "none" => doc.logged
    BY Logged
  <2>2. NodesFindTheirJob
    BY <2>1 DEF IInv, AfterDoc, NodesFindTheirJob
  <2>3. executed \in [Entries -> 0..2]
    <3>1. ASSUME NEW e \in Entries PROVE executed[e] \in 0..2
      <4>1. executed[e] \in Nat /\ Cardinality(Holders(e)) \in Nat /\ Rounds \in 0..1
        BY CountedSets DEF IInv, Typed
      <4>2. executed[e] + Cardinality(Holders(e)) <= (IF e \in Claimed THEN 1 ELSE 0) + Rounds
        BY DEF IInv, ClaimedTwice
      <4> QED BY <4>1, <4>2
    <3> QED BY <3>1 DEF IInv, Typed
  <2>4. doc.logged => doc \in Documents
    BY Logged
  <2>5. \A n \in Nodes : ctl[n].pc \in NodeSteps /\ ctl[n].counted \in BOOLEAN
    BY DEF IInv, Typed, Records, Controllers
  <2>6. /\ user.pc \in UserSteps /\ user.left \subseteq Nodes /\ user.hit \subseteq Nodes
        /\ user.runs \subseteq Names
    BY DEF IInv, Typed, Records, Users
  <2>7. TypeOK
    BY <2>3, <2>4, <2>5, <2>6 DEF TypeOK, IInv, Typed, Tasks, Statuses
  <2> QED BY <2>2, <2>7 DEF SubmissionInOrder
<1> QED BY <1>1, Inductive, PTL

\* What a cancel command reports cancelled is over, and each of its runs has
\* one end.
THEOREM CancelledJobsAreOver == Spec => []CancelledIsOver
<1>1. IInv => CancelledIsOver
  <2> SUFFICES ASSUME IInv PROVE CancelledIsOver
    OBVIOUS
  <2>1. CancelledJobIsOver
    BY DEF IInv, UserInOrder, JobCancelled, CancelledJobIsOver
  <2>2. CancelledRunIsOver
    BY DEF IInv, UserInOrder, RunCancelled, CancelledRunIsOver, Written
  <2>3. EndedOnce
    BY DEF IInv, EndsInOrder, EndsOf, EndedOnce, Written
  <2> QED BY <2>1, <2>2, <2>3 DEF CancelledIsOver
<1> QED BY <1>1, Inductive, PTL

\* A run that has ended stays as it ended, and a node reported cancelled does
\* nothing more.
THEOREM CancelIsForGood == Spec => CancelIsFinal
<1>1. ASSUME IInv, [Next]_vars PROVE EndIsFinal
  <2> SUFFICES ASSUME NEW x \in Names, status[x] \in {"completed", "cancelled"}, Prompt
               PROVE  status'[x] = status[x]
    BY DEF EndIsFinal
  <2>0. PICK n \in Nodes : x \in RunsOf(n)
    BY NamesAreRuns
  <2>1. /\ status \in [Names -> Statuses] /\ NodeInOrder(n) /\ status[x] \notin Unwrapped
        /\ Parent(n) \in RunsOf(n) /\ Parent(n) \in Names
        /\ ctl[n].run \in RunsOf(n) => ctl[n].run \in Names
    BY <1>1, NamesAreRuns DEF IInv, Typed, NodesInOrder, Unwrapped
  <2>2. CASE BeforeTheJob
    BY <1>1, <2>2 DEF BeforeTheJob, IInv, BeforeDoc
  <2>3. CASE RunsAlone(n)
    BY <2>0, <2>3 DEF RunsAlone
  <2>4. ASSUME NEW y \in Names, RunEnded(y) PROVE status'[x] = status[x]
    <3>1. y # x
      BY <1>1, <2>0, <2>1, <2>4 DEF RunEnded, IInv, UserRunsAreOpen
    <3> QED BY <2>1, <2>4, <3>1 DEF RunEnded, SetStatus
  <2>5. ASSUME Node(n), NodeFrame(n) PROVE status'[x] = status[x]
    <3>1. task[n] \in {"waiting", "running"}
      BY <1>1, <2>5 DEF NodeFrame, IInv, TasksInOrder
    <3>2. (task[n] = "running" /\ ctl[n].pc # "idle") => x # Parent(n)
      BY <1>1, <2>1 DEF IInv, LiveRuns
    <3>3. (task[n] = "running" /\ ctl[n].pc \in {"list", "start", "run", "end", "write"})
            => x # ctl[n].run
      BY <1>1, <2>1 DEF IInv, LiveRuns
    <3>4. ctl[n].pc = "spawn" => x # ctl[n].run
      BY <2>1 DEF NodeInOrder
    <3>5. CASE SpawnChild(n)
      BY <2>1, <3>1, <3>2, <3>4, <3>5 DEF SpawnChild, Now
    <3>6. CASE StartChild(n) \/ WriteEnd(n)
      BY <2>1, <3>1, <3>3, <3>6 DEF StartChild, WriteEnd, Now, SetStatus
    <3>7. CASE ChildEnds(n)
      BY <2>1, <3>1, <3>2, <3>7 DEF ChildEnds, Now, SetStatus
    <3> QED
      BY <2>5, <3>5, <3>6, <3>7
         DEF Node, Boot, Claim, ListChild, LogEnd, FinishChild, ShutDown, TaskDies, runVars
  <2> QED BY <1>1, <2>2, <2>3, <2>4, <2>5, NodeOrNot
<1>2. ASSUME IInv, [Next]_vars PROVE CancelledIsQuiet
  <2> SUFFICES ASSUME NEW n \in user.hit PROVE ctl'[n] = ctl[n] /\ task'[n] = task[n]
    BY DEF CancelledIsQuiet
  <2>1. n \in Nodes /\ Prompt /\ task[n] = "killed" /\ Over(n)
    BY <1>2 DEF IInv, Typed, Records, Users, HitsAreKilled, Over
  <2> QED BY <1>2, <2>1, OverStays, OverIsQuiet
<1>3. IInv /\ [Next]_vars => [EndIsFinal /\ CancelledIsQuiet]_vars
  BY <1>1, <1>2
<1> QED BY <1>3, Inductive, PTL DEF Spec, CancelIsFinal
=============================================================================
