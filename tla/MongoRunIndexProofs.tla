------------------------- MODULE MongoRunIndexProofs -------------------------
(***************************************************************************)
(* Proofs about MongoRunIndex, for every number of nodes and runs, either  *)
(* schedule, and any number of preemptions, restarts and lost replies.     *)
(***************************************************************************)
EXTENDS MongoRunIndex, FiniteSetTheorems, TLAPS

-----------------------------------------------------------------------------
(***************************************************************************)
(* Type correctness                                                        *)
(***************************************************************************)

\* Dealing the runs in turn gives each run to a node of the job.
LEMMA DealtNodeType ==
  ASSUME NEW r \in Runs
  PROVE  DealtNode(r) \in Nodes \cup {NoNode}
BY CountAssumption DEF DealtNode, Runs, Nodes, NoNode

LEMMA TypeInit == Init => TypeOK
<1> SUFFICES ASSUME Init PROVE TypeOK
    OBVIOUS
<1>1. owner \in [Runs -> Nodes \cup {NoNode}]
  BY DealtNodeType DEF Init
<1>2. /\ status \in [Runs -> EntryStatus]
      /\ pc \in [Nodes -> PCs]
  BY DEF Init, EntryStatus, PCs
<1> QED
  BY <1>1, <1>2 DEF Init, TypeOK, Names, NoName, WrapThreads

\* Starting a child keeps the types of the controllers' variables.
LEMMA StartChildType ==
  ASSUME TypeOK, NEW n \in Nodes, NEW S, StartChild(n, S)
  PROVE  /\ pc' \in [Nodes -> PCs]
         /\ fresh' \in [Nodes -> Names]
         /\ stamped' \in [Nodes -> SUBSET Runs]
         /\ execs' \in [Nodes -> SUBSET Runs]
         /\ wraps' \in SUBSET WrapThreads
         /\ session' \in [Nodes -> Nat]
BY DEF TypeOK, StartChild, Goto, PCs, Names

LEMMA LoseReplyType ==
  ASSUME TypeOK, NEW n \in Nodes, NEW r \in Runs, LoseReply(n, r)
  PROVE  /\ pc' \in [Nodes -> PCs]
         /\ fresh' \in [Nodes -> Names]
         /\ stamped' \in [Nodes -> SUBSET Runs]
         /\ execs' \in [Nodes -> SUBSET Runs]
         /\ wraps' \in SUBSET WrapThreads
         /\ session' \in [Nodes -> Nat]
         /\ crashes' \in Nat /\ restarts' \in Nat /\ lost' \in Nat
BY DEF TypeOK, LoseReply

\* A claim keeps the types of the document.
LEMMA TakeType ==
  ASSUME TypeOK, NEW n \in Nodes, NEW r \in Runs, NEW st \in EntryStatus,
         NEW nm \in Names, Take(n, r, st, nm)
  PROVE  /\ status' \in [Runs -> EntryStatus]
         /\ owner' \in [Runs -> Nodes \cup {NoNode}]
         /\ name' \in [Runs -> Names]
BY DEF TypeOK, Take

LEMMA TypeStep == TypeOK /\ [Next]_vars => TypeOK'
<1> SUFFICES ASSUME TypeOK, [Next]_vars PROVE TypeOK'
    OBVIOUS
<1> USE DEF TypeOK
<1>1. ASSUME NEW n \in Nodes, PutBack(n) PROVE TypeOK'
  BY <1>1 DEF PutBack, EntryStatus, nodeVars, faultVars
<1>2. ASSUME NEW n \in Nodes, PutBackDone(n) PROVE TypeOK'
  BY <1>2 DEF PutBackDone, Goto, PCs, jobVars, faultVars
<1>3. ASSUME NEW n \in Nodes, QueueCheck(n) PROVE TypeOK'
  BY <1>3 DEF QueueCheck, Goto, PCs, jobVars, faultVars
<1>4. ASSUME NEW n \in Nodes, ClaimWaiting(n) PROVE TypeOK'
  <2>1. PICK r \in Runs :
          /\ Take(n, r, "restarted", name[r])
          /\ \/ StartChild(n, stamped[n] \cup {r}) /\ UNCHANGED faultVars
             \/ LoseReply(n, r)
    BY <1>4 DEF ClaimWaiting
  <2>2. /\ status' \in [Runs -> EntryStatus]
        /\ owner' \in [Runs -> Nodes \cup {NoNode}]
        /\ name' \in [Runs -> Names]
    BY <2>1, TakeType DEF EntryStatus
  <2>3. CASE StartChild(n, stamped[n] \cup {r}) /\ UNCHANGED faultVars
    BY <1>4, <2>2, <2>3, StartChildType DEF ClaimWaiting, faultVars
  <2>4. CASE LoseReply(n, r)
    BY <1>4, <2>2, <2>4, LoseReplyType DEF ClaimWaiting
  <2> QED BY <2>1, <2>3, <2>4
<1>5. ASSUME NEW n \in Nodes, NoneWaiting(n) PROVE TypeOK'
  BY <1>5 DEF NoneWaiting, Goto, PCs, jobVars, faultVars
<1>6. ASSUME NEW n \in Nodes, GetName(n) PROVE TypeOK'
  BY <1>6 DEF GetName, Goto, PCs, Names, faultVars
<1>7. ASSUME NEW n \in Nodes, ClaimUnstarted(n) PROVE TypeOK'
  <2>1. PICK r \in Runs :
          /\ Take(n, r, "started", fresh[n])
          /\ \/ StartChild(n, stamped[n] \cup {r}) /\ UNCHANGED faultVars
             \/ LoseReply(n, r)
    BY <1>7 DEF ClaimUnstarted
  <2>2. /\ status' \in [Runs -> EntryStatus]
        /\ owner' \in [Runs -> Nodes \cup {NoNode}]
        /\ name' \in [Runs -> Names]
    BY <2>1, TakeType DEF EntryStatus
  <2>3. CASE StartChild(n, stamped[n] \cup {r}) /\ UNCHANGED faultVars
    BY <1>7, <2>2, <2>3, StartChildType DEF ClaimUnstarted, faultVars
  <2>4. CASE LoseReply(n, r)
    BY <1>7, <2>2, <2>4, LoseReplyType DEF ClaimUnstarted
  <2> QED BY <2>1, <2>3, <2>4
<1>8. ASSUME NEW n \in Nodes, NoneUnstarted(n) PROVE TypeOK'
  BY <1>8 DEF NoneUnstarted, Goto, PCs, Names, jobVars, faultVars
<1>9. ASSUME NEW n \in Nodes, NotIdle(n) PROVE TypeOK'
  BY <1>9 DEF NotIdle, Goto, PCs, jobVars, faultVars
<1>10. ASSUME NEW n \in Nodes, Shutdown(n) PROVE TypeOK'
  BY <1>10 DEF Shutdown, Goto, PCs, jobVars, faultVars
<1>11. ASSUME NEW n \in Nodes, NEW r \in Runs, ChildExit(n, r) PROVE TypeOK'
  BY <1>11 DEF ChildExit, WrapThreads, WrapPhases, jobVars, faultVars
<1>12. ASSUME NEW w \in wraps, MarkAssert(w) PROVE TypeOK'
  BY <1>12 DEF MarkAssert, WrapThreads, WrapPhases, jobVars, faultVars
<1>13. ASSUME NEW w \in wraps, MarkFails(w) PROVE TypeOK'
  BY <1>13 DEF MarkFails, WrapThreads, Goto, PCs, jobVars, faultVars
<1>14. ASSUME NEW w \in wraps, MarkWrite(w) PROVE TypeOK'
  BY <1>14 DEF MarkWrite, WrapThreads, EntryStatus, faultVars
<1>15. ASSUME NEW n \in Nodes, Crash(n) PROVE TypeOK'
  BY <1>15 DEF Crash, Goto, PCs, Names, jobVars
<1>16. ASSUME NEW n \in Nodes, Reboot(n) PROVE TypeOK'
  BY <1>16 DEF Reboot, Goto, PCs, jobVars, faultVars
<1>17. ASSUME NEW n \in Nodes, RestartController(n) PROVE TypeOK'
  BY <1>17 DEF RestartController, Goto, PCs, jobVars
<1>18. CASE UNCHANGED vars
  BY <1>18 DEF vars, jobVars, nodeVars, faultVars
<1> QED
  BY <1>1, <1>2, <1>3, <1>4, <1>5, <1>6, <1>7, <1>8, <1>9, <1>10, <1>11, <1>12,
     <1>13, <1>14, <1>15, <1>16, <1>17, <1>18
     DEF Next, QueueWorker, Wrapup, WrapsOf, Terminated

\* Every variable keeps its type, whatever the controllers do.
THEOREM TypeCorrect == Spec => []TypeOK
BY TypeInit, TypeStep, PTL DEF Spec

-----------------------------------------------------------------------------
(***************************************************************************)
(* The inductive invariant.  OneExecutorPerRun alone is not inductive: it  *)
(* does not say that the document knows who executes a run.                *)
(***************************************************************************)
Taken(r) == status[r] \notin {"unstarted", "waiting_for_restart"}

\* A node executes only runs the document gives to it and shows as taken.
ExecsAreOwned ==
  \A n \in Nodes, r \in Runs : r \in execs[n] => owner[r] = n /\ Taken(r)

\* So are the entries stamped by a claim whose reply has not arrived.
StampsAreOwned ==
  \A n \in Nodes, r \in Runs : r \in stamped[n] => owner[r] = n /\ Taken(r)

\* A node that puts entries back, or is about to, executes nothing and has
\* no claim under way.
QuietNodes ==
  \A n \in Nodes :
    /\ pc[n] \in {"restarting", "down", "exited", "failed"} => execs[n] = {}
    /\ pc[n] \in {"restarting", "down", "idleCheck", "parentDone"}
         => stamped[n] = {}

IInv == TypeOK /\ ExecsAreOwned /\ StampsAreOwned /\ QuietNodes

LEMMA IInvInit == Init => IInv
<1> SUFFICES ASSUME Init PROVE IInv
    OBVIOUS
<1>1. TypeOK
  BY TypeInit
<1>2. ExecsAreOwned /\ StampsAreOwned /\ QuietNodes
  BY DEF Init, ExecsAreOwned, StampsAreOwned, QuietNodes
<1> QED BY <1>1, <1>2 DEF IInv

\* A claim that took an entry which nobody executed, nor had stamped, keeps
\* the three parts, whether its reply arrives or not.
LEMMA ClaimKeepsOwners ==
  ASSUME IInv, NEW n \in Nodes, NEW r \in Runs, NEW st, NEW nm,
         pc[n] \in {"claimWaiting", "claimUnstarted"},
         ~Taken(r),
         Schedule = "static" => owner[r] = n,
         st \in Active,
         Take(n, r, st, nm),
         \/ StartChild(n, stamped[n] \cup {r})
         \/ LoseReply(n, r)
  PROVE  ExecsAreOwned' /\ StampsAreOwned' /\ QuietNodes'
<1> USE DEF IInv, TypeOK
<1>1. owner'[r] = n /\ Taken(r)'
  BY DEF Take, Taken, Active
<1>2. \A q \in Runs : q # r => owner'[q] = owner[q] /\ (Taken(q) => Taken(q)')
  BY DEF Take, Taken
<1>3. \A m \in Nodes : r \notin execs[m] /\ r \notin stamped[m]
  BY DEF ExecsAreOwned, StampsAreOwned
<1>4. \A q \in stamped[n] \cup {r} : q \in Runs /\ owner'[q] = n /\ Taken(q)'
  BY <1>1, <1>2 DEF StampsAreOwned
<1>5. CASE StartChild(n, stamped[n] \cup {r})
  <2>1. PICK q \in stamped[n] \cup {r} : execs' = [execs EXCEPT ![n] = @ \cup {q}]
    BY <1>5 DEF StartChild, IsFirst
  <2>2. ExecsAreOwned'
    BY <1>2, <1>3, <1>4, <2>1 DEF ExecsAreOwned
  <2>3. StampsAreOwned'
    BY <1>2, <1>3, <1>5 DEF StampsAreOwned, StartChild
  <2>4. QuietNodes'
    BY <1>5, <2>1 DEF QuietNodes, StartChild, Goto
  <2> QED BY <2>2, <2>3, <2>4
<1>6. CASE LoseReply(n, r)
  <2>1. ExecsAreOwned'
    BY <1>2, <1>3, <1>6 DEF ExecsAreOwned, LoseReply
  <2>2. StampsAreOwned'
    BY <1>2, <1>3, <1>4, <1>6 DEF StampsAreOwned, LoseReply
  <2>3. QuietNodes'
    BY <1>6 DEF QuietNodes, LoseReply
  <2> QED BY <2>1, <2>2, <2>3
<1> QED BY <1>5, <1>6

\* An action that leaves the document and the claims alone and starts nothing.
LEMMA NothingStarts ==
  ASSUME IInv, UNCHANGED <<status, owner>>,
         \A m \in Nodes : execs'[m] \subseteq execs[m],
         \A m \in Nodes : stamped'[m] \subseteq stamped[m]
  PROVE  ExecsAreOwned' /\ StampsAreOwned'
BY DEF IInv, ExecsAreOwned, StampsAreOwned, Taken

LEMMA IInvStep == IInv /\ [Next]_vars => IInv'
<1> SUFFICES ASSUME IInv, [Next]_vars
             PROVE  ExecsAreOwned' /\ StampsAreOwned' /\ QuietNodes'
  BY TypeStep DEF IInv
<1> USE DEF IInv, TypeOK
<1>1. ASSUME NEW n \in Nodes, PutBack(n)
      PROVE  ExecsAreOwned' /\ StampsAreOwned' /\ QuietNodes'
  <2>1. PICK r \in Runs :
          /\ r \in ToPutBack(n)
          /\ status' = [status EXCEPT ![r] = "waiting_for_restart"]
    BY <1>1 DEF PutBack, IsFirst
  <2>2. owner[r] = n
    BY <2>1 DEF ToPutBack
  <2>3. execs[n] = {} /\ stamped[n] = {}
    BY <1>1 DEF PutBack, QuietNodes
  <2>4. \A m \in Nodes : r \notin execs[m] /\ r \notin stamped[m]
    BY <2>2, <2>3 DEF ExecsAreOwned, StampsAreOwned
  <2>5. \A q \in Runs : q # r => status'[q] = status[q]
    BY <2>1
  <2>6. ExecsAreOwned'
    BY <1>1, <2>4, <2>5 DEF PutBack, ExecsAreOwned, Taken, nodeVars
  <2>7. StampsAreOwned'
    BY <1>1, <2>4, <2>5 DEF PutBack, StampsAreOwned, Taken, nodeVars
  <2>8. QuietNodes'
    BY <1>1 DEF PutBack, QuietNodes, nodeVars
  <2> QED BY <2>6, <2>7, <2>8
<1>2. ASSUME NEW n \in Nodes, PutBackDone(n)
      PROVE  ExecsAreOwned' /\ StampsAreOwned' /\ QuietNodes'
  BY <1>2, NothingStarts DEF PutBackDone, Goto, QuietNodes, jobVars
<1>3. ASSUME NEW n \in Nodes, QueueCheck(n)
      PROVE  ExecsAreOwned' /\ StampsAreOwned' /\ QuietNodes'
  BY <1>3, NothingStarts DEF QueueCheck, Goto, QuietNodes, jobVars
<1>4. ASSUME NEW n \in Nodes, ClaimWaiting(n)
      PROVE  ExecsAreOwned' /\ StampsAreOwned' /\ QuietNodes'
  <2>1. PICK r \in Runs :
          /\ r \in Claimable(n, "waiting_for_restart")
          /\ Take(n, r, "restarted", name[r])
          /\ StartChild(n, stamped[n] \cup {r}) \/ LoseReply(n, r)
    BY <1>4 DEF ClaimWaiting, IsFirst
  <2>2. ~Taken(r) /\ (Schedule = "static" => owner[r] = n)
    BY <2>1 DEF Claimable, Taken
  <2>3. pc[n] = "claimWaiting"
    BY <1>4 DEF ClaimWaiting
  <2> HIDE DEF IInv, TypeOK
  <2> QED BY <2>1, <2>2, <2>3, ClaimKeepsOwners, SMTT(30) DEF Active
<1>5. ASSUME NEW n \in Nodes, NoneWaiting(n)
      PROVE  ExecsAreOwned' /\ StampsAreOwned' /\ QuietNodes'
  BY <1>5, NothingStarts DEF NoneWaiting, Goto, QuietNodes, jobVars
<1>6. ASSUME NEW n \in Nodes, GetName(n)
      PROVE  ExecsAreOwned' /\ StampsAreOwned' /\ QuietNodes'
  BY <1>6, NothingStarts DEF GetName, Goto, QuietNodes
<1>7. ASSUME NEW n \in Nodes, ClaimUnstarted(n)
      PROVE  ExecsAreOwned' /\ StampsAreOwned' /\ QuietNodes'
  <2>1. PICK r \in Runs :
          /\ r \in Claimable(n, "unstarted")
          /\ Take(n, r, "started", fresh[n])
          /\ StartChild(n, stamped[n] \cup {r}) \/ LoseReply(n, r)
    BY <1>7 DEF ClaimUnstarted, IsFirst
  <2>2. ~Taken(r) /\ (Schedule = "static" => owner[r] = n)
    BY <2>1 DEF Claimable, Taken
  <2>3. pc[n] = "claimUnstarted"
    BY <1>7 DEF ClaimUnstarted
  <2> HIDE DEF IInv, TypeOK
  <2> QED BY <2>1, <2>2, <2>3, ClaimKeepsOwners DEF Active
<1>8. ASSUME NEW n \in Nodes, NoneUnstarted(n)
      PROVE  ExecsAreOwned' /\ StampsAreOwned' /\ QuietNodes'
  BY <1>8, NothingStarts DEF NoneUnstarted, Goto, QuietNodes, jobVars
<1>9. ASSUME NEW n \in Nodes, NotIdle(n)
      PROVE  ExecsAreOwned' /\ StampsAreOwned' /\ QuietNodes'
  BY <1>9, NothingStarts DEF NotIdle, Goto, QuietNodes, jobVars
<1>10. ASSUME NEW n \in Nodes, Shutdown(n)
       PROVE  ExecsAreOwned' /\ StampsAreOwned' /\ QuietNodes'
  BY <1>10, NothingStarts DEF Shutdown, Goto, QuietNodes, jobVars
<1>11. ASSUME NEW n \in Nodes, NEW r \in Runs, ChildExit(n, r)
       PROVE  ExecsAreOwned' /\ StampsAreOwned' /\ QuietNodes'
  BY <1>11, NothingStarts DEF ChildExit, QuietNodes, jobVars
<1>12. ASSUME NEW w \in wraps, MarkAssert(w)
       PROVE  ExecsAreOwned' /\ StampsAreOwned' /\ QuietNodes'
  BY <1>12, NothingStarts DEF MarkAssert, QuietNodes, jobVars
<1>13. ASSUME NEW w \in wraps, MarkFails(w)
       PROVE  ExecsAreOwned' /\ StampsAreOwned' /\ QuietNodes'
  BY <1>13, NothingStarts DEF MarkFails, Goto, QuietNodes, jobVars, WrapThreads
<1>14. ASSUME NEW w \in wraps, MarkWrite(w)
       PROVE  ExecsAreOwned' /\ StampsAreOwned' /\ QuietNodes'
  BY <1>14 DEF MarkWrite, ExecsAreOwned, StampsAreOwned, QuietNodes, Taken
<1>15. ASSUME NEW n \in Nodes, Crash(n)
       PROVE  ExecsAreOwned' /\ StampsAreOwned' /\ QuietNodes'
  BY <1>15, NothingStarts DEF Crash, Goto, QuietNodes, jobVars
<1>16. ASSUME NEW n \in Nodes, Reboot(n)
       PROVE  ExecsAreOwned' /\ StampsAreOwned' /\ QuietNodes'
  BY <1>16, NothingStarts DEF Reboot, Goto, QuietNodes, jobVars
<1>17. ASSUME NEW n \in Nodes, RestartController(n)
       PROVE  ExecsAreOwned' /\ StampsAreOwned' /\ QuietNodes'
  BY <1>17, NothingStarts DEF RestartController, Goto, QuietNodes, jobVars
<1>18. CASE UNCHANGED vars
  BY <1>18, NothingStarts DEF vars, jobVars, nodeVars, QuietNodes
<1> QED
  BY <1>1, <1>2, <1>3, <1>4, <1>5, <1>6, <1>7, <1>8, <1>9, <1>10, <1>11, <1>12,
     <1>13, <1>14, <1>15, <1>16, <1>17, <1>18
     DEF Next, QueueWorker, Wrapup, WrapsOf, Terminated

\* The invariant holds in every reachable state.
THEOREM InvariantHolds == Spec => []IInv
BY IInvInit, IInvStep, PTL DEF Spec

-----------------------------------------------------------------------------
(***************************************************************************)
(* What follows from it                                                    *)
(***************************************************************************)

\* No two nodes ever execute the same child run: the owner is unique.
THEOREM OneExecutor == Spec => []OneExecutorPerRun
<1>1. IInv => OneExecutorPerRun
  BY DEF IInv, TypeOK, ExecsAreOwned, OneExecutorPerRun
<1> QED BY <1>1, InvariantHolds, PTL

\* Nobody takes a run away from a node that executes it.
THEOREM Undisturbed == Spec => NoTakeover
<1>1. IInv' => [\A n \in Nodes, r \in Runs :
                  r \in execs[n] /\ r \in execs'[n] => owner'[r] = n]_vars
  BY DEF ExecsAreOwned, IInv
<1> QED BY <1>1, InvariantHolds, PTL DEF NoTakeover

\* "completed" is final: no claim selects it and no restart puts it back.
THEOREM CompletedForGood == Spec => CompletedIsFinal
<1>1. TypeOK /\ [Next]_vars =>
        [\A r \in Runs : status[r] = "completed" =>
           status'[r] = "completed" /\ owner'[r] = owner[r] /\ name'[r] = name[r]]_vars
  <2> SUFFICES ASSUME TypeOK, Next, NEW r \in Runs, status[r] = "completed"
               PROVE  /\ status'[r] = "completed"
                      /\ owner'[r] = owner[r]
                      /\ name'[r] = name[r]
    BY DEF vars
  <2> USE DEF TypeOK
  <2>1. ASSUME NEW n \in Nodes, PutBack(n)
        PROVE  status'[r] = "completed" /\ owner'[r] = owner[r] /\ name'[r] = name[r]
    BY <2>1 DEF PutBack, IsFirst, ToPutBack, Active
  <2>2. ASSUME NEW n \in Nodes, ClaimWaiting(n)
        PROVE  status'[r] = "completed" /\ owner'[r] = owner[r] /\ name'[r] = name[r]
    BY <2>2 DEF ClaimWaiting, IsFirst, Claimable, Take
  <2>3. ASSUME NEW n \in Nodes, ClaimUnstarted(n)
        PROVE  status'[r] = "completed" /\ owner'[r] = owner[r] /\ name'[r] = name[r]
    BY <2>3 DEF ClaimUnstarted, IsFirst, Claimable, Take
  <2>4. ASSUME NEW w \in wraps, MarkWrite(w)
        PROVE  status'[r] = "completed" /\ owner'[r] = owner[r] /\ name'[r] = name[r]
    BY <2>4 DEF MarkWrite
  <2>5. CASE UNCHANGED <<status, owner, name>>
    BY <2>5
  <2> QED
    BY <2>1, <2>2, <2>3, <2>4, <2>5
       DEF Next, QueueWorker, Wrapup, WrapsOf, Terminated, PutBackDone, QueueCheck,
           NoneWaiting, GetName, NoneUnstarted, NotIdle, Shutdown, ChildExit,
           MarkAssert, MarkFails, Crash, Reboot, RestartController, jobVars, vars
<1> QED BY <1>1, TypeCorrect, PTL DEF Spec, CompletedIsFinal

-----------------------------------------------------------------------------
(***************************************************************************)
(* Controllers that are not restarted in place                             *)
(*                                                                         *)
(* Then a wrapup under way always belongs to the run's owner, and a run is *)
(* executed, stamped or wrapped up, but never two of these.  With in-place *)
(* restarts this is false, and NeverMarkedTwice with it.                   *)
(***************************************************************************)
InProgress(r) == status[r] \in Active

\* A wrapup under way is its owner's, of an active entry, and the only one.
WrapsAreOwned ==
  /\ \A w \in wraps : owner[w.run] = w.node /\ InProgress(w.run)
  /\ \A v, w \in wraps : v.run = w.run => v = w

\* A run that executes is in progress and is not being wrapped up.
ExecsAreActive ==
  \A n \in Nodes : \A r \in execs[n] :
    InProgress(r) /\ \A w \in wraps : w.run # r

\* Neither does anyone execute or wrap up a run whose claim has no reply yet.
StampsAreActive ==
  \A n \in Nodes : \A r \in stamped[n] :
    /\ InProgress(r)
    /\ \A w \in wraps : w.run # r
    /\ \A m \in Nodes : r \notin execs[m]

\* No wrapup is under way on a node that has no controller or opens a session.
WrapsAreUp ==
  \A w \in wraps : pc[w.node] \notin {"restarting", "down", "exited", "failed"}

InProgressInv == WrapsAreOwned /\ ExecsAreActive /\ StampsAreActive /\ WrapsAreUp

WInv == IInv /\ InProgressInv

LEMMA WInvInit == Init => WInv
<1> SUFFICES ASSUME Init PROVE WInv
    OBVIOUS
<1>1. InProgressInv
  BY DEF Init, InProgressInv, WrapsAreOwned, ExecsAreActive, StampsAreActive, WrapsAreUp
<1> QED BY <1>1, IInvInit DEF WInv

\* A claim takes an entry that is not in progress.
LEMMA ClaimKeepsProgress ==
  ASSUME WInv, NEW n \in Nodes, NEW r \in Runs, NEW st, NEW nm,
         pc[n] \in {"claimWaiting", "claimUnstarted"},
         ~Taken(r),
         st \in Active,
         Take(n, r, st, nm),
         \/ StartChild(n, stamped[n] \cup {r})
         \/ LoseReply(n, r)
  PROVE  InProgressInv'
<1> USE DEF WInv, IInv, TypeOK, InProgressInv, WrapThreads
<1>1. ~InProgress(r)
  BY DEF Taken, InProgress, Active
<1>2. /\ InProgress(r)'
      /\ \A q \in Runs : q # r => owner'[q] = owner[q] /\ (InProgress(q) => InProgress(q)')
  BY DEF Take, InProgress
<1>3. /\ \A w \in wraps : w.run # r
      /\ \A m \in Nodes : r \notin execs[m] /\ r \notin stamped[m]
  BY <1>1 DEF WrapsAreOwned, ExecsAreActive, StampsAreActive
<1>4. /\ wraps' = wraps
      /\ \A w \in wraps : w.run \in Runs /\ w.node \in Nodes
  BY DEF StartChild, LoseReply
<1>5. WrapsAreOwned'
  BY <1>2, <1>3, <1>4 DEF WrapsAreOwned
<1>6. WrapsAreUp'
  BY <1>4 DEF WrapsAreUp, StartChild, LoseReply, Goto
<1>7. CASE StartChild(n, stamped[n] \cup {r})
  <2>1. PICK q \in stamped[n] \cup {r} : execs' = [execs EXCEPT ![n] = @ \cup {q}]
    BY <1>7 DEF StartChild, IsFirst
  <2>2. /\ q \in Runs /\ InProgress(q)'
        /\ \A w \in wraps : w.run # q
    BY <1>2, <1>3, <2>1 DEF StampsAreActive
  <2>3. ExecsAreActive'
    BY <1>2, <1>3, <1>4, <2>1, <2>2 DEF ExecsAreActive
  <2>4. \A m \in Nodes : stamped'[m] = IF m = n THEN {} ELSE stamped[m]
    BY <1>7 DEF StartChild
  <2>5. \A m \in Nodes : m # n => q \notin stamped[m]
    BY <1>3, <2>1 DEF StampsAreOwned
  <2>6. StampsAreActive'
    BY <1>2, <1>3, <1>4, <2>1, <2>4, <2>5 DEF StampsAreActive
  <2> QED BY <1>5, <1>6, <2>3, <2>6
<1>8. CASE LoseReply(n, r)
  <2>1. ExecsAreActive'
    BY <1>2, <1>3, <1>4, <1>8 DEF ExecsAreActive, LoseReply
  <2>2. StampsAreActive'
    BY <1>2, <1>3, <1>4, <1>8 DEF StampsAreActive, LoseReply
  <2> QED BY <1>5, <1>6, <2>1, <2>2
<1> QED BY <1>7, <1>8

\* An action that leaves the document alone and starts nothing.
LEMMA NothingProgresses ==
  ASSUME WInv, UNCHANGED <<status, owner>>,
         \A m \in Nodes : execs'[m] \subseteq execs[m],
         \A m \in Nodes : stamped'[m] \subseteq stamped[m],
         wraps' \subseteq wraps
  PROVE  WrapsAreOwned' /\ ExecsAreActive' /\ StampsAreActive'
BY DEF WInv, InProgressInv, WrapsAreOwned, ExecsAreActive, StampsAreActive, InProgress

LEMMA WInvStep == ASSUME MaxRestarts = 0 PROVE WInv /\ [Next]_vars => WInv'
<1> SUFFICES ASSUME WInv, [Next]_vars PROVE InProgressInv'
  BY IInvStep DEF WInv
<1> USE DEF WInv, IInv, TypeOK, InProgressInv
<1>1. ASSUME NEW n \in Nodes, PutBack(n) PROVE InProgressInv'
  <2>1. PICK r \in Runs :
          /\ r \in ToPutBack(n)
          /\ status' = [status EXCEPT ![r] = "waiting_for_restart"]
    BY <1>1 DEF PutBack, IsFirst
  <2>2. owner[r] = n /\ pc[n] = "restarting"
    BY <1>1, <2>1 DEF ToPutBack, PutBack
  <2>3. execs[n] = {} /\ stamped[n] = {}
    BY <2>2 DEF QuietNodes
  <2>4. \A m \in Nodes : r \notin execs[m] /\ r \notin stamped[m]
    BY <2>2, <2>3 DEF ExecsAreOwned, StampsAreOwned
  <2>5. \A w \in wraps : w.run # r
    BY <2>2 DEF WrapsAreOwned, WrapsAreUp
  <2>6. /\ \A q \in Runs : q # r => (InProgress(q) => InProgress(q)')
        /\ UNCHANGED <<owner, execs, stamped, wraps, pc>>
    BY <1>1, <2>1 DEF PutBack, InProgress, nodeVars
  <2>7. WrapsAreOwned' /\ WrapsAreUp'
    BY <2>5, <2>6 DEF WrapsAreOwned, WrapsAreUp, WrapThreads
  <2>8. ExecsAreActive'
    BY <2>4, <2>6 DEF ExecsAreActive
  <2>9. StampsAreActive'
    BY <2>4, <2>6 DEF StampsAreActive
  <2> QED BY <2>7, <2>8, <2>9
<1>2. ASSUME NEW n \in Nodes, PutBackDone(n) PROVE InProgressInv'
  BY <1>2, NothingProgresses DEF PutBackDone, Goto, WrapsAreUp, WrapThreads, jobVars
<1>3. ASSUME NEW n \in Nodes, QueueCheck(n) PROVE InProgressInv'
  BY <1>3, NothingProgresses DEF QueueCheck, Goto, WrapsAreUp, WrapThreads, jobVars
<1>4. ASSUME NEW n \in Nodes, ClaimWaiting(n) PROVE InProgressInv'
  <2>1. PICK r \in Runs :
          /\ r \in Claimable(n, "waiting_for_restart")
          /\ Take(n, r, "restarted", name[r])
          /\ StartChild(n, stamped[n] \cup {r}) \/ LoseReply(n, r)
    BY <1>4 DEF ClaimWaiting, IsFirst
  <2>2. ~Taken(r)
    BY <2>1 DEF Claimable, Taken
  <2>3. pc[n] = "claimWaiting"
    BY <1>4 DEF ClaimWaiting
  <2>4. "restarted" \in Active
    BY DEF Active
  <2> HIDE DEF WInv, IInv, TypeOK, InProgressInv
  <2>5. Take(n, r, "restarted", name[r])
        /\ (StartChild(n, stamped[n] \cup {r}) \/ LoseReply(n, r))
    BY <2>1
  <2>6. WInv
    OBVIOUS
  <2> QED BY <2>2, <2>3, <2>4, <2>5, <2>6, ClaimKeepsProgress
<1>5. ASSUME NEW n \in Nodes, NoneWaiting(n) PROVE InProgressInv'
  BY <1>5, NothingProgresses DEF NoneWaiting, Goto, WrapsAreUp, WrapThreads, jobVars
<1>6. ASSUME NEW n \in Nodes, GetName(n) PROVE InProgressInv'
  BY <1>6, NothingProgresses DEF GetName, Goto, WrapsAreUp, WrapThreads
<1>7. ASSUME NEW n \in Nodes, ClaimUnstarted(n) PROVE InProgressInv'
  <2>1. PICK r \in Runs :
          /\ r \in Claimable(n, "unstarted")
          /\ Take(n, r, "started", fresh[n])
          /\ StartChild(n, stamped[n] \cup {r}) \/ LoseReply(n, r)
    BY <1>7 DEF ClaimUnstarted, IsFirst
  <2>2. ~Taken(r)
    BY <2>1 DEF Claimable, Taken
  <2>3. pc[n] = "claimUnstarted"
    BY <1>7 DEF ClaimUnstarted
  <2>4. "started" \in Active
    BY DEF Active
  <2> HIDE DEF WInv, IInv, TypeOK, InProgressInv
  <2>5. Take(n, r, "started", fresh[n])
        /\ (StartChild(n, stamped[n] \cup {r}) \/ LoseReply(n, r))
    BY <2>1
  <2>6. WInv
    OBVIOUS
  <2> QED BY <2>2, <2>3, <2>4, <2>5, <2>6, ClaimKeepsProgress
<1>8. ASSUME NEW n \in Nodes, NoneUnstarted(n) PROVE InProgressInv'
  BY <1>8, NothingProgresses DEF NoneUnstarted, Goto, WrapsAreUp, WrapThreads, jobVars
<1>9. ASSUME NEW n \in Nodes, NotIdle(n) PROVE InProgressInv'
  BY <1>9, NothingProgresses DEF NotIdle, Goto, WrapsAreUp, WrapThreads, jobVars
<1>10. ASSUME NEW n \in Nodes, Shutdown(n) PROVE InProgressInv'
  BY <1>10, NothingProgresses
     DEF Shutdown, Goto, WrapsAreUp, WrapsOf, WrapThreads, jobVars
<1>11. ASSUME NEW n \in Nodes, NEW r \in Runs, ChildExit(n, r) PROVE InProgressInv'
  <2>1. PICK v \in WrapThreads :
          /\ v.node = n /\ v.run = r
          /\ wraps' = wraps \cup {v}
    BY <1>11 DEF ChildExit, WrapThreads, WrapPhases
  <2>2. /\ execs' = [execs EXCEPT ![n] = @ \ {r}]
        /\ UNCHANGED <<status, owner, stamped, pc>>
    BY <1>11 DEF ChildExit, jobVars
  <2>3. /\ r \in execs[n] /\ owner[r] = n /\ InProgress(r)
        /\ \A w \in wraps : w.run # r
        /\ \A m \in Nodes : m # n => r \notin execs[m]
        /\ \A m \in Nodes : r \notin stamped[m]
    BY <1>11 DEF ChildExit, ExecsAreActive, ExecsAreOwned, StampsAreActive
  <2>4. pc[n] \notin {"restarting", "down", "exited", "failed"}
    BY <2>3 DEF QuietNodes
  <2>5. WrapsAreOwned' /\ WrapsAreUp'
    BY <2>1, <2>2, <2>3, <2>4 DEF WrapsAreOwned, WrapsAreUp, InProgress
  <2>6. ExecsAreActive'
    BY <2>1, <2>2, <2>3 DEF ExecsAreActive, InProgress
  <2>7. StampsAreActive'
    BY <2>1, <2>2, <2>3 DEF StampsAreActive, InProgress
  <2> QED BY <2>5, <2>6, <2>7
<1>12. ASSUME NEW w \in wraps, MarkAssert(w) PROVE InProgressInv'
  <2>1. PICK v \in WrapThreads :
          /\ v.node = w.node /\ v.run = w.run
          /\ wraps' = (wraps \ {w}) \cup {v}
    <3>1. [w EXCEPT !.phase = "write"] \in WrapThreads
      BY DEF WrapThreads, WrapPhases
    <3>2. /\ [w EXCEPT !.phase = "write"].node = w.node
          /\ [w EXCEPT !.phase = "write"].run = w.run
      BY DEF WrapThreads
    <3> QED BY <1>12, <3>1, <3>2 DEF MarkAssert
  <2>2. UNCHANGED <<status, owner, stamped, execs, pc>>
    BY <1>12 DEF MarkAssert, jobVars
  <2>3. WrapsAreOwned' /\ WrapsAreUp'
    BY <2>1, <2>2 DEF WrapsAreOwned, WrapsAreUp, InProgress
  <2>4. ExecsAreActive'
    BY <2>1, <2>2 DEF ExecsAreActive, InProgress
  <2>5. StampsAreActive'
    BY <2>1, <2>2 DEF StampsAreActive, InProgress
  <2> QED BY <2>3, <2>4, <2>5
<1>13. ASSUME NEW w \in wraps, MarkFails(w) PROVE InProgressInv'
  BY <1>13 DEF MarkFails, WrapsAreOwned, InProgress, Active
<1>14. ASSUME NEW w \in wraps, MarkWrite(w) PROVE InProgressInv'
  <2>1. /\ wraps' = wraps \ {w}
        /\ \A q \in Runs : q # w.run => status'[q] = status[q]
        /\ UNCHANGED <<owner, stamped, execs, pc>>
    BY <1>14 DEF MarkWrite
  <2>2. /\ \A v \in wraps' : v.run # w.run
        /\ \A n \in Nodes : w.run \notin execs[n] /\ w.run \notin stamped[n]
    BY <2>1 DEF WrapsAreOwned, ExecsAreActive, StampsAreActive
  <2>3. WrapsAreOwned' /\ WrapsAreUp'
    BY <2>1, <2>2 DEF WrapsAreOwned, WrapsAreUp, InProgress, WrapThreads
  <2>4. ExecsAreActive'
    BY <2>1, <2>2 DEF ExecsAreActive, InProgress
  <2>5. StampsAreActive'
    BY <2>1, <2>2 DEF StampsAreActive, InProgress
  <2> QED BY <2>3, <2>4, <2>5
<1>15. ASSUME NEW n \in Nodes, Crash(n) PROVE InProgressInv'
  BY <1>15, NothingProgresses
     DEF Crash, Goto, WrapsAreUp, WrapsOf, WrapThreads, jobVars
<1>16. ASSUME NEW n \in Nodes, Reboot(n) PROVE InProgressInv'
  BY <1>16, NothingProgresses DEF Reboot, Goto, WrapsAreUp, WrapThreads, jobVars
<1>17. ASSUME NEW n \in Nodes, RestartController(n), MaxRestarts = 0
       PROVE  InProgressInv'
  BY <1>17 DEF RestartController
<1>18. CASE UNCHANGED vars
  BY <1>18, NothingProgresses DEF vars, jobVars, nodeVars, WrapsAreUp
<1> QED
  BY <1>1, <1>2, <1>3, <1>4, <1>5, <1>6, <1>7, <1>8, <1>9, <1>10, <1>11, <1>12,
     <1>13, <1>14, <1>15, <1>16, <1>17, <1>18
     DEF Next, QueueWorker, Wrapup, WrapsOf, Terminated

\* As long as no controller is restarted in place, the assertion that a run
\* is not yet marked completed never fails: no controller dies of it, in spite
\* of preemptions and of claims sent twice.
THEOREM MarkedOnce == ASSUME MaxRestarts = 0 PROVE Spec => []NeverMarkedTwice
<1>1. Init => NeverMarkedTwice
  BY DEF Init, NeverMarkedTwice
<1>2. WInv /\ NeverMarkedTwice /\ [Next]_vars => NeverMarkedTwice'
  <2> SUFFICES ASSUME WInv, NeverMarkedTwice, [Next]_vars PROVE NeverMarkedTwice'
      OBVIOUS
  <2> USE DEF WInv, IInv, TypeOK, NeverMarkedTwice, Goto
  <2>1. ASSUME NEW w \in wraps, MarkFails(w) PROVE FALSE
    BY <2>1 DEF MarkFails, InProgressInv, WrapsAreOwned, InProgress, Active
  <2>2. ASSUME NEW n \in Nodes, ClaimWaiting(n) PROVE NeverMarkedTwice'
    BY <2>2 DEF ClaimWaiting, StartChild, LoseReply
  <2>3. ASSUME NEW n \in Nodes, ClaimUnstarted(n) PROVE NeverMarkedTwice'
    BY <2>3 DEF ClaimUnstarted, StartChild, LoseReply
  <2>4. ASSUME NEW n \in Nodes, GetName(n) \/ NoneWaiting(n) \/ NoneUnstarted(n)
        PROVE  NeverMarkedTwice'
    BY <2>4 DEF GetName, NoneWaiting, NoneUnstarted
  <2>5. ASSUME NEW n \in Nodes,
               PutBack(n) \/ PutBackDone(n) \/ QueueCheck(n) \/ NotIdle(n) \/ Shutdown(n)
        PROVE  NeverMarkedTwice'
    BY <2>5 DEF PutBack, PutBackDone, QueueCheck, NotIdle, Shutdown, nodeVars
  <2>6. ASSUME NEW n \in Nodes, Crash(n) \/ Reboot(n) \/ RestartController(n)
        PROVE  NeverMarkedTwice'
    BY <2>6 DEF Crash, Reboot, RestartController
  <2>7. ASSUME NEW n \in Nodes, NEW r \in Runs, ChildExit(n, r)
        PROVE  NeverMarkedTwice'
    BY <2>7 DEF ChildExit
  <2>8. ASSUME NEW w \in wraps, MarkAssert(w) \/ MarkWrite(w)
        PROVE  NeverMarkedTwice'
    BY <2>8 DEF MarkAssert, MarkWrite
  <2>9. CASE UNCHANGED vars
    BY <2>9 DEF vars, nodeVars
  <2> QED
    BY <2>1, <2>2, <2>3, <2>4, <2>5, <2>6, <2>7, <2>8, <2>9
       DEF Next, QueueWorker, Wrapup, WrapsOf, Terminated
<1> QED BY <1>1, <1>2, WInvInit, WInvStep, PTL DEF Spec

-----------------------------------------------------------------------------
(***************************************************************************)
(* The document's entries implement the abstract allocation.               *)
(***************************************************************************)

\* What the mapping makes of one entry.
LEMMA HolderValue ==
  ASSUME NEW r \in Runs
  PROVE  /\ InProgress(r) => Holder[r] = owner[r]
         /\ status[r] = "completed" => Holder[r] = DoneRun
         /\ ~InProgress(r) /\ status[r] # "completed" => Holder[r] = NoNode
BY DEF Holder, InProgress, Active

LEMMA HolderValueNext ==
  ASSUME NEW r \in Runs
  PROVE  /\ InProgress(r)' => Holder'[r] = owner'[r]
         /\ status'[r] = "completed" => Holder'[r] = DoneRun
         /\ ~InProgress(r)' /\ status'[r] # "completed" => Holder'[r] = NoNode
BY DEF Holder, InProgress, Active

\* A step that changes one entry changes the holder of that run only.
LEMMA HolderChange ==
  ASSUME NEW r \in Runs,
         \A q \in Runs : q # r => status'[q] = status[q] /\ owner'[q] = owner[q]
  PROVE  Holder' = [Holder EXCEPT ![r] = Holder'[r]]
<1>1. /\ Holder = [q \in Runs |-> Holder[q]]
      /\ Holder' = [q \in Runs |-> Holder'[q]]
  BY DEF Holder
<1>2. ASSUME NEW q \in Runs, q # r PROVE Holder'[q] = Holder[q]
  BY <1>2, HolderValue, HolderValueNext DEF InProgress
<1> QED BY <1>1, <1>2

LEMMA HolderUnchanged ==
  ASSUME UNCHANGED <<status, owner>>
  PROVE  Holder' = Holder
BY DEF Holder

\* A claim takes a free run for the node that makes it.
LEMMA ClaimTakes ==
  ASSUME WInv, NEW n \in Nodes, NEW r \in Runs, NEW st \in Active, NEW nm,
         status[r] \in {"unstarted", "waiting_for_restart"},
         Schedule = "static" => owner[r] = n,
         Take(n, r, st, nm)
  PROVE  Allocation!Take(n, r)
<1> USE DEF WInv, IInv, TypeOK
<1>1. Holder[r] = NoNode
  BY HolderValue DEF InProgress, Active
<1>2. status'[r] = st /\ owner'[r] = n
  BY DEF Take
<1>3. InProgress(r)'
  BY <1>2 DEF InProgress
<1>4. Holder'[r] = n
  BY <1>2, <1>3, HolderValueNext
<1>5. Holder' = [Holder EXCEPT ![r] = n]
  <2>1. \A q \in Runs : q # r => status'[q] = status[q] /\ owner'[q] = owner[q]
    BY DEF Take
  <2> QED BY <1>4, <2>1, HolderChange
<1> QED BY <1>1, <1>5 DEF Allocation!Take

LEMMA AllocationStep ==
  ASSUME MaxRestarts = 0
  PROVE  WInv /\ [Next]_vars => [Allocation!Next]_Holder
<1> SUFFICES ASSUME WInv, [Next]_vars PROVE Allocation!Next \/ Holder' = Holder
    OBVIOUS
<1> USE DEF WInv, IInv, TypeOK
<1>1. ASSUME NEW n \in Nodes, PutBack(n) PROVE Allocation!Next
  <2>1. PICK r \in Runs :
          /\ owner[r] = n /\ InProgress(r)
          /\ status' = [status EXCEPT ![r] = "waiting_for_restart"]
          /\ UNCHANGED owner
    BY <1>1 DEF PutBack, IsFirst, ToPutBack, InProgress
  <2>2. Holder[r] = n
    BY <2>1, HolderValue
  <2>3. Holder'[r] = NoNode
    BY <2>1, HolderValueNext DEF InProgress, Active
  <2>4. Holder' = [Holder EXCEPT ![r] = NoNode]
    BY <2>1, <2>3, HolderChange
  <2>5. Allocation!GiveUp(n, r)
    BY <2>2, <2>4 DEF Allocation!GiveUp
  <2> QED BY <2>5 DEF Allocation!Next
<1>2. ASSUME NEW n \in Nodes, ClaimWaiting(n) PROVE Allocation!Next
  <2>1. PICK r \in Runs :
          /\ status[r] = "waiting_for_restart"
          /\ Schedule = "static" => owner[r] = n
          /\ Take(n, r, "restarted", name[r])
    BY <1>2 DEF ClaimWaiting, IsFirst, Claimable
  <2>2. "restarted" \in Active
    BY DEF Active
  <2>3. Allocation!Take(n, r)
    BY <2>1, <2>2, ClaimTakes
  <2> QED BY <2>3 DEF Allocation!Next
<1>3. ASSUME NEW n \in Nodes, ClaimUnstarted(n) PROVE Allocation!Next
  <2>1. PICK r \in Runs :
          /\ status[r] = "unstarted"
          /\ Schedule = "static" => owner[r] = n
          /\ Take(n, r, "started", fresh[n])
    BY <1>3 DEF ClaimUnstarted, IsFirst, Claimable
  <2>2. "started" \in Active
    BY DEF Active
  <2>3. Allocation!Take(n, r)
    BY <2>1, <2>2, ClaimTakes
  <2> QED BY <2>3 DEF Allocation!Next
<1>4. ASSUME NEW w \in wraps, MarkWrite(w) PROVE Allocation!Next
  <2>1. /\ w.run \in Runs /\ w.node \in Nodes
        /\ owner[w.run] = w.node /\ InProgress(w.run)
    BY DEF WrapThreads, InProgressInv, WrapsAreOwned
  <2>2. Holder[w.run] = w.node
    BY <2>1, HolderValue
  <2>3. /\ status' = [status EXCEPT ![w.run] = "completed"]
        /\ UNCHANGED owner
    BY <1>4 DEF MarkWrite
  <2>4. Holder'[w.run] = DoneRun
    BY <2>1, <2>3, HolderValueNext
  <2>5. Holder' = [Holder EXCEPT ![w.run] = DoneRun]
    BY <2>1, <2>3, <2>4, HolderChange
  <2>6. Allocation!Finish(w.node, w.run)
    BY <2>2, <2>5 DEF Allocation!Finish
  <2> QED BY <2>1, <2>6 DEF Allocation!Next
<1>5. CASE UNCHANGED <<status, owner>>
  BY <1>5, HolderUnchanged
<1> QED
  BY <1>1, <1>2, <1>3, <1>4, <1>5
     DEF Next, QueueWorker, Wrapup, WrapsOf, Terminated, PutBackDone, QueueCheck,
         NoneWaiting, GetName, NoneUnstarted, NotIdle, Shutdown, ChildExit,
         MarkAssert, MarkFails, Crash, Reboot, RestartController, jobVars, vars

\* Without in-place restarts the entries behave as RunAllocation says: only a
\* free run is taken, and only its holder gives it up or finishes it.
THEOREM AllocationRefined == ASSUME MaxRestarts = 0 PROVE Spec => AllocationSpec
<1>1. Init => Allocation!Init
  BY HolderValue DEF Init, Allocation!Init, Holder, Active
<1> QED
  BY <1>1, WInvInit, WInvStep, AllocationStep, PTL
     DEF Spec, AllocationSpec, Allocation!Spec

-----------------------------------------------------------------------------
(***************************************************************************)
(* No claimed entry is orphaned, as long as no reply is lost, wrapups are  *)
(* given the time they need and no controller is restarted in place: each  *)
(* of the three is needed.                                                 *)
(***************************************************************************)
NoStamps == \A n \in Nodes : stamped[n] = {}

OInv == WInv /\ NoStamps /\ NoOrphan

\* A claim whose reply arrives starts the child it took.
LEMMA ClaimKeepsNoOrphan ==
  ASSUME OInv, NEW n \in Nodes, NEW r \in Runs, NEW st, NEW nm,
         pc[n] \in {"claimWaiting", "claimUnstarted"},
         Schedule = "static" => owner[r] = n,
         Take(n, r, st, nm),
         StartChild(n, stamped[n] \cup {r})
  PROVE  NoStamps' /\ NoOrphan'
<1> USE DEF OInv, WInv, IInv, TypeOK
<1>1. NoStamps'
  BY DEF StartChild, NoStamps
<1>2. execs' = [execs EXCEPT ![n] = @ \cup {r}]
  BY DEF StartChild, IsFirst, NoStamps
<1>3. /\ owner'[r] = n
      /\ \A q \in Runs : q # r => owner'[q] = owner[q] /\ status'[q] = status[q]
      /\ wraps' = wraps
      /\ pc' = [pc EXCEPT ![n] = "idleCheck"]
  BY DEF Take, StartChild, Goto
<1>4. NoOrphan'
  BY <1>2, <1>3 DEF NoOrphan, WrapsOf
<1> QED BY <1>1, <1>4

\* An action of a node that stays up and forgets no run.
LEMMA KeepsNoOrphan ==
  ASSUME OInv, NEW n \in Nodes, UNCHANGED <<status, owner, execs, wraps>>,
         \A m \in Nodes : m # n => pc'[m] = pc[m],
         pc[n] \notin {"down", "restarting"} \/ pc'[n] \in {"down", "restarting"}
  PROVE  NoOrphan'
BY DEF OInv, NoOrphan, WrapsOf

LEMMA OInvStep ==
  ASSUME MaxRestarts = 0, MaxLostReplies = 0, GraceSuffices
  PROVE  OInv /\ [Next]_vars => OInv'
<1> SUFFICES ASSUME OInv, [Next]_vars PROVE NoStamps' /\ NoOrphan'
  BY WInvStep DEF OInv
<1>0. \A n \in Nodes, r \in Runs : ~ LoseReply(n, r)
  BY DEF OInv, WInv, IInv, TypeOK, LoseReply
<1> USE DEF OInv, WInv, IInv, TypeOK
<1>1. ASSUME NEW n \in Nodes, PutBack(n) PROVE NoStamps' /\ NoOrphan'
  <2>1. PICK r \in Runs : status' = [status EXCEPT ![r] = "waiting_for_restart"]
    BY <1>1 DEF PutBack
  <2>2. UNCHANGED <<owner, stamped, execs, wraps, pc>>
    BY <1>1 DEF PutBack, nodeVars
  <2> QED BY <2>1, <2>2 DEF NoStamps, NoOrphan, WrapsOf, Active
<1>2. ASSUME NEW n \in Nodes, PutBackDone(n) PROVE NoStamps' /\ NoOrphan'
  <2>1. \A r \in Runs : status[r] \in Active => owner[r] # n
    BY <1>2 DEF PutBackDone, ToPutBack
  <2>2. /\ UNCHANGED <<status, owner, execs, wraps, stamped>>
        /\ \A m \in Nodes : m # n => pc'[m] = pc[m]
    BY <1>2 DEF PutBackDone, Goto, jobVars
  <2> QED BY <2>1, <2>2 DEF NoStamps, NoOrphan, WrapsOf
<1>3. ASSUME NEW n \in Nodes, QueueCheck(n) PROVE NoStamps' /\ NoOrphan'
  BY <1>3, KeepsNoOrphan DEF QueueCheck, Goto, NoStamps, jobVars
<1>4. ASSUME NEW n \in Nodes, ClaimWaiting(n) PROVE NoStamps' /\ NoOrphan'
  <2>1. PICK r \in Runs :
          /\ r \in Claimable(n, "waiting_for_restart")
          /\ Take(n, r, "restarted", name[r])
          /\ StartChild(n, stamped[n] \cup {r})
    <3> HIDE DEF OInv, WInv, IInv, TypeOK
    <3> QED BY <1>0, <1>4, Zenon DEF ClaimWaiting, IsFirst
  <2>2. pc[n] \in {"claimWaiting", "claimUnstarted"}
    BY <1>4 DEF ClaimWaiting
  <2>3. Schedule = "static" => owner[r] = n
    BY <2>1 DEF Claimable
  <2>4. OInv
    OBVIOUS
  <2> HIDE DEF OInv, WInv, IInv, TypeOK
  <2> QED BY <2>1, <2>2, <2>3, <2>4, ClaimKeepsNoOrphan
<1>5. ASSUME NEW n \in Nodes, NoneWaiting(n) PROVE NoStamps' /\ NoOrphan'
  BY <1>5, KeepsNoOrphan DEF NoneWaiting, Goto, NoStamps, jobVars
<1>6. ASSUME NEW n \in Nodes, GetName(n) PROVE NoStamps' /\ NoOrphan'
  BY <1>6, KeepsNoOrphan DEF GetName, Goto, NoStamps
<1>7. ASSUME NEW n \in Nodes, ClaimUnstarted(n) PROVE NoStamps' /\ NoOrphan'
  <2>1. PICK r \in Runs :
          /\ r \in Claimable(n, "unstarted")
          /\ Take(n, r, "started", fresh[n])
          /\ StartChild(n, stamped[n] \cup {r})
    <3> HIDE DEF OInv, WInv, IInv, TypeOK
    <3> QED BY <1>0, <1>7, Zenon DEF ClaimUnstarted, IsFirst
  <2>2. pc[n] \in {"claimWaiting", "claimUnstarted"}
    BY <1>7 DEF ClaimUnstarted
  <2>3. Schedule = "static" => owner[r] = n
    BY <2>1 DEF Claimable
  <2>4. OInv
    OBVIOUS
  <2> HIDE DEF OInv, WInv, IInv, TypeOK
  <2> QED BY <2>1, <2>2, <2>3, <2>4, ClaimKeepsNoOrphan
<1>8. ASSUME NEW n \in Nodes, NoneUnstarted(n) PROVE NoStamps' /\ NoOrphan'
  BY <1>8, KeepsNoOrphan DEF NoneUnstarted, Goto, NoStamps, jobVars
<1>9. ASSUME NEW n \in Nodes, NotIdle(n) PROVE NoStamps' /\ NoOrphan'
  BY <1>9, KeepsNoOrphan DEF NotIdle, Goto, NoStamps, jobVars
<1>10. ASSUME NEW n \in Nodes, Shutdown(n) PROVE NoStamps' /\ NoOrphan'
  <2>1. WrapsOf(n) = {} /\ wraps' = wraps
    BY <1>10 DEF Shutdown, WrapsOf
  <2> QED BY <1>10, <2>1, KeepsNoOrphan DEF Shutdown, Goto, NoStamps, jobVars
<1>11. ASSUME NEW n \in Nodes, NEW r \in Runs, ChildExit(n, r)
       PROVE  NoStamps' /\ NoOrphan'
  <2>1. PICK v : v.node = n /\ v.run = r /\ wraps' = wraps \cup {v}
    BY <1>11 DEF ChildExit
  <2>2. /\ execs' = [execs EXCEPT ![n] = @ \ {r}]
        /\ UNCHANGED <<status, owner, stamped, pc>>
    BY <1>11 DEF ChildExit, jobVars
  <2> QED BY <2>1, <2>2 DEF NoStamps, NoOrphan, WrapsOf
<1>12. ASSUME NEW w \in wraps, MarkAssert(w) PROVE NoStamps' /\ NoOrphan'
  <2>1. PICK v : v.node = w.node /\ v.run = w.run /\ wraps' = (wraps \ {w}) \cup {v}
    <3>1. /\ [w EXCEPT !.phase = "write"].node = w.node
          /\ [w EXCEPT !.phase = "write"].run = w.run
      BY DEF WrapThreads
    <3> QED BY <1>12, <3>1 DEF MarkAssert
  <2>2. UNCHANGED <<status, owner, stamped, execs, pc>>
    BY <1>12 DEF MarkAssert, jobVars
  <2> QED BY <2>1, <2>2 DEF NoStamps, NoOrphan, WrapsOf
<1>13. ASSUME NEW w \in wraps, MarkFails(w) PROVE NoStamps' /\ NoOrphan'
  BY <1>13 DEF MarkFails, InProgressInv, WrapsAreOwned, InProgress, Active
<1>14. ASSUME NEW w \in wraps, MarkWrite(w) PROVE NoStamps' /\ NoOrphan'
  <2>1. /\ status' = [status EXCEPT ![w.run] = "completed"]
        /\ wraps' = wraps \ {w}
        /\ UNCHANGED <<owner, stamped, execs, pc>>
    BY <1>14 DEF MarkWrite
  <2>2. w.run \in Runs
    BY DEF WrapThreads
  <2> QED BY <2>1, <2>2 DEF NoStamps, NoOrphan, WrapsOf, Active
<1>15. ASSUME NEW n \in Nodes, Crash(n) PROVE NoStamps' /\ NoOrphan'
  <2>1. /\ pc' = [pc EXCEPT ![n] = "down"]
        /\ execs' = [execs EXCEPT ![n] = {}]
        /\ wraps' = wraps \ WrapsOf(n)
        /\ stamped' = [stamped EXCEPT ![n] = {}]
        /\ UNCHANGED <<status, owner>>
    BY <1>15 DEF Crash, Goto, jobVars
  <2> QED BY <2>1 DEF NoStamps, NoOrphan, WrapsOf
<1>16. ASSUME NEW n \in Nodes, Reboot(n) PROVE NoStamps' /\ NoOrphan'
  BY <1>16, KeepsNoOrphan DEF Reboot, Goto, NoStamps, jobVars
<1>17. ASSUME NEW n \in Nodes, RestartController(n), MaxRestarts = 0
       PROVE  NoStamps' /\ NoOrphan'
  BY <1>17 DEF RestartController
<1>18. CASE UNCHANGED vars
  BY <1>18 DEF vars, jobVars, nodeVars, NoStamps, NoOrphan, WrapsOf
<1> QED
  BY <1>1, <1>2, <1>3, <1>4, <1>5, <1>6, <1>7, <1>8, <1>9, <1>10, <1>11, <1>12,
     <1>13, <1>14, <1>15, <1>16, <1>17, <1>18
     DEF Next, QueueWorker, Wrapup, WrapsOf, Terminated

\* Every claimed entry is executed, wrapped up, or found again by its owner's
\* next session, wherever the nodes are preempted.
THEOREM NobodyIsOrphaned ==
  ASSUME MaxRestarts = 0, MaxLostReplies = 0, GraceSuffices
  PROVE  Spec => []NoOrphan
<1>1. Init => NoStamps /\ NoOrphan
  BY DEF Init, NoStamps, NoOrphan, Active
<1>2. Init => OInv
  BY <1>1, WInvInit DEF OInv
<1>3. OInv => NoOrphan
  BY DEF OInv
<1> QED BY <1>2, <1>3, OInvStep, PTL DEF Spec
-----------------------------------------------------------------------------
(***************************************************************************)
(* Names                                                                   *)
(***************************************************************************)

\* An entry that was never claimed has no name yet.
UnstartedIsNameless == \A r \in Runs : status[r] = "unstarted" => name[r] = NoName

\* An action that names or renames nothing, and makes no entry unstarted.
LEMMA NamelessKept ==
  ASSUME UnstartedIsNameless, name' = name,
         \A r \in Runs : status'[r] = "unstarted" => status[r] = "unstarted"
  PROVE  UnstartedIsNameless'
BY DEF UnstartedIsNameless

\* The claim of an entry never started is the only action that names one.
LEMMA NamelessStep ==
  TypeOK /\ UnstartedIsNameless /\ [Next]_vars
    => /\ UnstartedIsNameless'
       /\ \A r \in Runs : name[r] # NoName => name'[r] = name[r]
<1> SUFFICES ASSUME TypeOK, UnstartedIsNameless, [Next]_vars
             PROVE  /\ UnstartedIsNameless'
                    /\ \A r \in Runs : name[r] # NoName => name'[r] = name[r]
    OBVIOUS
<1> USE DEF TypeOK
<1>1. ASSUME NEW n \in Nodes, PutBack(n)
      PROVE  name' = name /\ \A r \in Runs : status'[r] = "unstarted" => status[r] = "unstarted"
  BY <1>1 DEF PutBack
<1>2. ASSUME NEW w \in wraps, MarkWrite(w)
      PROVE  name' = name /\ \A r \in Runs : status'[r] = "unstarted" => status[r] = "unstarted"
  BY <1>2 DEF MarkWrite
<1>3. ASSUME NEW n \in Nodes, ClaimWaiting(n)
      PROVE  name' = name /\ \A r \in Runs : status'[r] = "unstarted" => status[r] = "unstarted"
  BY <1>3 DEF ClaimWaiting, Take
<1>4. CASE UNCHANGED <<status, name>>
  BY <1>4, NamelessKept
<1>5. ASSUME NEW n \in Nodes, ClaimUnstarted(n)
      PROVE  /\ UnstartedIsNameless'
             /\ \A r \in Runs : name[r] # NoName => name'[r] = name[r]
  <2>1. PICK r \in Runs :
          status[r] = "unstarted" /\ Take(n, r, "started", fresh[n])
    BY <1>5 DEF ClaimUnstarted, IsFirst, Claimable
  <2> QED BY <2>1 DEF Take, UnstartedIsNameless
<1> QED
  BY <1>1, <1>2, <1>3, <1>4, <1>5, NamelessKept
     DEF Next, QueueWorker, Wrapup, WrapsOf, Terminated, PutBackDone, QueueCheck,
         NoneWaiting, GetName, NoneUnstarted, NotIdle, Shutdown, ChildExit,
         MarkAssert, MarkFails, Crash, Reboot, RestartController, jobVars, vars

\* A run keeps its name for life, with preemptions, restarts and lost replies:
\* only an entry without a name is ever given one.
THEOREM NamedForLife == Spec => NameIsForLife
<1>1. Init => UnstartedIsNameless
  BY DEF Init, UnstartedIsNameless
<1>2. TypeOK /\ UnstartedIsNameless /\ [Next]_vars =>
        [\A r \in Runs : name[r] # NoName => name'[r] = name[r]]_vars
  BY NamelessStep
<1>3. TypeOK /\ UnstartedIsNameless /\ [Next]_vars => UnstartedIsNameless'
  BY NamelessStep
<1> QED BY <1>1, <1>2, <1>3, TypeCorrect, PTL DEF Spec, NameIsForLife

\* A name in use carries a number the counter of its node has passed, and the
\* name a claim has fetched is its node's own and nobody's yet.
NamesAreCounted ==
  \A r \in Runs : name[r] # NoName => name[r][2] < nextChild[name[r][1]]

FreshIsUnused ==
  \A n \in Nodes : fresh[n] # NoName =>
    /\ fresh[n][1] = n
    /\ fresh[n][2] < nextChild[n]
    /\ \A r \in Runs : name[r] # fresh[n]

NameInv == TypeOK /\ NamesAreCounted /\ FreshIsUnused /\ NamesAreUnique

LEMMA NameInvInit == Init => NameInv
<1> SUFFICES ASSUME Init PROVE NameInv
    OBVIOUS
<1>1. TypeOK
  BY TypeInit
<1>2. NamesAreCounted /\ FreshIsUnused /\ NamesAreUnique
  BY DEF Init, NamesAreCounted, FreshIsUnused, NamesAreUnique
<1> QED BY <1>1, <1>2 DEF NameInv

\* What a name is made of.
LEMMA NameParts ==
  ASSUME NEW nm \in Names, nm # NoName
  PROVE  /\ nm[1] \in Nodes /\ nm[2] \in Nat
         /\ nm = <<nm[1], nm[2]>>
BY DEF Names

LEMMA NameInvStep ==
  ASSUME MaxLostReplies = 0 PROVE NameInv /\ [Next]_vars => NameInv'
<1> SUFFICES ASSUME NameInv, [Next]_vars
             PROVE  NamesAreCounted' /\ FreshIsUnused' /\ NamesAreUnique'
  BY TypeStep DEF NameInv
<1>0. TypeOK /\ NamesAreCounted /\ FreshIsUnused /\ NamesAreUnique
  BY DEF NameInv
<1>1. CASE /\ UNCHANGED <<name, nextChild>>
           /\ \A n \in Nodes : fresh'[n] = fresh[n] \/ fresh'[n] = NoName
  <2>1. NamesAreCounted' /\ NamesAreUnique'
    BY <1>0, <1>1 DEF NamesAreCounted, NamesAreUnique
  <2>2. FreshIsUnused'
    BY <1>0, <1>1 DEF FreshIsUnused
  <2> QED BY <2>1, <2>2
<1>2. ASSUME NEW n \in Nodes, GetName(n)
      PROVE  NamesAreCounted' /\ FreshIsUnused' /\ NamesAreUnique'
  <2>1. /\ name' = name
        /\ nextChild' = [nextChild EXCEPT ![n] = @ + 1]
        /\ fresh' = [fresh EXCEPT ![n] = <<n, nextChild[n]>>]
    BY <1>2 DEF GetName
  <2>2. \A m \in Nodes : /\ nextChild[m] \in Nat /\ nextChild'[m] \in Nat
                         /\ nextChild[m] <= nextChild'[m]
    BY <1>0, <2>1 DEF TypeOK
  <2>3. \A r \in Runs : name[r] # NoName =>
          name[r][1] \in Nodes /\ name[r][2] \in Nat
    BY <1>0, NameParts DEF TypeOK
  <2>4. NamesAreCounted'
    BY <1>0, <2>1, <2>2, <2>3 DEF NamesAreCounted
  <2>5. NamesAreUnique'
    BY <1>0, <2>1 DEF NamesAreUnique
  <2>6. \A r \in Runs : name[r] # <<n, nextChild[n]>>
    <3> SUFFICES ASSUME NEW r \in Runs, name[r] = <<n, nextChild[n]>> PROVE FALSE
        OBVIOUS
    <3>1. name[r] # NoName /\ name[r][1] = n /\ name[r][2] = nextChild[n]
      BY DEF NoName
    <3> QED BY <1>0, <2>2, <3>1 DEF NamesAreCounted
  <2>7. FreshIsUnused'
    <3> SUFFICES ASSUME NEW m \in Nodes, fresh'[m] # NoName
                 PROVE  /\ fresh'[m][1] = m
                        /\ fresh'[m][2] < nextChild'[m]
                        /\ \A r \in Runs : name'[r] # fresh'[m]
        BY DEF FreshIsUnused
    <3>1. CASE m = n
      <4>1. fresh'[m] = <<n, nextChild[n]>> /\ nextChild'[m] = nextChild[n] + 1
        BY <1>0, <2>1, <3>1 DEF TypeOK
      <4> QED BY <2>1, <2>2, <2>6, <3>1, <4>1
    <3>2. CASE m # n
      <4>1. fresh'[m] = fresh[m] /\ nextChild'[m] = nextChild[m]
        BY <1>0, <2>1, <3>2 DEF TypeOK
      <4> QED BY <1>0, <2>1, <4>1 DEF FreshIsUnused
    <3> QED BY <3>1, <3>2
  <2> QED BY <2>4, <2>5, <2>7
<1>3. ASSUME NEW n \in Nodes, ClaimUnstarted(n)
      PROVE  NamesAreCounted' /\ FreshIsUnused' /\ NamesAreUnique'
  <2>1. PICK r \in Runs :
          /\ Take(n, r, "started", fresh[n])
          /\ StartChild(n, stamped[n] \cup {r}) \/ LoseReply(n, r)
    BY <1>3 DEF ClaimUnstarted
  <2>2. ~ LoseReply(n, r)
    BY <1>0 DEF LoseReply, TypeOK
  <2>3. /\ name' = [name EXCEPT ![r] = fresh[n]]
        /\ nextChild' = nextChild
        /\ fresh' = [fresh EXCEPT ![n] = NoName]
    BY <1>3, <2>1, <2>2 DEF Take, StartChild, ClaimUnstarted
  <2>4. /\ name'[r] = fresh[n]
        /\ \A q \in Runs : q # r => name'[q] = name[q]
        /\ fresh'[n] = NoName
        /\ \A m \in Nodes : m # n => fresh'[m] = fresh[m]
    BY <1>0, <2>3 DEF TypeOK
  <2>5. NamesAreCounted'
    BY <1>0, <2>3, <2>4 DEF NamesAreCounted, FreshIsUnused
  <2>6. NamesAreUnique'
    BY <1>0, <2>4 DEF NamesAreUnique, FreshIsUnused
  <2>7. FreshIsUnused'
    BY <1>0, <2>3, <2>4 DEF FreshIsUnused
  <2> QED BY <2>5, <2>6, <2>7
<1>4. ASSUME NEW n \in Nodes, ClaimWaiting(n)
      PROVE  /\ UNCHANGED <<name, nextChild>>
             /\ \A m \in Nodes : fresh'[m] = fresh[m] \/ fresh'[m] = NoName
  BY <1>0, <1>4 DEF ClaimWaiting, Take, StartChild, LoseReply, TypeOK
<1>5. ASSUME NEW n \in Nodes, NoneUnstarted(n) \/ Crash(n)
      PROVE  /\ UNCHANGED <<name, nextChild>>
             /\ \A m \in Nodes : fresh'[m] = fresh[m] \/ fresh'[m] = NoName
  BY <1>0, <1>5 DEF NoneUnstarted, Crash, TypeOK, jobVars
<1>6. CASE UNCHANGED <<name, nextChild, fresh>>
  BY <1>1, <1>6
<1> QED
  BY <1>1, <1>2, <1>3, <1>4, <1>5, <1>6
     DEF Next, QueueWorker, Wrapup, WrapsOf, Terminated, PutBack, PutBackDone,
         QueueCheck, NoneWaiting, NotIdle, Shutdown, ChildExit, MarkAssert,
         MarkFails, MarkWrite, Reboot, RestartController, jobVars, nodeVars, vars

\* No two child runs get the same name, on whichever side of a crash or of a
\* restart they are claimed, as long as no reply to a claim is lost: a claim
\* sent again with the name of the first would name a second entry alike.
THEOREM UniqueNames == ASSUME MaxLostReplies = 0 PROVE Spec => []NamesAreUnique
<1>1. NameInv => NamesAreUnique
  BY DEF NameInv
<1> QED BY <1>1, NameInvInit, NameInvStep, PTL DEF Spec
-----------------------------------------------------------------------------
(***************************************************************************)
(* Nothing is left behind                                                  *)
(*                                                                         *)
(* Each controller decides alone that there is nothing more to claim.  The *)
(* argument: a controller that looks idle executes a child; an entry put   *)
(* back waits for a node that has yet to look for such entries; and no     *)
(* entry a node might claim is unstarted once the node has found none.     *)
(***************************************************************************)
IdleMeansBusy == \A n \in Nodes : pc[n] = "idleCheck" => execs[n] # {}

WaitingIsExpected ==
  \A r \in Runs : status[r] = "waiting_for_restart" =>
    /\ owner[r] \in Nodes
    /\ pc[owner[r]] \notin {"getName", "claimUnstarted", "parentDone", "exited"}

DoneMeansNoneUnstarted ==
  \A n \in Nodes : pc[n] \in {"parentDone", "exited"} =>
    \A r \in Runs : status[r] = "unstarted" => Schedule = "static" /\ owner[r] # n

DealtOut == Schedule = "static" => \A r \in Runs : owner[r] \in Nodes

EndInv == IdleMeansBusy /\ WaitingIsExpected /\ DoneMeansNoneUnstarted /\ DealtOut

LInv == OInv /\ EndInv

LEMMA LInvInit == OInv /\ Init => LInv
<1> SUFFICES ASSUME OInv, Init PROVE EndInv
  BY DEF LInv
<1>1. DealtOut
  <2>1. NodeCount \in Nat \ {0}
    BY CountAssumption
  <2>2. \A r \in Runs : r % NodeCount \in Nodes
    BY <2>1 DEF Runs, Nodes
  <2> QED BY <2>2 DEF Init, DealtOut, DealtNode
<1>2. IdleMeansBusy /\ WaitingIsExpected /\ DoneMeansNoneUnstarted
  BY DEF Init, IdleMeansBusy, WaitingIsExpected, DoneMeansNoneUnstarted
<1> QED BY <1>1, <1>2 DEF EndInv

\* A step within the controllers, of a node that does not end, or that ends
\* with nothing left to claim.
LEMMA DocumentUntouched ==
  ASSUME OInv, EndInv, NEW n \in Nodes, UNCHANGED <<status, owner>>,
         \A m \in Nodes : m # n => pc'[m] = pc[m] /\ execs'[m] = execs[m],
         pc'[n] = "idleCheck" => execs'[n] # {},
         \/ pc'[n] \notin {"getName", "claimUnstarted", "parentDone", "exited"}
         \/ pc[n] \in {"getName", "claimUnstarted", "parentDone", "exited"}
         \/ \A r \in Runs : owner[r] = n => status[r] # "waiting_for_restart",
         \/ pc'[n] \notin {"parentDone", "exited"}
         \/ pc[n] \in {"parentDone", "exited"}
         \/ Claimable(n, "unstarted") = {}
  PROVE  EndInv'
<1>1. IdleMeansBusy'
  BY DEF EndInv, IdleMeansBusy
<1>2. WaitingIsExpected'
  BY DEF EndInv, WaitingIsExpected
<1>3. DoneMeansNoneUnstarted'
  BY ScheduleAssumption DEF EndInv, DoneMeansNoneUnstarted, Claimable
<1>4. DealtOut'
  BY DEF EndInv, DealtOut
<1> QED BY <1>1, <1>2, <1>3, <1>4 DEF EndInv

\* A claim whose reply arrives leaves the node with a child to execute.
LEMMA ClaimKeepsEnd ==
  ASSUME OInv, EndInv, NEW n \in Nodes, NEW r \in Runs, NEW st \in Active, NEW nm,
         Take(n, r, st, nm),
         StartChild(n, stamped[n] \cup {r})
  PROVE  EndInv'
<1> USE DEF OInv, WInv, IInv, TypeOK
<1>1. /\ pc' = [pc EXCEPT ![n] = "idleCheck"]
      /\ execs' = [execs EXCEPT ![n] = @ \cup {r}]
  BY DEF StartChild, Goto, IsFirst, NoStamps
<1>2. /\ status'[r] \in Active
      /\ owner'[r] = IF Schedule = "static" THEN owner[r] ELSE n
      /\ \A q \in Runs : q # r => status'[q] = status[q] /\ owner'[q] = owner[q]
  BY DEF Take
<1>3. IdleMeansBusy'
  BY <1>1 DEF EndInv, IdleMeansBusy
<1>4. WaitingIsExpected'
  BY <1>1, <1>2 DEF EndInv, WaitingIsExpected, Active
<1>5. DoneMeansNoneUnstarted'
  BY <1>1, <1>2 DEF EndInv, DoneMeansNoneUnstarted, Active
<1>6. DealtOut'
  BY <1>2 DEF EndInv, DealtOut
<1> QED BY <1>3, <1>4, <1>5, <1>6 DEF EndInv

LEMMA LInvStep ==
  ASSUME MaxRestarts = 0, MaxLostReplies = 0, GraceSuffices, ChildrenAreSlow
  PROVE  LInv /\ [Next]_vars => LInv'
<1> SUFFICES ASSUME OInv, EndInv, [Next]_vars PROVE EndInv'
  BY OInvStep DEF LInv
<1>0. TypeOK /\ \A n \in Nodes, r \in Runs : ~ LoseReply(n, r)
  BY DEF OInv, WInv, IInv, TypeOK, LoseReply
<1>1. ASSUME NEW n \in Nodes, PutBack(n) PROVE EndInv'
  <2>1. PICK r \in Runs :
          /\ owner[r] = n
          /\ status' = [status EXCEPT ![r] = "waiting_for_restart"]
    BY <1>1 DEF PutBack, IsFirst, ToPutBack
  <2>2. UNCHANGED <<owner, pc, execs>> /\ pc[n] = "restarting"
    BY <1>1 DEF PutBack, nodeVars
  <2>3. /\ status'[r] = "waiting_for_restart"
        /\ \A q \in Runs : q # r => status'[q] = status[q]
    BY <1>0, <2>1 DEF TypeOK
  <2>4. IdleMeansBusy' /\ DealtOut'
    BY <2>2 DEF EndInv, IdleMeansBusy, DealtOut
  <2>5. WaitingIsExpected'
    BY <2>1, <2>2, <2>3 DEF EndInv, WaitingIsExpected
  <2>6. DoneMeansNoneUnstarted'
    BY <2>2, <2>3 DEF EndInv, DoneMeansNoneUnstarted
  <2> QED BY <2>4, <2>5, <2>6 DEF EndInv
<1>2. ASSUME NEW n \in Nodes, PutBackDone(n) PROVE EndInv'
  BY <1>0, <1>2, DocumentUntouched DEF PutBackDone, Goto, jobVars, TypeOK
<1>3. ASSUME NEW n \in Nodes, QueueCheck(n) PROVE EndInv'
  <2>1. /\ UNCHANGED <<status, owner, execs>>
        /\ \A m \in Nodes : m # n => pc'[m] = pc[m]
        /\ pc'[n] \in {"claimWaiting", "idleCheck"}
    BY <1>0, <1>3 DEF QueueCheck, Goto, jobVars, TypeOK
  <2>2. pc'[n] = "idleCheck" => execs[n] # {}
    <3>1. Cardinality({}) < Concurrent
      BY CountAssumption, FS_EmptySet
    <3> QED BY <1>0, <1>3, <3>1 DEF QueueCheck, Goto, TypeOK
  <2> QED BY <2>1, <2>2, DocumentUntouched
<1>4. ASSUME NEW n \in Nodes, ClaimWaiting(n) PROVE EndInv'
  <2>1. PICK r \in Runs :
          Take(n, r, "restarted", name[r]) /\ StartChild(n, stamped[n] \cup {r})
    BY <1>0, <1>4, Zenon DEF ClaimWaiting
  <2>2. "restarted" \in Active
    BY DEF Active
  <2> QED BY <2>1, <2>2, ClaimKeepsEnd
<1>5. ASSUME NEW n \in Nodes, NoneWaiting(n) PROVE EndInv'
  <2>1. \A r \in Runs : owner[r] = n => status[r] # "waiting_for_restart"
    BY <1>5 DEF NoneWaiting, Claimable
  <2> QED BY <1>0, <1>5, <2>1, DocumentUntouched DEF NoneWaiting, Goto, jobVars, TypeOK
<1>6. ASSUME NEW n \in Nodes, GetName(n) PROVE EndInv'
  BY <1>0, <1>6, DocumentUntouched DEF GetName, Goto, TypeOK
<1>7. ASSUME NEW n \in Nodes, ClaimUnstarted(n) PROVE EndInv'
  <2>1. PICK r \in Runs :
          Take(n, r, "started", fresh[n]) /\ StartChild(n, stamped[n] \cup {r})
    BY <1>0, <1>7, Zenon DEF ClaimUnstarted
  <2>2. "started" \in Active
    BY DEF Active
  <2> QED BY <2>1, <2>2, ClaimKeepsEnd
<1>8. ASSUME NEW n \in Nodes, NoneUnstarted(n) PROVE EndInv'
  BY <1>0, <1>8, DocumentUntouched DEF NoneUnstarted, Goto, jobVars, TypeOK
<1>9. ASSUME NEW n \in Nodes, NotIdle(n) PROVE EndInv'
  BY <1>0, <1>9, DocumentUntouched DEF NotIdle, Goto, jobVars, TypeOK
<1>10. ASSUME NEW n \in Nodes, Shutdown(n) PROVE EndInv'
  <2>1. pc[n] = "parentDone"
    BY <1>10 DEF Shutdown, EndInv, IdleMeansBusy
  <2> QED BY <1>0, <1>10, <2>1, DocumentUntouched DEF Shutdown, Goto, jobVars, TypeOK
<1>11. ASSUME NEW n \in Nodes, NEW r \in Runs, ChildExit(n, r) PROVE EndInv'
  BY <1>0, <1>11, DocumentUntouched DEF ChildExit, jobVars, TypeOK
<1>12. ASSUME NEW w \in wraps, MarkFails(w) PROVE EndInv'
  BY <1>12 DEF MarkFails, OInv, WInv, InProgressInv, WrapsAreOwned, InProgress, Active
<1>13. ASSUME NEW w \in wraps, MarkWrite(w) PROVE EndInv'
  <2>1. /\ status' = [status EXCEPT ![w.run] = "completed"]
        /\ UNCHANGED <<owner, pc, execs>>
    BY <1>13 DEF MarkWrite
  <2>2. \A q \in Runs : status'[q] # "completed" => status'[q] = status[q]
    BY <1>0, <2>1 DEF TypeOK
  <2> QED
    BY <2>1, <2>2
       DEF EndInv, IdleMeansBusy, WaitingIsExpected, DoneMeansNoneUnstarted, DealtOut
<1>14. ASSUME NEW n \in Nodes, Crash(n) PROVE EndInv'
  BY <1>0, <1>14, DocumentUntouched DEF Crash, Goto, jobVars, TypeOK
<1>15. ASSUME NEW n \in Nodes, Reboot(n) PROVE EndInv'
  BY <1>0, <1>15, DocumentUntouched DEF Reboot, Goto, jobVars, TypeOK
<1>16. ASSUME NEW n \in Nodes, RestartController(n) PROVE EndInv'
  BY <1>0, <1>16 DEF RestartController, TypeOK
<1>17. CASE UNCHANGED <<status, owner, pc, execs>>
  BY <1>17
     DEF EndInv, IdleMeansBusy, WaitingIsExpected, DoneMeansNoneUnstarted, DealtOut
<1> QED
  BY <1>1, <1>2, <1>3, <1>4, <1>5, <1>6, <1>7, <1>8, <1>9, <1>10, <1>11, <1>12,
     <1>13, <1>14, <1>15, <1>16, <1>17
     DEF Next, QueueWorker, Wrapup, WrapsOf, Terminated, MarkAssert, vars, jobVars,
         nodeVars

\* Once every controller has ended, no entry is active, waiting or unstarted.
LEMMA LInvEnds == LInv => NothingLeftBehind
<1> SUFFICES ASSUME LInv, \A n \in Nodes : pc[n] = "exited", NEW r \in Runs,
                    status[r] # "completed"
             PROVE  FALSE
  BY DEF NothingLeftBehind
<1> USE DEF LInv, OInv, WInv, IInv, TypeOK
<1>1. CASE status[r] \in Active
  <2>1. /\ execs[owner[r]] = {}
        /\ \A w \in wraps : FALSE
    BY <1>1 DEF NoOrphan, QuietNodes, InProgressInv, WrapsAreUp, WrapThreads
  <2> QED BY <1>1, <2>1 DEF NoOrphan, WrapsOf
<1>2. CASE status[r] = "waiting_for_restart"
  BY <1>2 DEF EndInv, WaitingIsExpected
<1>3. CASE status[r] = "unstarted"
  <2>1. 0 \in Nodes
    BY CountAssumption DEF Nodes
  <2>2. Schedule = "static" /\ \A n \in Nodes : owner[r] # n
    BY <1>3, <2>1 DEF EndInv, DoneMeansNoneUnstarted
  <2> QED BY <2>2 DEF EndInv, DealtOut
<1> QED BY <1>1, <1>2, <1>3 DEF EntryStatus, Active

\* When every controller has ended, every child run has: no node leaves early
\* with an entry that nobody will ever claim.
THEOREM AllRunsAreDone ==
  ASSUME MaxRestarts = 0, MaxLostReplies = 0, GraceSuffices, ChildrenAreSlow
  PROVE  Spec => []NothingLeftBehind
<1>1. Init => OInv
  <2>1. Init => NoStamps /\ NoOrphan
    BY DEF Init, NoStamps, NoOrphan, Active
  <2> QED BY <2>1, WInvInit DEF OInv
<1>2. Init => LInv
  BY <1>1, LInvInit
<1> QED BY <1>2, LInvStep, LInvEnds, PTL DEF Spec

\* The entries are in order: unique names, no entry marked twice, and none
\* left behind when the controllers have ended.
THEOREM EntriesAreInOrder ==
  ASSUME MaxRestarts = 0, MaxLostReplies = 0, GraceSuffices, ChildrenAreSlow
  PROVE  Spec => []EntriesInOrder
BY UniqueNames, MarkedOnce, AllRunsAreDone, PTL DEF EntriesInOrder
=============================================================================
