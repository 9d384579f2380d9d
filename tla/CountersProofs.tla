--------------------------- MODULE CountersProofs ---------------------------
(***************************************************************************)
(* Proofs about the counters in the database. First JobCounters, for any   *)
(* number of nodes and of runs dealt to them, any --concurrent and any     *)
(* number of preemptions and lost replies; then RunHistory.                *)
(***************************************************************************)
EXTENDS JobCounters, RunHistory, FiniteSetTheorems, TLAPS

Counts == [Nodes -> Nat]

-----------------------------------------------------------------------------
(* What Total does when the number of one node changes *)

LEMMA UnitsElement ==
  ASSUME NEW f \in Counts
  PROVE  Units(f) = {u \in Nodes \X Nat : 1 <= u[2] /\ u[2] <= f[u[1]]}
BY DEF Units, Counts

\* A number for each of finitely many nodes has finitely many units.
LEMMA UnitsFinite ==
  ASSUME NEW f \in Counts
  PROVE  IsFiniteSet(Units(f)) /\ Total(f) \in Nat
<1> DEFINE rows == [n \in Nodes |-> {n} \X (1 .. f[n])]
           all  == {rows[n] : n \in Nodes}
<1>1. rows \in Surjection(Nodes, all)
  BY DEF Surjection
<1>2. IsFiniteSet(all)
  BY <1>1, NodesAssumption, FS_Surjection
<1>3. ASSUME NEW n \in Nodes PROVE IsFiniteSet(rows[n])
  <2>1. IsFiniteSet(1 .. f[n])
    BY FS_Interval DEF Counts
  <2>2. IsFiniteSet({n})
    BY FS_Singleton
  <2> QED
    BY <2>1, <2>2, FS_Product
<1>4. IsFiniteSet(UNION all)
  BY <1>2, <1>3, FS_UNION
<1>5. Units(f) = UNION all
  BY DEF Units
<1> QED
  BY <1>4, <1>5, FS_CardinalityType DEF Total

LEMMA TotalUp ==
  ASSUME NEW f \in Counts, NEW n \in Nodes, NEW k \in Nat
  PROVE  Total(Add(f, n, k)) = Total(f) + k
<1> DEFINE g == Add(f, n, k)
           new == {n} \X (f[n] + 1 .. f[n] + k)
<1>1. g \in Counts /\ g[n] = f[n] + k /\ \A m \in Nodes \ {n} : g[m] = f[m]
  BY DEF Add, Counts
<1>2. Units(g) = Units(f) \cup new
  BY <1>1, UnitsElement DEF Counts
<1>3. Units(f) \cap new = {}
  BY UnitsElement DEF Counts
<1>4. IsFiniteSet(new) /\ Cardinality(new) = k
  <2> DEFINE low == f[n] + 1
             high == f[n] + k
             units == low .. high
  <2>1. /\ low \in Int /\ high \in Int /\ high - low + 1 = k
        /\ low > high => k = 0
    BY DEF Counts
  <2> HIDE DEF low, high
  <2>2. IsFiniteSet(low .. high)
    BY <2>1, FS_Interval
  <2>3. Cardinality(low .. high) = k
    BY <2>1, FS_Interval
  <2>4. IsFiniteSet({n}) /\ Cardinality({n}) = 1
    BY FS_Singleton
  <2> HIDE DEF units
  <2>5. IsFiniteSet({n} \X units) /\ Cardinality({n} \X units) = 1 * k
    BY <2>2, <2>3, <2>4, FS_Product DEF units
  <2> QED
    BY <2>5 DEF units, low, high
<1>5. IsFiniteSet(Units(f)) /\ Cardinality(Units(f)) \in Nat
  BY UnitsFinite DEF Total
<1>6. Cardinality(Units(f) \cup new) = Cardinality(Units(f)) + k - Cardinality({})
  BY <1>3, <1>4, <1>5, FS_Union
<1> QED
  BY <1>2, <1>5, <1>6, FS_EmptySet DEF Total

\* Adding to the number of one node adds as much to the sum.
LEMMA TotalAdd ==
  ASSUME NEW f \in Counts, NEW n \in Nodes, NEW k \in Int, f[n] + k >= 0
  PROVE  /\ Add(f, n, k) \in Counts
         /\ Total(Add(f, n, k)) = Total(f) + k
         /\ Total(f) \in Nat
<1> DEFINE g == Add(f, n, k)
<1>1. g \in Counts
  BY DEF Add, Counts
<1>2. CASE k >= 0
  BY <1>1, <1>2, TotalUp, UnitsFinite
<1>3. CASE k < 0
  <2>1. Add(g, n, -k) = [m \in Nodes |-> IF m = n THEN g[m] + (-k) ELSE g[m]]
    BY <1>1 DEF Add, Counts
  <2>2. g = [m \in Nodes |-> IF m = n THEN f[m] + k ELSE f[m]]
    BY DEF Add, Counts
  <2>3. \A m \in Nodes : (IF m = n THEN g[m] + (-k) ELSE g[m]) = f[m]
    BY <2>2 DEF Counts
  <2>4. f = Add(g, n, -k)
    BY <2>1, <2>3 DEF Counts
  <2>5. Total(f) = Total(g) + (-k)
    BY <1>1, <1>3, <2>4, TotalUp
  <2> QED
    BY <1>1, <2>5, UnitsFinite
<1> QED
  BY <1>2, <1>3

LEMMA TotalZero == Zero \in Counts /\ Total(Zero) = 0
<1>1. Zero \in Counts
  BY DEF Zero, Counts
<1>2. Units(Zero) = {}
  BY <1>1, UnitsElement DEF Zero
<1> QED
  BY <1>1, <1>2, FS_EmptySet DEF Total

-----------------------------------------------------------------------------
(***************************************************************************)
(* Type correctness                                                        *)
(***************************************************************************)

LEMMA TypeInit == Init => TypeOK
BY BoundsAssumption DEF Init, TypeOK, JobStatuses, PCs, Zero

LEMMA TypeStep == TypeOK /\ [Next]_vars => TypeOK'
<1> SUFFICES ASSUME TypeOK, [Next]_vars PROVE TypeOK'
    OBVIOUS
<1> USE BoundsAssumption DEF TypeOK, Goto, Add, PCs, JobStatuses, AppliedTimes,
        docVars, workerVars, childVars
<1>1. ASSUME NEW n \in Nodes, StartRedo(n) PROVE TypeOK'
  BY <1>1 DEF StartRedo, CanPop
<1>2. ASSUME NEW n \in Nodes, StartTodo(n) PROVE TypeOK'
  BY <1>2 DEF StartTodo, CanPop
<1>3. ASSUME NEW n \in Nodes, ParentEnds(n) PROVE TypeOK'
  BY <1>3 DEF ParentEnds, CanPop
<1>4. ASSUME NEW n \in Nodes, NoPop(n) PROVE TypeOK'
  BY <1>4 DEF NoPop
<1>5. ASSUME NEW n \in Nodes, JobRunStart(n) PROVE TypeOK'
  BY <1>5 DEF JobRunStart
<1>6. ASSUME NEW n \in Nodes, JobNodeStart(n) PROVE TypeOK'
  BY <1>6 DEF JobNodeStart
<1>7. ASSUME NEW n \in Nodes, JobNodeSet(n) PROVE TypeOK'
  BY <1>7 DEF JobNodeSet
<1>8. ASSUME NEW n \in Nodes, IdleCheck(n) PROVE TypeOK'
  BY <1>8 DEF IdleCheck
<1>9. ASSUME NEW n \in Nodes, JobNodeExit(n) PROVE TypeOK'
  BY <1>9 DEF JobNodeExit
<1>10. ASSUME NEW n \in Nodes, JobNodeExitSet(n) PROVE TypeOK'
  BY <1>10 DEF JobNodeExitSet
<1>11. ASSUME NEW n \in Nodes, Shutdown(n) PROVE TypeOK'
  BY <1>11 DEF Shutdown
<1>12. ASSUME NEW n \in Nodes, ProcessEnds(n) PROVE TypeOK'
  BY <1>12 DEF ProcessEnds
<1>13. ASSUME NEW n \in Nodes, Wrapup(n) PROVE TypeOK'
  BY <1>13 DEF Wrapup, JobRunExit, MarkCompleted
<1>14. ASSUME NEW n \in Nodes, Crash(n) PROVE TypeOK'
  BY <1>14 DEF Crash
<1>15. ASSUME NEW n \in Nodes, Reboot(n) PROVE TypeOK'
  BY <1>15 DEF Reboot
<1>16. CASE UNCHANGED vars
  BY <1>16 DEF vars
<1> QED
  BY <1>1, <1>2, <1>3, <1>4, <1>5, <1>6, <1>7, <1>8, <1>9, <1>10, <1>11, <1>12,
     <1>13, <1>14, <1>15, <1>16 DEF Next, QueueWorker, Terminated

\* The document and the controllers' variables keep their types, whatever is
\* preempted or applied twice.
THEOREM TypeCorrect == Spec => []TypeOK
BY TypeInit, TypeStep, PTL DEF Spec

-----------------------------------------------------------------------------
(***************************************************************************)
(* Where the workers are                                                   *)
(***************************************************************************)

\* Without a preemption nothing is restarted; a node on its way out of the job
\* runs nothing; one that counts itself in or out knows the job.
WorkersInOrder ==
  /\ crashes = 0 =>
       \A n \in Nodes : redo[n] = 0 /\ ~redoing[n] /\ pc[n] # "down"
  /\ \A n \in Nodes :
       /\ pc[n] \in {"exitInc", "exitSet", "shutdown", "gone", "down"} => running[n] = 0
       /\ pc[n] \in {"nodeSet", "exitInc"} => known[n]
       /\ pc[n] \in {"exitSet", "shutdown", "gone"} => ~known[n]
       /\ crashes = 0 /\ running[n] > 0 => known[n] \/ pc[n] \in {"started", "counted"}

LEMMA WorkersInit == Init => WorkersInOrder
BY DEF Init, WorkersInOrder, Zero

LEMMA WorkersStep == TypeOK /\ WorkersInOrder /\ [Next]_vars => WorkersInOrder'
<1> SUFFICES ASSUME TypeOK, WorkersInOrder, [Next]_vars PROVE WorkersInOrder'
    OBVIOUS
<1> USE DEF TypeOK, WorkersInOrder, Goto, Add, PCs, Alive, docVars, workerVars, childVars
<1>1. ASSUME NEW n \in Nodes, StartRedo(n) PROVE WorkersInOrder'
  BY <1>1 DEF StartRedo, CanPop
<1>2. ASSUME NEW n \in Nodes, StartTodo(n) PROVE WorkersInOrder'
  BY <1>2 DEF StartTodo, CanPop
<1>3. ASSUME NEW n \in Nodes, ParentEnds(n) PROVE WorkersInOrder'
  BY <1>3 DEF ParentEnds, CanPop
<1>4. ASSUME NEW n \in Nodes, NoPop(n) PROVE WorkersInOrder'
  BY <1>4 DEF NoPop
<1>5. ASSUME NEW n \in Nodes, JobRunStart(n) PROVE WorkersInOrder'
  BY <1>5 DEF JobRunStart
<1>6. ASSUME NEW n \in Nodes, JobNodeStart(n) PROVE WorkersInOrder'
  BY <1>6 DEF JobNodeStart
<1>7. ASSUME NEW n \in Nodes, JobNodeSet(n) PROVE WorkersInOrder'
  BY <1>7 DEF JobNodeSet
<1>8. ASSUME NEW n \in Nodes, IdleCheck(n) PROVE WorkersInOrder'
  BY <1>8 DEF IdleCheck
<1>9. ASSUME NEW n \in Nodes, JobNodeExit(n) PROVE WorkersInOrder'
  BY <1>9 DEF JobNodeExit
<1>10. ASSUME NEW n \in Nodes, JobNodeExitSet(n) PROVE WorkersInOrder'
  BY <1>10 DEF JobNodeExitSet
<1>11. ASSUME NEW n \in Nodes, Shutdown(n) PROVE WorkersInOrder'
  BY <1>11 DEF Shutdown
<1>12. ASSUME NEW n \in Nodes, ProcessEnds(n) PROVE WorkersInOrder'
  BY <1>12 DEF ProcessEnds
<1>13. ASSUME NEW n \in Nodes, JobRunExit(n) PROVE WorkersInOrder'
  BY <1>13 DEF JobRunExit
<1>14. ASSUME NEW n \in Nodes, MarkCompleted(n) PROVE WorkersInOrder'
  BY <1>14 DEF MarkCompleted
<1>15. ASSUME NEW n \in Nodes, Crash(n) PROVE WorkersInOrder'
  BY <1>15 DEF Crash
<1>16. ASSUME NEW n \in Nodes, Reboot(n) PROVE WorkersInOrder'
  BY <1>16 DEF Reboot
<1>17. CASE UNCHANGED vars
  BY <1>17 DEF vars
<1> QED
  BY <1>1, <1>2, <1>3, <1>4, <1>5, <1>6, <1>7, <1>8, <1>9,
     <1>10, <1>11, <1>12, <1>13, <1>14, <1>15, <1>16, <1>17
     DEF Next, QueueWorker, Wrapup, Terminated

LEMMA WorkersHold == Spec => [](TypeOK /\ WorkersInOrder)
<1>1. Init => TypeOK /\ WorkersInOrder
  BY TypeInit, WorkersInit
<1>2. TypeOK /\ WorkersInOrder /\ [Next]_vars => (TypeOK /\ WorkersInOrder)'
  BY TypeStep, WorkersStep
<1> QED
  BY <1>1, <1>2, PTL DEF Spec

-----------------------------------------------------------------------------
(***************************************************************************)
(* Running nodes and the job's status                                      *)
(***************************************************************************)

\* The number of nodes in a set grows by one with a node that was not in it.
LEMMA CountNodes ==
  ASSUME NEW S \in SUBSET Nodes, NEW n \in Nodes
  PROVE  /\ Cardinality(S) \in Nat
         /\ n \notin S => Cardinality(S \cup {n}) = Cardinality(S) + 1
         /\ n \in S => Cardinality(S \ {n}) = Cardinality(S) - 1
         /\ Cardinality(S) = 0 => S = {}
<1>1. IsFiniteSet(S)
  BY NodesAssumption, FS_Subset
<1>2. Cardinality(S) \in Nat
  BY <1>1, FS_CardinalityType
<1>3. n \notin S => Cardinality(S \cup {n}) = Cardinality(S) + 1
  BY <1>1, FS_AddElement
<1>4. n \in S => Cardinality(S \ {n}) = Cardinality(S) - 1
  BY <1>1, FS_RemoveElement
<1>5. Cardinality(S) = 0 => S = {}
  BY <1>1, FS_EmptySet
<1> QED
  BY <1>2, <1>3, <1>4, <1>5

NodesInv == NodesAreCounted /\ RunningNodeMeansRunningJob /\ CompletedJobIsQuiet

KnownNodes == {n \in Nodes : known[n]}

LEMMA NodesInit == Init => NodesInv
<1> SUFFICES ASSUME Init PROVE NodesInv
    OBVIOUS
<1>1. {n \in Nodes : known[n]} = {}
  BY DEF Init
<1> QED
  BY <1>1, FS_EmptySet DEF Init, NodesInv, NodesAreCounted, RunningNodeMeansRunningJob,
     CompletedJobIsQuiet, Zero

LEMMA DisturbedForGood ==
  TypeOK /\ [Next]_vars /\ Undisturbed' => Undisturbed
<1> SUFFICES ASSUME TypeOK, [Next]_vars, Undisturbed' PROVE Undisturbed
    OBVIOUS
<1> USE BoundsAssumption DEF TypeOK, Undisturbed, AppliedTimes
<1>1. ASSUME NEW n \in Nodes, StartRedo(n) PROVE Undisturbed
  BY <1>1 DEF StartRedo, CanPop
<1>2. ASSUME NEW n \in Nodes, StartTodo(n) PROVE Undisturbed
  BY <1>2 DEF StartTodo, CanPop
<1>3. ASSUME NEW n \in Nodes, ParentEnds(n) PROVE Undisturbed
  BY <1>3 DEF ParentEnds, CanPop
<1>4. ASSUME NEW n \in Nodes, NoPop(n) PROVE Undisturbed
  BY <1>4 DEF NoPop
<1>5. ASSUME NEW n \in Nodes, JobRunStart(n) PROVE Undisturbed
  BY <1>5 DEF JobRunStart
<1>6. ASSUME NEW n \in Nodes, JobNodeStart(n) PROVE Undisturbed
  BY <1>6 DEF JobNodeStart
<1>7. ASSUME NEW n \in Nodes, JobNodeSet(n) PROVE Undisturbed
  BY <1>7 DEF JobNodeSet
<1>8. ASSUME NEW n \in Nodes, IdleCheck(n) PROVE Undisturbed
  BY <1>8 DEF IdleCheck
<1>9. ASSUME NEW n \in Nodes, JobNodeExit(n) PROVE Undisturbed
  BY <1>9 DEF JobNodeExit
<1>10. ASSUME NEW n \in Nodes, JobNodeExitSet(n) PROVE Undisturbed
  BY <1>10 DEF JobNodeExitSet
<1>11. ASSUME NEW n \in Nodes, Shutdown(n) PROVE Undisturbed
  BY <1>11 DEF Shutdown
<1>12. ASSUME NEW n \in Nodes, ProcessEnds(n) PROVE Undisturbed
  BY <1>12 DEF ProcessEnds
<1>13. ASSUME NEW n \in Nodes, JobRunExit(n) PROVE Undisturbed
  BY <1>13 DEF JobRunExit
<1>14. ASSUME NEW n \in Nodes, MarkCompleted(n) PROVE Undisturbed
  BY <1>14 DEF MarkCompleted
<1>15. ASSUME NEW n \in Nodes, Crash(n) PROVE Undisturbed
  BY <1>15 DEF Crash
<1>16. ASSUME NEW n \in Nodes, Reboot(n) PROVE Undisturbed
  BY <1>16 DEF Reboot
<1>17. CASE UNCHANGED vars
  BY <1>17 DEF vars
<1> QED
  BY <1>1, <1>2, <1>3, <1>4, <1>5, <1>6, <1>7, <1>8, <1>9,
     <1>10, <1>11, <1>12, <1>13, <1>14, <1>15, <1>16, <1>17
     DEF Next, QueueWorker, Wrapup, Terminated

LEMMA NodesAreCountedStep ==
  ASSUME TypeOK, WorkersInOrder, NodesAreCounted, [Next]_vars
  PROVE  NodesAreCounted'
<1> SUFFICES ASSUME Undisturbed, Undisturbed'
             PROVE  runningNodes' = Cardinality(KnownNodes')
  BY DisturbedForGood DEF NodesAreCounted, KnownNodes
<1>0. runningNodes = Cardinality(KnownNodes) /\ KnownNodes \in SUBSET Nodes
  BY DEF NodesAreCounted, KnownNodes
<1>a. UNCHANGED <<runningNodes, known>> => runningNodes' = Cardinality(KnownNodes')
  BY <1>0 DEF KnownNodes
<1> USE DEF docVars, workerVars, childVars
<1>1. ASSUME NEW n \in Nodes, StartRedo(n) PROVE runningNodes' = Cardinality(KnownNodes')
  BY <1>a, <1>1 DEF StartRedo
<1>2. ASSUME NEW n \in Nodes, StartTodo(n) PROVE runningNodes' = Cardinality(KnownNodes')
  BY <1>a, <1>2 DEF StartTodo
<1>3. ASSUME NEW n \in Nodes, ParentEnds(n) PROVE runningNodes' = Cardinality(KnownNodes')
  BY <1>a, <1>3 DEF ParentEnds
<1>4. ASSUME NEW n \in Nodes, NoPop(n) PROVE runningNodes' = Cardinality(KnownNodes')
  BY <1>a, <1>4 DEF NoPop
<1>5. ASSUME NEW n \in Nodes, JobRunStart(n) PROVE runningNodes' = Cardinality(KnownNodes')
  BY <1>a, <1>5 DEF JobRunStart
<1>6. ASSUME NEW n \in Nodes, JobNodeStart(n) PROVE runningNodes' = Cardinality(KnownNodes')
  <2>1. CASE known[n] \/ redoing[n]
    <3>1. known[n] /\ known' = known /\ runningNodes' = runningNodes
      BY <1>6, <2>1 DEF JobNodeStart, WorkersInOrder, Undisturbed, TypeOK
    <3> QED
      BY <1>a, <3>1
  <2>2. CASE ~(known[n] \/ redoing[n])
    <3>1. runningNodes' = runningNodes + 1
      BY <1>6, <2>2, BoundsAssumption DEF JobNodeStart, AppliedTimes, Undisturbed, TypeOK
    <3>2. KnownNodes' = KnownNodes \cup {n}
      BY <1>6 DEF JobNodeStart, KnownNodes, TypeOK
    <3>3. n \notin KnownNodes
      BY <2>2 DEF KnownNodes
    <3> QED
      BY <1>0, <3>1, <3>2, <3>3, CountNodes
  <2> QED
    BY <2>1, <2>2
<1>7. ASSUME NEW n \in Nodes, JobNodeSet(n) PROVE runningNodes' = Cardinality(KnownNodes')
  BY <1>a, <1>7 DEF JobNodeSet
<1>8. ASSUME NEW n \in Nodes, IdleCheck(n) PROVE runningNodes' = Cardinality(KnownNodes')
  BY <1>a, <1>8 DEF IdleCheck
<1>9. ASSUME NEW n \in Nodes, JobNodeExit(n) PROVE runningNodes' = Cardinality(KnownNodes')
  <2>1. runningNodes' = runningNodes - 1
    BY <1>9, BoundsAssumption DEF JobNodeExit, AppliedTimes, Undisturbed, TypeOK
  <2>2. KnownNodes' = KnownNodes \ {n}
    BY <1>9 DEF JobNodeExit, KnownNodes, TypeOK
  <2>3. n \in KnownNodes
    BY <1>9 DEF JobNodeExit, WorkersInOrder, KnownNodes
  <2> QED
    BY <1>0, <2>1, <2>2, <2>3, CountNodes
<1>10. ASSUME NEW n \in Nodes, JobNodeExitSet(n) PROVE runningNodes' = Cardinality(KnownNodes')
  BY <1>a, <1>10 DEF JobNodeExitSet
<1>11. ASSUME NEW n \in Nodes, Shutdown(n) PROVE runningNodes' = Cardinality(KnownNodes')
  BY <1>a, <1>11 DEF Shutdown
<1>12. ASSUME NEW n \in Nodes, ProcessEnds(n) PROVE runningNodes' = Cardinality(KnownNodes')
  BY <1>a, <1>12 DEF ProcessEnds
<1>13. ASSUME NEW n \in Nodes, JobRunExit(n) PROVE runningNodes' = Cardinality(KnownNodes')
  BY <1>a, <1>13 DEF JobRunExit
<1>14. ASSUME NEW n \in Nodes, MarkCompleted(n) PROVE runningNodes' = Cardinality(KnownNodes')
  BY <1>a, <1>14 DEF MarkCompleted
<1>15. ASSUME NEW n \in Nodes, Crash(n) PROVE runningNodes' = Cardinality(KnownNodes')
  BY <1>a, <1>15 DEF Crash
<1>16. ASSUME NEW n \in Nodes, Reboot(n) PROVE runningNodes' = Cardinality(KnownNodes')
  BY <1>16 DEF Reboot, WorkersInOrder, Undisturbed
<1>17. CASE UNCHANGED vars
  BY <1>a, <1>17 DEF vars
<1> QED
  BY <1>1, <1>2, <1>3, <1>4, <1>5, <1>6, <1>7, <1>8, <1>9,
     <1>10, <1>11, <1>12, <1>13, <1>14, <1>15, <1>16, <1>17
     DEF Next, QueueWorker, Wrapup, Terminated

LEMMA RunningNodeStep ==
  ASSUME TypeOK, WorkersInOrder, NodesAreCounted, RunningNodeMeansRunningJob, [Next]_vars
  PROVE  RunningNodeMeansRunningJob'
<1> SUFFICES ASSUME Undisturbed, Undisturbed'
             PROVE  RunningNodeMeansRunningJob'
  BY DisturbedForGood DEF RunningNodeMeansRunningJob
<1> USE DEF TypeOK, WorkersInOrder, RunningNodeMeansRunningJob, Undisturbed, Goto, Add,
        PCs, docVars, workerVars, childVars
<1>1. ASSUME NEW n \in Nodes, StartRedo(n) PROVE RunningNodeMeansRunningJob'
  BY <1>1 DEF StartRedo, CanPop
<1>2. ASSUME NEW n \in Nodes, StartTodo(n) PROVE RunningNodeMeansRunningJob'
  BY <1>2 DEF StartTodo, CanPop
<1>3. ASSUME NEW n \in Nodes, ParentEnds(n) PROVE RunningNodeMeansRunningJob'
  BY <1>3 DEF ParentEnds, CanPop
<1>4. ASSUME NEW n \in Nodes, NoPop(n) PROVE RunningNodeMeansRunningJob'
  BY <1>4 DEF NoPop
<1>5. ASSUME NEW n \in Nodes, JobRunStart(n) PROVE RunningNodeMeansRunningJob'
  BY <1>5 DEF JobRunStart
<1>6. ASSUME NEW n \in Nodes, JobNodeStart(n) PROVE RunningNodeMeansRunningJob'
  BY <1>6 DEF JobNodeStart
<1>7. ASSUME NEW n \in Nodes, JobNodeSet(n) PROVE RunningNodeMeansRunningJob'
  BY <1>7 DEF JobNodeSet
<1>8. ASSUME NEW n \in Nodes, IdleCheck(n) PROVE RunningNodeMeansRunningJob'
  BY <1>8 DEF IdleCheck
<1>9. ASSUME NEW n \in Nodes, JobNodeExit(n) PROVE RunningNodeMeansRunningJob'
  BY <1>9 DEF JobNodeExit
<1>10. ASSUME NEW n \in Nodes, JobNodeExitSet(n) PROVE RunningNodeMeansRunningJob'
  <2>1. CASE runningNodes = 0
    <3>1. Cardinality(KnownNodes) = 0 /\ KnownNodes \in SUBSET Nodes
      BY <2>1 DEF NodesAreCounted, KnownNodes
    <3>2. KnownNodes = {}
      BY <3>1, CountNodes
    <3> QED
      BY <1>10, <3>2 DEF JobNodeExitSet, KnownNodes
  <2>2. CASE runningNodes # 0
    BY <1>10, <2>2 DEF JobNodeExitSet
  <2> QED
    BY <2>1, <2>2
<1>11. ASSUME NEW n \in Nodes, Shutdown(n) PROVE RunningNodeMeansRunningJob'
  BY <1>11 DEF Shutdown
<1>12. ASSUME NEW n \in Nodes, ProcessEnds(n) PROVE RunningNodeMeansRunningJob'
  BY <1>12 DEF ProcessEnds
<1>13. ASSUME NEW n \in Nodes, JobRunExit(n) PROVE RunningNodeMeansRunningJob'
  BY <1>13 DEF JobRunExit
<1>14. ASSUME NEW n \in Nodes, MarkCompleted(n) PROVE RunningNodeMeansRunningJob'
  BY <1>14 DEF MarkCompleted
<1>15. ASSUME NEW n \in Nodes, Crash(n) PROVE RunningNodeMeansRunningJob'
  BY <1>15 DEF Crash
<1>16. ASSUME NEW n \in Nodes, Reboot(n) PROVE RunningNodeMeansRunningJob'
  BY <1>16 DEF Reboot
<1>17. CASE UNCHANGED vars
  BY <1>17 DEF vars
<1> QED
  BY <1>1, <1>2, <1>3, <1>4, <1>5, <1>6, <1>7, <1>8, <1>9,
     <1>10, <1>11, <1>12, <1>13, <1>14, <1>15, <1>16, <1>17
     DEF Next, QueueWorker, Wrapup, Terminated

\* That a completed job is quiet follows from what the workers know.
LEMMA QuietFollows ==
  TypeOK /\ WorkersInOrder /\ RunningNodeMeansRunningJob => CompletedJobIsQuiet
BY DEF TypeOK, WorkersInOrder, RunningNodeMeansRunningJob, CompletedJobIsQuiet, Undisturbed

\* running_nodes counts the nodes that know the job, a node that does finds it
\* "running", and a completed job is quiet, although every node updates the
\* document on its own and reads it later than it tests its own table.
THEOREM NodesAgree == Spec => [](NodesAreCounted /\ RunningNodeMeansRunningJob /\ CompletedJobIsQuiet)
<1> DEFINE J == TypeOK /\ WorkersInOrder /\ NodesAreCounted /\ RunningNodeMeansRunningJob
<1>1. Init => J
  BY TypeInit, WorkersInit, NodesInit DEF NodesInv
<1>2. J /\ [Next]_vars => J'
  BY TypeStep, WorkersStep, NodesAreCountedStep, RunningNodeStep
<1>3. J => NodesAreCounted /\ RunningNodeMeansRunningJob /\ CompletedJobIsQuiet
  BY QuietFollows
<1> QED
  BY <1>1, <1>2, <1>3, PTL DEF Spec

-----------------------------------------------------------------------------
(***************************************************************************)
(* The runs                                                                *)
(***************************************************************************)

StartedNodes == {n \in Nodes : pc[n] = "started"}

LEMMA TypedCounts ==
  TypeOK => /\ todo \in Counts /\ redo \in Counts /\ running \in Counts
            /\ ended \in Counts /\ exited \in Counts
BY DEF TypeOK, Counts

\* Setting the number of a node to zero takes it off the sum.
LEMMA TotalClear ==
  ASSUME NEW f \in Counts, NEW n \in Nodes
  PROVE  /\ [f EXCEPT ![n] = 0] \in Counts
         /\ Total([f EXCEPT ![n] = 0]) = Total(f) - f[n]
         /\ Total(f) \in Nat
<1>1. f[n] \in Nat /\ -f[n] \in Int /\ f[n] + (-f[n]) >= 0
  BY DEF Counts
<1>2. Add(f, n, -f[n]) = [f EXCEPT ![n] = 0]
  <2>1. Add(f, n, -f[n]) = [m \in Nodes |-> IF m = n THEN f[n] + (-f[n]) ELSE f[m]]
    BY DEF Add, Counts
  <2>2. [f EXCEPT ![n] = 0] = [m \in Nodes |-> IF m = n THEN 0 ELSE f[m]]
    BY DEF Counts
  <2>3. f[n] + (-f[n]) = 0
    BY <1>1
  <2> QED
    BY <2>1, <2>2, <2>3
<1>3. /\ Add(f, n, -f[n]) \in Counts
      /\ Total(Add(f, n, -f[n])) = Total(f) + (-f[n])
      /\ Total(f) \in Nat
  BY <1>1, TotalAdd
<1>4. Total(f) + (-f[n]) = Total(f) - f[n]
  BY <1>1, <1>3
<1> QED
  BY <1>2, <1>3, <1>4

\* One run goes from one place to another.
LEMMA TotalMove ==
  ASSUME NEW f \in Counts, NEW g \in Counts, NEW n \in Nodes, f[n] > 0
  PROVE  /\ Total(Add(f, n, -1)) = Total(f) - 1
         /\ Total(Add(g, n, 1)) = Total(g) + 1
<1>1. f[n] \in Nat /\ g[n] \in Nat
  BY DEF Counts
<1>2. Total(Add(f, n, -1)) = Total(f) + (-1) /\ Total(f) \in Nat
  BY <1>1, TotalAdd
<1>3. Total(Add(g, n, 1)) = Total(g) + 1
  BY <1>1, TotalAdd
<1> QED
  BY <1>2, <1>3

LEMMA RunsInit == Init => RunsAreCounted
<1> SUFFICES ASSUME Init PROVE RunsAreCounted
    OBVIOUS
<1>1. {n \in Nodes : pc[n] = "started"} = {}
  BY DEF Init
<1>2. Total(RunsOf) \in Nat
  BY BoundsAssumption, UnitsFinite DEF Counts
<1>3. Cardinality({n \in Nodes : pc[n] = "started"}) = 0
  BY <1>1, FS_EmptySet
<1>4. /\ Total(todo) = Total(RunsOf) /\ Total(redo) = 0 /\ Total(running) = 0
      /\ Total(ended) = 0
  BY TotalZero DEF Init
<1>5. runningRuns = 0 /\ completedRuns = 0
  BY DEF Init
<1> QED
  BY <1>2, <1>3, <1>4, <1>5 DEF RunsAreCounted

\* What RunsAreCounted says, with names for its terms.
Balance(t, d, r, e, s) ==
  /\ runningRuns = r + e - s
  /\ completedRuns + t + d + r + e = Total(RunsOf)

LEMMA BalanceIs ==
  RunsAreCounted <=>
    (Undisturbed => Balance(Total(todo), Total(redo), Total(running), Total(ended),
                            Cardinality(StartedNodes)))
BY DEF RunsAreCounted, Balance, StartedNodes

LEMMA RunsStep ==
  ASSUME RepeatIsSet, GraceSuffices,
         TypeOK, WorkersInOrder, RunsAreCounted, [Next]_vars
  PROVE  RunsAreCounted'
<1> DEFINE Bal == Balance(Total(todo), Total(redo), Total(running), Total(ended),
                          Cardinality(StartedNodes))
<1> SUFFICES ASSUME Undisturbed, Undisturbed' PROVE Bal'
  BY DisturbedForGood, BalanceIs DEF RunsAreCounted, Balance, StartedNodes
<1>t. /\ Total(todo) \in Nat /\ Total(redo) \in Nat
      /\ Total(running) \in Nat /\ Total(ended) \in Nat
      /\ Total(RunsOf) \in Nat /\ Cardinality(StartedNodes) \in Nat
      /\ runningRuns \in Int /\ completedRuns \in Nat
  <2>1. IsFiniteSet(StartedNodes)
    BY NodesAssumption, FS_Subset DEF StartedNodes
  <2> QED
    BY <2>1, FS_CardinalityType, TypedCounts, UnitsFinite, BoundsAssumption DEF Counts, TypeOK
<1>b. Bal
  BY BalanceIs
<1>s. ASSUME NEW n \in Nodes, pc[n] # "started", NEW l, l # "started", Goto(n, l)
      PROVE  StartedNodes' = StartedNodes
  BY <1>s DEF Goto, StartedNodes, TypeOK
<1>u. ASSUME UNCHANGED <<runningRuns, completedRuns, todo, redo, running, ended>>,
             StartedNodes' = StartedNodes
      PROVE  Bal'
  BY <1>b, <1>u DEF Balance
<1>v. ASSUME UNCHANGED <<runningRuns, completedRuns, todo, redo, running, ended, pc>>
      PROVE  Bal'
  BY <1>u, <1>v DEF StartedNodes
<1>w. ASSUME NEW n \in Nodes, pc[n] # "started", NEW l, l # "started", Goto(n, l),
             UNCHANGED <<runningRuns, completedRuns, todo, redo, running, ended>>
      PROVE  Bal'
  BY <1>s, <1>u, <1>w
<1> HIDE DEF Bal
<1>1. ASSUME NEW n \in Nodes, StartRedo(n) PROVE Bal'
  <2>1. Total(redo)' = Total(redo) - 1 /\ Total(running)' = Total(running) + 1
    <3>1. redo' = Add(redo, n, -1) /\ running' = Add(running, n, 1) /\ redo[n] > 0
      BY <1>1 DEF StartRedo
    <3>2. /\ Total(Add(redo, n, -1)) = Total(redo) - 1
          /\ Total(Add(running, n, 1)) = Total(running) + 1
      BY <3>1, TotalMove, TypedCounts
    <3> QED
      BY <3>1, <3>2
  <2>2. StartedNodes' = StartedNodes \cup {n} /\ n \notin StartedNodes
    BY <1>1 DEF StartRedo, CanPop, Goto, StartedNodes, TypeOK
  <2>3. Cardinality(StartedNodes') = Cardinality(StartedNodes) + 1
    BY <2>2, CountNodes DEF StartedNodes
  <2>4. UNCHANGED <<runningRuns, completedRuns, todo, ended>>
    BY <1>1 DEF StartRedo, docVars
  <2>5. Total(todo)' = Total(todo) /\ Total(ended)' = Total(ended) /\ Total(RunsOf)' = Total(RunsOf)
    BY <2>4
  <2>6. runningRuns' = Total(running)' + Total(ended)' - Cardinality(StartedNodes')
    BY <1>t, <1>b, <2>1, <2>3, <2>4, <2>5 DEF Bal, Balance
  <2>7. completedRuns' + Total(todo)' + Total(redo)' + Total(running)' + Total(ended)'
          = Total(RunsOf)'
    BY <1>t, <1>b, <2>1, <2>4, <2>5 DEF Bal, Balance
  <2> QED
    BY <2>6, <2>7 DEF Bal, Balance
<1>2. ASSUME NEW n \in Nodes, StartTodo(n) PROVE Bal'
  <2>1. Total(todo)' = Total(todo) - 1 /\ Total(running)' = Total(running) + 1
    <3>1. todo' = Add(todo, n, -1) /\ running' = Add(running, n, 1) /\ todo[n] > 0
      BY <1>2 DEF StartTodo
    <3>2. /\ Total(Add(todo, n, -1)) = Total(todo) - 1
          /\ Total(Add(running, n, 1)) = Total(running) + 1
      BY <3>1, TotalMove, TypedCounts
    <3> QED
      BY <3>1, <3>2
  <2>2. StartedNodes' = StartedNodes \cup {n} /\ n \notin StartedNodes
    BY <1>2 DEF StartTodo, CanPop, Goto, StartedNodes, TypeOK
  <2>3. Cardinality(StartedNodes') = Cardinality(StartedNodes) + 1
    BY <2>2, CountNodes DEF StartedNodes
  <2>4. UNCHANGED <<runningRuns, completedRuns, redo, ended>>
    BY <1>2 DEF StartTodo, docVars
  <2>5. Total(redo)' = Total(redo) /\ Total(ended)' = Total(ended) /\ Total(RunsOf)' = Total(RunsOf)
    BY <2>4
  <2>6. runningRuns' = Total(running)' + Total(ended)' - Cardinality(StartedNodes')
    BY <1>t, <1>b, <2>1, <2>3, <2>4, <2>5 DEF Bal, Balance
  <2>7. completedRuns' + Total(todo)' + Total(redo)' + Total(running)' + Total(ended)'
          = Total(RunsOf)'
    BY <1>t, <1>b, <2>1, <2>4, <2>5 DEF Bal, Balance
  <2> QED
    BY <2>6, <2>7 DEF Bal, Balance
<1>3. ASSUME NEW n \in Nodes, ParentEnds(n) PROVE Bal'
  BY <1>w, <1>3 DEF ParentEnds, CanPop, childVars
<1>4. ASSUME NEW n \in Nodes, NoPop(n) PROVE Bal'
  BY <1>w, <1>4 DEF NoPop, docVars, childVars
<1>5. ASSUME NEW n \in Nodes, JobRunStart(n) PROVE Bal'
  <2>1. runningRuns' = runningRuns + 1
    BY <1>5, BoundsAssumption DEF JobRunStart, AppliedTimes, Undisturbed, TypeOK
  <2>2. StartedNodes' = StartedNodes \ {n} /\ n \in StartedNodes
    BY <1>5 DEF JobRunStart, Goto, StartedNodes, TypeOK
  <2>3. Cardinality(StartedNodes') = Cardinality(StartedNodes) - 1
    BY <2>2, CountNodes DEF StartedNodes
  <2>4. UNCHANGED <<completedRuns, todo, redo, running, ended>>
    BY <1>5 DEF JobRunStart, childVars
  <2> QED
    BY <1>t, <1>b, <2>1, <2>3, <2>4 DEF Bal, Balance
<1>6. ASSUME NEW n \in Nodes, JobNodeStart(n) PROVE Bal'
  <2>1. PICK l \in {"idleCheck", "nodeSet"} : Goto(n, l)
    BY <1>6 DEF JobNodeStart
  <2> QED
    BY <1>w, <1>6, <2>1 DEF JobNodeStart, childVars
<1>7. ASSUME NEW n \in Nodes, JobNodeSet(n) PROVE Bal'
  BY <1>w, <1>7 DEF JobNodeSet, docVars, childVars
<1>8. ASSUME NEW n \in Nodes, IdleCheck(n) PROVE Bal'
  <2>1. PICK l \in {"queue", "exitInc", "shutdown"} : Goto(n, l)
    BY <1>8 DEF IdleCheck
  <2> QED
    BY <1>w, <1>8, <2>1 DEF IdleCheck, docVars, childVars
<1>9. ASSUME NEW n \in Nodes, JobNodeExit(n) PROVE Bal'
  BY <1>w, <1>9 DEF JobNodeExit, docVars, childVars
<1>10. ASSUME NEW n \in Nodes, JobNodeExitSet(n) PROVE Bal'
  BY <1>w, <1>10 DEF JobNodeExitSet, docVars, childVars
<1>11. ASSUME NEW n \in Nodes, Shutdown(n) PROVE Bal'
  <2>1. ended' = ended
    BY <1>11 DEF Shutdown, TypeOK
  <2> QED
    BY <1>w, <1>11, <2>1 DEF Shutdown, docVars
<1>12. ASSUME NEW n \in Nodes, ProcessEnds(n) PROVE Bal'
  <2>1. Total(running)' = Total(running) - 1 /\ Total(ended)' = Total(ended) + 1
    <3>1. running' = Add(running, n, -1) /\ ended' = Add(ended, n, 1) /\ running[n] > 0
      BY <1>12 DEF ProcessEnds
    <3>2. /\ Total(Add(running, n, -1)) = Total(running) - 1
          /\ Total(Add(ended, n, 1)) = Total(ended) + 1
      BY <3>1, TotalMove, TypedCounts
    <3> QED
      BY <3>1, <3>2
  <2>2. UNCHANGED <<runningRuns, completedRuns, todo, redo, StartedNodes>>
    BY <1>12 DEF ProcessEnds, docVars, workerVars, StartedNodes
  <2>3. Total(todo)' = Total(todo) /\ Total(redo)' = Total(redo) /\ Total(RunsOf)' = Total(RunsOf)
    BY <2>2
  <2>4. runningRuns' = Total(running)' + Total(ended)' - Cardinality(StartedNodes')
    BY <1>t, <1>b, <2>1, <2>2 DEF Bal, Balance
  <2>5. completedRuns' + Total(todo)' + Total(redo)' + Total(running)' + Total(ended)'
          = Total(RunsOf)'
    BY <1>t, <1>b, <2>1, <2>2, <2>3 DEF Bal, Balance
  <2> QED
    BY <2>4, <2>5 DEF Bal, Balance
<1>13. ASSUME NEW n \in Nodes, JobRunExit(n) PROVE Bal'
  <2>1. runningRuns' = runningRuns - 1 /\ completedRuns' = completedRuns + 1
    BY <1>13, BoundsAssumption DEF JobRunExit, AppliedTimes, Undisturbed, TypeOK
  <2>2. Total(ended)' = Total(ended) - 1 /\ Total(exited)' = Total(exited) + 1
    <3>1. ended' = Add(ended, n, -1) /\ exited' = Add(exited, n, 1) /\ ended[n] > 0
      BY <1>13 DEF JobRunExit
    <3>2. /\ Total(Add(ended, n, -1)) = Total(ended) - 1
          /\ Total(Add(exited, n, 1)) = Total(exited) + 1
      BY <3>1, TotalMove, TypedCounts
    <3> QED
      BY <3>1, <3>2
  <2>3. UNCHANGED <<todo, redo, running, StartedNodes>>
    BY <1>13 DEF JobRunExit, workerVars, StartedNodes
  <2> QED
    BY <1>t, <1>b, <2>1, <2>2, <2>3 DEF Bal, Balance
<1>14. ASSUME NEW n \in Nodes, MarkCompleted(n) PROVE Bal'
  BY <1>v, <1>14 DEF MarkCompleted, docVars, workerVars
<1>15. ASSUME NEW n \in Nodes, Crash(n) PROVE Bal'
  BY <1>15 DEF Crash, Undisturbed, TypeOK
<1>16. ASSUME NEW n \in Nodes, Reboot(n) PROVE Bal'
  BY <1>16 DEF Reboot, WorkersInOrder, Undisturbed
<1>17. CASE UNCHANGED vars
  BY <1>v, <1>17 DEF vars, docVars, childVars, workerVars
<1> QED
  BY <1>1, <1>2, <1>3, <1>4, <1>5, <1>6, <1>7, <1>8, <1>9,
     <1>10, <1>11, <1>12, <1>13, <1>14, <1>15, <1>16, <1>17
     DEF Next, QueueWorker, Wrapup, Terminated

\* In a job with a repeat_count, whose wrapups get the time they need, the
\* counters and the status agree with what the nodes do, at every moment.
THEOREM CountersAlwaysAgree ==
  ASSUME RepeatIsSet, GraceSuffices
  PROVE  Spec => []CountersAgree
<1> DEFINE J == TypeOK /\ WorkersInOrder /\ RunsAreCounted
<1>1. Init => J
  BY TypeInit, WorkersInit, RunsInit
<1>2. J /\ [Next]_vars => J'
  BY TypeStep, WorkersStep, RunsStep
<1>3. Spec => []J
  BY <1>1, <1>2, PTL DEF Spec
<1>4. J /\ NodesAreCounted /\ RunningNodeMeansRunningJob /\ CompletedJobIsQuiet
        => CountersAgree
  BY DEF CountersAgree
<1> QED
  BY <1>3, <1>4, NodesAgree, PTL

-----------------------------------------------------------------------------
(***************************************************************************)
(* Runs marked completed                                                   *)
(***************************************************************************)

\* A run is counted when its job_run_exit has been called: one that is not
\* counted has not got there, which is more than that it is not marked.
ExitedRunsAreCounted ==
  completedRuns + Total(todo) + Total(redo) + Total(running) + Total(ended)
    >= Total(RunsOf)

LEMMA TotalTypes ==
  ASSUME TypeOK
  PROVE  /\ Total(todo) \in Nat /\ Total(redo) \in Nat /\ Total(running) \in Nat
         /\ Total(ended) \in Nat /\ Total(exited) \in Nat /\ Total(RunsOf) \in Nat
         /\ completedRuns \in Nat
BY TypedCounts, UnitsFinite, BoundsAssumption DEF Counts, TypeOK

LEMMA ExitedInit == Init => ExitedRunsAreCounted
<1>1. Total(RunsOf) \in Nat
  BY BoundsAssumption, UnitsFinite DEF Counts
<1> QED
  BY <1>1, TotalZero DEF Init, ExitedRunsAreCounted

LEMMA ExitedCrash ==
  ASSUME TypeOK, ExitedRunsAreCounted, NEW n \in Nodes, Crash(n)
  PROVE  ExitedRunsAreCounted'
<1> DEFINE back == running[n] + ended[n] + exited[n]
<1>1. back \in Nat /\ running[n] \in Nat /\ ended[n] \in Nat /\ exited[n] \in Nat
      /\ redo[n] \in Nat
  BY DEF TypeOK
<1>2. Total(redo)' = Total(redo) + back
  <2>1. redo' = Add(redo, n, back)
    BY DEF Crash
  <2> HIDE DEF back
  <2>2. Total(Add(redo, n, back)) = Total(redo) + back
    BY <1>1, TotalUp, TypedCounts
  <2> QED
    BY <2>1, <2>2
<1>3. Total(running)' = Total(running) - running[n] /\ Total(ended)' = Total(ended) - ended[n]
  <2>1. running' = [running EXCEPT ![n] = 0] /\ ended' = [ended EXCEPT ![n] = 0]
    BY DEF Crash
  <2>2. Total([running EXCEPT ![n] = 0]) = Total(running) - running[n]
    BY TotalClear, TypedCounts
  <2>3. Total([ended EXCEPT ![n] = 0]) = Total(ended) - ended[n]
    BY TotalClear, TypedCounts
  <2> QED
    BY <2>1, <2>2, <2>3
<1>4. completedRuns' = completedRuns /\ Total(todo)' = Total(todo)
  BY DEF Crash, docVars
<1> QED
  BY <1>1, <1>2, <1>3, <1>4, TotalTypes DEF ExitedRunsAreCounted

LEMMA ExitedStep ==
  ASSUME GraceSuffices, TypeOK, ExitedRunsAreCounted, [Next]_vars
  PROVE  ExitedRunsAreCounted'
<1>t. /\ Total(todo) \in Nat /\ Total(redo) \in Nat /\ Total(running) \in Nat
      /\ Total(ended) \in Nat /\ Total(RunsOf) \in Nat /\ completedRuns \in Nat
  BY TotalTypes
<1>u. ASSUME UNCHANGED <<todo, redo, running, ended>>, completedRuns' \in Nat,
             completedRuns' >= completedRuns
      PROVE  ExitedRunsAreCounted'
  <2>1. /\ Total(todo)' = Total(todo) /\ Total(redo)' = Total(redo)
        /\ Total(running)' = Total(running) /\ Total(ended)' = Total(ended)
    BY <1>u
  <2> QED
    BY <1>t, <1>u, <2>1 DEF ExitedRunsAreCounted
<1>v. ASSUME UNCHANGED <<todo, redo, running, ended, completedRuns>>
      PROVE  ExitedRunsAreCounted'
  BY <1>t, <1>u, <1>v
<1>1. ASSUME NEW n \in Nodes, StartRedo(n) PROVE ExitedRunsAreCounted'
  <2>1. Total(redo)' = Total(redo) - 1 /\ Total(running)' = Total(running) + 1
    <3>1. redo' = Add(redo, n, -1) /\ running' = Add(running, n, 1) /\ redo[n] > 0
      BY <1>1 DEF StartRedo
    <3>2. /\ Total(Add(redo, n, -1)) = Total(redo) - 1
          /\ Total(Add(running, n, 1)) = Total(running) + 1
      BY <3>1, TotalMove, TypedCounts
    <3> QED
      BY <3>1, <3>2
  <2>2. UNCHANGED <<completedRuns, todo, ended>>
    BY <1>1 DEF StartRedo, docVars
  <2>3. Total(todo)' = Total(todo) /\ Total(ended)' = Total(ended)
    BY <2>2
  <2> QED
    BY <1>t, <2>1, <2>2, <2>3 DEF ExitedRunsAreCounted
<1>2. ASSUME NEW n \in Nodes, StartTodo(n) PROVE ExitedRunsAreCounted'
  <2>1. Total(todo)' = Total(todo) - 1 /\ Total(running)' = Total(running) + 1
    <3>1. todo' = Add(todo, n, -1) /\ running' = Add(running, n, 1) /\ todo[n] > 0
      BY <1>2 DEF StartTodo
    <3>2. /\ Total(Add(todo, n, -1)) = Total(todo) - 1
          /\ Total(Add(running, n, 1)) = Total(running) + 1
      BY <3>1, TotalMove, TypedCounts
    <3> QED
      BY <3>1, <3>2
  <2>2. UNCHANGED <<completedRuns, redo, ended>>
    BY <1>2 DEF StartTodo, docVars
  <2>3. Total(redo)' = Total(redo) /\ Total(ended)' = Total(ended)
    BY <2>2
  <2> QED
    BY <1>t, <2>1, <2>2, <2>3 DEF ExitedRunsAreCounted
<1>3. ASSUME NEW n \in Nodes, ParentEnds(n) PROVE ExitedRunsAreCounted'
  <2>1. completedRuns' \in Nat /\ completedRuns' >= completedRuns
    BY <1>t, <1>3, BoundsAssumption DEF ParentEnds, AppliedTimes
  <2> QED
    BY <1>u, <1>3, <2>1 DEF ParentEnds, childVars
<1>4. ASSUME NEW n \in Nodes, NoPop(n) PROVE ExitedRunsAreCounted'
  BY <1>v, <1>4 DEF NoPop, docVars, childVars, workerVars
<1>5. ASSUME NEW n \in Nodes, JobRunStart(n) PROVE ExitedRunsAreCounted'
  BY <1>v, <1>5 DEF JobRunStart, docVars, childVars, workerVars
<1>6. ASSUME NEW n \in Nodes, JobNodeStart(n) PROVE ExitedRunsAreCounted'
  BY <1>v, <1>6 DEF JobNodeStart, docVars, childVars, workerVars
<1>7. ASSUME NEW n \in Nodes, JobNodeSet(n) PROVE ExitedRunsAreCounted'
  BY <1>v, <1>7 DEF JobNodeSet, docVars, childVars, workerVars
<1>8. ASSUME NEW n \in Nodes, IdleCheck(n) PROVE ExitedRunsAreCounted'
  BY <1>v, <1>8 DEF IdleCheck, docVars, childVars, workerVars
<1>9. ASSUME NEW n \in Nodes, JobNodeExit(n) PROVE ExitedRunsAreCounted'
  BY <1>v, <1>9 DEF JobNodeExit, docVars, childVars, workerVars
<1>10. ASSUME NEW n \in Nodes, JobNodeExitSet(n) PROVE ExitedRunsAreCounted'
  BY <1>v, <1>10 DEF JobNodeExitSet, docVars, childVars, workerVars
<1>11. ASSUME NEW n \in Nodes, Shutdown(n) PROVE ExitedRunsAreCounted'
  <2>1. ended' = ended
    BY <1>11 DEF Shutdown, TypeOK
  <2> QED
    BY <1>v, <1>11, <2>1 DEF Shutdown, docVars
<1>12. ASSUME NEW n \in Nodes, ProcessEnds(n) PROVE ExitedRunsAreCounted'
  <2>1. Total(running)' = Total(running) - 1 /\ Total(ended)' = Total(ended) + 1
    <3>1. running' = Add(running, n, -1) /\ ended' = Add(ended, n, 1) /\ running[n] > 0
      BY <1>12 DEF ProcessEnds
    <3>2. /\ Total(Add(running, n, -1)) = Total(running) - 1
          /\ Total(Add(ended, n, 1)) = Total(ended) + 1
      BY <3>1, TotalMove, TypedCounts
    <3> QED
      BY <3>1, <3>2
  <2>2. UNCHANGED <<completedRuns, todo, redo>>
    BY <1>12 DEF ProcessEnds, docVars
  <2>3. Total(todo)' = Total(todo) /\ Total(redo)' = Total(redo)
    BY <2>2
  <2> QED
    BY <1>t, <2>1, <2>2, <2>3 DEF ExitedRunsAreCounted
<1>13. ASSUME NEW n \in Nodes, JobRunExit(n) PROVE ExitedRunsAreCounted'
  <2>1. Total(ended)' = Total(ended) - 1 /\ Total(exited)' = Total(exited) + 1
    <3>1. ended' = Add(ended, n, -1) /\ exited' = Add(exited, n, 1) /\ ended[n] > 0
      BY <1>13 DEF JobRunExit
    <3>2. /\ Total(Add(ended, n, -1)) = Total(ended) - 1
          /\ Total(Add(exited, n, 1)) = Total(exited) + 1
      BY <3>1, TotalMove, TypedCounts
    <3> QED
      BY <3>1, <3>2
  <2>2. PICK k \in 1 .. 1 + MaxLostReplies : completedRuns' = completedRuns + k
    BY <1>13 DEF JobRunExit
  <2>3. UNCHANGED <<todo, redo, running>>
    BY <1>13 DEF JobRunExit
  <2>4. /\ Total(todo)' = Total(todo) /\ Total(redo)' = Total(redo)
        /\ Total(running)' = Total(running)
    BY <2>3
  <2> QED
    BY <1>t, <2>1, <2>2, <2>4, BoundsAssumption DEF ExitedRunsAreCounted
<1>14. ASSUME NEW n \in Nodes, MarkCompleted(n) PROVE ExitedRunsAreCounted'
  BY <1>v, <1>14 DEF MarkCompleted, docVars, childVars, workerVars
<1>15. ASSUME NEW n \in Nodes, Crash(n) PROVE ExitedRunsAreCounted'
  BY <1>15, ExitedCrash
<1>16. ASSUME NEW n \in Nodes, Reboot(n) PROVE ExitedRunsAreCounted'
  BY <1>v, <1>16 DEF Reboot, docVars, childVars, workerVars
<1>17. CASE UNCHANGED vars
  BY <1>v, <1>17 DEF vars, docVars, childVars
<1> QED
  BY <1>1, <1>2, <1>3, <1>4, <1>5, <1>6, <1>7, <1>8, <1>9,
     <1>10, <1>11, <1>12, <1>13, <1>14, <1>15, <1>16, <1>17
     DEF Next, QueueWorker, Wrapup, Terminated

\* completed_runs never misses a run that is marked completed, whatever is
\* preempted or applied twice, in any job whose wrapups get the time they need.
THEOREM MarkedAreCounted ==
  ASSUME GraceSuffices
  PROVE  Spec => []MarkedRunsAreCounted
<1> DEFINE J == TypeOK /\ ExitedRunsAreCounted
<1>1. Init => J
  BY TypeInit, ExitedInit
<1>2. J /\ [Next]_vars => J'
  BY TypeStep, ExitedStep
<1>3. J => MarkedRunsAreCounted
  BY TotalTypes DEF ExitedRunsAreCounted, MarkedRunsAreCounted
<1> QED
  BY <1>1, <1>2, <1>3, PTL DEF Spec

-----------------------------------------------------------------------------
(***************************************************************************)
(* The counters of a workspace's runs (RunHistory)                         *)
(*                                                                         *)
(* The database keeps two sets of counters: those in a job's document,     *)
(* above, and the ids of a workspace's runs and of their ends, here, for   *)
(* any number of runs, children and searches, any numbers taken before and *)
(* any number of restarts and failures.                                    *)
(***************************************************************************)

LEMMA HistoryInitHolds == HistoryInit => IInv
<1> SUFFICES ASSUME HistoryInit PROVE IInv
    OBVIOUS
<1>1. HistoryTypeOK
  BY ChildRuns, LegacyIds, HistoryBounds DEF HistoryInit, HistoryTypeOK, Steps
<1>2. NumbersBelowNext /\ NumbersAreUnique
  BY DEF HistoryInit, NumbersBelowNext, NumbersAreUnique
<1>3. EndIdsBelowNext /\ EndIdsAreUnique
  BY DEF HistoryInit, EndIdsBelowNext, EndIdsAreUnique, NotEnded
<1>4. PassedAreLate /\ MissedWereLate
  BY DEF HistoryInit, PassedAreLate, MissedWereLate
<1> QED
  BY <1>1, <1>2, <1>3, <1>4 DEF IInv

-----------------------------------------------------------------------------
(***************************************************************************)
(* Type correctness of the runs, their counters and the searches            *)
(***************************************************************************)

LEMMA SearchType ==
  ASSUME HistoryTypeOK, NEW s \in Searchers, Search(s)
  PROVE  HistoryTypeOK'
<1> USE DEF HistoryTypeOK
<1>1. {[run |-> r, id |-> end[r]] : r \in NewRuns(s)} \in SUBSET [run : Runs, id : Nat]
  BY DEF NewRuns
<1>2. history' \in [Searchers -> SUBSET [run : Runs, id : Nat]]
  BY <1>1 DEF Search
<1>3. CASE UNCHANGED <<seen, late>>
  BY <1>2, <1>3 DEF Search, create
<1>4. CASE \E last \in NewRuns(s) :
             /\ seen' = [seen EXCEPT ![s] = end[last]]
             /\ late' = [late EXCEPT ![s] = @ \cup InFlight(end[last])]
  <2>1. PICK last \in NewRuns(s) :
          /\ seen' = [seen EXCEPT ![s] = end[last]]
          /\ late' = [late EXCEPT ![s] = @ \cup InFlight(end[last])]
    BY <1>4
  <2>2. InFlight(end[last]) \in SUBSET Nat
    BY DEF InFlight
  <2>3. seen' \in [Searchers -> Nat]
    BY <2>1 DEF NewRuns
  <2>4. late' \in [Searchers -> SUBSET Nat]
    BY <2>1, <2>2
  <2> QED
    BY <1>2, <2>3, <2>4 DEF Search, create
<1> QED
  BY <1>3, <1>4 DEF Search

LEMMA HistoryTypeStep == HistoryTypeOK /\ [HistoryNext]_historyVars => HistoryTypeOK'
<1> SUFFICES ASSUME HistoryTypeOK, [HistoryNext]_historyVars PROVE HistoryTypeOK'
    OBVIOUS
<1> USE DEF HistoryTypeOK, Enter, At, Steps, create, search
<1>1. ASSUME NEW r \in Runs, FindCounters(r) PROVE HistoryTypeOK'
  BY <1>1 DEF FindCounters
<1>2. ASSUME NEW r \in Runs, InsertCounters(r) PROVE HistoryTypeOK'
  <2>1. counters' \in [exists : BOOLEAN, next_run : Nat, next_end : Nat]
    <3>1. [exists |-> TRUE, next_run |-> LegacyNext, next_end |-> 1]
            \in [exists : BOOLEAN, next_run : Nat, next_end : Nat]
      BY LegacyIds
    <3> QED
      BY <1>2, <3>1, Zenon DEF InsertCounters
  <2>2. stage' \in [Runs -> Steps]
    BY <1>2 DEF InsertCounters
  <2> QED
    BY <1>2, <2>1, <2>2 DEF InsertCounters
<1>3. ASSUME NEW r \in Runs, NextRun(r) PROVE HistoryTypeOK'
  BY <1>3 DEF NextRun
<1>4. ASSUME NEW r \in Runs, RunExists(r) PROVE HistoryTypeOK'
  BY <1>4 DEF RunExists
<1>5. ASSUME NEW r \in Runs, ChildName(r) PROVE HistoryTypeOK'
  BY <1>5 DEF ChildName
<1>6. ASSUME NEW r \in Runs, CreateDocument(r) PROVE HistoryTypeOK'
  <2>1. inJob' \in [Runs -> BOOLEAN]
    <3>1. [inJob EXCEPT ![r] = TRUE] \in [Runs -> BOOLEAN]
      OBVIOUS
    <3> QED
      BY <1>6, <3>1, Zenon DEF CreateDocument
  <2>2. failures' \in Nat
    BY <1>6 DEF CreateDocument
  <2>3. UNCHANGED <<counters, num, tries, logs, taken, end, search, restarts>>
    BY <1>6, Zenon DEF CreateDocument
  <2>4. stage' \in [Runs -> Steps]
    BY <1>6 DEF CreateDocument
  <2> QED
    BY <2>1, <2>2, <2>3, <2>4
<1>7. ASSUME NEW r \in Runs, LogCreated(r) PROVE HistoryTypeOK'
  BY <1>7 DEF LogCreated
<1>8. ASSUME NEW r \in Runs, TakeEndId(r) PROVE HistoryTypeOK'
  BY <1>8 DEF TakeEndId
<1>9. ASSUME NEW r \in Runs, WriteEnd(r) PROVE HistoryTypeOK'
  BY <1>9 DEF WriteEnd
<1>10. ASSUME NEW r \in Runs, Restart(r) PROVE HistoryTypeOK'
  BY <1>10 DEF Restart
<1>11. ASSUME NEW s \in Searchers, Search(s) PROVE HistoryTypeOK'
  BY <1>11, SearchType
<1>12. CASE UNCHANGED historyVars
  BY <1>12 DEF historyVars
<1> QED
  BY <1>1, <1>2, <1>3, <1>4, <1>5, <1>6, <1>7, <1>8, <1>9, <1>10, <1>11, <1>12
     DEF HistoryNext, Run

\* Every variable keeps its type (the counters and the documents of the runs,
\* the histories of the searches).
THEOREM HistoryTypeCorrect == HistorySpec => []HistoryTypeOK
<1>1. HistoryInit => HistoryTypeOK
  BY HistoryInitHolds DEF IInv
<1> QED
  BY <1>1, HistoryTypeStep, PTL DEF HistorySpec

-----------------------------------------------------------------------------
(***************************************************************************)
(* Run numbers                                                             *)
(***************************************************************************)

LEMMA NumbersStep ==
  ASSUME HistoryTypeOK, NumbersBelowNext, NumbersAreUnique, [HistoryNext]_historyVars
  PROVE  NumbersBelowNext' /\ NumbersAreUnique'
<1> USE DEF HistoryTypeOK, NumbersBelowNext, NumbersAreUnique, Enter, At, create, search
<1> DEFINE Kept == NumbersBelowNext' /\ NumbersAreUnique'
<1>1. ASSUME NEW r \in Runs, FindCounters(r) PROVE Kept
  BY <1>1 DEF FindCounters
<1>2. ASSUME NEW r \in Runs, InsertCounters(r) PROVE Kept
  \* the counters still have their first values when they are inserted
  BY <1>2 DEF InsertCounters
<1>3. ASSUME NEW r \in Runs, NextRun(r) PROVE Kept
  <2>1. /\ counters.exists /\ counters'.exists
        /\ counters'.next_run = counters.next_run + 1
        /\ num' = [num EXCEPT ![r] = counters.next_run]
    BY <1>3 DEF NextRun
  <2>2. NumbersBelowNext'
    BY <2>1
  <2>3. NumbersAreUnique'
    <3>1. \A q \in Runs : q # r => \/ num'[q] = num[q] /\ num[q] # counters.next_run
                                  \/ num'[q] = 0
      BY <2>1
    <3> QED
      BY <2>1, <3>1
  <2> QED BY <2>2, <2>3
<1>4. ASSUME NEW r \in Runs, RunExists(r) PROVE Kept
  BY <1>4 DEF RunExists
<1>5. ASSUME NEW r \in Runs, ChildName(r) PROVE Kept
  BY <1>5 DEF ChildName
<1>6. ASSUME NEW r \in Runs, CreateDocument(r) PROVE Kept
  BY <1>6 DEF CreateDocument
<1>7. ASSUME NEW r \in Runs, LogCreated(r) PROVE Kept
  BY <1>7 DEF LogCreated
<1>8. ASSUME NEW r \in Runs, TakeEndId(r) PROVE Kept
  BY <1>8 DEF TakeEndId
<1>9. ASSUME NEW r \in Runs, WriteEnd(r) PROVE Kept
  BY <1>9 DEF WriteEnd
<1>10. ASSUME NEW r \in Runs, Restart(r) PROVE Kept
  BY <1>10 DEF Restart
<1>11. ASSUME NEW s \in Searchers, Search(s) PROVE Kept
  BY <1>11 DEF Search
<1>12. CASE UNCHANGED historyVars
  BY <1>12 DEF historyVars
<1> QED
  BY <1>1, <1>2, <1>3, <1>4, <1>5, <1>6, <1>7, <1>8, <1>9, <1>10, <1>11, <1>12
     DEF HistoryNext, Run

\* No two commands get the same run number from get_next_sequential_ws_id,
\* whoever of them creates the counters document.
THEOREM UniqueNumbers == HistorySpec => []NumbersAreUnique
<1> DEFINE I == HistoryTypeOK /\ NumbersBelowNext /\ NumbersAreUnique
<1>1. HistoryInit => I
  BY HistoryInitHolds DEF IInv
<1>2. I /\ [HistoryNext]_historyVars => I'
  BY HistoryTypeStep, NumbersStep
<1>3. I => NumbersAreUnique
  OBVIOUS
<1> HIDE DEF I
<1> QED
  BY <1>1, <1>2, <1>3, PTL DEF HistorySpec

-----------------------------------------------------------------------------
(***************************************************************************)
(* End ids and the histories of the searches                               *)
(***************************************************************************)

EndInv == EndIdsBelowNext /\ EndIdsAreUnique /\ PassedAreLate /\ MissedWereLate

\* The step that allocates an end id: it is higher than all others.
LEMMA TakeEndIdStep ==
  ASSUME IInv, NEW r \in Runs, TakeEndId(r)
  PROVE  EndInv'
<1> USE DEF IInv, HistoryTypeOK, At, Enter, create, search
<1>1. /\ counters.next_end \in Nat
      /\ counters'.next_end = counters.next_end + 1
      /\ stage' = [stage EXCEPT ![r] = "ending"]
      /\ taken' = [taken EXCEPT ![r] = counters.next_end]
      /\ stage[r] = "running"
      /\ UNCHANGED <<inJob, end, history, seen, late>>
  BY DEF TakeEndId
<1>2. EndIdsBelowNext'
  BY <1>1 DEF EndIdsBelowNext, NotEnded, Steps
<1>3. EndIdsAreUnique'
  BY <1>1 DEF EndIdsBelowNext, EndIdsAreUnique
<1>4. PassedAreLate'
  BY <1>1 DEF EndIdsBelowNext, PassedAreLate
<1>5. MissedWereLate'
  BY <1>1 DEF MissedWereLate
<1> QED
  BY <1>2, <1>3, <1>4, <1>5 DEF EndInv

\* The step that writes it: a search that has passed it has it in late.
LEMMA WriteEndStep ==
  ASSUME IInv, NEW r \in Runs, WriteEnd(r)
  PROVE  EndInv' /\ end'[r] > end[r]
<1> USE DEF IInv, HistoryTypeOK, At, Enter, create, search
<1>1. /\ stage[r] = "ending" /\ stage' = [stage EXCEPT ![r] = "ended"]
      /\ end' = [end EXCEPT ![r] = taken[r]]
      /\ taken' = [taken EXCEPT ![r] = 0]
      /\ UNCHANGED <<counters, inJob, history, seen, late>>
  BY DEF WriteEnd
<1>2. taken[r] # 0 /\ end[r] < taken[r]
  BY <1>1 DEF EndIdsBelowNext
<1>3. EndIdsBelowNext'
  BY <1>1 DEF EndIdsBelowNext, NotEnded, Steps
<1>4. EndIdsAreUnique'
  BY <1>1, <1>2 DEF EndIdsAreUnique
<1>5. PassedAreLate'
  BY <1>1 DEF PassedAreLate
<1>6. MissedWereLate'
  BY <1>1, <1>2 DEF PassedAreLate, MissedWereLate
<1> QED
  BY <1>1, <1>2, <1>3, <1>4, <1>5, <1>6 DEF EndInv

\* The step of a search: what it passes is in its history, or not yet in a
\* document and then in late.
LEMMA SearchStep ==
  ASSUME IInv, NEW s \in Searchers, Search(s)
  PROVE  EndInv'
<1> USE DEF IInv, HistoryTypeOK, create
<1>1. /\ UNCHANGED <<counters, stage, taken, end, inJob>>
      /\ history' = [history EXCEPT ![s] = @ \cup
                       {[run |-> r, id |-> end[r]] : r \in NewRuns(s)}]
  BY DEF Search
<1>2. EndIdsAreUnique'
  BY <1>1 DEF EndIdsAreUnique
<1>3. CASE NewRuns(s) = {} /\ UNCHANGED <<seen, late>>
  <2>1. UNCHANGED history
    BY <1>1, <1>3
  <2> QED
    BY <1>1, <1>2, <1>3, <2>1 DEF EndInv, EndIdsBelowNext, PassedAreLate, MissedWereLate
<1>4. CASE \E last \in NewRuns(s) :
             /\ \A r \in NewRuns(s) : end[r] <= end[last]
             /\ seen' = [seen EXCEPT ![s] = end[last]]
             /\ late' = [late EXCEPT ![s] = @ \cup InFlight(end[last])]
  <2>1. PICK last \in NewRuns(s) :
             /\ \A r \in NewRuns(s) : end[r] <= end[last]
             /\ seen' = [seen EXCEPT ![s] = end[last]]
             /\ late' = [late EXCEPT ![s] = @ \cup InFlight(end[last])]
    BY <1>4
  <2>2. last \in Runs /\ end[last] > seen[s]
    BY DEF NewRuns
  <2>3. EndIdsBelowNext'
    <3>1. seen'[s] < counters.next_end
      BY <2>1, <2>2 DEF EndIdsBelowNext
    <3>2. \A x \in Searchers : x # s => seen'[x] = seen[x]
      BY <2>1
    <3> QED
      BY <1>1, <3>1, <3>2 DEF EndIdsBelowNext
  <2>4. \A r \in Runs : taken[r] # 0 /\ taken[r] <= end[last]
                          => taken[r] \in InFlight(end[last])
    \* the last run's own next end id is higher, all others differ from it
    BY <2>2 DEF InFlight, EndIdsAreUnique, EndIdsBelowNext
  <2>5. PassedAreLate'
    BY <1>1, <2>1, <2>4 DEF PassedAreLate
  <2>6. \A r \in Runs : inJob[r] /\ end[r] > seen[s]
                          => [run |-> r, id |-> end[r]] \in history'[s]
    BY <1>1 DEF NewRuns
  <2>7. MissedWereLate'
    <3>1. \A x \in Searchers : x # s => seen'[x] = seen[x] /\ history'[x] = history[x]
                                         /\ late'[x] = late[x]
      BY <1>1, <2>1
    <3>2. history[s] \subseteq history'[s] /\ late[s] \subseteq late'[s]
      BY <1>1, <2>1
    <3> SUFFICES ASSUME NEW x \in Searchers, NEW r \in Runs,
                        inJob[r], end[r] # 0, end[r] <= seen'[x]
                 PROVE  [run |-> r, id |-> end[r]] \in history'[x] \/ end[r] \in late'[x]
      BY <1>1 DEF MissedWereLate
    <3>3. CASE end[r] <= seen[x]
      <4>1. [run |-> r, id |-> end[r]] \in history[x] \/ end[r] \in late[x]
        BY <3>3 DEF MissedWereLate
      <4> QED
        BY <3>1, <3>2, <4>1
    <3>4. CASE ~(end[r] <= seen[x])
      <4>1. x = s /\ end[r] > seen[s]
        BY <3>1, <3>4
      <4> QED
        BY <2>6, <4>1
    <3> QED
      BY <3>3, <3>4
  <2> QED
    BY <1>2, <2>3, <2>5, <2>7 DEF EndInv
<1> QED
  BY <1>3, <1>4 DEF Search

\* The steps that neither end a run nor search.
LEMMA OtherStep ==
  ASSUME IInv, NEW r \in Runs,
         UNCHANGED <<end, search>>,
         counters'.next_end = counters.next_end,
         \/ UNCHANGED taken
         \/ taken' = [taken EXCEPT ![r] = 0],
         NEW to \in Steps, stage' = [stage EXCEPT ![r] = to],
         to # "ending", taken'[r] = 0, to \in NotEnded => end[r] = 0,
         \A q \in Runs : inJob'[q] => inJob[q] \/ end[q] = 0
  PROVE  EndInv'
<1> USE DEF IInv, HistoryTypeOK, search
<1>1. \A q \in Runs : q # r => taken'[q] = taken[q] /\ stage'[q] = stage[q]
  OBVIOUS
<1>2. \A q \in Runs : taken'[q] = taken[q] \/ taken'[q] = 0
  OBVIOUS
<1>3. EndIdsBelowNext'
  BY <1>1, <1>2 DEF EndIdsBelowNext
<1>4. EndIdsAreUnique'
  BY <1>2 DEF EndIdsAreUnique
<1>5. PassedAreLate'
  BY <1>2 DEF PassedAreLate
<1>6. MissedWereLate'
  BY DEF MissedWereLate
<1> QED
  BY <1>3, <1>4, <1>5, <1>6 DEF EndInv

LEMMA EndStep ==
  ASSUME IInv, [HistoryNext]_historyVars
  PROVE  EndInv'
<1> USE DEF IInv, HistoryTypeOK, Enter, At, create, search
<1>1. ASSUME NEW r \in Runs, FindCounters(r) PROVE EndInv'
  BY <1>1, OtherStep DEF FindCounters, EndIdsBelowNext, NotEnded, Steps
<1>2. ASSUME NEW r \in Runs, InsertCounters(r) PROVE EndInv'
  \* the first end id is still the next one when the counters are inserted
  <2>1. PICK to \in {"failed", "next"} : stage' = [stage EXCEPT ![r] = to]
    BY <1>2 DEF InsertCounters
  <2>2. counters'.next_end = counters.next_end
    BY <1>2 DEF InsertCounters, NumbersBelowNext
  <2>3. UNCHANGED <<taken, end, search, inJob>> /\ stage[r] = "insert"
    BY <1>2 DEF InsertCounters
  <2> QED
    BY <2>1, <2>2, <2>3, OtherStep DEF EndIdsBelowNext, NotEnded, Steps
<1>3. ASSUME NEW r \in Runs, NextRun(r) PROVE EndInv'
  BY <1>3, OtherStep DEF NextRun, EndIdsBelowNext, NotEnded, Steps
<1>4. ASSUME NEW r \in Runs, RunExists(r) PROVE EndInv'
  <2>1. PICK to \in {"failed", "find", "create"} : stage' = [stage EXCEPT ![r] = to]
    BY <1>4 DEF RunExists
  <2>2. UNCHANGED <<counters, taken, end, search, inJob>> /\ stage[r] = "exists"
    BY <1>4 DEF RunExists
  <2> QED
    BY <2>1, <2>2, OtherStep DEF EndIdsBelowNext, NotEnded, Steps
<1>5. ASSUME NEW r \in Runs, ChildName(r) PROVE EndInv'
  BY <1>5, OtherStep DEF ChildName, EndIdsBelowNext, NotEnded, Steps
<1>6. ASSUME NEW r \in Runs, CreateDocument(r) PROVE EndInv'
  <2>1. /\ stage[r] = "create" /\ stage' = [stage EXCEPT ![r] = "log"]
        /\ UNCHANGED <<counters, taken, end, search>>
    BY <1>6 DEF CreateDocument
  <2>2. end[r] = 0 /\ taken[r] = 0
    BY <2>1 DEF EndIdsBelowNext, NotEnded, Steps
  <2>3. \A q \in Runs : q # r => inJob'[q] = inJob[q]
    BY <1>6, Zenon DEF CreateDocument
  <2> QED
    BY <2>1, <2>2, <2>3, OtherStep DEF Steps
<1>7. ASSUME NEW r \in Runs, LogCreated(r) PROVE EndInv'
  BY <1>7, OtherStep DEF LogCreated, EndIdsBelowNext, NotEnded, Steps
<1>8. ASSUME NEW r \in Runs, TakeEndId(r) PROVE EndInv'
  BY <1>8, TakeEndIdStep
<1>9. ASSUME NEW r \in Runs, WriteEnd(r) PROVE EndInv'
  BY <1>9, WriteEndStep
<1>10. ASSUME NEW r \in Runs, Restart(r) PROVE EndInv'
  BY <1>10, OtherStep DEF Restart, NotEnded, Steps
<1>11. ASSUME NEW s \in Searchers, Search(s) PROVE EndInv'
  BY <1>11, SearchStep
<1>12. CASE UNCHANGED historyVars
  BY <1>12 DEF historyVars, EndInv, EndIdsBelowNext, EndIdsAreUnique, PassedAreLate, MissedWereLate
<1> QED
  BY <1>1, <1>2, <1>3, <1>4, <1>5, <1>6, <1>7, <1>8, <1>9, <1>10, <1>11, <1>12
     DEF HistoryNext, Run

LEMMA HistoryStep == IInv /\ [HistoryNext]_historyVars => IInv'
BY HistoryTypeStep, NumbersStep, EndStep DEF IInv, EndInv

\* The inductive invariant holds in every state.
THEOREM HistoryInvariant == HistorySpec => []IInv
BY HistoryInitHolds, HistoryStep, PTL DEF HistorySpec

\* No two runs, nor two wrapups under way, have the same end id
\* (update_mongo_run_at_end takes them from the counter in one call).
THEOREM UniqueEndIds == HistorySpec => []EndIdsAreUnique
<1>1. IInv => EndIdsAreUnique
  BY DEF IInv
<1> QED
  BY <1>1, HistoryInvariant, PTL

\* A search misses an ended run only if the run was between the two calls of
\* update_mongo_run_at_end when get_completed_runs read past its end id.
THEOREM MissedOnlyLate == HistorySpec => []MissedWereLate
<1>1. IInv => MissedWereLate
  BY DEF IInv
<1> QED
  BY <1>1, HistoryInvariant, PTL

\* A run that ends again, after a preemption, gets a higher end id.
THEOREM EndIdsGrowAlways == HistorySpec => EndIdsGrow
<1> DEFINE Grows == \A r \in Runs :
                      stage[r] = "ending" /\ stage'[r] = "ended" => end'[r] > end[r]
<1>1. ASSUME IInv, [HistoryNext]_historyVars PROVE [Grows]_historyVars
  <2> USE DEF IInv, HistoryTypeOK, Enter
  <2> SUFFICES ASSUME NEW r \in Runs, stage[r] = "ending", stage'[r] = "ended", HistoryNext
               PROVE  end'[r] > end[r]
    BY <1>1 DEF historyVars
  <2>0. ASSUME NEW q \in Runs, NEW to, Enter(q, to), to # "ended" PROVE FALSE
    BY <2>0
  <2>1. \A q \in Runs : ~(FindCounters(q) \/ InsertCounters(q))
    BY <2>0, Zenon DEF FindCounters, InsertCounters
  <2>2. \A q \in Runs : ~(NextRun(q) \/ RunExists(q) \/ ChildName(q))
    BY <2>0, Zenon DEF NextRun, RunExists, ChildName
  <2>3. \A q \in Runs : ~(CreateDocument(q) \/ LogCreated(q) \/ TakeEndId(q) \/ Restart(q))
    BY <2>0, Zenon DEF CreateDocument, LogCreated, TakeEndId, Restart
  <2>4. \A s \in Searchers : ~Search(s)
    BY DEF Search
  <2>5. PICK q \in Runs : WriteEnd(q)
    BY <2>1, <2>2, <2>3, <2>4 DEF HistoryNext, Run
  <2>6. q = r
    BY <2>5 DEF WriteEnd
  <2> QED
    BY <1>1, <2>5, <2>6, WriteEndStep
<1>2. IInv /\ [HistoryNext]_historyVars => [Grows]_historyVars
  BY <1>1
<1> QED
  BY <1>2, HistoryInvariant, PTL DEF HistorySpec, EndIdsGrow

=============================================================================
