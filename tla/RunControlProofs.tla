--------------------------- MODULE RunControlProofs ---------------------------
(***************************************************************************)
(* Proofs about RunControl, for any settings of a controller: any number   *)
(* of children, any --concurrent, any number of cancel requests, with or   *)
(* without status requests, exceptions and the timing the code counts on.  *)
(***************************************************************************)
EXTENDS RunControl, FiniteSetTheorems, SequenceTheorems, TLAPS

LEMMA FirstIsNoChild ==
  /\ First \in Runs /\ First \notin Children
  /\ Children \subseteq Runs /\ Children \subseteq Nat
  /\ \A s \in Settings : s.children \in Nat /\ s.concurrent \in Nat \ {0} /\ s.cancels \in Nat
BY SettingsAssumption DEF First, Children, Runs

-----------------------------------------------------------------------------
(***************************************************************************)
(* The queue                                                               *)
(***************************************************************************)

\* Only the first run of the node is ever queued, and it is not in the queue
\* while the worker handles it.
QueueOfFirst ==
  /\ queue \in {<<>>, <<First>>}
  /\ queue # <<>> => wpc \in {"check", "idle", "stopped"}

LEMMA RemovedFromQueue ==
  ASSUME NEW r, queue \in {<<>>, <<First>>}, RemoveFromQueue(r)
  PROVE  queue' = (IF r = First THEN <<>> ELSE queue)
<1>1. CASE queue = <<>>
  BY <1>1 DEF RemoveFromQueue
<1>2. CASE queue = <<First>>
  <2>1. DOMAIN queue = {1} /\ queue[1] = First /\ Len(queue) = 1
    BY <1>2
  <2>2. RemoveAt(queue, 1) = <<>>
    BY <1>2, <2>1 DEF RemoveAt
  <2> QED BY <2>1, <2>2 DEF RemoveFromQueue
<1> QED BY <1>1, <1>2

LEMMA QueueOperations ==
  /\ Tail(<<First>>) = <<>> /\ Append(<<>>, First) = <<First>> /\ Head(<<First>>) = First
  /\ <<First>> # <<>>
OBVIOUS

LEMMA QueueInit == Init => QueueOfFirst
BY DEF Init, QueueOfFirst

LEMMA QueueStep ==
  ASSUME QueueOfFirst, [Next]_vars
  PROVE  QueueOfFirst'
<1> USE DEF QueueOfFirst, controllerVars, runVars, workerVars, cancelVars, statusVars, ToWorker
<1>1. ASSUME WorkerPop, UNCHANGED setting PROVE QueueOfFirst'
  BY <1>1, QueueOperations DEF WorkerPop
<1>2. ASSUME WorkerNoPop, UNCHANGED setting PROVE QueueOfFirst'
  BY <1>2 DEF WorkerNoPop
<1>3. ASSUME WorkerClaim, UNCHANGED setting PROVE QueueOfFirst'
  BY <1>3 DEF WorkerClaim
<1>4. ASSUME WorkerSpawn, UNCHANGED setting PROVE QueueOfFirst'
  BY <1>4 DEF WorkerSpawn
<1>5. ASSUME WorkerLaunch, UNCHANGED setting PROVE QueueOfFirst'
  BY <1>5 DEF WorkerLaunch
<1>6. ASSUME WorkerSetProcess, UNCHANGED setting PROVE QueueOfFirst'
  BY <1>6 DEF WorkerSetProcess
<1>7. ASSUME WorkerStartReader, UNCHANGED setting PROVE QueueOfFirst'
  BY <1>7 DEF WorkerStartReader
<1>8. ASSUME WorkerRequeue, UNCHANGED setting PROVE QueueOfFirst'
  BY <1>8, QueueOperations DEF WorkerRequeue
<1>9. ASSUME WorkerParentEnd, UNCHANGED setting PROVE QueueOfFirst'
  BY <1>9 DEF WorkerParentEnd
<1>10. ASSUME WorkerParentWrapup, UNCHANGED setting PROVE QueueOfFirst'
  BY <1>10 DEF WorkerParentWrapup
<1>11. ASSUME WorkerIdle, UNCHANGED setting PROVE QueueOfFirst'
  BY <1>11 DEF WorkerIdle
<1>12. ASSUME WorkerFails, UNCHANGED setting PROVE QueueOfFirst'
  BY <1>12 DEF WorkerFails, FailPoints
<1>13. ASSUME WorkerExits, UNCHANGED setting PROVE QueueOfFirst'
  BY <1>13 DEF WorkerExits
<1>14. ASSUME NEW r \in Runs, ProcessEnds(r) PROVE QueueOfFirst'
  BY <1>14 DEF ProcessEnds
<1>15. ASSUME NEW r \in Runs, ReaderStops(r), UNCHANGED setting PROVE QueueOfFirst'
  BY <1>15 DEF ReaderStops
<1>16. ASSUME NEW r \in Runs, ReaderTest(r), UNCHANGED setting PROVE QueueOfFirst'
  BY <1>16 DEF ReaderTest
<1>17. ASSUME NEW r \in Runs, ReaderWait(r), UNCHANGED setting PROVE QueueOfFirst'
  BY <1>17 DEF ReaderWait
<1>18. ASSUME NEW r \in Runs, ReaderSetStatus(r), UNCHANGED setting PROVE QueueOfFirst'
  BY <1>18 DEF ReaderSetStatus
<1>19. ASSUME NEW r \in Runs, ReaderWrapup(r), UNCHANGED setting PROVE QueueOfFirst'
  BY <1>19 DEF ReaderWrapup
<1>20. ASSUME NEW r \in Runs, ReaderMark(r), UNCHANGED setting PROVE QueueOfFirst'
  BY <1>20 DEF ReaderMark
<1>21. ASSUME NEW r \in Runs, ReaderFinish(r), UNCHANGED setting PROVE QueueOfFirst'
  BY <1>21 DEF ReaderFinish
<1>22. ASSUME NEW r \in Runs, ReaderDies(r), UNCHANGED setting PROVE QueueOfFirst'
  BY <1>22 DEF ReaderDies
<1>23. ASSUME NEW r \in Runs, ReaderExits(r), UNCHANGED setting PROVE QueueOfFirst'
  BY <1>23 DEF ReaderExits
<1>24. ASSUME CancelGrabQueue, UNCHANGED setting PROVE QueueOfFirst'
  BY <1>24 DEF CancelGrabQueue
<1>25. ASSUME CancelGrabRuns, UNCHANGED setting PROVE QueueOfFirst'
  BY <1>25 DEF CancelGrabRuns
<1>26. ASSUME CancelNext, UNCHANGED setting PROVE QueueOfFirst'
  BY <1>26, RemovedFromQueue DEF CancelNext
<1>27. ASSUME CancelKill, UNCHANGED setting PROVE QueueOfFirst'
  BY <1>27 DEF CancelKill
<1>28. ASSUME CancelWrapup, UNCHANGED setting PROVE QueueOfFirst'
  BY <1>28 DEF CancelWrapup
<1>29. ASSUME CancelMark, UNCHANGED setting PROVE QueueOfFirst'
  BY <1>29 DEF CancelMark
<1>30. ASSUME CancelPoll, UNCHANGED setting PROVE QueueOfFirst'
  BY <1>30 DEF CancelPoll
<1>31. ASSUME CancelUsesNone, UNCHANGED setting PROVE QueueOfFirst'
  BY <1>31 DEF CancelUsesNone
<1>32. ASSUME CancelSetStatus, UNCHANGED setting PROVE QueueOfFirst'
  BY <1>32 DEF CancelSetStatus
<1>33. ASSUME CancelKilling, UNCHANGED setting PROVE QueueOfFirst'
  BY <1>33 DEF CancelKilling
<1>34. ASSUME CancelSignal, UNCHANGED setting PROVE QueueOfFirst'
  BY <1>34 DEF CancelSignal
<1>35. ASSUME CancelDying, UNCHANGED setting PROVE QueueOfFirst'
  BY <1>35 DEF CancelDying
<1>36. ASSUME StatusReaps, UNCHANGED setting PROVE QueueOfFirst'
  BY <1>36 DEF StatusReaps
<1>37. ASSUME StatusLeaves, UNCHANGED setting PROVE QueueOfFirst'
  BY <1>37 DEF StatusLeaves
<1>38. ASSUME StatusSet, UNCHANGED setting PROVE QueueOfFirst'
  BY <1>38 DEF StatusSet
<1>39. ASSUME CancelRequest, UNCHANGED setting PROVE QueueOfFirst'
  BY <1>39 DEF CancelRequest
<1>40. ASSUME StatusRequest, UNCHANGED setting PROVE QueueOfFirst'
  BY <1>40 DEF StatusRequest
<1>41. CASE UNCHANGED vars
  BY <1>41 DEF vars
<1> QED BY <1>1, <1>2, <1>3, <1>4, <1>5, <1>6, <1>7, <1>8, <1>9, <1>10, <1>11, <1>12, <1>13,
           <1>14, <1>15, <1>16, <1>17, <1>18, <1>19, <1>20, <1>21, <1>22, <1>23, <1>24, <1>25,
           <1>26, <1>27, <1>28, <1>29, <1>30, <1>31, <1>32, <1>33, <1>34, <1>35, <1>36, <1>37,
           <1>38, <1>39, <1>40, <1>41 DEF Next, Worker, Reader, Cancel, StatusThread, Client,
           Terminated

-----------------------------------------------------------------------------
(***************************************************************************)
(* Types, and the runs that the threads are at                             *)
(***************************************************************************)
ControllerTypes ==
  /\ setting \in Settings /\ queue \in Seq(Runs) /\ table \in SUBSET Runs
  /\ life \in {"up", "exited", "crashed"}
  /\ spawned \in 0 .. setting.children /\ marked \in SUBSET Children

ThreadTypes ==
  /\ wpc \in WorkerPCs /\ wrun \in Runs \cup {NoRun}
  /\ xpc \in CancelPCs /\ xkind \in {"all", "named"}
  /\ xlist \in SUBSET Runs /\ xrun \in Runs \cup {NoRun}
  /\ spc \in {"off", "poll", "setStatus", "dying"} /\ srun \in Runs \cup {NoRun}
  /\ xcount \in 0 .. setting.cancels

RunTypes ==
  /\ status \in [Runs -> Statuses] /\ handle \in [Runs -> BOOLEAN]
  /\ killing \in [Runs -> BOOLEAN] /\ exitCode \in [Runs -> {0, 1, -9}]
  /\ lock \in [Runs -> {"free", "worker", "cancel"}]
  /\ proc \in [Runs -> {"none", "alive", "dead"}]
  /\ rpc \in [Runs -> ReaderPCs] /\ wrapups \in [Runs -> Seq(Statuses)]

Pointers ==
  /\ First \in table
  /\ wpc = "spawn" => wrun \in Children
  /\ wpc \in {"launch", "setProcess", "startReader"} => wrun \in table
  /\ xlist \subseteq table
  /\ xpc \in {"kill", "poll", "repoll", "setStatus", "killing", "signal", "dying",
              "wrapup", "mark"} => xrun \in table
  /\ spc # "off" => srun \in table
  /\ xpc = "mark" => xrun \in Children
  /\ \A r \in Runs : rpc[r] = "mark" => r \in Children

Typed == ControllerTypes /\ ThreadTypes /\ RunTypes /\ Pointers /\ QueueOfFirst

LEMMA TypedIsTypeOK == Typed => TypeOK
BY DEF Typed, ControllerTypes, ThreadTypes, RunTypes, TypeOK

LEMMA TypeInit == Init => Typed
<1> SUFFICES ASSUME Init PROVE Typed
  OBVIOUS
<1>1. QueueOfFirst
  BY QueueInit
<1>2. queue \in Seq(Runs) /\ wrapups \in [Runs -> Seq(Statuses)]
  BY FirstIsNoChild DEF Init
<1>3. 0 \in 0 .. setting.children /\ 0 \in 0 .. setting.cancels
  BY FirstIsNoChild DEF Init
<1>4. ControllerTypes /\ Pointers
  BY <1>2, <1>3, FirstIsNoChild DEF Init, ControllerTypes, Pointers
<1>5. ThreadTypes
  BY <1>3 DEF Init, ThreadTypes, WorkerPCs, CancelPCs
<1>6. RunTypes
  BY <1>2 DEF Init, RunTypes, Statuses, ReaderPCs
<1> QED BY <1>1, <1>4, <1>5, <1>6 DEF Typed

LEMMA StatusesKnown ==
  /\ {"none", "queued", "spawning", "running", "dying", "completed", "error", "cancelled"}
       \subseteq Statuses
  /\ \A r : FinalStatus(r) \in Finals
  /\ Finals \subseteq Statuses
BY DEF Statuses, Finals, FinalStatus

LEMMA LogTyped ==
  ASSUME NEW r \in Runs, RunTypes, LogWrapup(r)
  PROVE  /\ wrapups' \in [Runs -> Seq(Statuses)]
         /\ wrapups'[r] = Append(wrapups[r], status[r])
         /\ \A q \in Runs : q # r => wrapups'[q] = wrapups[q]
<1>1. wrapups[r] \in Seq(Statuses) /\ status[r] \in Statuses
  BY DEF RunTypes
<1>2. Append(wrapups[r], status[r]) \in Seq(Statuses)
  BY <1>1
<1> QED BY <1>2 DEF LogWrapup, RunTypes

LEMMA SpawnedIsChild ==
  ASSUME ControllerTypes, spawned < setting.children
  PROVE  spawned + 1 \in Children /\ spawned + 1 \in 0 .. setting.children
<1>1. setting \in Settings /\ spawned \in Nat /\ setting.children \in Nat
  BY FirstIsNoChild DEF ControllerTypes
<1> QED BY <1>1 DEF Children

LEMMA ControllerTypesStep ==
  ASSUME Typed, [Next]_vars
  PROVE  ControllerTypes'
<1>a. ControllerTypes /\ ThreadTypes /\ RunTypes /\ Pointers /\ QueueOfFirst
  BY DEF Typed
<1>b. queue' \in Seq(Runs)
  <2>1. <<>> \in Seq(Runs) /\ <<First>> \in Seq(Runs)
    BY FirstIsNoChild
  <2> QED BY <1>a, <2>1, QueueStep DEF QueueOfFirst
<1> USE DEF ControllerTypes, ToWorker, SetStatusTo, ToReader, ToCancel, Unlock, AfterRun, StatusDone, controllerVars, runVars, workerVars, cancelVars, statusVars
<1>1. ASSUME WorkerPop, UNCHANGED setting PROVE ControllerTypes'
  BY <1>1, <1>a, <1>b DEF WorkerPop
<1>2. ASSUME WorkerNoPop, UNCHANGED setting PROVE ControllerTypes'
  BY <1>2, <1>a, <1>b DEF WorkerNoPop
<1>3. ASSUME WorkerClaim, UNCHANGED setting PROVE ControllerTypes'
  BY <1>3, <1>a, <1>b, SpawnedIsChild DEF WorkerClaim
<1>4. ASSUME WorkerSpawn, UNCHANGED setting PROVE ControllerTypes'
  BY <1>4, <1>a, <1>b, FirstIsNoChild DEF WorkerSpawn, Pointers
<1>5. ASSUME WorkerLaunch, UNCHANGED setting PROVE ControllerTypes'
  BY <1>5, <1>a, <1>b DEF WorkerLaunch
<1>6. ASSUME WorkerSetProcess, UNCHANGED setting PROVE ControllerTypes'
  BY <1>6, <1>a, <1>b DEF WorkerSetProcess
<1>7. ASSUME WorkerStartReader, UNCHANGED setting PROVE ControllerTypes'
  BY <1>7, <1>a, <1>b DEF WorkerStartReader
<1>8. ASSUME WorkerRequeue, UNCHANGED setting PROVE ControllerTypes'
  BY <1>8, <1>a, <1>b DEF WorkerRequeue
<1>9. ASSUME WorkerParentEnd, UNCHANGED setting PROVE ControllerTypes'
  BY <1>9, <1>a, <1>b DEF WorkerParentEnd
<1>10. ASSUME WorkerParentWrapup, UNCHANGED setting PROVE ControllerTypes'
  BY <1>10, <1>a, <1>b DEF WorkerParentWrapup
<1>11. ASSUME WorkerIdle, UNCHANGED setting PROVE ControllerTypes'
  BY <1>11, <1>a, <1>b DEF WorkerIdle
<1>12. ASSUME WorkerFails, UNCHANGED setting PROVE ControllerTypes'
  BY <1>12, <1>a, <1>b DEF WorkerFails
<1>13. ASSUME WorkerExits, UNCHANGED setting PROVE ControllerTypes'
  BY <1>13, <1>a, <1>b DEF WorkerExits
<1>14. ASSUME NEW r \in Runs, ProcessEnds(r) PROVE ControllerTypes'
  BY <1>14, <1>a, <1>b DEF ProcessEnds
<1>15. ASSUME NEW r \in Runs, ReaderStops(r), UNCHANGED setting PROVE ControllerTypes'
  BY <1>15, <1>a, <1>b DEF ReaderStops
<1>16. ASSUME NEW r \in Runs, ReaderTest(r), UNCHANGED setting PROVE ControllerTypes'
  BY <1>16, <1>a, <1>b DEF ReaderTest
<1>17. ASSUME NEW r \in Runs, ReaderWait(r), UNCHANGED setting PROVE ControllerTypes'
  BY <1>17, <1>a, <1>b DEF ReaderWait
<1>18. ASSUME NEW r \in Runs, ReaderSetStatus(r), UNCHANGED setting PROVE ControllerTypes'
  BY <1>18, <1>a, <1>b DEF ReaderSetStatus
<1>19. ASSUME NEW r \in Runs, ReaderWrapup(r), UNCHANGED setting PROVE ControllerTypes'
  BY <1>19, <1>a, <1>b DEF ReaderWrapup
<1>20. ASSUME NEW r \in Runs, ReaderMark(r), UNCHANGED setting PROVE ControllerTypes'
  BY <1>20, <1>a, <1>b, FirstIsNoChild DEF ReaderMark, Pointers
<1>21. ASSUME NEW r \in Runs, ReaderFinish(r), UNCHANGED setting PROVE ControllerTypes'
  BY <1>21, <1>a, <1>b DEF ReaderFinish
<1>22. ASSUME NEW r \in Runs, ReaderDies(r), UNCHANGED setting PROVE ControllerTypes'
  BY <1>22, <1>a, <1>b DEF ReaderDies
<1>23. ASSUME NEW r \in Runs, ReaderExits(r), UNCHANGED setting PROVE ControllerTypes'
  BY <1>23, <1>a, <1>b DEF ReaderExits
<1>24. ASSUME CancelGrabQueue, UNCHANGED setting PROVE ControllerTypes'
  BY <1>24, <1>a, <1>b DEF CancelGrabQueue
<1>25. ASSUME CancelGrabRuns, UNCHANGED setting PROVE ControllerTypes'
  BY <1>25, <1>a, <1>b DEF CancelGrabRuns
<1>26. ASSUME CancelNext, UNCHANGED setting PROVE ControllerTypes'
  BY <1>26, <1>a, <1>b DEF CancelNext
<1>27. ASSUME CancelKill, UNCHANGED setting PROVE ControllerTypes'
  BY <1>27, <1>a, <1>b DEF CancelKill
<1>28. ASSUME CancelWrapup, UNCHANGED setting PROVE ControllerTypes'
  BY <1>28, <1>a, <1>b DEF CancelWrapup
<1>29. ASSUME CancelMark, UNCHANGED setting PROVE ControllerTypes'
  BY <1>29, <1>a, <1>b, FirstIsNoChild DEF CancelMark, Pointers
<1>30. ASSUME CancelPoll, UNCHANGED setting PROVE ControllerTypes'
  BY <1>30, <1>a, <1>b DEF CancelPoll
<1>31. ASSUME CancelUsesNone, UNCHANGED setting PROVE ControllerTypes'
  BY <1>31, <1>a, <1>b DEF CancelUsesNone
<1>32. ASSUME CancelSetStatus, UNCHANGED setting PROVE ControllerTypes'
  BY <1>32, <1>a, <1>b DEF CancelSetStatus
<1>33. ASSUME CancelKilling, UNCHANGED setting PROVE ControllerTypes'
  BY <1>33, <1>a, <1>b DEF CancelKilling
<1>34. ASSUME CancelSignal, UNCHANGED setting PROVE ControllerTypes'
  BY <1>34, <1>a, <1>b DEF CancelSignal
<1>35. ASSUME CancelDying, UNCHANGED setting PROVE ControllerTypes'
  BY <1>35, <1>a, <1>b DEF CancelDying
<1>36. ASSUME StatusReaps, UNCHANGED setting PROVE ControllerTypes'
  BY <1>36, <1>a, <1>b DEF StatusReaps
<1>37. ASSUME StatusLeaves, UNCHANGED setting PROVE ControllerTypes'
  BY <1>37, <1>a, <1>b DEF StatusLeaves
<1>38. ASSUME StatusSet, UNCHANGED setting PROVE ControllerTypes'
  BY <1>38, <1>a, <1>b DEF StatusSet
<1>39. ASSUME CancelRequest, UNCHANGED setting PROVE ControllerTypes'
  BY <1>39, <1>a, <1>b DEF CancelRequest
<1>40. ASSUME StatusRequest, UNCHANGED setting PROVE ControllerTypes'
  BY <1>40, <1>a, <1>b DEF StatusRequest
<1>41. CASE UNCHANGED vars
  BY <1>41, <1>a, <1>b DEF vars
<1> QED BY <1>1, <1>2, <1>3, <1>4, <1>5, <1>6, <1>7, <1>8, <1>9, <1>10, <1>11, <1>12, <1>13,
           <1>14, <1>15, <1>16, <1>17, <1>18, <1>19, <1>20, <1>21, <1>22, <1>23, <1>24, <1>25,
           <1>26, <1>27, <1>28, <1>29, <1>30, <1>31, <1>32, <1>33, <1>34, <1>35, <1>36, <1>37,
           <1>38, <1>39, <1>40, <1>41 DEF Next, Worker, Reader, Cancel, StatusThread, Client,
           Terminated

LEMMA PointersStep ==
  ASSUME Typed, [Next]_vars
  PROVE  Pointers'
<1>a. ControllerTypes /\ ThreadTypes /\ RunTypes /\ Pointers /\ QueueOfFirst
  BY DEF Typed
<1> USE DEF Pointers, QueueOfFirst, ToWorker, SetStatusTo, ToReader, ToCancel, Unlock, AfterRun, StatusDone, controllerVars, runVars, workerVars, cancelVars, statusVars
<1>1. ASSUME WorkerPop, UNCHANGED setting PROVE Pointers'
  BY <1>1, <1>a, QueueOperations DEF WorkerPop
<1>2. ASSUME WorkerNoPop, UNCHANGED setting PROVE Pointers'
  BY <1>2, <1>a DEF WorkerNoPop
<1>3. ASSUME WorkerClaim, UNCHANGED setting PROVE Pointers'
  BY <1>3, <1>a, SpawnedIsChild DEF WorkerClaim
<1>4. ASSUME WorkerSpawn, UNCHANGED setting PROVE Pointers'
  BY <1>4, <1>a DEF WorkerSpawn
<1>5. ASSUME WorkerLaunch, UNCHANGED setting PROVE Pointers'
  BY <1>5, <1>a DEF WorkerLaunch
<1>6. ASSUME WorkerSetProcess, UNCHANGED setting PROVE Pointers'
  BY <1>6, <1>a DEF WorkerSetProcess
<1>7. ASSUME WorkerStartReader, UNCHANGED setting PROVE Pointers'
  BY <1>7, <1>a DEF WorkerStartReader, RunTypes
<1>8. ASSUME WorkerRequeue, UNCHANGED setting PROVE Pointers'
  BY <1>8, <1>a DEF WorkerRequeue
<1>9. ASSUME WorkerParentEnd, UNCHANGED setting PROVE Pointers'
  BY <1>9, <1>a DEF WorkerParentEnd
<1>10. ASSUME WorkerParentWrapup, UNCHANGED setting PROVE Pointers'
  BY <1>10, <1>a DEF WorkerParentWrapup
<1>11. ASSUME WorkerIdle, UNCHANGED setting PROVE Pointers'
  BY <1>11, <1>a DEF WorkerIdle
<1>12. ASSUME WorkerFails, UNCHANGED setting PROVE Pointers'
  BY <1>12, <1>a DEF WorkerFails
<1>13. ASSUME WorkerExits, UNCHANGED setting PROVE Pointers'
  BY <1>13, <1>a DEF WorkerExits
<1>14. ASSUME NEW r \in Runs, ProcessEnds(r) PROVE Pointers'
  BY <1>14, <1>a DEF ProcessEnds
<1>15. ASSUME NEW r \in Runs, ReaderStops(r), UNCHANGED setting PROVE Pointers'
  BY <1>15, <1>a DEF ReaderStops, RunTypes
<1>16. ASSUME NEW r \in Runs, ReaderTest(r), UNCHANGED setting PROVE Pointers'
  BY <1>16, <1>a DEF ReaderTest, RunTypes
<1>17. ASSUME NEW r \in Runs, ReaderWait(r), UNCHANGED setting PROVE Pointers'
  BY <1>17, <1>a DEF ReaderWait, RunTypes
<1>18. ASSUME NEW r \in Runs, ReaderSetStatus(r), UNCHANGED setting PROVE Pointers'
  BY <1>18, <1>a DEF ReaderSetStatus, RunTypes
<1>19. ASSUME NEW r \in Runs, ReaderWrapup(r), UNCHANGED setting PROVE Pointers'
  BY <1>19, <1>a DEF ReaderWrapup, RunTypes
<1>20. ASSUME NEW r \in Runs, ReaderMark(r), UNCHANGED setting PROVE Pointers'
  BY <1>20, <1>a DEF ReaderMark, RunTypes
<1>21. ASSUME NEW r \in Runs, ReaderFinish(r), UNCHANGED setting PROVE Pointers'
  BY <1>21, <1>a DEF ReaderFinish, RunTypes
<1>22. ASSUME NEW r \in Runs, ReaderDies(r), UNCHANGED setting PROVE Pointers'
  BY <1>22, <1>a DEF ReaderDies, RunTypes
<1>23. ASSUME NEW r \in Runs, ReaderExits(r), UNCHANGED setting PROVE Pointers'
  BY <1>23, <1>a DEF ReaderExits, RunTypes
<1>24. ASSUME CancelGrabQueue, UNCHANGED setting PROVE Pointers'
  BY <1>24, <1>a DEF CancelGrabQueue
<1>25. ASSUME CancelGrabRuns, UNCHANGED setting PROVE Pointers'
  BY <1>25, <1>a DEF CancelGrabRuns, ToKill
<1>26. ASSUME CancelNext, UNCHANGED setting PROVE Pointers'
  BY <1>26, <1>a DEF CancelNext
<1>27. ASSUME CancelKill, UNCHANGED setting PROVE Pointers'
  BY <1>27, <1>a DEF CancelKill
<1>28. ASSUME CancelWrapup, UNCHANGED setting PROVE Pointers'
  BY <1>28, <1>a DEF CancelWrapup
<1>29. ASSUME CancelMark, UNCHANGED setting PROVE Pointers'
  BY <1>29, <1>a DEF CancelMark
<1>30. ASSUME CancelPoll, UNCHANGED setting PROVE Pointers'
  BY <1>30, <1>a DEF CancelPoll
<1>31. ASSUME CancelUsesNone, UNCHANGED setting PROVE Pointers'
  BY <1>31, <1>a DEF CancelUsesNone
<1>32. ASSUME CancelSetStatus, UNCHANGED setting PROVE Pointers'
  BY <1>32, <1>a DEF CancelSetStatus
<1>33. ASSUME CancelKilling, UNCHANGED setting PROVE Pointers'
  BY <1>33, <1>a DEF CancelKilling
<1>34. ASSUME CancelSignal, UNCHANGED setting PROVE Pointers'
  BY <1>34, <1>a DEF CancelSignal
<1>35. ASSUME CancelDying, UNCHANGED setting PROVE Pointers'
  BY <1>35, <1>a DEF CancelDying
<1>36. ASSUME StatusReaps, UNCHANGED setting PROVE Pointers'
  BY <1>36, <1>a DEF StatusReaps
<1>37. ASSUME StatusLeaves, UNCHANGED setting PROVE Pointers'
  BY <1>37, <1>a DEF StatusLeaves
<1>38. ASSUME StatusSet, UNCHANGED setting PROVE Pointers'
  BY <1>38, <1>a DEF StatusSet
<1>39. ASSUME CancelRequest, UNCHANGED setting PROVE Pointers'
  BY <1>39, <1>a DEF CancelRequest
<1>40. ASSUME StatusRequest, UNCHANGED setting PROVE Pointers'
  BY <1>40, <1>a DEF StatusRequest
<1>41. CASE UNCHANGED vars
  BY <1>41, <1>a DEF vars
<1> QED BY <1>1, <1>2, <1>3, <1>4, <1>5, <1>6, <1>7, <1>8, <1>9, <1>10, <1>11, <1>12, <1>13,
           <1>14, <1>15, <1>16, <1>17, <1>18, <1>19, <1>20, <1>21, <1>22, <1>23, <1>24, <1>25,
           <1>26, <1>27, <1>28, <1>29, <1>30, <1>31, <1>32, <1>33, <1>34, <1>35, <1>36, <1>37,
           <1>38, <1>39, <1>40, <1>41 DEF Next, Worker, Reader, Cancel, StatusThread, Client,
           Terminated

LEMMA ThreadTypesStep ==
  ASSUME Typed, [Next]_vars
  PROVE  ThreadTypes'
<1>a. ControllerTypes /\ ThreadTypes /\ RunTypes /\ Pointers /\ QueueOfFirst
  BY DEF Typed
<1> USE DEF ThreadTypes, ToWorker, SetStatusTo, ToReader, ToCancel, Unlock, AfterRun, StatusDone, controllerVars, runVars, workerVars, cancelVars, statusVars
<1>1. ASSUME WorkerPop, UNCHANGED setting PROVE ThreadTypes'
  BY <1>1, <1>a, QueueOperations, FirstIsNoChild DEF WorkerPop, WorkerPCs, QueueOfFirst
<1>2. ASSUME WorkerNoPop, UNCHANGED setting PROVE ThreadTypes'
  BY <1>2, <1>a DEF WorkerNoPop, WorkerPCs
<1>3. ASSUME WorkerClaim, UNCHANGED setting PROVE ThreadTypes'
  BY <1>3, <1>a, SpawnedIsChild, FirstIsNoChild DEF WorkerClaim, WorkerPCs
<1>4. ASSUME WorkerSpawn, UNCHANGED setting PROVE ThreadTypes'
  BY <1>4, <1>a DEF WorkerSpawn, WorkerPCs
<1>5. ASSUME WorkerLaunch, UNCHANGED setting PROVE ThreadTypes'
  BY <1>5, <1>a DEF WorkerLaunch, WorkerPCs
<1>6. ASSUME WorkerSetProcess, UNCHANGED setting PROVE ThreadTypes'
  BY <1>6, <1>a DEF WorkerSetProcess, WorkerPCs
<1>7. ASSUME WorkerStartReader, UNCHANGED setting PROVE ThreadTypes'
  BY <1>7, <1>a, FirstIsNoChild DEF WorkerStartReader, WorkerPCs
<1>8. ASSUME WorkerRequeue, UNCHANGED setting PROVE ThreadTypes'
  BY <1>8, <1>a, FirstIsNoChild DEF WorkerRequeue, WorkerPCs
<1>9. ASSUME WorkerParentEnd, UNCHANGED setting PROVE ThreadTypes'
  BY <1>9, <1>a, FirstIsNoChild DEF WorkerParentEnd, WorkerPCs
<1>10. ASSUME WorkerParentWrapup, UNCHANGED setting PROVE ThreadTypes'
  BY <1>10, <1>a, FirstIsNoChild DEF WorkerParentWrapup, WorkerPCs
<1>11. ASSUME WorkerIdle, UNCHANGED setting PROVE ThreadTypes'
  BY <1>11, <1>a DEF WorkerIdle, WorkerPCs
<1>12. ASSUME WorkerFails, UNCHANGED setting PROVE ThreadTypes'
  BY <1>12, <1>a DEF WorkerFails, WorkerPCs
<1>13. ASSUME WorkerExits, UNCHANGED setting PROVE ThreadTypes'
  BY <1>13, <1>a DEF WorkerExits, WorkerPCs
<1>14. ASSUME NEW r \in Runs, ProcessEnds(r) PROVE ThreadTypes'
  BY <1>14, <1>a DEF ProcessEnds
<1>15. ASSUME NEW r \in Runs, ReaderStops(r), UNCHANGED setting PROVE ThreadTypes'
  BY <1>15, <1>a DEF ReaderStops
<1>16. ASSUME NEW r \in Runs, ReaderTest(r), UNCHANGED setting PROVE ThreadTypes'
  BY <1>16, <1>a DEF ReaderTest
<1>17. ASSUME NEW r \in Runs, ReaderWait(r), UNCHANGED setting PROVE ThreadTypes'
  BY <1>17, <1>a DEF ReaderWait
<1>18. ASSUME NEW r \in Runs, ReaderSetStatus(r), UNCHANGED setting PROVE ThreadTypes'
  BY <1>18, <1>a DEF ReaderSetStatus
<1>19. ASSUME NEW r \in Runs, ReaderWrapup(r), UNCHANGED setting PROVE ThreadTypes'
  BY <1>19, <1>a DEF ReaderWrapup
<1>20. ASSUME NEW r \in Runs, ReaderMark(r), UNCHANGED setting PROVE ThreadTypes'
  BY <1>20, <1>a DEF ReaderMark
<1>21. ASSUME NEW r \in Runs, ReaderFinish(r), UNCHANGED setting PROVE ThreadTypes'
  BY <1>21, <1>a DEF ReaderFinish
<1>22. ASSUME NEW r \in Runs, ReaderDies(r), UNCHANGED setting PROVE ThreadTypes'
  BY <1>22, <1>a DEF ReaderDies
<1>23. ASSUME NEW r \in Runs, ReaderExits(r), UNCHANGED setting PROVE ThreadTypes'
  BY <1>23, <1>a DEF ReaderExits
<1>24. ASSUME CancelGrabQueue, UNCHANGED setting PROVE ThreadTypes'
  BY <1>24, <1>a DEF CancelGrabQueue, CancelPCs, ControllerTypes, QueueOfFirst
<1>25. ASSUME CancelGrabRuns, UNCHANGED setting PROVE ThreadTypes'
  BY <1>25, <1>a DEF CancelGrabRuns, CancelPCs, ToKill, ControllerTypes
<1>26. ASSUME CancelNext, UNCHANGED setting PROVE ThreadTypes'
  BY <1>26, <1>a DEF CancelNext, CancelPCs
<1>27. ASSUME CancelKill, UNCHANGED setting PROVE ThreadTypes'
  BY <1>27, <1>a DEF CancelKill, CancelPCs
<1>28. ASSUME CancelWrapup, UNCHANGED setting PROVE ThreadTypes'
  BY <1>28, <1>a DEF CancelWrapup, CancelPCs
<1>29. ASSUME CancelMark, UNCHANGED setting PROVE ThreadTypes'
  BY <1>29, <1>a DEF CancelMark, CancelPCs
<1>30. ASSUME CancelPoll, UNCHANGED setting PROVE ThreadTypes'
  BY <1>30, <1>a DEF CancelPoll, CancelPCs
<1>31. ASSUME CancelUsesNone, UNCHANGED setting PROVE ThreadTypes'
  BY <1>31, <1>a DEF CancelUsesNone, CancelPCs
<1>32. ASSUME CancelSetStatus, UNCHANGED setting PROVE ThreadTypes'
  BY <1>32, <1>a DEF CancelSetStatus, CancelPCs
<1>33. ASSUME CancelKilling, UNCHANGED setting PROVE ThreadTypes'
  BY <1>33, <1>a DEF CancelKilling, CancelPCs
<1>34. ASSUME CancelSignal, UNCHANGED setting PROVE ThreadTypes'
  BY <1>34, <1>a DEF CancelSignal, CancelPCs
<1>35. ASSUME CancelDying, UNCHANGED setting PROVE ThreadTypes'
  BY <1>35, <1>a DEF CancelDying, CancelPCs
<1>36. ASSUME StatusReaps, UNCHANGED setting PROVE ThreadTypes'
  BY <1>36, <1>a DEF StatusReaps
<1>37. ASSUME StatusLeaves, UNCHANGED setting PROVE ThreadTypes'
  BY <1>37, <1>a DEF StatusLeaves
<1>38. ASSUME StatusSet, UNCHANGED setting PROVE ThreadTypes'
  BY <1>38, <1>a DEF StatusSet
<1>39. ASSUME CancelRequest, UNCHANGED setting PROVE ThreadTypes'
  BY <1>39, <1>a, FirstIsNoChild DEF CancelRequest, CancelPCs, ControllerTypes
<1>40. ASSUME StatusRequest, UNCHANGED setting PROVE ThreadTypes'
  BY <1>40, <1>a DEF StatusRequest, ControllerTypes
<1>41. CASE UNCHANGED vars
  BY <1>41, <1>a DEF vars
<1> QED BY <1>1, <1>2, <1>3, <1>4, <1>5, <1>6, <1>7, <1>8, <1>9, <1>10, <1>11, <1>12, <1>13,
           <1>14, <1>15, <1>16, <1>17, <1>18, <1>19, <1>20, <1>21, <1>22, <1>23, <1>24, <1>25,
           <1>26, <1>27, <1>28, <1>29, <1>30, <1>31, <1>32, <1>33, <1>34, <1>35, <1>36, <1>37,
           <1>38, <1>39, <1>40, <1>41 DEF Next, Worker, Reader, Cancel, StatusThread, Client,
           Terminated

LEMMA UpdateIsTyped ==
  ASSUME NEW S, NEW T, NEW f \in [S -> T], NEW x, NEW v \in T,
         NEW g \in {f, [f EXCEPT ![x] = v]}
  PROVE  g \in [S -> T]
OBVIOUS

LEMMA RunTypesStep ==
  ASSUME Typed, [Next]_vars
  PROVE  RunTypes'
<1>a. ControllerTypes /\ ThreadTypes /\ RunTypes /\ Pointers /\ QueueOfFirst
  BY DEF Typed
<1> USE DEF RunTypes, ToWorker, SetStatusTo, ToReader, ToCancel, Unlock, AfterRun, StatusDone, controllerVars, runVars, workerVars, cancelVars, statusVars
<1>1. ASSUME WorkerPop, UNCHANGED setting PROVE RunTypes'
  BY <1>1, <1>a, StatusesKnown DEF WorkerPop
<1>2. ASSUME WorkerNoPop, UNCHANGED setting PROVE RunTypes'
  BY <1>2, <1>a, StatusesKnown DEF WorkerNoPop
<1>3. ASSUME WorkerClaim, UNCHANGED setting PROVE RunTypes'
  BY <1>3, <1>a, StatusesKnown DEF WorkerClaim
<1>4. ASSUME WorkerSpawn, UNCHANGED setting PROVE RunTypes'
  BY <1>4, <1>a, StatusesKnown DEF WorkerSpawn
<1>5. ASSUME WorkerLaunch, UNCHANGED setting PROVE RunTypes'
  BY <1>5, <1>a, StatusesKnown DEF WorkerLaunch
<1>6. ASSUME WorkerSetProcess, UNCHANGED setting PROVE RunTypes'
  BY <1>6, <1>a, StatusesKnown DEF WorkerSetProcess
<1>7. ASSUME WorkerStartReader, UNCHANGED setting PROVE RunTypes'
  BY <1>7, <1>a, StatusesKnown DEF WorkerStartReader, ReaderPCs
<1>8. ASSUME WorkerRequeue, UNCHANGED setting PROVE RunTypes'
  BY <1>8, <1>a, StatusesKnown DEF WorkerRequeue
<1>9. ASSUME WorkerParentEnd, UNCHANGED setting PROVE RunTypes'
  BY <1>9, <1>a, StatusesKnown DEF WorkerParentEnd
<1>10. ASSUME WorkerParentWrapup, UNCHANGED setting PROVE RunTypes'
  BY <1>10, <1>a, StatusesKnown, LogTyped DEF WorkerParentWrapup, Pointers, ControllerTypes
<1>11. ASSUME WorkerIdle, UNCHANGED setting PROVE RunTypes'
  BY <1>11, <1>a, StatusesKnown DEF WorkerIdle
<1>12. ASSUME WorkerFails, UNCHANGED setting PROVE RunTypes'
  BY <1>12, <1>a, StatusesKnown DEF WorkerFails
<1>13. ASSUME WorkerExits, UNCHANGED setting PROVE RunTypes'
  BY <1>13, <1>a, StatusesKnown DEF WorkerExits
<1>14. ASSUME NEW r \in Runs, ProcessEnds(r) PROVE RunTypes'
  BY <1>14, <1>a, StatusesKnown DEF ProcessEnds
<1>15. ASSUME NEW r \in Runs, ReaderStops(r), UNCHANGED setting PROVE RunTypes'
  BY <1>15, <1>a, StatusesKnown DEF ReaderStops, ReaderPCs
<1>16. ASSUME NEW r \in Runs, ReaderTest(r), UNCHANGED setting PROVE RunTypes'
  BY <1>16, <1>a, StatusesKnown DEF ReaderTest, ReaderPCs
<1>17. ASSUME NEW r \in Runs, ReaderWait(r), UNCHANGED setting PROVE RunTypes'
  BY <1>17, <1>a, StatusesKnown DEF ReaderWait, ReaderPCs
<1>18. ASSUME NEW r \in Runs, ReaderSetStatus(r), UNCHANGED setting PROVE RunTypes'
  BY <1>18, <1>a, StatusesKnown DEF ReaderSetStatus, ReaderPCs
<1>19. ASSUME NEW r \in Runs, ReaderWrapup(r), UNCHANGED setting PROVE RunTypes'
  BY <1>19, <1>a, StatusesKnown, LogTyped DEF ReaderWrapup, ReaderPCs
<1>20. ASSUME NEW r \in Runs, ReaderMark(r), UNCHANGED setting PROVE RunTypes'
  BY <1>20, <1>a, StatusesKnown DEF ReaderMark, ReaderPCs
<1>21. ASSUME NEW r \in Runs, ReaderFinish(r), UNCHANGED setting PROVE RunTypes'
  BY <1>21, <1>a, StatusesKnown DEF ReaderFinish, ReaderPCs
<1>22. ASSUME NEW r \in Runs, ReaderDies(r), UNCHANGED setting PROVE RunTypes'
  BY <1>22, <1>a, StatusesKnown DEF ReaderDies, ReaderPCs
<1>23. ASSUME NEW r \in Runs, ReaderExits(r), UNCHANGED setting PROVE RunTypes'
  BY <1>23, <1>a, StatusesKnown DEF ReaderExits, ReaderPCs
<1>24. ASSUME CancelGrabQueue, UNCHANGED setting PROVE RunTypes'
  BY <1>24, <1>a, StatusesKnown DEF CancelGrabQueue, Pointers, ControllerTypes
<1>25. ASSUME CancelGrabRuns, UNCHANGED setting PROVE RunTypes'
  BY <1>25, <1>a, StatusesKnown DEF CancelGrabRuns, Pointers, ControllerTypes
<1>26. ASSUME CancelNext, UNCHANGED setting PROVE RunTypes'
  BY <1>26, <1>a, StatusesKnown DEF CancelNext, Pointers, ControllerTypes
<1>27. ASSUME CancelKill, UNCHANGED setting PROVE RunTypes'
  <2>1. status' \in {status, [status EXCEPT ![xrun] = "cancelled"]}
        /\ lock' \in {lock, [lock EXCEPT ![xrun] = "cancel"]}
    BY <1>27 DEF CancelKill
  <2>2. status \in [Runs -> Statuses] /\ lock \in [Runs -> {"free", "worker", "cancel"}]
    BY <1>a
  <2>3. status' \in [Runs -> Statuses]
    <3>1. "cancelled" \in Statuses
      BY StatusesKnown
    <3> QED BY <2>1, <2>2, <3>1, UpdateIsTyped
  <2>4. lock' \in [Runs -> {"free", "worker", "cancel"}]
    BY <2>1, <2>2, UpdateIsTyped
  <2> QED BY <1>27, <1>a, <2>3, <2>4 DEF CancelKill
<1>28. ASSUME CancelWrapup, UNCHANGED setting PROVE RunTypes'
  BY <1>28, <1>a, StatusesKnown, LogTyped DEF CancelWrapup, Pointers, ControllerTypes
<1>29. ASSUME CancelMark, UNCHANGED setting PROVE RunTypes'
  BY <1>29, <1>a, StatusesKnown DEF CancelMark, Pointers, ControllerTypes
<1>30. ASSUME CancelPoll, UNCHANGED setting PROVE RunTypes'
  BY <1>30, <1>a, StatusesKnown DEF CancelPoll, Pointers, ControllerTypes
<1>31. ASSUME CancelUsesNone, UNCHANGED setting PROVE RunTypes'
  BY <1>31, <1>a, StatusesKnown DEF CancelUsesNone, Pointers, ControllerTypes
<1>32. ASSUME CancelSetStatus, UNCHANGED setting PROVE RunTypes'
  BY <1>32, <1>a, StatusesKnown DEF CancelSetStatus, Pointers, ControllerTypes
<1>33. ASSUME CancelKilling, UNCHANGED setting PROVE RunTypes'
  BY <1>33, <1>a, StatusesKnown DEF CancelKilling, Pointers, ControllerTypes
<1>34. ASSUME CancelSignal, UNCHANGED setting PROVE RunTypes'
  BY <1>34, <1>a, StatusesKnown DEF CancelSignal, Pointers, ControllerTypes
<1>35. ASSUME CancelDying, UNCHANGED setting PROVE RunTypes'
  BY <1>35, <1>a, StatusesKnown DEF CancelDying, Pointers, ControllerTypes
<1>36. ASSUME StatusReaps, UNCHANGED setting PROVE RunTypes'
  BY <1>36, <1>a, StatusesKnown DEF StatusReaps
<1>37. ASSUME StatusLeaves, UNCHANGED setting PROVE RunTypes'
  BY <1>37, <1>a, StatusesKnown DEF StatusLeaves
<1>38. ASSUME StatusSet, UNCHANGED setting PROVE RunTypes'
  BY <1>38, <1>a, StatusesKnown DEF StatusSet
<1>39. ASSUME CancelRequest, UNCHANGED setting PROVE RunTypes'
  BY <1>39, <1>a, StatusesKnown DEF CancelRequest
<1>40. ASSUME StatusRequest, UNCHANGED setting PROVE RunTypes'
  BY <1>40, <1>a, StatusesKnown DEF StatusRequest
<1>41. CASE UNCHANGED vars
  BY <1>41, <1>a, StatusesKnown DEF vars
<1> QED BY <1>1, <1>2, <1>3, <1>4, <1>5, <1>6, <1>7, <1>8, <1>9, <1>10, <1>11, <1>12, <1>13,
           <1>14, <1>15, <1>16, <1>17, <1>18, <1>19, <1>20, <1>21, <1>22, <1>23, <1>24, <1>25,
           <1>26, <1>27, <1>28, <1>29, <1>30, <1>31, <1>32, <1>33, <1>34, <1>35, <1>36, <1>37,
           <1>38, <1>39, <1>40, <1>41 DEF Next, Worker, Reader, Cancel, StatusThread, Client,
           Terminated

LEMMA TypeStep == Typed /\ [Next]_vars => Typed'
BY ControllerTypesStep, ThreadTypesStep, RunTypesStep, PointersStep, QueueStep DEF Typed

THEOREM TypeCorrect == Spec => []TypeOK
BY TypeInit, TypeStep, TypedIsTypeOK, PTL DEF Spec

-----------------------------------------------------------------------------
(***************************************************************************)
(* Starting processes                                                      *)
(***************************************************************************)

\* A child is entered in the table, and its process started, once; the first
\* run has a process only if it is no parent, and only when it has left the
\* queue for good.
StartsInOrder ==
  /\ wpc \in {"claim", "spawn", "requeue", "parentEnd", "parentWrapup"} => IsParent
  /\ wpc = "spawn" => wrun \notin table
  /\ wpc \in {"spawn", "launch"} => proc[wrun] = "none"
  /\ wpc \in {"setProcess", "startReader"} => proc[wrun] # "none"
  /\ wpc = "launch" /\ wrun = First /\ IsParent => HasParentScript
  /\ (wrun \in Children /\ wpc \in {"spawn", "launch", "setProcess", "startReader"})
       => IsParent /\ wrun <= spawned
  /\ \A r \in Children : r > spawned => r \notin table /\ proc[r] = "none"
  /\ IsParent \/ queue # <<>> => proc[First] = "none"

LEMMA StartsInit == Init => StartsInOrder
BY FirstIsNoChild, QueueOperations DEF Init, StartsInOrder

LEMMA StartsStep ==
  ASSUME Typed, StartsInOrder, [Next]_vars
  PROVE  StartsInOrder'
<1>a. RunTypes /\ Pointers /\ QueueOfFirst /\ StartsInOrder /\ ControllerTypes
  BY DEF Typed
<1>b. spawned \in Nat /\ Children \subseteq Nat /\ First \in Runs /\ First \notin Children
      /\ Children \subseteq Runs
  BY <1>a, FirstIsNoChild DEF ControllerTypes
<1> USE DEF StartsInOrder, ToWorker, SetStatusTo, ToReader, ToCancel, Unlock, AfterRun, StatusDone, controllerVars, runVars, workerVars, cancelVars, statusVars
<1>1. ASSUME WorkerPop, UNCHANGED setting PROVE StartsInOrder'
  BY <1>1, <1>a, <1>b, QueueOperations DEF WorkerPop, QueueOfFirst, Pointers
<1>2. ASSUME WorkerNoPop, UNCHANGED setting PROVE StartsInOrder'
  BY <1>2, <1>a, <1>b DEF WorkerNoPop
<1>3. ASSUME WorkerClaim, UNCHANGED setting PROVE StartsInOrder'
  BY <1>3, <1>a, <1>b, SpawnedIsChild DEF WorkerClaim
<1>4. ASSUME WorkerSpawn, UNCHANGED setting PROVE StartsInOrder'
  BY <1>4, <1>a, <1>b DEF WorkerSpawn, Pointers
<1>5. ASSUME WorkerLaunch, UNCHANGED setting PROVE StartsInOrder'
  BY <1>5, <1>a, <1>b DEF WorkerLaunch, ControllerTypes, CannotLaunch, QueueOfFirst, RunTypes, Pointers
<1>6. ASSUME WorkerSetProcess, UNCHANGED setting PROVE StartsInOrder'
  BY <1>6, <1>a, <1>b DEF WorkerSetProcess
<1>7. ASSUME WorkerStartReader, UNCHANGED setting PROVE StartsInOrder'
  BY <1>7, <1>a, <1>b DEF WorkerStartReader, Pointers
<1>8. ASSUME WorkerRequeue, UNCHANGED setting PROVE StartsInOrder'
  BY <1>8, <1>a, <1>b, QueueOperations DEF WorkerRequeue, QueueOfFirst
<1>9. ASSUME WorkerParentEnd, UNCHANGED setting PROVE StartsInOrder'
  BY <1>9, <1>a, <1>b DEF WorkerParentEnd
<1>10. ASSUME WorkerParentWrapup, UNCHANGED setting PROVE StartsInOrder'
  BY <1>10, <1>a, <1>b DEF WorkerParentWrapup
<1>11. ASSUME WorkerIdle, UNCHANGED setting PROVE StartsInOrder'
  BY <1>11, <1>a, <1>b DEF WorkerIdle
<1>12. ASSUME WorkerFails, UNCHANGED setting PROVE StartsInOrder'
  BY <1>12, <1>a, <1>b DEF WorkerFails
<1>13. ASSUME WorkerExits, UNCHANGED setting PROVE StartsInOrder'
  BY <1>13, <1>a, <1>b DEF WorkerExits
<1>14. ASSUME NEW r \in Runs, ProcessEnds(r) PROVE StartsInOrder'
  BY <1>14, <1>a, <1>b DEF ProcessEnds, RunTypes
<1>15. ASSUME NEW r \in Runs, ReaderStops(r), UNCHANGED setting PROVE StartsInOrder'
  BY <1>15, <1>a, <1>b DEF ReaderStops
<1>16. ASSUME NEW r \in Runs, ReaderTest(r), UNCHANGED setting PROVE StartsInOrder'
  BY <1>16, <1>a, <1>b DEF ReaderTest
<1>17. ASSUME NEW r \in Runs, ReaderWait(r), UNCHANGED setting PROVE StartsInOrder'
  BY <1>17, <1>a, <1>b DEF ReaderWait
<1>18. ASSUME NEW r \in Runs, ReaderSetStatus(r), UNCHANGED setting PROVE StartsInOrder'
  BY <1>18, <1>a, <1>b DEF ReaderSetStatus
<1>19. ASSUME NEW r \in Runs, ReaderWrapup(r), UNCHANGED setting PROVE StartsInOrder'
  BY <1>19, <1>a, <1>b DEF ReaderWrapup
<1>20. ASSUME NEW r \in Runs, ReaderMark(r), UNCHANGED setting PROVE StartsInOrder'
  BY <1>20, <1>a, <1>b DEF ReaderMark
<1>21. ASSUME NEW r \in Runs, ReaderFinish(r), UNCHANGED setting PROVE StartsInOrder'
  BY <1>21, <1>a, <1>b DEF ReaderFinish
<1>22. ASSUME NEW r \in Runs, ReaderDies(r), UNCHANGED setting PROVE StartsInOrder'
  BY <1>22, <1>a, <1>b DEF ReaderDies
<1>23. ASSUME NEW r \in Runs, ReaderExits(r), UNCHANGED setting PROVE StartsInOrder'
  BY <1>23, <1>a, <1>b DEF ReaderExits
<1>24. ASSUME CancelGrabQueue, UNCHANGED setting PROVE StartsInOrder'
  BY <1>24, <1>a, <1>b DEF CancelGrabQueue
<1>25. ASSUME CancelGrabRuns, UNCHANGED setting PROVE StartsInOrder'
  BY <1>25, <1>a, <1>b DEF CancelGrabRuns
<1>26. ASSUME CancelNext, UNCHANGED setting PROVE StartsInOrder'
  BY <1>26, <1>a, <1>b, RemovedFromQueue DEF CancelNext, QueueOfFirst
<1>27. ASSUME CancelKill, UNCHANGED setting PROVE StartsInOrder'
  BY <1>27, <1>a, <1>b DEF CancelKill
<1>28. ASSUME CancelWrapup, UNCHANGED setting PROVE StartsInOrder'
  BY <1>28, <1>a, <1>b DEF CancelWrapup
<1>29. ASSUME CancelMark, UNCHANGED setting PROVE StartsInOrder'
  BY <1>29, <1>a, <1>b DEF CancelMark
<1>30. ASSUME CancelPoll, UNCHANGED setting PROVE StartsInOrder'
  BY <1>30, <1>a, <1>b DEF CancelPoll
<1>31. ASSUME CancelUsesNone, UNCHANGED setting PROVE StartsInOrder'
  BY <1>31, <1>a, <1>b DEF CancelUsesNone
<1>32. ASSUME CancelSetStatus, UNCHANGED setting PROVE StartsInOrder'
  BY <1>32, <1>a, <1>b DEF CancelSetStatus
<1>33. ASSUME CancelKilling, UNCHANGED setting PROVE StartsInOrder'
  BY <1>33, <1>a, <1>b DEF CancelKilling
<1>34. ASSUME CancelSignal, UNCHANGED setting PROVE StartsInOrder'
  BY <1>34, <1>a, <1>b DEF CancelSignal, RunTypes, Pointers, ControllerTypes
<1>35. ASSUME CancelDying, UNCHANGED setting PROVE StartsInOrder'
  BY <1>35, <1>a, <1>b DEF CancelDying
<1>36. ASSUME StatusReaps, UNCHANGED setting PROVE StartsInOrder'
  BY <1>36, <1>a, <1>b DEF StatusReaps
<1>37. ASSUME StatusLeaves, UNCHANGED setting PROVE StartsInOrder'
  BY <1>37, <1>a, <1>b DEF StatusLeaves
<1>38. ASSUME StatusSet, UNCHANGED setting PROVE StartsInOrder'
  BY <1>38, <1>a, <1>b DEF StatusSet
<1>39. ASSUME CancelRequest, UNCHANGED setting PROVE StartsInOrder'
  BY <1>39, <1>a, <1>b DEF CancelRequest
<1>40. ASSUME StatusRequest, UNCHANGED setting PROVE StartsInOrder'
  BY <1>40, <1>a, <1>b DEF StatusRequest
<1>41. CASE UNCHANGED vars
  BY <1>41, <1>a, <1>b DEF vars
<1> QED BY <1>1, <1>2, <1>3, <1>4, <1>5, <1>6, <1>7, <1>8, <1>9, <1>10, <1>11, <1>12, <1>13,
           <1>14, <1>15, <1>16, <1>17, <1>18, <1>19, <1>20, <1>21, <1>22, <1>23, <1>24, <1>25,
           <1>26, <1>27, <1>28, <1>29, <1>30, <1>31, <1>32, <1>33, <1>34, <1>35, <1>36, <1>37,
           <1>38, <1>39, <1>40, <1>41 DEF Next, Worker, Reader, Cancel, StatusThread, Client,
           Terminated

-----------------------------------------------------------------------------
(***************************************************************************)
(* Live processes                                                          *)
(***************************************************************************)

\* A thread that sets the final status has seen the process dead; one that is
\* about to call a run dying has found that it is being killed.
ReapedIsDead ==
  /\ \A r \in Runs : rpc[r] \in {"setStatus", "postSetStatus"} => proc[r] = "dead"
  /\ xpc = "setStatus" => proc[xrun] = "dead"
  /\ spc = "setStatus" => proc[srun] = "dead"
  /\ xpc \in {"signal", "repoll", "dying"} => killing[xrun]
  /\ spc = "dying" => killing[srun]

\* A live process is the one the worker has just started, or it is known to
\* its run, which is in the table and called running unless it is being killed.
LiveIsKnown ==
  \A r \in Runs : proc[r] = "alive" =>
    \/ wpc = "setProcess" /\ wrun = r
    \/ handle[r] /\ r \in table /\ (killing[r] \/ status[r] = "running")

LEMMA LiveInit == Init => ReapedIsDead /\ LiveIsKnown
BY DEF Init, ReapedIsDead, LiveIsKnown

LEMMA ReapedStep ==
  ASSUME Typed, StartsInOrder, ReapedIsDead, [Next]_vars
  PROVE  ReapedIsDead'
<1>a. RunTypes /\ Pointers /\ StartsInOrder /\ table \subseteq Runs /\ ReapedIsDead
  BY DEF Typed, ControllerTypes
<1> USE DEF ReapedIsDead, RunTypes, Pointers, ToWorker, SetStatusTo, ToReader, ToCancel, Unlock, AfterRun, StatusDone, controllerVars, runVars, workerVars, cancelVars, statusVars
<1>1. ASSUME WorkerPop, UNCHANGED setting PROVE ReapedIsDead'
  BY <1>1, <1>a DEF WorkerPop
<1>2. ASSUME WorkerNoPop, UNCHANGED setting PROVE ReapedIsDead'
  BY <1>2, <1>a DEF WorkerNoPop
<1>3. ASSUME WorkerClaim, UNCHANGED setting PROVE ReapedIsDead'
  BY <1>3, <1>a DEF WorkerClaim
<1>4. ASSUME WorkerSpawn, UNCHANGED setting PROVE ReapedIsDead'
  BY <1>4, <1>a DEF WorkerSpawn
<1>5. ASSUME WorkerLaunch, UNCHANGED setting PROVE ReapedIsDead'
  BY <1>5, <1>a DEF WorkerLaunch, StartsInOrder
<1>6. ASSUME WorkerSetProcess, UNCHANGED setting PROVE ReapedIsDead'
  BY <1>6, <1>a DEF WorkerSetProcess
<1>7. ASSUME WorkerStartReader, UNCHANGED setting PROVE ReapedIsDead'
  BY <1>7, <1>a DEF WorkerStartReader
<1>8. ASSUME WorkerRequeue, UNCHANGED setting PROVE ReapedIsDead'
  BY <1>8, <1>a DEF WorkerRequeue
<1>9. ASSUME WorkerParentEnd, UNCHANGED setting PROVE ReapedIsDead'
  BY <1>9, <1>a DEF WorkerParentEnd
<1>10. ASSUME WorkerParentWrapup, UNCHANGED setting PROVE ReapedIsDead'
  BY <1>10, <1>a DEF WorkerParentWrapup
<1>11. ASSUME WorkerIdle, UNCHANGED setting PROVE ReapedIsDead'
  BY <1>11, <1>a DEF WorkerIdle
<1>12. ASSUME WorkerFails, UNCHANGED setting PROVE ReapedIsDead'
  BY <1>12, <1>a DEF WorkerFails
<1>13. ASSUME WorkerExits, UNCHANGED setting PROVE ReapedIsDead'
  BY <1>13, <1>a DEF WorkerExits
<1>14. ASSUME NEW r \in Runs, ProcessEnds(r) PROVE ReapedIsDead'
  BY <1>14, <1>a DEF ProcessEnds
<1>15. ASSUME NEW r \in Runs, ReaderStops(r), UNCHANGED setting PROVE ReapedIsDead'
  BY <1>15, <1>a DEF ReaderStops
<1>16. ASSUME NEW r \in Runs, ReaderTest(r), UNCHANGED setting PROVE ReapedIsDead'
  BY <1>16, <1>a DEF ReaderTest
<1>17. ASSUME NEW r \in Runs, ReaderWait(r), UNCHANGED setting PROVE ReapedIsDead'
  BY <1>17, <1>a DEF ReaderWait
<1>18. ASSUME NEW r \in Runs, ReaderSetStatus(r), UNCHANGED setting PROVE ReapedIsDead'
  BY <1>18, <1>a DEF ReaderSetStatus
<1>19. ASSUME NEW r \in Runs, ReaderWrapup(r), UNCHANGED setting PROVE ReapedIsDead'
  BY <1>19, <1>a DEF ReaderWrapup
<1>20. ASSUME NEW r \in Runs, ReaderMark(r), UNCHANGED setting PROVE ReapedIsDead'
  BY <1>20, <1>a DEF ReaderMark
<1>21. ASSUME NEW r \in Runs, ReaderFinish(r), UNCHANGED setting PROVE ReapedIsDead'
  BY <1>21, <1>a DEF ReaderFinish
<1>22. ASSUME NEW r \in Runs, ReaderDies(r), UNCHANGED setting PROVE ReapedIsDead'
  BY <1>22, <1>a DEF ReaderDies
<1>23. ASSUME NEW r \in Runs, ReaderExits(r), UNCHANGED setting PROVE ReapedIsDead'
  BY <1>23, <1>a DEF ReaderExits
<1>24. ASSUME CancelGrabQueue, UNCHANGED setting PROVE ReapedIsDead'
  BY <1>24, <1>a DEF CancelGrabQueue
<1>25. ASSUME CancelGrabRuns, UNCHANGED setting PROVE ReapedIsDead'
  BY <1>25, <1>a DEF CancelGrabRuns
<1>26. ASSUME CancelNext, UNCHANGED setting PROVE ReapedIsDead'
  BY <1>26, <1>a DEF CancelNext
<1>27. ASSUME CancelKill, UNCHANGED setting PROVE ReapedIsDead'
  BY <1>27, <1>a DEF CancelKill
<1>28. ASSUME CancelWrapup, UNCHANGED setting PROVE ReapedIsDead'
  BY <1>28, <1>a DEF CancelWrapup
<1>29. ASSUME CancelMark, UNCHANGED setting PROVE ReapedIsDead'
  BY <1>29, <1>a DEF CancelMark
<1>30. ASSUME CancelPoll, UNCHANGED setting PROVE ReapedIsDead'
  BY <1>30, <1>a DEF CancelPoll
<1>31. ASSUME CancelUsesNone, UNCHANGED setting PROVE ReapedIsDead'
  BY <1>31, <1>a DEF CancelUsesNone
<1>32. ASSUME CancelSetStatus, UNCHANGED setting PROVE ReapedIsDead'
  BY <1>32, <1>a DEF CancelSetStatus
<1>33. ASSUME CancelKilling, UNCHANGED setting PROVE ReapedIsDead'
  BY <1>33, <1>a DEF CancelKilling
<1>34. ASSUME CancelSignal, UNCHANGED setting PROVE ReapedIsDead'
  BY <1>34, <1>a DEF CancelSignal
<1>35. ASSUME CancelDying, UNCHANGED setting PROVE ReapedIsDead'
  BY <1>35, <1>a DEF CancelDying
<1>36. ASSUME StatusReaps, UNCHANGED setting PROVE ReapedIsDead'
  BY <1>36, <1>a DEF StatusReaps
<1>37. ASSUME StatusLeaves, UNCHANGED setting PROVE ReapedIsDead'
  BY <1>37, <1>a DEF StatusLeaves
<1>38. ASSUME StatusSet, UNCHANGED setting PROVE ReapedIsDead'
  BY <1>38, <1>a DEF StatusSet
<1>39. ASSUME CancelRequest, UNCHANGED setting PROVE ReapedIsDead'
  BY <1>39, <1>a DEF CancelRequest
<1>40. ASSUME StatusRequest, UNCHANGED setting PROVE ReapedIsDead'
  BY <1>40, <1>a DEF StatusRequest
<1>41. CASE UNCHANGED vars
  BY <1>41, <1>a DEF vars
<1> QED BY <1>1, <1>2, <1>3, <1>4, <1>5, <1>6, <1>7, <1>8, <1>9, <1>10, <1>11, <1>12, <1>13,
           <1>14, <1>15, <1>16, <1>17, <1>18, <1>19, <1>20, <1>21, <1>22, <1>23, <1>24, <1>25,
           <1>26, <1>27, <1>28, <1>29, <1>30, <1>31, <1>32, <1>33, <1>34, <1>35, <1>36, <1>37,
           <1>38, <1>39, <1>40, <1>41 DEF Next, Worker, Reader, Cancel, StatusThread, Client,
           Terminated

LEMMA LiveStep ==
  ASSUME Typed, StartsInOrder, ReapedIsDead, LiveIsKnown, [Next]_vars
  PROVE  LiveIsKnown'
<1>a. RunTypes /\ Pointers /\ QueueOfFirst /\ StartsInOrder /\ table \subseteq Runs
      /\ ReapedIsDead /\ LiveIsKnown
  BY DEF Typed, ControllerTypes
<1> USE DEF LiveIsKnown, RunTypes, ToWorker, SetStatusTo, ToReader, ToCancel, Unlock, AfterRun, StatusDone, controllerVars, runVars, workerVars, cancelVars, statusVars
<1>1. ASSUME WorkerPop, UNCHANGED setting PROVE LiveIsKnown'
  BY <1>1, <1>a, QueueOperations DEF WorkerPop, StartsInOrder, QueueOfFirst
<1>2. ASSUME WorkerNoPop, UNCHANGED setting PROVE LiveIsKnown'
  BY <1>2, <1>a DEF WorkerNoPop
<1>3. ASSUME WorkerClaim, UNCHANGED setting PROVE LiveIsKnown'
  BY <1>3, <1>a DEF WorkerClaim
<1>4. ASSUME WorkerSpawn, UNCHANGED setting PROVE LiveIsKnown'
  BY <1>4, <1>a DEF WorkerSpawn, StartsInOrder
<1>5. ASSUME WorkerLaunch, UNCHANGED setting PROVE LiveIsKnown'
  BY <1>5, <1>a DEF WorkerLaunch, StartsInOrder
<1>6. ASSUME WorkerSetProcess, UNCHANGED setting PROVE LiveIsKnown'
  BY <1>6, <1>a DEF WorkerSetProcess, Pointers
<1>7. ASSUME WorkerStartReader, UNCHANGED setting PROVE LiveIsKnown'
  BY <1>7, <1>a DEF WorkerStartReader
<1>8. ASSUME WorkerRequeue, UNCHANGED setting PROVE LiveIsKnown'
  BY <1>8, <1>a DEF WorkerRequeue, StartsInOrder
<1>9. ASSUME WorkerParentEnd, UNCHANGED setting PROVE LiveIsKnown'
  BY <1>9, <1>a DEF WorkerParentEnd, StartsInOrder
<1>10. ASSUME WorkerParentWrapup, UNCHANGED setting PROVE LiveIsKnown'
  BY <1>10, <1>a DEF WorkerParentWrapup
<1>11. ASSUME WorkerIdle, UNCHANGED setting PROVE LiveIsKnown'
  BY <1>11, <1>a DEF WorkerIdle
<1>12. ASSUME WorkerFails, UNCHANGED setting PROVE LiveIsKnown'
  BY <1>12, <1>a DEF WorkerFails, FailPoints
<1>13. ASSUME WorkerExits, UNCHANGED setting PROVE LiveIsKnown'
  BY <1>13, <1>a DEF WorkerExits
<1>14. ASSUME NEW r \in Runs, ProcessEnds(r) PROVE LiveIsKnown'
  BY <1>14, <1>a DEF ProcessEnds
<1>15. ASSUME NEW r \in Runs, ReaderStops(r), UNCHANGED setting PROVE LiveIsKnown'
  BY <1>15, <1>a DEF ReaderStops
<1>16. ASSUME NEW r \in Runs, ReaderTest(r), UNCHANGED setting PROVE LiveIsKnown'
  BY <1>16, <1>a DEF ReaderTest
<1>17. ASSUME NEW r \in Runs, ReaderWait(r), UNCHANGED setting PROVE LiveIsKnown'
  BY <1>17, <1>a DEF ReaderWait
<1>18. ASSUME NEW r \in Runs, ReaderSetStatus(r), UNCHANGED setting PROVE LiveIsKnown'
  BY <1>18, <1>a DEF ReaderSetStatus, ReapedIsDead
<1>19. ASSUME NEW r \in Runs, ReaderWrapup(r), UNCHANGED setting PROVE LiveIsKnown'
  BY <1>19, <1>a DEF ReaderWrapup
<1>20. ASSUME NEW r \in Runs, ReaderMark(r), UNCHANGED setting PROVE LiveIsKnown'
  BY <1>20, <1>a DEF ReaderMark
<1>21. ASSUME NEW r \in Runs, ReaderFinish(r), UNCHANGED setting PROVE LiveIsKnown'
  BY <1>21, <1>a DEF ReaderFinish
<1>22. ASSUME NEW r \in Runs, ReaderDies(r), UNCHANGED setting PROVE LiveIsKnown'
  BY <1>22, <1>a DEF ReaderDies
<1>23. ASSUME NEW r \in Runs, ReaderExits(r), UNCHANGED setting PROVE LiveIsKnown'
  BY <1>23, <1>a DEF ReaderExits
<1>24. ASSUME CancelGrabQueue, UNCHANGED setting PROVE LiveIsKnown'
  BY <1>24, <1>a DEF CancelGrabQueue
<1>25. ASSUME CancelGrabRuns, UNCHANGED setting PROVE LiveIsKnown'
  BY <1>25, <1>a DEF CancelGrabRuns
<1>26. ASSUME CancelNext, UNCHANGED setting PROVE LiveIsKnown'
  BY <1>26, <1>a DEF CancelNext
<1>27. ASSUME CancelKill, UNCHANGED setting PROVE LiveIsKnown'
  BY <1>27, <1>a DEF CancelKill, Pointers
<1>28. ASSUME CancelWrapup, UNCHANGED setting PROVE LiveIsKnown'
  BY <1>28, <1>a DEF CancelWrapup
<1>29. ASSUME CancelMark, UNCHANGED setting PROVE LiveIsKnown'
  BY <1>29, <1>a DEF CancelMark
<1>30. ASSUME CancelPoll, UNCHANGED setting PROVE LiveIsKnown'
  BY <1>30, <1>a DEF CancelPoll
<1>31. ASSUME CancelUsesNone, UNCHANGED setting PROVE LiveIsKnown'
  BY <1>31, <1>a DEF CancelUsesNone
<1>32. ASSUME CancelSetStatus, UNCHANGED setting PROVE LiveIsKnown'
  BY <1>32, <1>a DEF CancelSetStatus, ReapedIsDead
<1>33. ASSUME CancelKilling, UNCHANGED setting PROVE LiveIsKnown'
  BY <1>33, <1>a DEF CancelKilling
<1>34. ASSUME CancelSignal, UNCHANGED setting PROVE LiveIsKnown'
  BY <1>34, <1>a DEF CancelSignal
<1>35. ASSUME CancelDying, UNCHANGED setting PROVE LiveIsKnown'
  BY <1>35, <1>a DEF CancelDying, ReapedIsDead
<1>36. ASSUME StatusReaps, UNCHANGED setting PROVE LiveIsKnown'
  BY <1>36, <1>a DEF StatusReaps
<1>37. ASSUME StatusLeaves, UNCHANGED setting PROVE LiveIsKnown'
  BY <1>37, <1>a DEF StatusLeaves
<1>38. ASSUME StatusSet, UNCHANGED setting PROVE LiveIsKnown'
  BY <1>38, <1>a DEF StatusSet, ReapedIsDead
<1>39. ASSUME CancelRequest, UNCHANGED setting PROVE LiveIsKnown'
  BY <1>39, <1>a DEF CancelRequest
<1>40. ASSUME StatusRequest, UNCHANGED setting PROVE LiveIsKnown'
  BY <1>40, <1>a DEF StatusRequest
<1>41. CASE UNCHANGED vars
  BY <1>41, <1>a DEF vars
<1> QED BY <1>1, <1>2, <1>3, <1>4, <1>5, <1>6, <1>7, <1>8, <1>9, <1>10, <1>11, <1>12, <1>13,
           <1>14, <1>15, <1>16, <1>17, <1>18, <1>19, <1>20, <1>21, <1>22, <1>23, <1>24, <1>25,
           <1>26, <1>27, <1>28, <1>29, <1>30, <1>31, <1>32, <1>33, <1>34, <1>35, <1>36, <1>37,
           <1>38, <1>39, <1>40, <1>41 DEF Next, Worker, Reader, Cancel, StatusThread, Client,
           Terminated

-----------------------------------------------------------------------------
(***************************************************************************)
(* The concurrency limit                                                   *)
(***************************************************************************)

\* The worker has found room for the run it is about to start: the others that
\* are called running are fewer than the limit.
Starting == {"claim", "spawn", "launch"}
OtherRuns == IF wpc = "launch" THEN RunningRuns \ {wrun} ELSE RunningRuns
RoomForOne == wpc \in Starting => Cardinality(OtherRuns) < setting.concurrent

\* The processes that count.
Counted == {r \in Runs : proc[r] = "alive" /\ ~killing[r]}

LEMMA TableFinite ==
  ASSUME Typed, StartsInOrder
  PROVE  IsFiniteSet(table) /\ setting.concurrent \in Nat \ {0}
<1>1. spawned \in Nat /\ setting.concurrent \in Nat \ {0}
  BY FirstIsNoChild DEF Typed, ControllerTypes
<1>2. table \subseteq 0 .. spawned
  <2> SUFFICES ASSUME NEW r \in table PROVE r \in 0 .. spawned
    OBVIOUS
  <2>1. CASE r \in Children
    BY <1>1, <2>1, FirstIsNoChild DEF StartsInOrder
  <2>2. CASE r = First
    BY <1>1, <2>2 DEF First
  <2> QED BY <2>1, <2>2 DEF Typed, ControllerTypes, Runs
<1>3. IsFiniteSet(0 .. spawned)
  BY <1>1, FS_Interval
<1> QED BY <1>1, <1>2, <1>3, FS_Subset

LEMMA CountedInTable == ASSUME Typed, LiveIsKnown PROVE Counted \subseteq table
BY DEF Typed, Pointers, LiveIsKnown, Counted

LEMMA OtherRunsStep ==
  ASSUME Typed, StartsInOrder, [Next]_vars
  PROVE  wpc' \in Starting =>
           /\ OtherRuns' \subseteq OtherRuns
           /\ wpc \in Starting \/ Cardinality(OtherRuns) < setting.concurrent
<1> DEFINE G == wpc' \in Starting =>
                  /\ OtherRuns' \subseteq OtherRuns
                  /\ wpc \in Starting \/ Cardinality(OtherRuns) < setting.concurrent
<1>a. RunTypes /\ Pointers /\ table \subseteq Runs /\ QueueOfFirst
  BY DEF Typed, ControllerTypes
<1>b. \A r : FinalStatus(r) # "running"
  BY StatusesKnown DEF Finals
<1> SUFFICES G
  OBVIOUS
<1> USE DEF OtherRuns, RunningRuns, Starting, RunTypes, ToWorker, SetStatusTo, ToReader, ToCancel, Unlock, AfterRun, StatusDone, controllerVars, runVars, workerVars, cancelVars, statusVars
<1>1. ASSUME WorkerPop, UNCHANGED setting PROVE G
  BY <1>1, <1>a, <1>b DEF WorkerPop
<1>2. ASSUME WorkerNoPop, UNCHANGED setting PROVE G
  BY <1>2, <1>a, <1>b DEF WorkerNoPop
<1>3. ASSUME WorkerClaim, UNCHANGED setting PROVE G
  BY <1>3, <1>a, <1>b DEF WorkerClaim
<1>4. ASSUME WorkerSpawn, UNCHANGED setting PROVE G
  BY <1>4, <1>a, <1>b DEF WorkerSpawn
<1>5. ASSUME WorkerLaunch, UNCHANGED setting PROVE G
  BY <1>5, <1>a, <1>b DEF WorkerLaunch
<1>6. ASSUME WorkerSetProcess, UNCHANGED setting PROVE G
  BY <1>6, <1>a, <1>b DEF WorkerSetProcess
<1>7. ASSUME WorkerStartReader, UNCHANGED setting PROVE G
  BY <1>7, <1>a, <1>b DEF WorkerStartReader
<1>8. ASSUME WorkerRequeue, UNCHANGED setting PROVE G
  BY <1>8, <1>a, <1>b DEF WorkerRequeue
<1>9. ASSUME WorkerParentEnd, UNCHANGED setting PROVE G
  BY <1>9, <1>a, <1>b DEF WorkerParentEnd
<1>10. ASSUME WorkerParentWrapup, UNCHANGED setting PROVE G
  BY <1>10, <1>a, <1>b DEF WorkerParentWrapup
<1>11. ASSUME WorkerIdle, UNCHANGED setting PROVE G
  BY <1>11, <1>a, <1>b DEF WorkerIdle
<1>12. ASSUME WorkerFails, UNCHANGED setting PROVE G
  BY <1>12, <1>a, <1>b DEF WorkerFails
<1>13. ASSUME WorkerExits, UNCHANGED setting PROVE G
  BY <1>13, <1>a, <1>b DEF WorkerExits
<1>14. ASSUME NEW r \in Runs, ProcessEnds(r) PROVE G
  BY <1>14, <1>a, <1>b DEF ProcessEnds
<1>15. ASSUME NEW r \in Runs, ReaderStops(r), UNCHANGED setting PROVE G
  BY <1>15, <1>a, <1>b DEF ReaderStops
<1>16. ASSUME NEW r \in Runs, ReaderTest(r), UNCHANGED setting PROVE G
  BY <1>16, <1>a, <1>b DEF ReaderTest
<1>17. ASSUME NEW r \in Runs, ReaderWait(r), UNCHANGED setting PROVE G
  BY <1>17, <1>a, <1>b DEF ReaderWait
<1>18. ASSUME NEW r \in Runs, ReaderSetStatus(r), UNCHANGED setting PROVE G
  BY <1>18, <1>a, <1>b DEF ReaderSetStatus
<1>19. ASSUME NEW r \in Runs, ReaderWrapup(r), UNCHANGED setting PROVE G
  BY <1>19, <1>a, <1>b DEF ReaderWrapup
<1>20. ASSUME NEW r \in Runs, ReaderMark(r), UNCHANGED setting PROVE G
  BY <1>20, <1>a, <1>b DEF ReaderMark
<1>21. ASSUME NEW r \in Runs, ReaderFinish(r), UNCHANGED setting PROVE G
  BY <1>21, <1>a, <1>b DEF ReaderFinish
<1>22. ASSUME NEW r \in Runs, ReaderDies(r), UNCHANGED setting PROVE G
  BY <1>22, <1>a, <1>b DEF ReaderDies
<1>23. ASSUME NEW r \in Runs, ReaderExits(r), UNCHANGED setting PROVE G
  BY <1>23, <1>a, <1>b DEF ReaderExits
<1>24. ASSUME CancelGrabQueue, UNCHANGED setting PROVE G
  BY <1>24, <1>a, <1>b DEF CancelGrabQueue, Pointers
<1>25. ASSUME CancelGrabRuns, UNCHANGED setting PROVE G
  BY <1>25, <1>a, <1>b DEF CancelGrabRuns, Pointers
<1>26. ASSUME CancelNext, UNCHANGED setting PROVE G
  BY <1>26, <1>a, <1>b DEF CancelNext, Pointers
<1>27. ASSUME CancelKill, UNCHANGED setting PROVE G
  BY <1>27, <1>a, <1>b DEF CancelKill, Pointers
<1>28. ASSUME CancelWrapup, UNCHANGED setting PROVE G
  BY <1>28, <1>a, <1>b DEF CancelWrapup, Pointers
<1>29. ASSUME CancelMark, UNCHANGED setting PROVE G
  BY <1>29, <1>a, <1>b DEF CancelMark, Pointers
<1>30. ASSUME CancelPoll, UNCHANGED setting PROVE G
  BY <1>30, <1>a, <1>b DEF CancelPoll, Pointers
<1>31. ASSUME CancelUsesNone, UNCHANGED setting PROVE G
  BY <1>31, <1>a, <1>b DEF CancelUsesNone, Pointers
<1>32. ASSUME CancelSetStatus, UNCHANGED setting PROVE G
  BY <1>32, <1>a, <1>b DEF CancelSetStatus, Pointers
<1>33. ASSUME CancelKilling, UNCHANGED setting PROVE G
  BY <1>33, <1>a, <1>b DEF CancelKilling, Pointers
<1>34. ASSUME CancelSignal, UNCHANGED setting PROVE G
  BY <1>34, <1>a, <1>b DEF CancelSignal, Pointers
<1>35. ASSUME CancelDying, UNCHANGED setting PROVE G
  BY <1>35, <1>a, <1>b DEF CancelDying, Pointers
<1>36. ASSUME StatusReaps, UNCHANGED setting PROVE G
  BY <1>36, <1>a, <1>b DEF StatusReaps
<1>37. ASSUME StatusLeaves, UNCHANGED setting PROVE G
  BY <1>37, <1>a, <1>b DEF StatusLeaves
<1>38. ASSUME StatusSet, UNCHANGED setting PROVE G
  BY <1>38, <1>a, <1>b DEF StatusSet, Pointers
<1>39. ASSUME CancelRequest, UNCHANGED setting PROVE G
  BY <1>39, <1>a, <1>b DEF CancelRequest
<1>40. ASSUME StatusRequest, UNCHANGED setting PROVE G
  BY <1>40, <1>a, <1>b DEF StatusRequest
<1>41. CASE UNCHANGED vars
  BY <1>41, <1>a, <1>b DEF vars
<1> QED BY <1>1, <1>2, <1>3, <1>4, <1>5, <1>6, <1>7, <1>8, <1>9, <1>10, <1>11, <1>12, <1>13,
           <1>14, <1>15, <1>16, <1>17, <1>18, <1>19, <1>20, <1>21, <1>22, <1>23, <1>24, <1>25,
           <1>26, <1>27, <1>28, <1>29, <1>30, <1>31, <1>32, <1>33, <1>34, <1>35, <1>36, <1>37,
           <1>38, <1>39, <1>40, <1>41 DEF Next, Worker, Reader, Cancel, StatusThread, Client,
           Terminated

LEMMA CountedStep ==
  ASSUME Typed, StartsInOrder, LiveIsKnown, [Next]_vars
  PROVE  \/ Counted' \subseteq Counted
         \/ wpc = "launch" /\ Counted' \subseteq OtherRuns \cup {wrun} /\ UNCHANGED setting
<1> DEFINE G == \/ Counted' \subseteq Counted
                \/ wpc = "launch" /\ Counted' \subseteq OtherRuns \cup {wrun} /\ UNCHANGED setting
<1>a. RunTypes /\ Pointers /\ table \subseteq Runs /\ LiveIsKnown
  BY DEF Typed, ControllerTypes
<1> SUFFICES G
  OBVIOUS
<1> USE DEF Counted, RunTypes, controllerVars, runVars, workerVars, cancelVars, statusVars
<1>1. ASSUME WorkerPop, UNCHANGED setting PROVE G
  BY <1>1, <1>a DEF WorkerPop
<1>2. ASSUME WorkerNoPop, UNCHANGED setting PROVE G
  BY <1>2, <1>a DEF WorkerNoPop
<1>3. ASSUME WorkerClaim, UNCHANGED setting PROVE G
  BY <1>3, <1>a DEF WorkerClaim
<1>4. ASSUME WorkerSpawn, UNCHANGED setting PROVE G
  BY <1>4, <1>a DEF WorkerSpawn
<1>5. ASSUME WorkerLaunch, UNCHANGED setting PROVE G
  BY <1>5, <1>a DEF WorkerLaunch, OtherRuns, RunningRuns, LiveIsKnown
<1>6. ASSUME WorkerSetProcess, UNCHANGED setting PROVE G
  BY <1>6, <1>a DEF WorkerSetProcess
<1>7. ASSUME WorkerStartReader, UNCHANGED setting PROVE G
  BY <1>7, <1>a DEF WorkerStartReader
<1>8. ASSUME WorkerRequeue, UNCHANGED setting PROVE G
  BY <1>8, <1>a DEF WorkerRequeue
<1>9. ASSUME WorkerParentEnd, UNCHANGED setting PROVE G
  BY <1>9, <1>a DEF WorkerParentEnd
<1>10. ASSUME WorkerParentWrapup, UNCHANGED setting PROVE G
  BY <1>10, <1>a DEF WorkerParentWrapup
<1>11. ASSUME WorkerIdle, UNCHANGED setting PROVE G
  BY <1>11, <1>a DEF WorkerIdle
<1>12. ASSUME WorkerFails, UNCHANGED setting PROVE G
  BY <1>12, <1>a DEF WorkerFails
<1>13. ASSUME WorkerExits, UNCHANGED setting PROVE G
  BY <1>13, <1>a DEF WorkerExits
<1>14. ASSUME NEW r \in Runs, ProcessEnds(r) PROVE G
  BY <1>14, <1>a DEF ProcessEnds
<1>15. ASSUME NEW r \in Runs, ReaderStops(r), UNCHANGED setting PROVE G
  BY <1>15, <1>a DEF ReaderStops
<1>16. ASSUME NEW r \in Runs, ReaderTest(r), UNCHANGED setting PROVE G
  BY <1>16, <1>a DEF ReaderTest
<1>17. ASSUME NEW r \in Runs, ReaderWait(r), UNCHANGED setting PROVE G
  BY <1>17, <1>a DEF ReaderWait
<1>18. ASSUME NEW r \in Runs, ReaderSetStatus(r), UNCHANGED setting PROVE G
  BY <1>18, <1>a DEF ReaderSetStatus
<1>19. ASSUME NEW r \in Runs, ReaderWrapup(r), UNCHANGED setting PROVE G
  BY <1>19, <1>a DEF ReaderWrapup
<1>20. ASSUME NEW r \in Runs, ReaderMark(r), UNCHANGED setting PROVE G
  BY <1>20, <1>a DEF ReaderMark
<1>21. ASSUME NEW r \in Runs, ReaderFinish(r), UNCHANGED setting PROVE G
  BY <1>21, <1>a DEF ReaderFinish
<1>22. ASSUME NEW r \in Runs, ReaderDies(r), UNCHANGED setting PROVE G
  BY <1>22, <1>a DEF ReaderDies
<1>23. ASSUME NEW r \in Runs, ReaderExits(r), UNCHANGED setting PROVE G
  BY <1>23, <1>a DEF ReaderExits
<1>24. ASSUME CancelGrabQueue, UNCHANGED setting PROVE G
  BY <1>24, <1>a DEF CancelGrabQueue
<1>25. ASSUME CancelGrabRuns, UNCHANGED setting PROVE G
  BY <1>25, <1>a DEF CancelGrabRuns
<1>26. ASSUME CancelNext, UNCHANGED setting PROVE G
  BY <1>26, <1>a DEF CancelNext
<1>27. ASSUME CancelKill, UNCHANGED setting PROVE G
  BY <1>27, <1>a DEF CancelKill
<1>28. ASSUME CancelWrapup, UNCHANGED setting PROVE G
  BY <1>28, <1>a DEF CancelWrapup
<1>29. ASSUME CancelMark, UNCHANGED setting PROVE G
  BY <1>29, <1>a DEF CancelMark
<1>30. ASSUME CancelPoll, UNCHANGED setting PROVE G
  BY <1>30, <1>a DEF CancelPoll
<1>31. ASSUME CancelUsesNone, UNCHANGED setting PROVE G
  BY <1>31, <1>a DEF CancelUsesNone
<1>32. ASSUME CancelSetStatus, UNCHANGED setting PROVE G
  BY <1>32, <1>a DEF CancelSetStatus
<1>33. ASSUME CancelKilling, UNCHANGED setting PROVE G
  BY <1>33, <1>a DEF CancelKilling, Pointers
<1>34. ASSUME CancelSignal, UNCHANGED setting PROVE G
  BY <1>34, <1>a DEF CancelSignal, Pointers
<1>35. ASSUME CancelDying, UNCHANGED setting PROVE G
  BY <1>35, <1>a DEF CancelDying
<1>36. ASSUME StatusReaps, UNCHANGED setting PROVE G
  BY <1>36, <1>a DEF StatusReaps
<1>37. ASSUME StatusLeaves, UNCHANGED setting PROVE G
  BY <1>37, <1>a DEF StatusLeaves
<1>38. ASSUME StatusSet, UNCHANGED setting PROVE G
  BY <1>38, <1>a DEF StatusSet
<1>39. ASSUME CancelRequest, UNCHANGED setting PROVE G
  BY <1>39, <1>a DEF CancelRequest
<1>40. ASSUME StatusRequest, UNCHANGED setting PROVE G
  BY <1>40, <1>a DEF StatusRequest
<1>41. CASE UNCHANGED vars
  BY <1>41, <1>a DEF vars
<1> QED BY <1>1, <1>2, <1>3, <1>4, <1>5, <1>6, <1>7, <1>8, <1>9, <1>10, <1>11, <1>12, <1>13,
           <1>14, <1>15, <1>16, <1>17, <1>18, <1>19, <1>20, <1>21, <1>22, <1>23, <1>24, <1>25,
           <1>26, <1>27, <1>28, <1>29, <1>30, <1>31, <1>32, <1>33, <1>34, <1>35, <1>36, <1>37,
           <1>38, <1>39, <1>40, <1>41 DEF Next, Worker, Reader, Cancel, StatusThread, Client,
           Terminated

LEMMA SettingKept == [Next]_vars => UNCHANGED setting
BY DEF Next, Worker, ProcessEnds, Reader, Cancel, StatusThread, Client, Terminated, vars

LEMMA RoomStep ==
  ASSUME Typed, StartsInOrder, RoomForOne, [Next]_vars
  PROVE  RoomForOne'
<1>1. IsFiniteSet(table) /\ setting.concurrent \in Nat
  BY TableFinite
<1>2. OtherRuns \subseteq table
  BY DEF OtherRuns, RunningRuns
<1>3. IsFiniteSet(OtherRuns)
  BY <1>1, <1>2, FS_Subset
<1> SUFFICES ASSUME wpc' \in Starting
             PROVE  Cardinality(OtherRuns)' < setting'.concurrent
  BY DEF RoomForOne
<1>4. OtherRuns' \subseteq OtherRuns /\ Cardinality(OtherRuns) < setting.concurrent
  BY OtherRunsStep DEF RoomForOne
<1>5. Cardinality(OtherRuns') <= Cardinality(OtherRuns)
      /\ Cardinality(OtherRuns') \in Nat /\ Cardinality(OtherRuns) \in Nat
  BY <1>3, <1>4, FS_Subset, FS_CardinalityType
<1>6. setting' = setting
  BY SettingKept
<1> QED BY <1>1, <1>4, <1>5, <1>6

ProcessInv ==
  Typed /\ StartsInOrder /\ ReapedIsDead /\ LiveIsKnown /\ RoomForOne /\ ConcurrencyLimit

LEMMA ProcessInit == Init => ProcessInv
<1> SUFFICES ASSUME Init PROVE ProcessInv
  OBVIOUS
<1>1. Typed /\ StartsInOrder /\ ReapedIsDead /\ LiveIsKnown
  BY TypeInit, StartsInit, LiveInit
<1>2. Counted = {}
  BY DEF Counted, Init
<1>3. Cardinality(Counted) = 0 /\ setting.concurrent \in Nat \ {0}
  BY <1>2, FS_EmptySet, FirstIsNoChild DEF Init
<1>4. RoomForOne
  BY DEF RoomForOne, Starting, Init
<1> QED BY <1>1, <1>3, <1>4 DEF ProcessInv, ConcurrencyLimit, Counted

LEMMA ProcessStep ==
  ASSUME ProcessInv, [Next]_vars
  PROVE  ProcessInv'
<1>1. Typed' /\ StartsInOrder' /\ ReapedIsDead' /\ LiveIsKnown' /\ RoomForOne'
  BY TypeStep, StartsStep, ReapedStep, LiveStep, RoomStep DEF ProcessInv
<1>2. Typed /\ StartsInOrder /\ LiveIsKnown /\ RoomForOne /\ ConcurrencyLimit
  BY DEF ProcessInv
<1>3. setting' = setting /\ setting.concurrent \in Nat /\ IsFiniteSet(table)
  BY <1>2, SettingKept, TableFinite
<1>4. IsFiniteSet(Counted) /\ Cardinality(Counted) \in Nat
  BY <1>2, <1>3, CountedInTable, FS_Subset, FS_CardinalityType
<1>5. Cardinality(Counted) <= setting.concurrent
  BY <1>2 DEF ConcurrencyLimit, Counted
<1>6. CASE Counted' \subseteq Counted
  <2>1. Cardinality(Counted') <= Cardinality(Counted) /\ Cardinality(Counted') \in Nat
    BY <1>4, <1>6, FS_Subset, FS_CardinalityType
  <2>2. Cardinality(Counted') <= setting'.concurrent
    BY <1>3, <1>4, <1>5, <2>1
  <2> QED BY <1>1, <2>2 DEF ProcessInv, ConcurrencyLimit, Counted
<1>7. CASE wpc = "launch" /\ Counted' \subseteq OtherRuns \cup {wrun}
  <2> DEFINE more == OtherRuns \cup {wrun}
  <2>1. IsFiniteSet(OtherRuns) /\ wrun \notin OtherRuns /\ Cardinality(OtherRuns) \in Nat
    BY <1>3, <1>7, FS_Subset, FS_CardinalityType DEF OtherRuns, RunningRuns
  <2>2. IsFiniteSet(more) /\ Cardinality(more) = Cardinality(OtherRuns) + 1
    BY <2>1, FS_AddElement
  <2>3. Cardinality(Counted') <= Cardinality(more) /\ Cardinality(Counted') \in Nat
    BY <1>7, <2>2, FS_Subset, FS_CardinalityType
  <2>4. Cardinality(OtherRuns) < setting.concurrent
    BY <1>2, <1>7 DEF RoomForOne, Starting
  <2>5. Cardinality(Counted') <= setting'.concurrent
    BY <1>3, <2>1, <2>2, <2>3, <2>4
  <2> QED BY <1>1, <2>5 DEF ProcessInv, ConcurrencyLimit, Counted
<1> QED BY <1>2, <1>6, <1>7, CountedStep

\* The concurrency limit (process_top_of_queue) holds whatever the cancel and
\* status threads, exceptions and restarted queue entries do in between.
THEOREM LimitIsKept == Spec => []ConcurrencyLimit
<1>1. ProcessInv => ConcurrencyLimit
  BY DEF ProcessInv
<1> QED BY <1>1, ProcessInit, ProcessStep, PTL DEF Spec

-----------------------------------------------------------------------------
(***************************************************************************)
(* The end of the controller                                               *)
(***************************************************************************)
LEMMA ExitStep ==
  ASSUME [Next]_vars, life' = "exited"
  PROVE  \/ /\ life = "exited"
            /\ UNCHANGED <<table, status, killing, wrapups>>
            /\ \/ UNCHANGED proc
               \/ \E r \in Runs : proc[r] = "alive" /\ proc' = [proc EXCEPT ![r] = "dead"]
         \/ /\ wpc = "idle" /\ RunningRuns = {} /\ (setting.timely => WrapupsOver)
            /\ UNCHANGED <<table, status, killing, proc, wrapups>>
<1> DEFINE G == \/ /\ life = "exited"
                   /\ UNCHANGED <<table, status, killing, wrapups>>
                   /\ \/ UNCHANGED proc
                      \/ \E r \in Runs : proc[r] = "alive" /\ proc' = [proc EXCEPT ![r] = "dead"]
                \/ /\ wpc = "idle" /\ RunningRuns = {} /\ (setting.timely => WrapupsOver)
                   /\ UNCHANGED <<table, status, killing, proc, wrapups>>
<1> USE DEF controllerVars, runVars, workerVars, cancelVars, statusVars
<1> SUFFICES G
  OBVIOUS
<1>1. CASE UNCHANGED vars
  BY <1>1 DEF vars
<1>2. CASE \E r \in Runs : ProcessEnds(r)
  BY <1>2 DEF ProcessEnds
<1>3. CASE Worker
  <2>1. CASE WorkerIdle
    BY <1>3, <2>1 DEF WorkerIdle
  <2>2. CASE WorkerExits
    BY <2>2 DEF WorkerExits
  <2>3. CASE ~WorkerIdle /\ ~WorkerExits
    BY <1>3, <2>3 DEF Worker, WorkerPop, WorkerNoPop, WorkerClaim, WorkerSpawn, WorkerLaunch,
          WorkerSetProcess, WorkerStartReader, WorkerRequeue, WorkerParentEnd,
          WorkerParentWrapup, WorkerFails
  <2> QED BY <2>1, <2>2, <2>3
<1>4. CASE \E r \in Runs : Reader(r)
  BY <1>4 DEF Reader, ReaderStops, ReaderTest, ReaderWait, ReaderSetStatus, ReaderWrapup,
        ReaderMark, ReaderFinish, ReaderDies, ReaderExits
<1>5. CASE Cancel
  BY <1>5 DEF Cancel, CancelGrabQueue, CancelGrabRuns, CancelNext, CancelKill, CancelWrapup,
        CancelMark, CancelPoll, CancelUsesNone, CancelSetStatus, CancelKilling, CancelSignal,
        CancelDying
<1>6. CASE StatusThread \/ Client
  BY <1>6 DEF StatusThread, StatusReaps, StatusLeaves, StatusSet, Client, CancelRequest,
        StatusRequest
<1> QED BY <1>1, <1>2, <1>3, <1>4, <1>5, <1>6 DEF Next, Terminated

\* When the controller shuts down, every process it started has ended or is
\* about to be killed: no run of the table is called running any more, and a
\* live process that is not being killed would be (on_idle).
THEOREM NoProcessIsOrphaned == Spec => []NoOrphanProcess
<1>1. Init => NoOrphanProcess
  BY DEF Init, NoOrphanProcess
<1>2. ASSUME ProcessInv, NoOrphanProcess, [Next]_vars PROVE NoOrphanProcess'
  <2>1. RunTypes /\ LiveIsKnown
    BY <1>2 DEF ProcessInv, Typed
  <2> SUFFICES ASSUME life' = "exited", NEW r \in Runs, proc'[r] = "alive"
               PROVE  killing'[r]
    BY DEF NoOrphanProcess
  <2>2. CASE /\ life = "exited" /\ UNCHANGED <<table, status, killing, wrapups>>
             /\ \/ UNCHANGED proc
                \/ \E q \in Runs : proc[q] = "alive" /\ proc' = [proc EXCEPT ![q] = "dead"]
    BY <1>2, <2>1, <2>2 DEF NoOrphanProcess, RunTypes
  <2>3. CASE wpc = "idle" /\ RunningRuns = {} /\ UNCHANGED <<table, status, killing, proc>>
    BY <2>1, <2>3 DEF LiveIsKnown, RunningRuns
  <2> QED BY <1>2, <2>2, <2>3, ExitStep
<1> QED BY <1>1, <1>2, ProcessInit, ProcessStep, PTL DEF Spec

-----------------------------------------------------------------------------
(***************************************************************************)
(* Readers and wrapups of a controller that no client disturbs             *)
(***************************************************************************)
Alone == xpc = "off" /\ spc = "off" /\ xcount = 0 /\ \A r \in Runs : ~killing[r]

LEMMA AloneInit == Init => Alone
BY DEF Init, Alone

LEMMA QuietStep ==
  ASSUME Typed, Undisturbed, Alone, [Next]_vars
  PROVE  /\ Alone' /\ Undisturbed'
         /\ Worker \/ (\E q \in Runs : ProcessEnds(q) \/ Reader(q)) \/ UNCHANGED vars
<1> USE DEF Alone, Undisturbed, controllerVars, runVars, workerVars, cancelVars, statusVars
<1>1. ~Cancel /\ ~StatusThread /\ ~Client
  <2>1. ~CancelRequest /\ ~StatusRequest
    BY FirstIsNoChild DEF CancelRequest, StatusRequest, Typed, ControllerTypes
  <2>2. ~Cancel
    BY DEF Cancel, CancelGrabQueue, CancelGrabRuns, CancelNext, CancelKill, CancelWrapup,
       CancelMark, CancelPoll, CancelUsesNone, CancelSetStatus, CancelKilling, CancelSignal,
       CancelDying
  <2>3. ~StatusThread
    BY DEF StatusThread, StatusReaps, StatusLeaves, StatusSet
  <2> QED BY <2>1, <2>2, <2>3 DEF Client
<1>2. Worker \/ (\E q \in Runs : ProcessEnds(q) \/ Reader(q)) \/ UNCHANGED vars
  BY <1>1 DEF Next, Terminated
<1>3. ASSUME Worker PROVE UNCHANGED <<xpc, spc, xcount, killing>>
  BY <1>3 DEF Worker, WorkerPop, WorkerNoPop, WorkerClaim, WorkerSpawn, WorkerLaunch,
     WorkerSetProcess, WorkerStartReader, WorkerRequeue, WorkerParentEnd, WorkerParentWrapup,
     WorkerIdle, WorkerFails, WorkerExits
<1>4. ASSUME NEW q \in Runs, Reader(q) PROVE UNCHANGED <<xpc, spc, xcount, killing>>
  BY <1>4 DEF Reader, ReaderStops, ReaderTest, ReaderWait, ReaderSetStatus, ReaderWrapup,
     ReaderMark, ReaderFinish, ReaderDies, ReaderExits
<1>5. ASSUME NEW q \in Runs, ProcessEnds(q) PROVE UNCHANGED <<xpc, spc, xcount, killing>>
  BY <1>5 DEF ProcessEnds
<1>6. UNCHANGED vars => UNCHANGED <<xpc, spc, xcount, killing>>
  BY DEF vars
<1>7. UNCHANGED <<xpc, spc, xcount, killing>>
  BY <1>2, <1>3, <1>4, <1>5, <1>6
<1> QED BY <1>2, <1>7, SettingKept

\* The worker has the run in its hands, from the claim to the reader thread.
OnItsWay(r) == wrun = r /\ wpc \in {"spawn", "launch", "setProcess", "startReader"}

\* A reader thread exists from the end of the start on; it finds the process,
\* reaps it once, and has the final status before it wraps the run up.
ReaderAt(r) ==
  /\ rpc[r] \notin {"failing", "postWait", "postSetStatus"}
  /\ rpc[r] \in {"reading", "test", "wait"} => handle[r]
  /\ rpc[r] \in {"setStatus", "wrapup", "mark", "post"} => ~handle[r]
  /\ rpc[r] = "wrapup" => status[r] \in Finals
  /\ rpc[r] # "none" => ~OnItsWay(r)
  /\ wpc = "startReader" /\ wrun = r => handle[r]
  /\ proc[r] # "none" => rpc[r] # "none" \/ OnItsWay(r)

ReadersInOrder ==
  /\ \A r \in Runs : ReaderAt(r)
  /\ \A r \in Children : r > spawned => rpc[r] = "none"
  /\ IsParent \/ queue # <<>> => rpc[First] = "none"

\* The reader wraps its run up, and marks a child, once; a parent, which has no
\* reader, is wrapped up when the queue is empty for good.
BeforeWrapup == {"none", "reading", "test", "wait", "setStatus", "wrapup"}
OneEnd == {<<>>} \cup {<<s>> : s \in Finals}
WrappedOnce(r) ==
  /\ wrapups[r] \in OneEnd
  /\ rpc[r] \in BeforeWrapup => r \notin marked /\ (wrapups[r] = <<>> \/ (r = First /\ IsParent))
  /\ rpc[r] = "mark" => r \notin marked
  /\ rpc[r] \notin BeforeWrapup => wrapups[r] # <<>>

ParentInOrder ==
  /\ wpc = "parentWrapup" => status[First] = "completed"
  /\ IsParent /\ wrapups[First] # <<>> => queue = <<>> /\ wpc \in {"check", "idle", "stopped"}

WrapupsInOrder == (\A r \in Runs : WrappedOnce(r)) /\ ParentInOrder

LEMMA ReadersInit == Init => ReadersInOrder /\ WrapupsInOrder
BY FirstIsNoChild DEF Init, ReadersInOrder, ReaderAt, OnItsWay, WrapupsInOrder, WrappedOnce,
   ParentInOrder, OneEnd, BeforeWrapup

LEMMA ReadersStep ==
  ASSUME Typed, StartsInOrder, ReapedIsDead, LiveIsKnown, Undisturbed, Alone, ReadersInOrder,
         WrapupsInOrder, [Next]_vars
  PROVE  ReadersInOrder'
<1>a. /\ RunTypes /\ Pointers /\ QueueOfFirst /\ StartsInOrder /\ table \subseteq Runs
      /\ ReadersInOrder /\ spawned \in Nat /\ First \in Runs \ Children /\ Children \subseteq Runs
      /\ Children \subseteq Nat
  BY FirstIsNoChild DEF Typed, ControllerTypes
<1>b. \A r \in Runs : rpc[r] = "mark" => r \notin marked
  BY DEF WrapupsInOrder, WrappedOnce
<1>c. \A r : FinalStatus(r) \in Finals
  BY StatusesKnown
<1> USE DEF ReadersInOrder, ReaderAt, OnItsWay, RunTypes, ToWorker, SetStatusTo, ToReader, controllerVars, runVars, workerVars, cancelVars, statusVars
<1>1. ASSUME WorkerPop, life = "up" PROVE ReadersInOrder'
  BY <1>1, <1>a, QueueOperations DEF WorkerPop, StartsInOrder, QueueOfFirst
<1>2. ASSUME WorkerNoPop, life = "up" PROVE ReadersInOrder'
  BY <1>2, <1>a DEF WorkerNoPop
<1>3. ASSUME WorkerClaim, life = "up" PROVE ReadersInOrder'
  BY <1>3, <1>a, SpawnedIsChild DEF WorkerClaim, StartsInOrder, Typed
<1>4. ASSUME WorkerSpawn, life = "up" PROVE ReadersInOrder'
  BY <1>4, <1>a DEF WorkerSpawn, Pointers, StartsInOrder
<1>5. ASSUME WorkerLaunch, life = "up" PROVE ReadersInOrder'
  BY <1>5, <1>a DEF WorkerLaunch, Pointers, StartsInOrder
<1>6. ASSUME WorkerSetProcess, life = "up" PROVE ReadersInOrder'
  BY <1>6, <1>a DEF WorkerSetProcess, Pointers
<1>7. ASSUME WorkerStartReader, life = "up" PROVE ReadersInOrder'
  BY <1>7, <1>a DEF WorkerStartReader, Pointers, StartsInOrder, QueueOfFirst
<1>8. ASSUME WorkerRequeue, life = "up" PROVE ReadersInOrder'
  BY <1>8, <1>a DEF WorkerRequeue, StartsInOrder, QueueOfFirst
<1>9. ASSUME WorkerParentEnd, life = "up" PROVE ReadersInOrder'
  BY <1>9, <1>a DEF WorkerParentEnd, StartsInOrder
<1>10. ASSUME WorkerParentWrapup, life = "up" PROVE ReadersInOrder'
  BY <1>10, <1>a DEF WorkerParentWrapup
<1>11. ASSUME WorkerIdle, life = "up" PROVE ReadersInOrder'
  BY <1>11, <1>a DEF WorkerIdle
<1>12. ASSUME WorkerFails, life = "up" PROVE ReadersInOrder'
  BY <1>12, <1>a DEF WorkerFails, FailPoints, CannotLaunch, StartsInOrder
<1>13. ASSUME WorkerExits, life = "up" PROVE ReadersInOrder'
  BY <1>13, <1>a DEF WorkerExits
<1>14. ASSUME NEW q \in Runs, ProcessEnds(q) PROVE ReadersInOrder'
  BY <1>14, <1>a DEF ProcessEnds
<1>15. ASSUME NEW q \in Runs, ReaderStops(q), life = "up" PROVE ReadersInOrder'
  BY <1>15, <1>a DEF ReaderStops
<1>16. ASSUME NEW q \in Runs, ReaderTest(q), life = "up" PROVE ReadersInOrder'
  BY <1>16, <1>a DEF ReaderTest
<1>17. ASSUME NEW q \in Runs, ReaderWait(q), life = "up" PROVE ReadersInOrder'
  BY <1>17, <1>a DEF ReaderWait
<1>18. ASSUME NEW q \in Runs, ReaderSetStatus(q), life = "up" PROVE ReadersInOrder'
  BY <1>18, <1>a, <1>c DEF ReaderSetStatus
<1>19. ASSUME NEW q \in Runs, ReaderWrapup(q), life = "up" PROVE ReadersInOrder'
  BY <1>19, <1>a DEF ReaderWrapup
<1>20. ASSUME NEW q \in Runs, ReaderMark(q), life = "up" PROVE ReadersInOrder'
  BY <1>20, <1>a DEF ReaderMark
<1>21. ASSUME NEW q \in Runs, ReaderFinish(q), life = "up" PROVE ReadersInOrder'
  BY <1>21, <1>a DEF ReaderFinish
<1>22. ASSUME NEW q \in Runs, ReaderDies(q), life = "up" PROVE ReadersInOrder'
  BY <1>22, <1>a, <1>b DEF ReaderDies, ReaderUsesNone, ReaderMarksTwice
<1>23. ASSUME NEW q \in Runs, ReaderExits(q), life = "up" PROVE ReadersInOrder'
  BY <1>23, <1>a DEF ReaderExits
<1>24. CASE UNCHANGED vars
  BY <1>24, <1>a DEF vars
<1> QED BY QuietStep, <1>1, <1>2, <1>3, <1>4, <1>5, <1>6, <1>7, <1>8, <1>9, <1>10, <1>11, <1>12,
           <1>13, <1>14, <1>15, <1>16, <1>17, <1>18, <1>19, <1>20, <1>21, <1>22, <1>23, <1>24
           DEF Worker, Reader

LEMMA WrapupsStep ==
  ASSUME Typed, StartsInOrder, Undisturbed, Alone, ReadersInOrder, WrapupsInOrder, [Next]_vars
  PROVE  WrapupsInOrder'
<1>a. /\ RunTypes /\ Pointers /\ QueueOfFirst /\ StartsInOrder /\ table \subseteq Runs
      /\ ReadersInOrder /\ First \in Runs \ Children /\ Children \subseteq Runs /\ WrapupsInOrder
      /\ marked \subseteq Children
  BY FirstIsNoChild DEF Typed, ControllerTypes
<1>b. IsParent => rpc[First] = "none"
  BY DEF ReadersInOrder
<1>c. /\ \A s : Append(<<>>, s) = <<s>> /\ <<s>> # <<>>
      /\ \A s \in Finals : <<s>> \in OneEnd
      /\ <<>> \in OneEnd /\ "completed" \in Finals
  BY DEF OneEnd, Finals
<1> USE DEF WrapupsInOrder, WrappedOnce, ParentInOrder, BeforeWrapup, RunTypes, ToWorker, SetStatusTo, ToReader, controllerVars, runVars, workerVars, cancelVars, statusVars
<1>1. ASSUME WorkerPop, life = "up" PROVE WrapupsInOrder'
  BY <1>1, <1>a, <1>b, <1>c, QueueOperations DEF WorkerPop, QueueOfFirst
<1>2. ASSUME WorkerNoPop, life = "up" PROVE WrapupsInOrder'
  BY <1>2, <1>a, <1>b, <1>c DEF WorkerNoPop
<1>3. ASSUME WorkerClaim, life = "up" PROVE WrapupsInOrder'
  BY <1>3, <1>a, <1>b, <1>c DEF WorkerClaim
<1>4. ASSUME WorkerSpawn, life = "up" PROVE WrapupsInOrder'
  BY <1>4, <1>a, <1>b, <1>c DEF WorkerSpawn
<1>5. ASSUME WorkerLaunch, life = "up" PROVE WrapupsInOrder'
  BY <1>5, <1>a, <1>b, <1>c DEF WorkerLaunch
<1>6. ASSUME WorkerSetProcess, life = "up" PROVE WrapupsInOrder'
  BY <1>6, <1>a, <1>b, <1>c DEF WorkerSetProcess
<1>7. ASSUME WorkerStartReader, life = "up" PROVE WrapupsInOrder'
  BY <1>7, <1>a, <1>b, <1>c DEF WorkerStartReader, ReadersInOrder, ReaderAt, OnItsWay
<1>8. ASSUME WorkerRequeue, life = "up" PROVE WrapupsInOrder'
  BY <1>8, <1>a, <1>b, <1>c DEF WorkerRequeue, QueueOfFirst, StartsInOrder
<1>9. ASSUME WorkerParentEnd, life = "up" PROVE WrapupsInOrder'
  BY <1>9, <1>a, <1>b, <1>c DEF WorkerParentEnd, QueueOfFirst
<1>10. ASSUME WorkerParentWrapup, life = "up" PROVE WrapupsInOrder'
  <2>1. IsParent /\ rpc[First] = "none" /\ queue = <<>>
    BY <1>10, <1>a, <1>b DEF WorkerParentWrapup, StartsInOrder, QueueOfFirst
  <2>2. wrapups[First] = <<>> /\ status[First] = "completed"
    BY <1>10, <1>a, <2>1 DEF WorkerParentWrapup
  <2>3. wrapups'[First] = <<"completed">> /\ \A r \in Runs : r # First => wrapups'[r] = wrapups[r]
    BY <1>10, <1>a, <1>c, <2>2, LogTyped DEF WorkerParentWrapup
  <2>4. wrapups'[First] \in OneEnd
    BY <1>c, <2>3
  <2> QED BY <1>10, <1>a, <2>1, <2>3, <2>4 DEF WorkerParentWrapup
<1>11. ASSUME WorkerIdle, life = "up" PROVE WrapupsInOrder'
  BY <1>11, <1>a, <1>b, <1>c DEF WorkerIdle
<1>12. ASSUME WorkerFails, life = "up" PROVE WrapupsInOrder'
  BY <1>12, <1>a, <1>b, <1>c DEF WorkerFails, FailPoints
<1>13. ASSUME WorkerExits, life = "up" PROVE WrapupsInOrder'
  BY <1>13, <1>a, <1>b, <1>c DEF WorkerExits
<1>14. ASSUME NEW q \in Runs, ProcessEnds(q) PROVE WrapupsInOrder'
  BY <1>14, <1>a, <1>b, <1>c DEF ProcessEnds
<1>15. ASSUME NEW q \in Runs, ReaderStops(q), life = "up" PROVE WrapupsInOrder'
  BY <1>15, <1>a, <1>b, <1>c DEF ReaderStops
<1>16. ASSUME NEW q \in Runs, ReaderTest(q), life = "up" PROVE WrapupsInOrder'
  BY <1>16, <1>a, <1>b, <1>c DEF ReaderTest
<1>17. ASSUME NEW q \in Runs, ReaderWait(q), life = "up" PROVE WrapupsInOrder'
  BY <1>17, <1>a, <1>b, <1>c DEF ReaderWait
<1>18. ASSUME NEW q \in Runs, ReaderSetStatus(q), life = "up" PROVE WrapupsInOrder'
  BY <1>18, <1>a, <1>b, <1>c DEF ReaderSetStatus, StartsInOrder
<1>19. ASSUME NEW q \in Runs, ReaderWrapup(q), life = "up" PROVE WrapupsInOrder'
  <2>1. q = First => ~IsParent
    BY <1>19, <1>b DEF ReaderWrapup
  <2>2. wrapups[q] = <<>> /\ status[q] \in Finals
    BY <1>19, <1>a, <2>1 DEF ReaderWrapup, ReadersInOrder, ReaderAt
  <2>3. wrapups'[q] = <<status[q]>> /\ \A r \in Runs : r # q => wrapups'[r] = wrapups[r]
    BY <1>19, <1>a, <1>c, <2>2, LogTyped DEF ReaderWrapup
  <2>4. wrapups'[q] \in OneEnd /\ wrapups'[q] # <<>>
    BY <1>c, <2>2, <2>3
  <2> QED BY <1>19, <1>a, <1>b, <2>1, <2>3, <2>4 DEF ReaderWrapup
<1>20. ASSUME NEW q \in Runs, ReaderMark(q), life = "up" PROVE WrapupsInOrder'
  BY <1>20, <1>a, <1>b, <1>c DEF ReaderMark
<1>21. ASSUME NEW q \in Runs, ReaderFinish(q), life = "up" PROVE WrapupsInOrder'
  BY <1>21, <1>a, <1>b, <1>c DEF ReaderFinish
<1>22. ASSUME NEW q \in Runs, ReaderDies(q), life = "up" PROVE WrapupsInOrder'
  BY <1>22, <1>a, <1>b, <1>c DEF ReaderDies, ReaderUsesNone, ReaderMarksTwice, ReadersInOrder, ReaderAt
<1>23. ASSUME NEW q \in Runs, ReaderExits(q), life = "up" PROVE WrapupsInOrder'
  BY <1>23, <1>a, <1>b, <1>c DEF ReaderExits
<1>24. CASE UNCHANGED vars
  BY <1>24, <1>a, <1>b, <1>c DEF vars
<1> QED BY QuietStep, <1>1, <1>2, <1>3, <1>4, <1>5, <1>6, <1>7, <1>8, <1>9, <1>10, <1>11, <1>12,
           <1>13, <1>14, <1>15, <1>16, <1>17, <1>18, <1>19, <1>20, <1>21, <1>22, <1>23, <1>24
           DEF Worker, Reader

\* A controller that shut down with the time it needs has wrapped up every run
\* whose process ended.
ExitInOrder ==
  setting.timely /\ life = "exited" => \A r \in Runs : proc[r] = "dead" => wrapups[r] # <<>>

LEMMA ExitInOrderStep ==
  ASSUME Typed, Alone, ReadersInOrder, WrapupsInOrder, NoOrphanProcess, ExitInOrder,
         [Next]_vars
  PROVE  ExitInOrder'
<1> SUFFICES ASSUME setting.timely, life' = "exited", NEW r \in Runs, proc'[r] = "dead"
             PROVE  wrapups'[r] # <<>>
  BY SettingKept DEF ExitInOrder
<1>1. CASE /\ life = "exited" /\ UNCHANGED <<table, status, killing, wrapups>>
           /\ \/ UNCHANGED proc
              \/ \E q \in Runs : proc[q] = "alive" /\ proc' = [proc EXCEPT ![q] = "dead"]
  <2>1. \A q \in Runs : proc[q] # "alive"
    BY <1>1 DEF NoOrphanProcess, Alone
  <2> QED BY <1>1, <2>1 DEF ExitInOrder
<1>2. CASE /\ wpc = "idle" /\ WrapupsOver /\ UNCHANGED <<table, status, killing, proc, wrapups>>
  <2>1. rpc[r] \in {"none", "done", "failing"}
    BY <1>2 DEF WrapupsOver
  <2>2. rpc[r] = "done"
    BY <1>2, <2>1 DEF ReadersInOrder, ReaderAt, OnItsWay
  <2> QED BY <1>2, <2>2 DEF WrapupsInOrder, WrappedOnce, BeforeWrapup
<1> QED BY <1>1, <1>2, ExitStep

QuietInv ==
  Undisturbed => Alone /\ ReadersInOrder /\ WrapupsInOrder /\ ExitInOrder

EndInv == ProcessInv /\ NoOrphanProcess /\ QuietInv

LEMMA EndInvHolds == Spec => []EndInv
<1>1. Init => EndInv
  BY ProcessInit, AloneInit, ReadersInit
     DEF EndInv, QuietInv, ExitInOrder, NoOrphanProcess, Init
<1>2. ASSUME EndInv, NoOrphanProcess', [Next]_vars PROVE EndInv'
  <2>1. ProcessInv' /\ Typed /\ StartsInOrder /\ ReapedIsDead /\ LiveIsKnown
    BY <1>2, ProcessStep DEF EndInv, ProcessInv
  <2>2. QuietInv'
    <3> SUFFICES ASSUME Undisturbed' PROVE (Alone /\ ReadersInOrder /\ WrapupsInOrder /\ ExitInOrder)'
      BY DEF QuietInv
    <3>1. Undisturbed
      BY <1>2, SettingKept DEF Undisturbed
    <3>2. Alone /\ ReadersInOrder /\ WrapupsInOrder /\ ExitInOrder /\ NoOrphanProcess
      BY <1>2, <3>1 DEF EndInv, QuietInv
    <3> QED BY <1>2, <2>1, <3>1, <3>2, QuietStep, ReadersStep, WrapupsStep, ExitInOrderStep
  <2> QED BY <1>2, <2>1, <2>2 DEF EndInv
<1> QED BY <1>1, <1>2, NoProcessIsOrphaned, PTL DEF Spec

\* Each run is wrapped up at most once, with its final status, and none whose
\* process ended is forgotten (run_wrapup), when no client interferes.
THEOREM RunsEndOnlyOnce == Spec => []RunsEndOnce
<1>1. ASSUME EndInv PROVE RunsEndOnce
  <2> SUFFICES ASSUME Undisturbed
               PROVE  /\ \A r \in Runs : Len(wrapups[r]) <= 1
                      /\ setting.timely => EndedRunsAreLogged
    BY DEF RunsEndOnce, WrapupOnce, EndedRunsAreLogged
  <2>1. WrapupsInOrder /\ ExitInOrder
    BY <1>1 DEF EndInv, QuietInv
  <2>2. ASSUME NEW r \in Runs
        PROVE  Len(wrapups[r]) <= 1 /\ \A i \in DOMAIN wrapups[r] : wrapups[r][i] \in Finals
    <3>1. CASE wrapups[r] = <<>>
      BY <3>1
    <3>2. CASE wrapups[r] # <<>>
      <4>1. PICK s \in Finals : wrapups[r] = <<s>>
        BY <2>1, <3>2 DEF WrapupsInOrder, WrappedOnce, OneEnd
      <4>2. Len(<<s>>) = 1 /\ DOMAIN <<s>> = {1} /\ <<s>>[1] = s
        OBVIOUS
      <4> QED BY <4>1, <4>2
    <3> QED BY <3>1, <3>2
  <2> QED BY <2>1, <2>2 DEF EndedRunsAreLogged, WrapupLogsFinalStatus, ExitInOrder
<1> QED BY <1>1, EndInvHolds, PTL

\* The variables keep their types, no reader thread ends the controller with an
\* exception unless a client interfered, and the concurrency limit holds.
THEOREM ThreadsStayInOrder == Spec => []ThreadsInOrder
<1>1. ASSUME EndInv PROVE ThreadsInOrder
  <2>1. TypeOK /\ ConcurrencyLimit
    BY <1>1, TypedIsTypeOK DEF EndInv, ProcessInv
  <2>2. ReadersSurvive
    BY <1>1 DEF EndInv, QuietInv, ReadersSurvive, ReadersInOrder, ReaderAt
  <2> QED BY <2>1, <2>2 DEF ThreadsInOrder
<1> QED BY <1>1, EndInvHolds, PTL

===============================================================================
