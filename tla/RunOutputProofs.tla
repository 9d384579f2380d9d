--------------------------- MODULE RunOutputProofs ---------------------------
(***************************************************************************)
(* Proofs about RunOutput, for any runs of a node and clients, any number  *)
(* of lines, restarts and directories that cannot be cleaned.              *)
(***************************************************************************)
EXTENDS RunOutput, FiniteSetTheorems, SequenceTheorems, WellFoundedInduction, TLAPS

-----------------------------------------------------------------------------
(***************************************************************************)
(* Sessions, directories and the worker                                    *)
(***************************************************************************)

\* No session after this one has begun, and the restarts suffice.
SessionsInOrder ==
  /\ session + load.restarts + (IF restart = "no" THEN 0 ELSE 1) <= MaxRestarts + 1
  /\ \A i \in Infos : i[2] > session => run[i].status = "queued"

\* The runs that were taken from the queue in this session.
Taken == {r \in Runs : run[Current(r)].status # "queued"}

\* The directories the worker may still have to add for its run.
ToCome == CASE worker.pc = "allocate" -> 2
            [] worker.pc \in {"clean", "again"} -> 1
            [] OTHER -> 0

\* The table has at most two directories for each of these runs.
DirsAreFew == Len(rundirs) + ToCome <= 2 * Cardinality(Taken)

\* The worker's directories are in the table, for its run, unless a reader of
\* the session before has returned them; the run has no reader yet.
Holding == worker.pc \in {"clean", "again", "clean again", "launch"}
Held(d) == /\ d \in DOMAIN rundirs /\ rundirs[d] \in {worker.run, Free}
           /\ ~late => rundirs[d] = worker.run
WorkerInOrder ==
  /\ worker.pc = "idle" <=> worker.run = Free
  /\ ~Holding => worker.dir = 0 /\ worker.clean = 0
  /\ Holding => Held(worker.dir) /\ Held(worker.clean)
  /\ worker.pc \in {"clean", "again"} => worker.clean = worker.dir
  /\ worker.pc \in {"again", "clean again"} => worker.dir \in leaked
  /\ worker.run # Free => /\ worker.run \in Taken
                          /\ reader[Current(worker.run)].pc = "none"

(***************************************************************************)
(* A run, its reader, and the texts it has recorded                        *)
(***************************************************************************)

\* The exit message is in the console file and the recent lines.
ExitRecorded(i) ==
  reader[i].pc \in {"return", "done"} \/ (Handling(i) /\ reader[i].text = Exit)

\* A reader has a run that was started, and reads what it printed; at the exit
\* message the process is gone, and nothing is left in the pipe.
ReaderInOrder(i) ==
  /\ reader[i].pc = "none" => /\ run[i].process = "none" /\ ~run[i].killing
                              /\ read[i] = 0 /\ printed[i] = 0 /\ recent[i] = <<>>
  /\ run[i].status = "queued" => reader[i].pc = "none"
  /\ run[i].status # "queued" => i[1] \in load.runs
  /\ dir[i] = 0 <=> ~Live(i)
  /\ Handling(i) /\ reader[i].text # Exit => reader[i].text = read[i]
  /\ read[i] <= printed[i]
  /\ reader[i].pc = "exit" \/ ExitRecorded(i) =>
       /\ run[i].process = "gone" /\ run[i].status = "over"
       /\ run[i].killing \/ read[i] = printed[i]

\* Unless a reader was late, readers belong to this session, and the table
\* and the console file are theirs.
Lines(i) == [k \in 1..read[i] |-> <<i, k>>]
Recorded(i) == IF ExitRecorded(i) THEN Append(Lines(i), <<i, Exit>>) ELSE Lines(i)
DirInOrder(i) ==
  ~late /\ Live(i) =>
    /\ i[2] = session
    /\ dir[i] \in DOMAIN rundirs /\ rundirs[dir[i]] = i[1]
    /\ console[dir[i]] = Recorded(i)

\* The recent lines end with the last one read, and the exit message.
RecentInOrder(i) ==
  LET last == IF ExitRecorded(i) THEN Len(recent[i]) - 1 ELSE Len(recent[i]) IN
  /\ last \in 0..read[i]
  /\ \A k \in 1..last : recent[i][k] = read[i] - last + k
  /\ ExitRecorded(i) => recent[i][last + 1] = Exit

(***************************************************************************)
(* The lists of callbacks                                                  *)
(***************************************************************************)
Once(s) == \A j, k \in DOMAIN s : s[j] = s[k] => j = k

\* The lists hold clients of the run, each once.
ListsInOrder(i) ==
  /\ Once(callbacks[i]) /\ Once(acallbacks[i])
  /\ \A k \in DOMAIN callbacks[i] :
       /\ client[callbacks[i][k]].to = i
       /\ client[callbacks[i][k]].pc \in {"hook", "attached", "left"}
       /\ client[callbacks[i][k]].pc = "left" => i[2] # session
  /\ \A k \in DOMAIN acallbacks[i] :
       /\ client[acallbacks[i][k]].to = i
       /\ client[acallbacks[i][k]].pc \in {"attached", "left"}

Listed(c, i) == \E k \in DOMAIN acallbacks[i] : acallbacks[i][k] = c

\* c has one place in both lists, and what is before it is the same.
AtOnePlace(c, i) ==
  \E k \in DOMAIN callbacks[i] \cap DOMAIN acallbacks[i] :
    /\ callbacks[i][k] = c
    /\ \A j \in 1..k : acallbacks[i][j] = callbacks[i][j]

ClientInOrder(c) ==
  LET i == client[c].to IN
  /\ client[c].pc = "out" <=> i = NoInfo
  /\ client[c].pc \in {"out", "snapshot"} => client[c].got = <<>>
  /\ i # NoInfo => i[2] <= session /\ run[i].status # "queued"
  /\ client[c].pc \in {"hook", "attached"} => \E k \in DOMAIN callbacks[i] : callbacks[i][k] = c
  /\ c \notin crossed =>
       /\ client[c].pc = "hook" => callbacks[i] = Append(acallbacks[i], c)
       /\ client[c].pc = "attached" => AtOnePlace(c, i)
       /\ client[c].pc = "left" /\ i[2] = session => ~Listed(c, i)

(***************************************************************************)
(* What a client has received                                              *)
(***************************************************************************)

\* The reader has yet to send its text to c, who was listed when it began.
Pending(c, i) ==
  /\ Handling(i) /\ reader[i].text \notin blur[c]
  /\ \E k \in DOMAIN acallbacks[i] :
       acallbacks[i][k] = c /\ (reader[i].pc = "send" => k >= reader[i].i)

OrderOfLines(c) ==
  LET got == client[c].got
      clear == {j \in DOMAIN got : got[j] \notin blur[c]} IN
  \A j, k \in clear : j < k => (got[j] < got[k] \/ got[k] = Exit) /\ got[j] # Exit

\* What c got was read, or is the exit message.
GotWasRead(c, i) ==
  \A j \in DOMAIN client[c].got :
    client[c].got[j] <= read[i] /\ (client[c].got[j] = Exit => ExitRecorded(i))

\* While c attaches, the text that is handled is one it may miss.
AttachIsBlurred(c, i) ==
  client[c].pc = "hook" =>
    /\ Handling(i) => reader[i].text \in blur[c]
    /\ reader[i].pc \in {"return", "done"} => Exit \in blur[c]

\* From the first line c got on, it has all that were read, but for the one
\* that is about to be sent to it.
GotAllLines(c, i) ==
  client[c].pc = "hook" \/ Listed(c, i) =>
    \A t \in 1..read[i] :
      client[c].got # <<>> /\ client[c].got[1] # Exit /\ client[c].got[1] <= t /\ t \notin blur[c]
        => (\E j \in DOMAIN client[c].got : client[c].got[j] = t)
           \/ (Pending(c, i) /\ t = reader[i].text)

\* What is about to be sent to c, it has not got, and the loop will reach it.
SentOnce(c, i) ==
  /\ Pending(c, i) => \A j \in DOMAIN client[c].got : client[c].got[j] # reader[i].text
  /\ reader[i].pc = "send" /\ reader[i].text \notin blur[c] =>
       \A k \in DOMAIN acallbacks[i] : acallbacks[i][k] = c => k <= reader[i].n

LinesInOrder(c) ==
  LET i == client[c].to IN
  c \notin crossed /\ i # NoInfo =>
    OrderOfLines(c) /\ GotWasRead(c, i) /\ AttachIsBlurred(c, i) /\ GotAllLines(c, i) /\ SentOnce(c, i)

IInv ==
  /\ TypeOK /\ SessionsInOrder /\ DirsAreFew /\ WorkerInOrder /\ MarkedDirsAreUsed
  /\ \A i \in Infos : ReaderInOrder(i) /\ DirInOrder(i) /\ RecentInOrder(i) /\ ListsInOrder(i)
  /\ \A c \in Clients : ClientInOrder(c) /\ LinesInOrder(c)

-----------------------------------------------------------------------------
(***************************************************************************)
(* The constants, and lists                                                *)
(***************************************************************************)
LEMMA Constants ==
  /\ Sessions \subseteq Nat /\ Dirs \subseteq Nat \ {0} /\ NoInfo \notin Infos
  /\ \A i \in Infos : i = <<i[1], i[2]>> /\ i[1] \in Runs /\ i[2] \in Sessions
  /\ \A r \in Runs, s \in Sessions : <<r, s>> \in Infos
  /\ MaxRecent \in Nat \ {0} /\ MaxRestarts \in Nat /\ Cardinality(Runs) \in Nat
  /\ IsFiniteSet(Runs) /\ Free \notin Runs
BY OutputAssumption, FS_CardinalityType DEF Sessions, Dirs, Infos, NoInfo

\* The list without the callback at place k.
LEMMA WithoutIs ==
  ASSUME NEW S, NEW list \in Seq(S), NEW k \in DOMAIN list
  PROVE  /\ Without(list, k) \in Seq(S)
         /\ Len(Without(list, k)) = Len(list) - 1
         /\ DOMAIN Without(list, k) = 1..(Len(list) - 1)
         /\ \A j \in 1..(Len(list) - 1) :
              Without(list, k)[j] = IF j < k THEN list[j] ELSE list[j + 1]
<1> DEFINE before == SubSeq(list, 1, k - 1)
           after  == SubSeq(list, k + 1, Len(list))
<1>1. k \in 1..Len(list) /\ Len(list) \in Nat
  OBVIOUS
<1>2. before \in Seq(S) /\ Len(before) = k - 1 /\ \A j \in 1..(k - 1) : before[j] = list[j]
  BY <1>1, SubSeqProperties
<1>3. after \in Seq(S) /\ Len(after) = Len(list) - k
      /\ \A j \in 1..(Len(list) - k) : after[j] = list[k + j]
  BY <1>1, SubSeqProperties
<1>4. Without(list, k) = before \o after
  BY DEF Without, RemoveAt
<1> HIDE DEF before, after
<1>5. (before \o after) \in Seq(S) /\ Len(before \o after) = Len(list) - 1
  BY <1>1, <1>2, <1>3, ConcatProperties
<1>6. \A j \in 1..(Len(list) - 1) :
        (before \o after)[j] = IF j < k THEN list[j] ELSE list[j + 1]
  BY <1>1, <1>2, <1>3, ConcatProperties
<1>7. DOMAIN (before \o after) = 1..(Len(list) - 1)
  BY <1>5, LenProperties
<1> QED
  BY <1>4, <1>5, <1>6, <1>7, Zenon

LEMMA WithoutType ==
  ASSUME NEW S, NEW list \in Seq(S), NEW k
  PROVE  Without(list, k) \in Seq(S)
<1>1. CASE k \in DOMAIN list
  BY <1>1, WithoutIs
<1>2. CASE k \notin DOMAIN list
  BY <1>2 DEF Without
<1> QED
  BY <1>1, <1>2

LEMMA LeastExists ==
  ASSUME NEW S \in SUBSET Nat, S # {}
  PROVE  \E x \in S : \A y \in S : x <= y
<1> DEFINE R == {ss \in Nat \X Nat : ss[1] < ss[2]}
<1>1. IsWellFoundedOn(R, Nat)
  <2>1. R = OpToRel(<, Nat)
    BY DEF OpToRel
  <2> QED BY <2>1, NatLessThanWellFounded
<1>2. PICK x \in S : \A y \in S : ~(<<y, x>> \in R)
  <2> HIDE DEF R
  <2> QED BY <1>1, WFMin
<1>3. \A y \in S : y < x => <<y, x>> \in R
  OBVIOUS
<1>4. \A y \in S : ~(y < x)
  BY <1>2, <1>3, Zenon
<1>5. \A y \in S : x <= y
  BY <1>4
<1> QED
  BY <1>5

\* The first free directory, or a new one.
LEMMA FreeNameIs ==
  ASSUME rundirs \in Seq({Free} \cup Runs)
  PROVE  \/ FreeName \in DOMAIN rundirs /\ rundirs[FreeName] = Free
         \/ FreeName = Len(rundirs) + 1
<1> DEFINE free == {d \in 1..Len(rundirs) : rundirs[d] = Free}
<1>1. CASE free = {}
  BY <1>1 DEF FreeName
<1>2. CASE free # {}
  <2>1. free \in SUBSET Nat
    OBVIOUS
  <2>2. PICK d \in free : \A e \in free : d <= e
    <3> HIDE DEF free
    <3> QED BY <1>2, <2>1, LeastExists
  <2>3. rundirs[d] = Free /\ \A e \in 1..(d - 1) : rundirs[e] # Free
    BY <2>2
  <2> QED
    BY <2>2, <2>3 DEF FreeName
<1> QED
  BY <1>1, <1>2


-----------------------------------------------------------------------------
(***************************************************************************)
(* Which actions change which variables                                    *)
(***************************************************************************)
LEMMA ControllerChanges ==
  ASSUME [Next]_vars
  PROVE  \/ UNCHANGED controllerVars \/ QueueWorker \/ RestartRequest \/ RestartKilled
         \/ \E i \in Infos : Wrapup(i) \/ ReturnDir(i)
BY Zenon DEF Next, vars, Reader, ProcessPrints, ProcessEnds, RestartKill, ReadLine, LoopStart, Send,
             LoopEnd, SendExit, Snapshot, Hook, Detach, Attach

LEMMA RunChanges ==
  ASSUME [Next]_vars
  PROVE  \/ UNCHANGED runVars \/ (\E r \in load.runs : Pop(r)) \/ Launch
         \/ \E i \in Infos : ProcessPrints(i) \/ ProcessEnds(i) \/ RestartKill(i) \/ Wrapup(i)
                             \/ ReturnDir(i)
BY Zenon DEF Next, vars, QueueWorker, AllocateName, Clean, CleanFails, Reset, RestartRequest,
             RestartKilled, Reader, ReadLine, LoopStart, Send, LoopEnd, SendExit,
             Snapshot, Hook, Detach, Attach, runVars

LEMMA ReaderChanges ==
  ASSUME [Next]_vars
  PROVE  \/ UNCHANGED readerVars \/ Clean \/ Launch \/ \E i \in Infos : Reader(i)
BY Zenon DEF Next, vars, QueueWorker, Pop, AllocateName, CleanFails, Reset, RestartRequest,
             RestartKilled, ProcessPrints, ProcessEnds, RestartKill, Snapshot, Hook, Detach, Attach

LEMMA ClientChanges ==
  ASSUME [Next]_vars
  PROVE  \/ UNCHANGED <<listVars, client>> \/ \E i \in Infos : Send(i)
         \/ \E c \in Clients : Snapshot(c) \/ Hook(c) \/ Detach(c)
                               \/ \E r \in load.runs : Attach(c, r)
BY Zenon DEF Next, vars, QueueWorker, Pop, AllocateName, Clean, CleanFails, Launch, Reset,
             RestartRequest, RestartKilled, Reader, ProcessPrints, ProcessEnds, RestartKill,
             ReadLine, LoopStart, LoopEnd, Wrapup, SendExit, ReturnDir

LEMMA HistoryChanges ==
  ASSUME [Next]_vars
  PROVE  \/ UNCHANGED historyVars \/ CleanFails \/ Launch \/ Reset
         \/ (\E i \in Infos : ReadLine(i) \/ SendExit(i))
         \/ \E c \in Clients : Snapshot(c) \/ Detach(c)
BY Zenon DEF Next, vars, QueueWorker, Pop, AllocateName, Clean, RestartRequest, RestartKilled,
             Reader, ProcessPrints, ProcessEnds, RestartKill, LoopStart, Send, LoopEnd, Wrapup,
             ReturnDir, Hook, Attach

-----------------------------------------------------------------------------
(***************************************************************************)
(* Types                                                                   *)
(***************************************************************************)
WorkerSteps == {"idle", "allocate", "clean", "again", "clean again", "launch"}
WorkerRecord == [pc : WorkerSteps, run : {Free} \cup Runs, dir : {0} \cup Dirs,
                 clean : {0} \cup Dirs]
RunRecord == [status : {"queued", "running", "over"}, process : {"none", "live", "gone"},
              killing : BOOLEAN, preempted : BOOLEAN]
ReaderSteps == {"none", "read", "loop", "send", "exit", "return", "done"}
ReaderRecord == [pc : ReaderSteps, text : Nat, i : Nat, n : Nat]
ClientRecord == [pc : {"out", "snapshot", "hook", "attached", "left"},
                 to : {NoInfo} \cup Infos, got : Seq(Nat), running : BOOLEAN]

LoadType == load \in [runs : SUBSET Runs, clients : SUBSET Clients, lines : Nat,
                      restarts : Nat, faults : Nat]
SessionType == session \in Sessions /\ restart \in {"no", "kill", "wait"} /\ ended \subseteq Runs
WorkerType == worker \in WorkerRecord
TableType == rundirs \in Seq({Free} \cup Runs) /\ DOMAIN rundirs \subseteq Dirs
RunType == run \in [Infos -> RunRecord]
PrintedType == printed \in [Infos -> Nat]
DirType == dir \in [Infos -> {0} \cup Dirs]
ReaderType == reader \in [Infos -> ReaderRecord]
ReadType == read \in [Infos -> Nat]
RecentType == recent \in [Infos -> Seq(Nat)]
ConsoleType == console \in [Dirs -> Seq(Infos \X Nat)]
ListType == callbacks \in [Infos -> Seq(Clients)] /\ acallbacks \in [Infos -> Seq(Clients)]
ClientType == client \in [Clients -> ClientRecord]
LeakedType == late \in BOOLEAN /\ leaked \subseteq Dirs
BlurType == blur \in [Clients -> SUBSET Nat] /\ crossed \subseteq Clients

ControllerTypes == LoadType /\ SessionType /\ WorkerType /\ TableType
RunTypes == RunType /\ PrintedType /\ DirType
ReaderTypes == ReaderType /\ ReadType /\ RecentType /\ ConsoleType
ClientTypes == ListType /\ ClientType
HistoryTypes == LeakedType /\ BlurType
Types == ControllerTypes /\ RunTypes /\ ReaderTypes /\ ClientTypes /\ HistoryTypes

LEMMA TypesAre == TypeOK <=> Types
BY DEF TypeOK, Types, ControllerTypes, RunTypes, ReaderTypes, ClientTypes, HistoryTypes, LoadType,
       SessionType, WorkerType, TableType, RunType, PrintedType, DirType, ReaderType, ReadType,
       RecentType, ConsoleType, ListType, ClientType, LeakedType, BlurType, WorkerSteps, WorkerRecord,
       RunRecord, ReaderSteps, ReaderRecord, ClientRecord

LEMMA InfosType ==
  ASSUME SessionType, NEW r \in Runs
  PROVE  Current(r) \in Infos /\ Current(r)[1] = r /\ Current(r)[2] = session
BY Constants DEF SessionType, Current, Infos

\* A callback adds to what the client has got.
LEMMA ReceivedIs ==
  ASSUME ClientType, NEW c \in Clients, NEW lines \in Seq(Nat)
  PROVE  /\ Received(c, lines) \in ClientRecord
         /\ Received(c, lines).pc = client[c].pc /\ Received(c, lines).to = client[c].to
         /\ Received(c, lines).got = client[c].got \o lines
<1>1. client[c] \in ClientRecord
  BY DEF ClientType
<1>2. client[c].got \o lines \in Seq(Nat)
  BY <1>1 DEF ClientRecord
<1>3. (client[c].running /\ (lines = <<>> \/ lines[1] # Exit)) \in BOOLEAN
  OBVIOUS
<1> QED
  BY <1>1, <1>2, <1>3 DEF Received, ClientRecord

LEMMA GivenIs ==
  ASSUME TableType, NEW d \in Nat \ {0}, d <= Len(rundirs) + 1, NEW u \in {Free} \cup Runs
  PROVE  /\ Given(d, u) \in Seq({Free} \cup Runs)
         /\ DOMAIN Given(d, u) = DOMAIN rundirs \cup {d}
         /\ Given(d, u)[d] = u
         /\ \A e \in DOMAIN rundirs : e # d => Given(d, u)[e] = rundirs[e]
         /\ d <= Len(rundirs) => Len(Given(d, u)) = Len(rundirs)
         /\ Len(Given(d, u)) <= Len(rundirs) + 1
BY DEF Given, TableType

\* The name the worker gets is in the table afterwards, and there is room.
LEMMA AllocatedIs ==
  ASSUME Types, DirsAreFew, WorkerInOrder, AllocateName
  PROVE  /\ worker.run \in Runs /\ FreeName \in Dirs
         /\ rundirs' \in Seq({Free} \cup Runs)
         /\ DOMAIN rundirs' = DOMAIN rundirs \cup {FreeName} /\ DOMAIN rundirs' \subseteq Dirs
         /\ FreeName \in DOMAIN rundirs => rundirs[FreeName] = Free
         /\ rundirs'[FreeName] = worker.run
         /\ \A e \in DOMAIN rundirs : e # FreeName => rundirs'[e] = rundirs[e]
         /\ Len(rundirs') <= Len(rundirs) + 1
<1>1. TableType /\ WorkerType
  BY DEF Types, ControllerTypes
<1>2. worker.run \in Runs
  BY <1>1 DEF AllocateName, WorkerInOrder, WorkerType, WorkerRecord
<1>3. /\ FreeName \in Nat \ {0} /\ FreeName <= Len(rundirs) + 1
      /\ FreeName \in DOMAIN rundirs => rundirs[FreeName] = Free
  BY <1>1, FreeNameIs DEF TableType
<1>4. Len(rundirs) + 1 <= 2 * Cardinality(Runs)
  <2>1. Taken \subseteq Runs /\ Cardinality(Taken) <= Cardinality(Runs) /\ Cardinality(Taken) \in Nat
    BY Constants, FS_Subset, FS_CardinalityType DEF Taken
  <2>2. ToCome \in {1, 2} /\ Len(rundirs) \in Nat
    BY <1>1 DEF AllocateName, ToCome, TableType
  <2> QED
    BY <2>1, <2>2, Constants DEF DirsAreFew
<1>5. Len(rundirs) + 1 \in Dirs /\ FreeName \in Dirs
  BY <1>1, <1>3, <1>4, Constants DEF Dirs, TableType
<1>6. PICK d \in Dirs, u \in Runs : d = FreeName /\ u = worker.run /\ rundirs' = Given(d, u)
  BY <1>2, <1>5 DEF AllocateName
<1>7. /\ Given(d, u) \in Seq({Free} \cup Runs) /\ Given(d, u)[d] = u
      /\ DOMAIN Given(d, u) = DOMAIN rundirs \cup {d}
      /\ \A e \in DOMAIN rundirs : e # d => Given(d, u)[e] = rundirs[e]
      /\ Len(Given(d, u)) <= Len(rundirs) + 1
  <2>1. d \in Nat \ {0} /\ d <= Len(rundirs) + 1 /\ u \in {Free} \cup Runs /\ Len(rundirs) \in Nat
    BY <1>1, <1>3, <1>6 DEF TableType
  <2> QED
    BY <1>1, <2>1, GivenIs, Zenon
<1>8. DOMAIN rundirs \cup {d} \subseteq Dirs
  BY <1>1 DEF TableType
<1> QED
  BY <1>2, <1>3, <1>6, <1>7, <1>8

LEMMA ControllerTypesStep ==
  ASSUME Types, DirsAreFew, WorkerInOrder, SessionsInOrder, [Next]_vars
  PROVE  ControllerTypes'
<1> USE DEF ControllerTypes
<1>0. ControllerTypes /\ DirType
  BY DEF Types, RunTypes
<1>1. CASE UNCHANGED controllerVars
  BY <1>0, <1>1 DEF controllerVars, LoadType, SessionType, WorkerType, TableType
<1>2. ASSUME NEW r \in load.runs, Pop(r) PROVE ControllerTypes'
  <2>1. worker' \in WorkerRecord
    BY <1>0, <1>2 DEF Pop, WorkerType, WorkerRecord, WorkerSteps, LoadType
  <2> QED
    BY <1>0, <1>2, <2>1 DEF Pop, LoadType, SessionType, WorkerType, TableType
<1>3. CASE AllocateName
  <2>1. worker' \in WorkerRecord
    BY <1>0, <1>3, AllocatedIs DEF AllocateName, WorkerType, WorkerRecord, WorkerSteps
  <2> QED
    BY <1>0, <1>3, <2>1, AllocatedIs DEF AllocateName, LoadType, SessionType, WorkerType, TableType
<1>4. CASE Clean
  <2>1. worker' \in WorkerRecord
    BY <1>0, <1>4 DEF Clean, WorkerType, WorkerRecord, WorkerSteps
  <2> QED
    BY <1>0, <1>4, <2>1 DEF Clean, LoadType, SessionType, WorkerType, TableType
<1>5. CASE CleanFails
  <2>1. worker' \in WorkerRecord
    BY <1>0, <1>5 DEF CleanFails, WorkerType, WorkerRecord, WorkerSteps
  <2>2. LoadType'
    BY <1>0, <1>5 DEF CleanFails, LoadType
  <2> QED
    BY <1>0, <1>5, <2>1, <2>2 DEF CleanFails, SessionType, WorkerType, TableType
<1>6. CASE Launch
  <2>1. worker' \in WorkerRecord
    BY <1>6 DEF Launch, WorkerRecord, WorkerSteps
  <2> QED
    BY <1>0, <1>6, <2>1 DEF Launch, LoadType, SessionType, WorkerType, TableType
<1>7. CASE Reset
  <2>1. session' \in Sessions
    BY <1>0, <1>7, Constants DEF Reset, SessionsInOrder, Sessions, SessionType, LoadType
  <2>2. TableType'
    BY <1>7 DEF Reset, TableType
  <2> QED
    BY <1>0, <1>7, <2>1, <2>2 DEF Reset, LoadType, SessionType, WorkerType
<1>8. CASE RestartRequest
  <2>1. LoadType'
    BY <1>0, <1>8 DEF RestartRequest, LoadType
  <2> QED
    BY <1>0, <1>8, <2>1 DEF RestartRequest, SessionType, WorkerType, TableType
<1>9. CASE RestartKilled
  BY <1>0, <1>9 DEF RestartKilled, LoadType, SessionType, WorkerType, TableType
<1>10. ASSUME NEW i \in Infos, Wrapup(i) PROVE ControllerTypes'
  <2>1. ended' \subseteq Runs
    BY <1>0, <1>10, Constants DEF Wrapup, SessionType
  <2> QED
    BY <1>0, <1>10, <2>1 DEF Wrapup, LoadType, SessionType, WorkerType, TableType
<1>11. ASSUME NEW i \in Infos, ReturnDir(i) PROVE ControllerTypes'
  <2>1. CASE dir[i] \in DOMAIN rundirs
    <3>1. dir[i] \in Nat \ {0} /\ dir[i] <= Len(rundirs) + 1
      BY <1>0, <2>1 DEF TableType
    <3>2. PICK d \in Nat \ {0} : d = dir[i] /\ d <= Len(rundirs) + 1 /\ d \in DOMAIN rundirs
      BY <2>1, <3>1
    <3>3. rundirs' = Given(d, Free)
      BY <1>11, <3>2 DEF ReturnDir
    <3>4. /\ Given(d, Free) \in Seq({Free} \cup Runs)
          /\ DOMAIN Given(d, Free) = DOMAIN rundirs \cup {d}
      BY <1>0, <3>2, GivenIs
    <3>5. TableType'
      BY <1>0, <3>2, <3>3, <3>4 DEF TableType
    <3> QED
      BY <1>0, <1>11, <3>5 DEF ReturnDir, LoadType, SessionType, WorkerType
  <2>2. CASE dir[i] \notin DOMAIN rundirs
    BY <1>0, <1>11, <2>2 DEF ReturnDir, LoadType, SessionType, WorkerType, TableType
  <2> QED BY <2>1, <2>2
<1> QED
  BY <1>1, <1>2, <1>3, <1>4, <1>5, <1>6, <1>7, <1>8, <1>9, <1>10, <1>11, ControllerChanges
     DEF QueueWorker


LEMMA RunTypesStep ==
  ASSUME Types, WorkerInOrder, [Next]_vars
  PROVE  RunTypes'
<1> USE DEF RunTypes
<1>0. RunTypes /\ SessionType /\ WorkerType /\ TableType /\ LoadType
  BY DEF Types, ControllerTypes
<1>1. CASE UNCHANGED runVars
  BY <1>0, <1>1 DEF runVars, RunType, PrintedType, DirType
<1>2. ASSUME NEW r \in load.runs, Pop(r) PROVE RunTypes'
  <2>1. RunType'
    BY <1>0, <1>2 DEF Pop, RunType, RunRecord
  <2> QED
    BY <1>0, <1>2, <2>1 DEF Pop, PrintedType, DirType
<1>3. CASE Launch
  <2>1. RunType'
    BY <1>0, <1>3 DEF Launch, RunType, RunRecord
  <2>2. DirType'
    BY <1>0, <1>3 DEF Launch, DirType, WorkerType, WorkerRecord
  <2> QED
    BY <1>0, <1>3, <2>1, <2>2 DEF Launch, PrintedType
<1>4. ASSUME NEW i \in Infos, ProcessPrints(i) PROVE RunTypes'
  BY <1>0, <1>4 DEF ProcessPrints, RunType, PrintedType, DirType
<1>5. ASSUME NEW i \in Infos, ProcessEnds(i) PROVE RunTypes'
  <2>1. RunType'
    BY <1>0, <1>5 DEF ProcessEnds, RunType, RunRecord
  <2> QED
    BY <1>0, <1>5, <2>1 DEF ProcessEnds, PrintedType, DirType
<1>6. ASSUME NEW i \in Infos, RestartKill(i) PROVE RunTypes'
  <2>1. [status |-> "over", preempted |-> TRUE, killing |-> (run[i].process = "live"),
         process |-> IF run[i].process = "none" THEN "none" ELSE "gone"] \in RunRecord
    BY DEF RunRecord
  <2>2. RunType'
    BY <1>0, <1>6, <2>1 DEF RestartKill, RunType
  <2> QED
    BY <1>0, <1>6, <2>2 DEF RestartKill, PrintedType, DirType
<1>7. ASSUME NEW i \in Infos, Wrapup(i) PROVE RunTypes'
  <2>1. RunType'
    BY <1>0, <1>7 DEF Wrapup, RunType, RunRecord
  <2> QED
    BY <1>0, <1>7, <2>1 DEF Wrapup, PrintedType, DirType
<1>8. ASSUME NEW i \in Infos, ReturnDir(i) PROVE RunTypes'
  BY <1>0, <1>8 DEF ReturnDir, RunType, PrintedType, DirType
<1> QED
  BY <1>1, <1>2, <1>3, <1>4, <1>5, <1>6, <1>7, <1>8, RunChanges

\* What Record does with a text.
LEMMA RecordIs ==
  ASSUME ReaderType, ReadType, RecentType, ConsoleType, BlurType,
         NEW i \in Infos, NEW line \in Nat, Record(i, line)
  PROVE  /\ ReaderType' /\ RecentType' /\ ConsoleType' /\ blur' \in [Clients -> SUBSET Nat]
         /\ reader'[i] = [pc |-> "loop", text |-> line, i |-> 0, n |-> 0]
         /\ recent'[i] = Recent(recent[i], line)
         /\ \A j \in Infos : j # i => reader'[j] = reader[j] /\ recent'[j] = recent[j]
<1>1. /\ ReaderType' /\ reader'[i] = [pc |-> "loop", text |-> line, i |-> 0, n |-> 0]
      /\ \A j \in Infos : j # i => reader'[j] = reader[j]
  BY DEF Record, ReaderType, ReaderRecord, ReaderSteps
<1>2. Recent(recent[i], line) \in Seq(Nat)
  BY DEF Recent, RecentType
<1>3. /\ RecentType' /\ recent'[i] = Recent(recent[i], line)
      /\ \A j \in Infos : j # i => recent'[j] = recent[j]
  BY <1>2 DEF Record, RecentType
<1>4. <<i, line>> \in Infos \X Nat
  OBVIOUS
<1>5. ConsoleType'
  <2>1. PICK e \in Infos \X Nat : e = <<i, line>>
    BY <1>4
  <2>2. dir[i] \in Dirs => Append(console[dir[i]], e) \in Seq(Infos \X Nat)
    BY DEF ConsoleType
  <2>3. console' = [console EXCEPT ![dir[i]] = Append(console[dir[i]], e)]
    BY <2>1 DEF Record
  <2> QED
    BY <2>2, <2>3 DEF ConsoleType
<1>6. blur' \in [Clients -> SUBSET Nat]
  BY DEF Record, BlurType
<1> QED
  BY <1>1, <1>3, <1>5, <1>6

LEMMA ReaderTypesStep ==
  ASSUME Types, WorkerInOrder, [Next]_vars
  PROVE  ReaderTypes'
<1> USE DEF ReaderTypes
<1>0. ReaderTypes /\ WorkerType /\ TableType /\ ListType /\ BlurType
  BY DEF Types, ControllerTypes, ClientTypes, HistoryTypes
<1>1. CASE UNCHANGED readerVars
  BY <1>0, <1>1 DEF readerVars, ReaderType, ReadType, RecentType, ConsoleType
<1>2. CASE Clean
  <2>1. ConsoleType'
    BY <1>0, <1>2, EmptySeq DEF Clean, ConsoleType
  <2> QED
    BY <1>0, <1>2, <2>1 DEF Clean, ReaderType, ReadType, RecentType
<1>3. CASE Launch
  <2>1. ConsoleType'
    BY <1>0, <1>3, EmptySeq DEF Launch, ConsoleType
  <2>2. ReaderType'
    BY <1>0, <1>3 DEF Launch, ReaderType, ReaderRecord, ReaderSteps
  <2> QED
    BY <1>0, <1>3, <2>1, <2>2 DEF Launch, ReadType, RecentType
<1>4. ASSUME NEW i \in Infos, ReadLine(i) PROVE ReaderTypes'
  <2>1. read[i] + 1 \in Nat /\ ReadType'
    BY <1>0, <1>4 DEF ReadLine, ReadType
  <2> QED
    BY <1>0, <1>4, <2>1, RecordIs DEF ReadLine
<1>5. ASSUME NEW i \in Infos, LoopStart(i) PROVE ReaderTypes'
  <2>1. ReaderType'
    <3>1. Len(acallbacks[i]) \in Nat
      BY <1>0 DEF ListType
    <3>2. PICK n \in Nat : n = Len(acallbacks[i])
      BY <3>1
    <3>3. PICK v \in ReaderRecord : v = reader[i]
      BY <1>0 DEF ReaderType
    <3>4. [v EXCEPT !.pc = "send", !.i = 1, !.n = n] \in ReaderRecord
      BY <3>2, <3>3 DEF ReaderRecord, ReaderSteps
    <3>5. reader' = [reader EXCEPT ![i] = [v EXCEPT !.pc = "send", !.i = 1, !.n = n]]
      BY <1>5, <3>2, <3>3 DEF LoopStart
    <3> HIDE DEF ReaderRecord
    <3> QED
      BY <1>0, <3>4, <3>5 DEF ReaderType
  <2> QED
    BY <1>0, <1>5, <2>1 DEF LoopStart, ReadType, RecentType, ConsoleType
<1>6. ASSUME NEW i \in Infos, Send(i) PROVE ReaderTypes'
  <2>1. ReaderType'
    BY <1>0, <1>6 DEF Send, ReaderType, ReaderRecord, ReaderSteps
  <2> QED
    BY <1>0, <1>6, <2>1 DEF Send, ReadType, RecentType, ConsoleType
<1>7. ASSUME NEW i \in Infos, LoopEnd(i) PROVE ReaderTypes'
  <2>1. ReaderType'
    BY <1>0, <1>7 DEF LoopEnd, ReaderType, ReaderRecord, ReaderSteps
  <2> QED
    BY <1>0, <1>7, <2>1 DEF LoopEnd, ReadType, RecentType, ConsoleType
<1>8. ASSUME NEW i \in Infos, Wrapup(i) PROVE ReaderTypes'
  <2>1. ReaderType'
    BY <1>0, <1>8 DEF Wrapup, ToReader, ReaderType, ReaderRecord, ReaderSteps
  <2> QED
    BY <1>0, <1>8, <2>1 DEF Wrapup, ReadType, RecentType, ConsoleType
<1>9. ASSUME NEW i \in Infos, SendExit(i) PROVE ReaderTypes'
  <2>1. Record(i, Exit) /\ Exit \in Nat /\ UNCHANGED read
    BY <1>9 DEF SendExit, Exit
  <2>2. ReadType'
    BY <1>0, <2>1 DEF ReadType
  <2> QED
    BY <1>0, <2>1, <2>2, RecordIs
<1>10. ASSUME NEW i \in Infos, ReturnDir(i) PROVE ReaderTypes'
  <2>1. ReaderType'
    BY <1>0, <1>10 DEF ReturnDir, ToReader, ReaderType, ReaderRecord, ReaderSteps
  <2> QED
    BY <1>0, <1>10, <2>1 DEF ReturnDir, ReadType, RecentType, ConsoleType
<1> QED
  BY <1>1, <1>2, <1>3, <1>4, <1>5, <1>6, <1>7, <1>8, <1>9, <1>10, ReaderChanges DEF Reader


\* A client whose record changes; the others keep theirs.
LEMMA ClientSet ==
  ASSUME ClientType, NEW c \in Clients, NEW v \in ClientRecord, client' = [client EXCEPT ![c] = v]
  PROVE  ClientType' /\ client'[c] = v /\ \A d \in Clients : d # c => client'[d] = client[d]
BY DEF ClientType

\* Who the reader sends a text to, and what changes.
LEMMA SendIs ==
  ASSUME Types, NEW i \in Infos, Send(i)
  PROVE  /\ ClientType' /\ UNCHANGED listVars
         /\ \/ /\ reader[i].i \in DOMAIN acallbacks[i]
               /\ \E c \in Clients :
                    /\ c = acallbacks[i][reader[i].i]
                    /\ client'[c].pc = client[c].pc /\ client'[c].to = client[c].to
                    /\ client'[c].got = Append(client[c].got, reader[i].text)
                    /\ \A d \in Clients : d # c => client'[d] = client[d]
            \/ reader[i].i \notin DOMAIN acallbacks[i] /\ UNCHANGED client
<1>0. ListType /\ ClientType /\ ReaderType
  BY DEF Types, ClientTypes, ReaderTypes
<1>1. CASE reader[i].i \in DOMAIN acallbacks[i]
  <2>1. PICK c \in Clients : c = acallbacks[i][reader[i].i]
    BY <1>0, <1>1 DEF ListType
  <2>2. PICK lines \in Seq(Nat), t \in Nat : t = reader[i].text /\ lines = <<t>>
    <3>1. reader[i].text \in Nat
      BY <1>0 DEF ReaderType, ReaderRecord
    <3>2. <<reader[i].text>> \in Seq(Nat)
      BY <3>1
    <3> QED
      BY <3>1, <3>2, Zenon
  <2>3. client' = [client EXCEPT ![c] = Received(c, lines)]
    BY <1>1, <2>1, <2>2 DEF Send
  <2>4. /\ Received(c, lines) \in ClientRecord
        /\ Received(c, lines).pc = client[c].pc /\ Received(c, lines).to = client[c].to
        /\ Received(c, lines).got = client[c].got \o lines
    BY <1>0, ReceivedIs
  <2>5. client[c].got \o lines = Append(client[c].got, t)
    <3>1. client[c].got \in Seq(Nat)
      BY <1>0 DEF ClientType, ClientRecord
    <3> QED
      BY <2>2, <3>1, AppendIsConcat
  <2>6. PICK v \in ClientRecord : v = Received(c, lines)
    BY <2>4
  <2>7. ClientType' /\ client'[c] = v /\ \A d \in Clients : d # c => client'[d] = client[d]
    BY <1>0, <2>3, <2>6, ClientSet
  <2>8. client'[c].got = Append(client[c].got, reader[i].text)
        /\ client'[c].pc = client[c].pc /\ client'[c].to = client[c].to
    BY <2>2, <2>4, <2>5, <2>6, <2>7
  <2>9. UNCHANGED listVars
    BY DEF Send
  <2> QED
    BY <1>1, <2>1, <2>7, <2>8, <2>9
<1>2. CASE reader[i].i \notin DOMAIN acallbacks[i]
  BY <1>0, <1>2 DEF Send, ClientType
<1> QED
  BY <1>1, <1>2

LEMMA AttachIs ==
  ASSUME Types, NEW c \in Clients, NEW r \in load.runs, Attach(c, r)
  PROVE  /\ ClientType' /\ UNCHANGED listVars
         /\ \E i \in Infos :
              /\ i = Current(r) /\ i[2] = session /\ run[i].status = "running"
              /\ client[c].pc = "out" /\ client'[c].pc = "snapshot" /\ client'[c].to = i
              /\ client'[c].got = client[c].got
              /\ \A d \in Clients : d # c => client'[d] = client[d]
<1>0. ClientType /\ SessionType /\ LoadType
  BY DEF Types, ClientTypes, ControllerTypes
<1>1. r \in Runs
  BY <1>0 DEF LoadType
<1>2. PICK i \in Infos : i = Current(r) /\ i[2] = session
  BY <1>0, <1>1, InfosType
<1>3. PICK v : v = client[c] /\ client' = [client EXCEPT ![c] = [v EXCEPT !.pc = "snapshot", !.to = i]]
  BY <1>0, <1>2 DEF Attach, ClientType
<1>4. v \in ClientRecord
  BY <1>0, <1>3 DEF ClientType
<1>5. PICK w \in ClientRecord : w = [v EXCEPT !.pc = "snapshot", !.to = i]
  BY <1>4 DEF ClientRecord
<1>6. ClientType' /\ client'[c] = w /\ \A d \in Clients : d # c => client'[d] = client[d]
  BY <1>0, <1>3, <1>5, ClientSet
<1>7. w.pc = "snapshot" /\ w.to = i /\ w.got = client[c].got
  BY <1>3, <1>4, <1>5 DEF ClientRecord
<1> QED
  BY <1>2, <1>6, <1>7 DEF Attach, Running

\* The client gets the recent lines and is listed among the callbacks.
LEMMA SnapshotIs ==
  ASSUME Types, NEW c \in Clients, ClientInOrder(c), Snapshot(c)
  PROVE  /\ ClientType'
         /\ \E i \in Infos :
              /\ i = client[c].to /\ client[c].pc = "snapshot"
              /\ client'[c].pc = "hook" /\ client'[c].to = i /\ client'[c].got = recent[i]
              /\ \A d \in Clients : d # c => client'[d] = client[d]
              /\ callbacks' = [callbacks EXCEPT ![i] = Append(callbacks[i], c)]
              /\ UNCHANGED acallbacks
<1>0. ListType /\ ClientType /\ RecentType
  BY DEF Types, ClientTypes, ReaderTypes
<1>1. PICK i \in Infos : i = client[c].to
  BY <1>0 DEF Snapshot, ClientInOrder, ClientType, ClientRecord
<1>2. PICK lines \in Seq(Nat) : lines = recent[i]
  BY <1>0 DEF RecentType
<1>3. PICK v : v = Received(c, lines) /\ client' = [client EXCEPT ![c] = [v EXCEPT !.pc = "hook"]]
  BY <1>1, <1>2 DEF Snapshot
<1>4. v \in ClientRecord /\ v.to = client[c].to /\ v.got = client[c].got \o lines
  BY <1>0, <1>3, ReceivedIs
<1>5. client[c].got = <<>> /\ client[c].pc = "snapshot"
  BY DEF Snapshot, ClientInOrder
<1>6. v.got = lines
  BY <1>4, <1>5
<1>7. PICK w \in ClientRecord : w = [v EXCEPT !.pc = "hook"]
  BY <1>4 DEF ClientRecord
<1>8. ClientType' /\ client'[c] = w /\ \A d \in Clients : d # c => client'[d] = client[d]
  BY <1>0, <1>3, <1>7, ClientSet
<1>9. w.pc = "hook" /\ w.to = i /\ w.got = recent[i]
  BY <1>1, <1>2, <1>4, <1>6, <1>7 DEF ClientRecord
<1>10. callbacks' = [callbacks EXCEPT ![i] = Append(callbacks[i], c)] /\ UNCHANGED acallbacks
  BY <1>1 DEF Snapshot
<1> QED
  BY <1>1, <1>5, <1>8, <1>9, <1>10

\* The client's asynchronous callback is listed.
LEMMA HookIs ==
  ASSUME Types, NEW c \in Clients, ClientInOrder(c), Hook(c)
  PROVE  /\ ClientType'
         /\ \E i \in Infos :
              /\ i = client[c].to /\ client[c].pc = "hook"
              /\ client'[c].pc = "attached" /\ client'[c].to = i
              /\ client'[c].got = client[c].got
              /\ \A d \in Clients : d # c => client'[d] = client[d]
              /\ acallbacks' = [acallbacks EXCEPT ![i] = Append(acallbacks[i], c)]
              /\ UNCHANGED callbacks
<1>0. ClientType
  BY DEF Types, ClientTypes
<1>1. PICK i \in Infos : i = client[c].to
  BY <1>0 DEF Hook, ClientInOrder, ClientType, ClientRecord
<1>2. PICK v \in ClientRecord : v = client[c] /\ client' = [client EXCEPT ![c] = [v EXCEPT !.pc = "attached"]]
  BY <1>0 DEF Hook, ClientType
<1>3. PICK w \in ClientRecord : w = [v EXCEPT !.pc = "attached"]
  BY <1>2 DEF ClientRecord
<1>4. ClientType' /\ client'[c] = w /\ \A d \in Clients : d # c => client'[d] = client[d]
  BY <1>0, <1>2, <1>3, ClientSet
<1>5. w.pc = "attached" /\ w.to = v.to /\ w.got = v.got
  BY <1>3 DEF ClientRecord
<1>6. acallbacks' = [acallbacks EXCEPT ![i] = Append(acallbacks[i], c)]
  BY <1>1 DEF Hook
<1> QED
  BY <1>1, <1>2, <1>4, <1>5, <1>6 DEF Hook

\* One place is taken out of both lists, the client's own in callbacks; in a
\* later session, none.
LEMMA DetachIs ==
  ASSUME Types, NEW c \in Clients, ClientInOrder(c), Detach(c)
  PROVE  /\ ClientType'
         /\ \E i \in Infos :
              /\ i = client[c].to /\ client[c].pc = "attached"
              /\ client'[c].pc = "left" /\ client'[c].to = i
              /\ client'[c].got = client[c].got
              /\ \A d \in Clients : d # c => client'[d] = client[d]
              /\ \/ /\ i[2] = session
                    /\ \E k \in DOMAIN callbacks[i] :
                         /\ callbacks[i][k] = c
                         /\ callbacks' = [callbacks EXCEPT ![i] = Without(callbacks[i], k)]
                         /\ acallbacks' = [acallbacks EXCEPT ![i] = Without(acallbacks[i], k)]
                 \/ i[2] # session /\ UNCHANGED listVars
<1>0. ClientType
  BY DEF Types, ClientTypes
<1>1. PICK i \in Infos : i = client[c].to
  BY <1>0 DEF Detach, ClientInOrder, ClientType, ClientRecord
<1>2. PICK v \in ClientRecord : v = client[c] /\ client' = [client EXCEPT ![c] = [v EXCEPT !.pc = "left"]]
  BY <1>0 DEF Detach, ClientType
<1>3. PICK w \in ClientRecord : w = [v EXCEPT !.pc = "left"]
  BY <1>2 DEF ClientRecord
<1>4. ClientType' /\ client'[c] = w /\ \A d \in Clients : d # c => client'[d] = client[d]
  BY <1>0, <1>2, <1>3, ClientSet
<1>5. w.pc = "left" /\ w.to = v.to /\ w.got = v.got
  BY <1>3 DEF ClientRecord
<1>6. client[c].pc = "attached"
  BY DEF Detach
<1>7. \/ /\ i[2] = session
         /\ \E k \in DOMAIN callbacks[i] :
              /\ callbacks[i][k] = c
              /\ callbacks' = [callbacks EXCEPT ![i] = Without(callbacks[i], k)]
              /\ acallbacks' = [acallbacks EXCEPT ![i] = Without(acallbacks[i], k)]
      \/ i[2] # session /\ UNCHANGED listVars
  <2>1. CASE i[2] = session
    <3>1. \E k \in DOMAIN callbacks[i] : callbacks[i][k] = c
      BY <1>1, <1>6 DEF ClientInOrder
    <3>2. PICK k \in DOMAIN callbacks[i] : k = Place(i, c) /\ callbacks[i][k] = c
      BY <3>1 DEF Place
    <3>3. /\ callbacks' = [callbacks EXCEPT ![i] = Without(callbacks[i], k)]
          /\ acallbacks' = [acallbacks EXCEPT ![i] = Without(acallbacks[i], k)]
      BY <1>1, <2>1, <3>2 DEF Detach
    <3> QED
      BY <2>1, <3>2, <3>3
  <2>2. CASE i[2] # session
    BY <1>1, <2>2 DEF Detach
  <2> QED
    BY <2>1, <2>2
<1> QED
  BY <1>1, <1>2, <1>4, <1>5, <1>6, <1>7

LEMMA ClientTypesStep ==
  ASSUME Types, \A c \in Clients : ClientInOrder(c), [Next]_vars
  PROVE  ClientTypes'
<1> USE DEF ClientTypes
<1>0. ListType /\ ClientType
  BY DEF Types
<1>1. CASE UNCHANGED <<listVars, client>>
  BY <1>0, <1>1 DEF listVars, ListType, ClientType
<1>2. ASSUME NEW i \in Infos, Send(i) PROVE ClientTypes'
  BY <1>0, <1>2, SendIs DEF listVars, ListType
<1>3. ASSUME NEW c \in Clients, Snapshot(c) PROVE ClientTypes'
  <2>1. PICK i \in Infos : /\ callbacks' = [callbacks EXCEPT ![i] = Append(callbacks[i], c)]
                           /\ UNCHANGED acallbacks
    BY <1>3, SnapshotIs
  <2>2. Append(callbacks[i], c) \in Seq(Clients)
    BY <1>0 DEF ListType
  <2> QED
    BY <1>0, <1>3, <2>1, <2>2, SnapshotIs DEF ListType
<1>4. ASSUME NEW c \in Clients, Hook(c) PROVE ClientTypes'
  <2>1. PICK i \in Infos : /\ acallbacks' = [acallbacks EXCEPT ![i] = Append(acallbacks[i], c)]
                           /\ UNCHANGED callbacks
    BY <1>4, HookIs
  <2>2. Append(acallbacks[i], c) \in Seq(Clients)
    BY <1>0 DEF ListType
  <2> QED
    BY <1>0, <1>4, <2>1, <2>2, HookIs DEF ListType
<1>5. ASSUME NEW c \in Clients, Detach(c) PROVE ClientTypes'
  <2>1. ClientType'
    BY <1>5, DetachIs
  <2>2. CASE UNCHANGED listVars
    BY <1>0, <2>1, <2>2 DEF listVars, ListType
  <2>3. ASSUME NEW i \in Infos, NEW k \in DOMAIN callbacks[i],
               callbacks' = [callbacks EXCEPT ![i] = Without(callbacks[i], k)],
               acallbacks' = [acallbacks EXCEPT ![i] = Without(acallbacks[i], k)]
        PROVE  ListType'
    <3>1. Without(callbacks[i], k) \in Seq(Clients) /\ Without(acallbacks[i], k) \in Seq(Clients)
      BY <1>0, WithoutType DEF ListType
    <3> QED
      BY <1>0, <2>3, <3>1 DEF ListType
  <2> QED
    BY <1>5, <2>1, <2>2, <2>3, DetachIs
<1>6. ASSUME NEW c \in Clients, NEW r \in load.runs, Attach(c, r) PROVE ClientTypes'
  BY <1>0, <1>6, AttachIs DEF listVars, ListType
<1> QED
  BY <1>1, <1>2, <1>3, <1>4, <1>5, <1>6, ClientChanges

LEMMA HistoryTypesStep ==
  ASSUME Types, WorkerInOrder, \A c \in Clients : ClientInOrder(c), [Next]_vars
  PROVE  HistoryTypes'
<1> USE DEF HistoryTypes
<1>0. LeakedType /\ BlurType /\ ReaderTypes /\ TableType
  BY DEF Types, ControllerTypes
<1>1. CASE UNCHANGED historyVars
  BY <1>0, <1>1 DEF historyVars, LeakedType, BlurType
<1>2. CASE CleanFails
  <2>1. worker.dir \in Dirs
    BY <1>0, <1>2 DEF CleanFails, WorkerInOrder, Holding, Held, TableType
  <2> QED
    BY <1>0, <1>2, <2>1 DEF CleanFails, LeakedType, BlurType
<1>3. CASE Launch
  <2>1. worker.clean \in Dirs
    BY <1>0, <1>3 DEF Launch, WorkerInOrder, Holding, Held, TableType
  <2> QED
    BY <1>0, <1>3, <2>1 DEF Launch, LeakedType, BlurType
<1>4. CASE Reset
  BY <1>0, <1>4 DEF Reset, LeakedType, BlurType
<1>5. ASSUME NEW i \in Infos, ReadLine(i) PROVE HistoryTypes'
  <2>1. read[i] + 1 \in Nat
    BY <1>0 DEF ReaderTypes, ReadType
  <2>2. blur' \in [Clients -> SUBSET Nat]
    BY <1>0, <1>5, <2>1, RecordIs DEF ReadLine, ReaderTypes
  <2> QED
    BY <1>0, <1>5, <2>2 DEF ReadLine, LeakedType, BlurType
<1>6. ASSUME NEW i \in Infos, SendExit(i) PROVE HistoryTypes'
  <2>1. Record(i, Exit) /\ Exit \in Nat /\ UNCHANGED <<late, leaked, crossed>>
    BY <1>6 DEF SendExit, Exit
  <2>2. blur' \in [Clients -> SUBSET Nat]
    BY <1>0, <2>1, RecordIs DEF ReaderTypes
  <2> QED
    BY <1>0, <2>1, <2>2 DEF LeakedType, BlurType
<1>7. ASSUME NEW c \in Clients, Snapshot(c) PROVE HistoryTypes'
  <2>1. reader \in [Infos -> ReaderRecord]
    BY <1>0 DEF ReaderTypes, ReaderType
  <2>0. PICK i \in Infos : i = client[c].to
    BY <1>7, SnapshotIs
  <2> DEFINE b == IF Handling(i) THEN {reader[i].text}
                  ELSE IF reader[i].pc \in {"return", "done"} THEN {Exit} ELSE {}
  <2>2. b \in SUBSET Nat
    BY <2>1 DEF ReaderRecord, Exit
  <2>3. blur' = [blur EXCEPT ![c] = b]
    BY <1>7, <2>0 DEF Snapshot
  <2> HIDE DEF b
  <2>4. blur' \in [Clients -> SUBSET Nat]
    BY <1>0, <2>2, <2>3 DEF BlurType
  <2>5. crossed' \subseteq Clients
    BY <1>0, <1>7 DEF Snapshot, BlurType
  <2> QED
    BY <1>0, <1>7, <2>4, <2>5 DEF Snapshot, LeakedType, BlurType
<1>8. ASSUME NEW c \in Clients, Detach(c) PROVE HistoryTypes'
  <2>0. PICK i \in Infos : i = client[c].to
    BY <1>8, DetachIs
  <2>1. CASE UNCHANGED blur
    BY <1>0, <1>8, <2>1 DEF Detach, LeakedType, BlurType
  <2>2. CASE blur' = [d \in Clients |-> IF client[d].to = i THEN blur[d] \cup {reader[i].text}
                                                            ELSE blur[d]]
    <3>1. reader[i].text \in Nat
      BY <1>0 DEF ReaderTypes, ReaderType, ReaderRecord
    <3> QED
      BY <1>0, <1>8, <2>2, <3>1 DEF Detach, LeakedType, BlurType
  <2> QED
    BY <1>8, <2>0, <2>1, <2>2 DEF Detach
<1> QED
  BY <1>1, <1>2, <1>3, <1>4, <1>5, <1>6, <1>7, <1>8, HistoryChanges


LEMMA TypesStep ==
  ASSUME Types, DirsAreFew, WorkerInOrder, SessionsInOrder,
         \A c \in Clients : ClientInOrder(c), [Next]_vars
  PROVE  Types'
BY ControllerTypesStep, RunTypesStep, ReaderTypesStep, ClientTypesStep, HistoryTypesStep DEF Types

-----------------------------------------------------------------------------
(***************************************************************************)
(* Sessions, and the number of directories                                 *)
(***************************************************************************)

\* A run leaves the queue only when the worker takes it.
LEMMA QueuedStep ==
  ASSUME Types, WorkerInOrder, \A j \in Infos : ReaderInOrder(j), [Next]_vars, NEW i \in Infos
  PROVE  \/ run'[i].status = "queued" <=> run[i].status = "queued"
         \/ \E r \in load.runs : /\ Pop(r) /\ i = Current(r)
                                 /\ run[i].status = "queued" /\ run'[i].status = "running"
<1> DEFINE Same == run'[i].status = "queued" <=> run[i].status = "queued"
<1>0. RunType /\ WorkerType /\ SessionType /\ LoadType
  BY DEF Types, RunTypes, ControllerTypes
<1>1. CASE UNCHANGED runVars
  BY <1>1 DEF runVars
<1>2. ASSUME NEW r \in load.runs, Pop(r)
      PROVE  Same \/ (i = Current(r) /\ run[i].status = "queued" /\ run'[i].status = "running")
  BY <1>0, <1>2 DEF Pop, RunType, RunRecord
<1>3. CASE Launch
  <2>1. run[Current(worker.run)].status # "queued"
    BY <1>3 DEF Launch, WorkerInOrder, Taken
  <2> QED
    BY <1>0, <1>3, <2>1 DEF Launch, RunType, RunRecord
<1>4. ASSUME NEW j \in Infos, ProcessPrints(j) PROVE Same
  BY <1>4 DEF ProcessPrints
<1>5. ASSUME NEW j \in Infos, ProcessEnds(j) PROVE Same
  BY <1>0, <1>5 DEF ProcessEnds, RunType, RunRecord
<1>6. ASSUME NEW j \in Infos, RestartKill(j) PROVE Same
  BY <1>0, <1>6 DEF RestartKill, Running, RunType, RunRecord
<1>7. ASSUME NEW j \in Infos, Wrapup(j) PROVE Same
  <2>1. run[j].status # "queued"
    BY <1>7 DEF Wrapup, ReaderInOrder
  <2> QED
    BY <1>0, <1>7, <2>1 DEF Wrapup, RunType, RunRecord
<1>8. ASSUME NEW j \in Infos, ReturnDir(j) PROVE Same
  BY <1>8 DEF ReturnDir
<1> QED
  BY <1>1, <1>2, <1>3, <1>4, <1>5, <1>6, <1>7, <1>8, RunChanges

LEMMA SessionChanges ==
  ASSUME [Next]_vars
  PROVE  UNCHANGED <<load, session, restart>> \/ CleanFails \/ Reset \/ RestartRequest \/ RestartKilled
BY ControllerChanges, Zenon DEF QueueWorker, Pop, AllocateName, Clean, Launch, Wrapup, ReturnDir,
                                controllerVars

LEMMA SessionsStep ==
  ASSUME Types, SessionsInOrder, WorkerInOrder, \A j \in Infos : ReaderInOrder(j), [Next]_vars
  PROVE  /\ SessionsInOrder' /\ load'.runs = load.runs
         /\ session' = session \/ (Reset /\ session' = session + 1)
<1>0. LoadType /\ SessionType /\ RunType /\ session \in Nat /\ load.restarts \in Nat
  BY Constants DEF Types, ControllerTypes, RunTypes, LoadType, SessionType
<1>1. /\ (session + load.restarts + (IF restart = "no" THEN 0 ELSE 1) <= MaxRestarts + 1)'
      /\ load'.runs = load.runs
      /\ session' = session \/ (Reset /\ session' = session + 1)
  <2>1. CASE UNCHANGED <<load, session, restart>>
    BY <2>1 DEF SessionsInOrder
  <2>2. CASE CleanFails
    BY <1>0, <2>2 DEF CleanFails, SessionsInOrder, LoadType
  <2>3. CASE Reset
    BY <1>0, <2>3 DEF Reset, SessionsInOrder
  <2>4. CASE RestartRequest
    BY <1>0, <2>4, Constants DEF RestartRequest, SessionsInOrder, LoadType
  <2>5. CASE RestartKilled
    BY <1>0, <2>5 DEF RestartKilled, SessionsInOrder
  <2> QED
    BY <2>1, <2>2, <2>3, <2>4, <2>5, SessionChanges
<1>2. ASSUME NEW i \in Infos, i[2] > session' PROVE run'[i].status = "queued"
  <2>1. i[2] > session /\ i[2] # session
    BY <1>0, <1>1, <1>2, Constants
  <2>2. \A r \in load.runs : Current(r)[2] = session
    BY <1>0 DEF Current
  <2> QED
    BY <2>1, <2>2, QueuedStep DEF SessionsInOrder
<1> QED
  BY <1>1, <1>2 DEF SessionsInOrder

LEMMA TakenStep ==
  ASSUME Types, WorkerInOrder, \A j \in Infos : ReaderInOrder(j), [Next]_vars,
         session' = session
  PROVE  /\ (~ \E r \in load.runs : Pop(r)) => Taken' = Taken
         /\ \A r \in load.runs : Pop(r) => r \in Runs /\ Taken' = Taken \cup {r} /\ r \notin Taken
<1>0. SessionType /\ LoadType /\ RunType
  BY DEF Types, ControllerTypes, RunTypes
<1>1. \A r \in Runs : Current(r) \in Infos /\ Current(r)' = Current(r)
  BY <1>0, InfosType DEF Current
<1>2. ASSUME ~ \E r \in load.runs : Pop(r) PROVE Taken' = Taken
  BY <1>1, <1>2, QueuedStep DEF Taken
<1>3. ASSUME NEW r \in load.runs, Pop(r)
      PROVE  r \in Runs /\ Taken' = Taken \cup {r} /\ r \notin Taken
  <2>1. r \in Runs
    BY <1>0 DEF LoadType
  <2>2. run[Current(r)].status = "queued" /\ run'[Current(r)].status = "running"
    BY <1>0, <1>1, <1>3, <2>1 DEF Pop, RunType, RunRecord
  <2>3. \A q \in Runs : q # r => run'[Current(q)] = run[Current(q)]
    <3>1. \A q \in Runs : q # r => Current(q) # Current(r)
      BY DEF Current
    <3> QED
      BY <1>0, <1>1, <1>3, <3>1 DEF Pop, RunType
  <2> QED
    BY <1>1, <2>1, <2>2, <2>3 DEF Taken
<1> QED
  BY <1>2, <1>3

LEMMA TakenFinite ==
  IsFiniteSet(Taken) /\ Cardinality(Taken) \in Nat
<1>1. Taken \subseteq Runs
  BY DEF Taken
<1> QED
  BY <1>1, Constants, FS_Subset, FS_CardinalityType

LEMMA DirsAreFewStep ==
  ASSUME Types, DirsAreFew, SessionsInOrder, SessionsInOrder', WorkerInOrder,
         \A j \in Infos : ReaderInOrder(j), [Next]_vars
  PROVE  DirsAreFew'
<1>0. TableType /\ WorkerType /\ Len(rundirs) \in Nat
  BY DEF Types, ControllerTypes, TableType
<1>1. Len(rundirs') \in Nat
  BY ControllerTypesStep DEF ControllerTypes, TableType
<1>2. ToCome \in Nat /\ ToCome' \in Nat
  BY DEF ToCome
<1>3. PICK n \in Nat : n = Cardinality(Taken)
  BY TakenFinite
<1>4. Len(rundirs) + ToCome <= 2 * n
  BY <1>3 DEF DirsAreFew
<1>5. CASE Reset
  <2>1. rundirs' = <<>> /\ ToCome' = 0
    BY <1>5 DEF Reset, ToCome
  <2>2. Cardinality(Taken)' \in Nat
    <3>1. Taken' \subseteq Runs
      BY DEF Taken
    <3> QED
      BY <3>1, Constants, FS_Subset, FS_CardinalityType
  <2> QED
    BY <2>1, <2>2 DEF DirsAreFew
<1>6. ASSUME NEW r \in load.runs, Pop(r) PROVE DirsAreFew'
  <2>1. /\ UNCHANGED <<session, rundirs>> /\ ToCome' = 2
    BY <1>0, <1>6 DEF Pop, ToCome, WorkerType, WorkerRecord
  <2>2. r \in Runs /\ Taken' = Taken \cup {r} /\ r \notin Taken
    BY <1>6, <2>1, TakenStep
  <2>3. Cardinality(Taken') = n + 1
    BY <1>3, <2>2, TakenFinite, FS_AddElement
  <2>4. ToCome = 0
    BY <1>6 DEF Pop, ToCome
  <2> QED
    BY <1>0, <1>4, <2>1, <2>3, <2>4 DEF DirsAreFew
<1>7. ASSUME ~Reset, ~ \E r \in load.runs : Pop(r) PROVE DirsAreFew'
  <2>1. session' = session
    BY <1>7, SessionsStep
  <2>2. Cardinality(Taken') = n
    BY <1>3, <1>7, <2>1, TakenStep
  <2> DEFINE Fewer == Len(rundirs') + ToCome' <= Len(rundirs) + ToCome
  <2>3. Fewer
    <3>1. CASE UNCHANGED <<worker, rundirs>>
      BY <1>0, <3>1 DEF ToCome
    <3>2. CASE AllocateName
      <4>1. Len(rundirs') <= Len(rundirs) + 1 /\ Len(rundirs') \in Nat
        BY <3>2, AllocatedIs
      <4>2. ToCome' + 1 = ToCome
        BY <1>0, <3>2 DEF AllocateName, ToCome, WorkerType, WorkerRecord
      <4> QED
        BY <1>0, <1>1, <1>2, <4>1, <4>2 DEF ToCome
    <3>3. CASE Clean \/ CleanFails \/ Launch
      <4>1. CASE Clean
        <5>1. worker'.pc = "launch" /\ UNCHANGED rundirs
          BY <1>0, <4>1 DEF Clean, WorkerType, WorkerRecord
        <5> QED
          BY <1>0, <5>1 DEF ToCome
      <4>2. CASE CleanFails
        BY <1>0, <4>2 DEF CleanFails, ToCome, WorkerType, WorkerRecord
      <4>3. CASE Launch
        BY <1>0, <4>3 DEF Launch, ToCome
      <4> QED
        BY <3>3, <4>1, <4>2, <4>3
    <3>4. ASSUME NEW i \in Infos, ReturnDir(i) PROVE Fewer
      <4>1. UNCHANGED worker
        BY <3>4 DEF ReturnDir
      <4>2. Len(rundirs') = Len(rundirs)
        <5>1. CASE dir[i] \in DOMAIN rundirs
          <6>1. PICK d \in Nat \ {0} : d = dir[i] /\ d <= Len(rundirs) + 1 /\ d <= Len(rundirs)
            BY <1>0, <5>1 DEF TableType
          <6>2. rundirs' = Given(d, Free)
            BY <3>4, <5>1, <6>1 DEF ReturnDir
          <6> QED
            BY <1>0, <6>1, <6>2, GivenIs
        <5>2. CASE dir[i] \notin DOMAIN rundirs
          BY <3>4, <5>2 DEF ReturnDir
        <5> QED BY <5>1, <5>2
      <4> QED
        BY <1>0, <4>1, <4>2 DEF ToCome
    <3> QED
      BY <1>7, <3>1, <3>2, <3>3, <3>4, ControllerChanges
         DEF QueueWorker, RestartRequest, RestartKilled, Wrapup, controllerVars
  <2> QED
    BY <1>0, <1>4, <1>1, <1>2, <2>2, <2>3 DEF DirsAreFew
<1> QED
  BY <1>5, <1>6, <1>7


-----------------------------------------------------------------------------
(***************************************************************************)
(* What a step does to one run and its reader                              *)
(***************************************************************************)
SameRun(i) == run'[i] = run[i] /\ printed'[i] = printed[i] /\ dir'[i] = dir[i]
SameReader(i) == reader'[i] = reader[i] /\ read'[i] = read[i] /\ recent'[i] = recent[i]

\* Only the worker, the process and the reader of a run, and the restart that
\* kills it, touch its record.
LEMMA RunSame ==
  ASSUME Types, WorkerInOrder, [Next]_vars, NEW i \in Infos
  PROVE  \/ SameRun(i) \/ (\E r \in load.runs : Pop(r) /\ i = Current(r))
         \/ (Launch /\ i = Current(worker.run))
         \/ ProcessPrints(i) \/ ProcessEnds(i) \/ RestartKill(i) \/ Wrapup(i) \/ ReturnDir(i)
<1>0. RunType /\ PrintedType /\ DirType
  BY DEF Types, RunTypes
<1>1. CASE UNCHANGED runVars
  BY <1>1 DEF runVars, SameRun
<1>2. ASSUME NEW r \in load.runs, Pop(r), i # Current(r) PROVE SameRun(i)
  BY <1>0, <1>2 DEF Pop, SameRun, RunType
<1>3. ASSUME Launch, i # Current(worker.run) PROVE SameRun(i)
  BY <1>0, <1>3 DEF Launch, SameRun, RunType, DirType
<1>4. ASSUME NEW j \in Infos, j # i, ProcessPrints(j) PROVE SameRun(i)
  BY <1>0, <1>4 DEF ProcessPrints, SameRun, PrintedType
<1>5. ASSUME NEW j \in Infos, j # i, ProcessEnds(j) PROVE SameRun(i)
  BY <1>0, <1>5 DEF ProcessEnds, SameRun, RunType
<1>6. ASSUME NEW j \in Infos, j # i, RestartKill(j) PROVE SameRun(i)
  BY <1>0, <1>6 DEF RestartKill, SameRun, RunType
<1>7. ASSUME NEW j \in Infos, j # i, Wrapup(j) PROVE SameRun(i)
  BY <1>0, <1>7 DEF Wrapup, SameRun, RunType
<1>8. ASSUME NEW j \in Infos, j # i, ReturnDir(j) PROVE SameRun(i)
  BY <1>0, <1>8 DEF ReturnDir, SameRun, DirType
<1> QED
  BY <1>1, <1>2, <1>3, <1>4, <1>5, <1>6, <1>7, <1>8, RunChanges

LEMMA ReaderSame ==
  ASSUME Types, WorkerInOrder, [Next]_vars, NEW i \in Infos
  PROVE  SameReader(i) \/ (Launch /\ i = Current(worker.run)) \/ Reader(i)
<1>0. ReaderType /\ ReadType /\ RecentType /\ ConsoleType /\ BlurType
  BY DEF Types, ReaderTypes, HistoryTypes
<1>1. CASE UNCHANGED readerVars
  BY <1>1 DEF readerVars, SameReader
<1>2. CASE Clean
  BY <1>2 DEF Clean, SameReader
<1>3. ASSUME Launch, i # Current(worker.run) PROVE SameReader(i)
  BY <1>0, <1>3 DEF Launch, SameReader, ReaderType
<1>4. ASSUME NEW j \in Infos, j # i, Reader(j) PROVE SameReader(i)
  <2>1. CASE ReadLine(j)
    <3>1. read[j] + 1 \in Nat /\ Record(j, read[j] + 1)
      BY <1>0, <2>1 DEF ReadLine, ReadType
    <3>2. reader'[i] = reader[i] /\ recent'[i] = recent[i]
      BY <1>0, <1>4, <3>1, RecordIs
    <3> QED
      BY <1>0, <1>4, <2>1, <3>2 DEF ReadLine, SameReader, ReadType
  <2>2. CASE LoopStart(j)
    BY <1>0, <1>4, <2>2 DEF LoopStart, SameReader, ReaderType
  <2>3. CASE Send(j)
    BY <1>0, <1>4, <2>3 DEF Send, SameReader, ReaderType
  <2>4. CASE LoopEnd(j)
    BY <1>0, <1>4, <2>4 DEF LoopEnd, SameReader, ReaderType
  <2>5. CASE Wrapup(j)
    BY <1>0, <1>4, <2>5 DEF Wrapup, ToReader, SameReader, ReaderType
  <2>6. CASE SendExit(j)
    <3>1. Record(j, Exit) /\ Exit \in Nat /\ UNCHANGED read
      BY <2>6 DEF SendExit, Exit
    <3> QED
      BY <1>0, <1>4, <3>1, RecordIs DEF SameReader
  <2>7. CASE ReturnDir(j)
    BY <1>0, <1>4, <2>7 DEF ReturnDir, ToReader, SameReader, ReaderType
  <2> QED
    BY <1>4, <2>1, <2>2, <2>3, <2>4, <2>5, <2>6, <2>7 DEF Reader
<1> QED
  BY <1>1, <1>2, <1>3, <1>4, ReaderChanges

\* The reader that Launch starts.
LEMMA LaunchIs ==
  ASSUME Types, WorkerInOrder, Launch
  PROVE  \E i \in Infos :
           /\ i = Current(worker.run) /\ i[1] = worker.run /\ i[2] = session
           /\ worker.run \in Taken /\ reader[i].pc = "none"
           /\ run'[i].status = "running" /\ run'[i].process = "live"
           /\ run'[i].killing = run[i].killing
           /\ printed'[i] = printed[i] /\ dir'[i] = worker.dir
           /\ reader'[i].pc = "read" /\ reader'[i].text = reader[i].text
           /\ read'[i] = read[i] /\ recent'[i] = recent[i]
<1>0. WorkerType /\ SessionType /\ RunType /\ DirType /\ ReaderType
  BY DEF Types, ControllerTypes, RunTypes, ReaderTypes
<1>1. worker.run \in Runs /\ worker.run \in Taken /\ reader[Current(worker.run)].pc = "none"
  BY <1>0 DEF Launch, WorkerInOrder, WorkerType, WorkerRecord
<1>2. PICK i \in Infos : i = Current(worker.run) /\ i[1] = worker.run /\ i[2] = session
  BY <1>0, <1>1, InfosType
<1>3. run'[i].status = "running" /\ run'[i].process = "live" /\ run'[i].killing = run[i].killing
  BY <1>0, <1>2 DEF Launch, RunType, RunRecord
<1>4. dir'[i] = worker.dir /\ UNCHANGED <<printed, read, recent>>
  BY <1>0, <1>2 DEF Launch, DirType
<1>5. reader'[i].pc = "read" /\ reader'[i].text = reader[i].text
  BY <1>0, <1>2 DEF Launch, ReaderType, ReaderRecord
<1> QED
  BY <1>1, <1>2, <1>3, <1>4, <1>5

\* The steps of a reader, one by one: where it was, where it is, what it holds.
LEMMA ReadLineIs ==
  ASSUME Types, NEW i \in Infos, ReadLine(i)
  PROVE  /\ reader[i].pc = "read" /\ ~run[i].killing /\ read[i] < printed[i]
         /\ reader'[i].pc = "loop" /\ reader'[i].text = read[i] + 1
         /\ read'[i] = read[i] + 1 /\ recent'[i] = Recent(recent[i], read[i] + 1)
         /\ UNCHANGED <<run, printed, dir>>
<1>0. ReaderType /\ ReadType /\ RecentType /\ ConsoleType /\ BlurType
  BY DEF Types, ReaderTypes, HistoryTypes
<1>1. read[i] + 1 \in Nat /\ Record(i, read[i] + 1)
  BY <1>0 DEF ReadLine, ReadType
<1>2. /\ reader'[i] = [pc |-> "loop", text |-> read[i] + 1, i |-> 0, n |-> 0]
      /\ recent'[i] = Recent(recent[i], read[i] + 1)
  BY <1>0, <1>1, RecordIs
<1> QED
  BY <1>0, <1>2 DEF ReadLine, ReadType, runVars

LEMMA LoopStartIs ==
  ASSUME Types, NEW i \in Infos, LoopStart(i)
  PROVE  /\ reader[i].pc = "loop" /\ reader'[i].pc = "send" /\ reader'[i].text = reader[i].text
         /\ reader'[i].i = 1 /\ reader'[i].n = Len(acallbacks[i])
         /\ UNCHANGED <<run, printed, dir, read, recent>>
BY DEF LoopStart, Types, ReaderTypes, ReaderType, ReaderRecord, runVars

LEMMA SendReaderIs ==
  ASSUME Types, NEW i \in Infos, Send(i)
  PROVE  /\ reader[i].pc = "send" /\ reader[i].i <= reader[i].n
         /\ reader'[i].pc = "send" /\ reader'[i].text = reader[i].text
         /\ reader'[i].i = reader[i].i + 1 /\ reader'[i].n = reader[i].n
         /\ UNCHANGED <<run, printed, dir, read, recent>>
BY DEF Send, Types, ReaderTypes, ReaderType, ReaderRecord, runVars

LEMMA LoopEndIs ==
  ASSUME Types, NEW i \in Infos, LoopEnd(i)
  PROVE  /\ reader[i].pc = "send" /\ reader[i].i > reader[i].n
         /\ reader'[i].pc = IF reader[i].text = Exit THEN "return" ELSE "read"
         /\ UNCHANGED <<run, printed, dir, read, recent>>
BY DEF LoopEnd, Types, ReaderTypes, ReaderType, ReaderRecord, runVars

LEMMA WrapupIs ==
  ASSUME Types, NEW i \in Infos, Wrapup(i)
  PROVE  /\ reader[i].pc = "read" /\ reader'[i].pc = "exit"
         /\ run[i].process = "gone" /\ (run[i].killing \/ read[i] = printed[i])
         /\ run'[i].status = "over" /\ run'[i].process = "gone" /\ run'[i].killing = run[i].killing
         /\ UNCHANGED <<printed, dir, read, recent>>
BY DEF Wrapup, ToReader, Types, ReaderTypes, ReaderType, ReaderRecord, RunTypes, RunType, RunRecord

LEMMA SendExitIs ==
  ASSUME Types, NEW i \in Infos, SendExit(i)
  PROVE  /\ reader[i].pc = "exit" /\ reader'[i].pc = "loop" /\ reader'[i].text = Exit
         /\ recent'[i] = Recent(recent[i], Exit) /\ UNCHANGED <<run, printed, dir, read>>
<1>0. ReaderType /\ RecentType /\ ReadType /\ ConsoleType /\ BlurType
  BY DEF Types, ReaderTypes, HistoryTypes
<1>1. Record(i, Exit) /\ Exit \in Nat /\ UNCHANGED <<run, printed, dir, read>> /\ reader[i].pc = "exit"
  BY DEF SendExit, Exit, runVars
<1>2. /\ reader'[i] = [pc |-> "loop", text |-> Exit, i |-> 0, n |-> 0]
      /\ recent'[i] = Recent(recent[i], Exit)
  BY <1>0, <1>1, RecordIs
<1> QED
  BY <1>1, <1>2

LEMMA ReturnDirIs ==
  ASSUME Types, NEW i \in Infos, ReturnDir(i)
  PROVE  /\ reader[i].pc = "return" /\ reader'[i].pc = "done" /\ dir'[i] = 0
         /\ UNCHANGED <<run, printed, read, recent>>
BY DEF ReturnDir, ToReader, Types, ReaderTypes, ReaderType, ReaderRecord, RunTypes, DirType

\* A reader that is live stays so, until it returns the directory.
LEMMA LiveStep ==
  ASSUME Types, WorkerInOrder, [Next]_vars, NEW i \in Infos
  PROVE  \/ reader'[i].pc = reader[i].pc
         \/ Reader(i) /\ Live(i) /\ Live(i)'
         \/ ReturnDir(i) /\ Live(i) /\ reader'[i].pc = "done"
         \/ Launch /\ i = Current(worker.run) /\ reader[i].pc = "none" /\ reader'[i].pc = "read"
<1>1. CASE SameReader(i)
  BY <1>1 DEF SameReader
<1>2. CASE Launch /\ i = Current(worker.run)
  BY <1>2, LaunchIs
<1>3. CASE Reader(i)
  BY <1>3, ReadLineIs, LoopStartIs, SendReaderIs, LoopEndIs, WrapupIs, SendExitIs, ReturnDirIs
     DEF Live, Reader
<1> QED
  BY <1>1, <1>2, <1>3, ReaderSame


-----------------------------------------------------------------------------
(***************************************************************************)
(* The table of directories                                                *)
(***************************************************************************)

\* The table after a reader has returned its directory.
LEMMA ReturnedIs ==
  ASSUME Types, NEW i \in Infos, ReturnDir(i)
  PROVE  /\ rundirs' \in Seq({Free} \cup Runs) /\ DOMAIN rundirs' = DOMAIN rundirs
         /\ \A d \in DOMAIN rundirs : rundirs'[d] = IF d = dir[i] THEN Free ELSE rundirs[d]
         /\ reader[i].pc = "return" /\ UNCHANGED <<worker, session, leaked, late>>
<1>0. TableType /\ DirType
  BY DEF Types, ControllerTypes, RunTypes
<1>1. reader[i].pc = "return" /\ UNCHANGED <<worker, session, leaked, late>>
  BY DEF ReturnDir, historyVars
<1>2. CASE dir[i] \in DOMAIN rundirs
  <2>1. PICK d \in Nat \ {0} : d = dir[i] /\ d <= Len(rundirs) + 1 /\ d \in DOMAIN rundirs
    BY <1>0, <1>2 DEF TableType
  <2>2. rundirs' = Given(d, Free)
    BY <1>2, <2>1 DEF ReturnDir
  <2>3. Free \in {Free} \cup Runs
    OBVIOUS
  <2>4. /\ Given(d, Free) \in Seq({Free} \cup Runs)
        /\ DOMAIN Given(d, Free) = DOMAIN rundirs \cup {d} /\ Given(d, Free)[d] = Free
        /\ \A e \in DOMAIN rundirs : e # d => Given(d, Free)[e] = rundirs[e]
    BY <1>0, <2>1, <2>3, GivenIs, Zenon
  <2> QED
    BY <1>1, <2>1, <2>2, <2>4
<1>3. CASE dir[i] \notin DOMAIN rundirs
  BY <1>0, <1>1, <1>3 DEF ReturnDir, TableType
<1> QED
  BY <1>2, <1>3

\* A run that has a directory is not the one the worker is about to start.
LEMMA UserIsNotWorker ==
  ASSUME Types, WorkerInOrder, NEW i \in Infos, DirInOrder(i), ~late, Live(i),
         NEW d, d \in {worker.dir, worker.clean}
  PROVE  dir[i] # d
<1>0. WorkerType /\ SessionType /\ TableType
  BY DEF Types, ControllerTypes
<1>1. i[2] = session /\ dir[i] \in DOMAIN rundirs /\ rundirs[dir[i]] = i[1]
  BY DEF DirInOrder
<1>2. i = Current(i[1]) /\ i[1] \in Runs
  BY <1>1, Constants DEF Current
<1>3. CASE Holding
  <2>1. d \in DOMAIN rundirs /\ rundirs[d] = worker.run
    BY <1>3 DEF WorkerInOrder, Held
  <2>2. worker.run # i[1]
    <3>1. worker.run # Free => reader[Current(worker.run)].pc = "none"
      BY DEF WorkerInOrder
    <3> QED
      BY <1>2, <3>1, Constants DEF Live
  <2> QED
    BY <1>1, <2>1, <2>2
<1>4. CASE ~Holding
  <2>1. worker.dir = 0 /\ worker.clean = 0
    BY <1>4 DEF WorkerInOrder
  <2>2. dir[i] # 0
    BY <1>0, <1>1 DEF TableType
  <2> QED
    BY <2>1, <2>2
<1> QED
  BY <1>3, <1>4

LEMMA WorkerStep ==
  ASSUME Types, DirsAreFew, SessionsInOrder, WorkerInOrder,
         \A j \in Infos : ReaderInOrder(j) /\ DirInOrder(j), [Next]_vars
  PROVE  WorkerInOrder'
<1> USE DEF WorkerInOrder, Holding, Held
<1>0. WorkerType /\ SessionType /\ TableType /\ LoadType /\ LeakedType
  BY DEF Types, ControllerTypes, HistoryTypes
<1>1. ASSUME NEW r \in load.runs, Pop(r) PROVE WorkerInOrder'
  <2>1. r \in Runs /\ r # Free
    BY <1>0, Constants DEF LoadType
  <2>2. /\ worker'.pc = "allocate" /\ worker'.run = r /\ worker'.dir = worker.dir
        /\ worker'.clean = worker.clean /\ worker.pc = "idle"
        /\ session' = session /\ reader' = reader
    BY <1>0, <1>1 DEF Pop, WorkerType, WorkerRecord, readerVars
  <2>3. r \in Taken'
    BY <1>1, <2>2, TakenStep
  <2>4. reader[Current(r)].pc = "none"
    <3>1. Current(r) \in Infos /\ run[Current(r)].status = "queued"
      BY <1>0, <1>1, <2>1, InfosType DEF Pop
    <3> QED
      BY <3>1 DEF ReaderInOrder
  <2>5. Current(r)' = Current(r)
    BY <2>2 DEF Current
  <2> QED
    BY <2>1, <2>2, <2>3, <2>4, <2>5 DEF Current
<1>2. CASE Launch
  BY <1>2 DEF Launch
<1>3. CASE Reset
  BY <1>3 DEF Reset
<1>4. ASSUME ~Reset, ~Launch, ~ \E r \in load.runs : Pop(r) PROVE WorkerInOrder'
  <2>1. session' = session
    BY <1>4, SessionsStep
  <2>2. Taken' = Taken
    BY <1>4, <2>1, TakenStep
  <2>3. ASSUME worker.run # Free
        PROVE  worker.run \in Taken' /\ reader'[Current(worker.run)].pc = "none"
    <3>1. worker.run \in Taken /\ reader[Current(worker.run)].pc = "none"
      BY <2>3
    <3>2. Current(worker.run) \in Infos
      BY <1>0, <3>1, InfosType DEF Taken
    <3> QED
      BY <1>4, <2>2, <3>1, <3>2, LiveStep DEF Live
  <2>4. CASE UNCHANGED <<worker, rundirs, late, leaked>>
    BY <2>1, <2>3, <2>4 DEF Current
  <2>5. CASE AllocateName
    <3>1. /\ FreeName \in Dirs /\ rundirs'[FreeName] = worker.run
          /\ DOMAIN rundirs' = DOMAIN rundirs \cup {FreeName}
          /\ \A e \in DOMAIN rundirs : e # FreeName => rundirs'[e] = rundirs[e]
      BY <2>5, AllocatedIs
    <3>2. /\ worker'.run = worker.run /\ worker'.clean = FreeName
          /\ worker'.dir = IF worker.pc = "allocate" THEN FreeName ELSE worker.dir
          /\ worker'.pc = IF worker.pc = "allocate" THEN "clean" ELSE "clean again"
          /\ worker.pc \in {"allocate", "again"} /\ UNCHANGED <<late, leaked>>
      BY <1>0, <2>5 DEF AllocateName, WorkerType, WorkerRecord, historyVars
    <3> QED
      BY <2>1, <2>3, <3>1, <3>2 DEF Current
  <2>6. CASE Clean
    <3>1. /\ worker'.run = worker.run /\ worker'.clean = worker.clean /\ worker'.dir = worker.dir
          /\ worker'.pc = "launch" /\ worker.pc \in {"clean", "clean again"}
          /\ UNCHANGED <<late, leaked, rundirs>>
      BY <1>0, <2>6 DEF Clean, WorkerType, WorkerRecord, historyVars
    <3> QED
      BY <2>1, <2>3, <3>1 DEF Current
  <2>7. CASE CleanFails
    <3>1. /\ worker'.run = worker.run /\ worker'.clean = worker.clean /\ worker'.dir = worker.dir
          /\ worker'.pc = "again" /\ worker.pc = "clean" /\ worker.dir \in leaked'
          /\ UNCHANGED <<late, rundirs>>
      BY <1>0, <2>7 DEF CleanFails, WorkerType, WorkerRecord
    <3> QED
      BY <2>1, <2>3, <3>1 DEF Current
  <2>8. ASSUME NEW i \in Infos, ReturnDir(i) PROVE WorkerInOrder'
    <3>1. /\ DOMAIN rundirs' = DOMAIN rundirs
          /\ \A d \in DOMAIN rundirs : rundirs'[d] = IF d = dir[i] THEN Free ELSE rundirs[d]
          /\ reader[i].pc = "return" /\ UNCHANGED <<worker, session, leaked, late>>
      BY <2>8, ReturnedIs
    <3>2. late \/ dir[i] \notin {worker.dir, worker.clean}
      BY <3>1, UserIsNotWorker DEF Live
    <3> QED
      BY <2>3, <3>1, <3>2 DEF Current
  <2> QED
    BY <1>4, <2>4, <2>5, <2>6, <2>7, <2>8, ControllerChanges, HistoryChanges
       DEF QueueWorker, RestartRequest, RestartKilled, Wrapup, controllerVars, historyVars,
           ReadLine, SendExit, Snapshot, Detach
<1> QED
  BY <1>1, <1>2, <1>3, <1>4

\* Where the directories of a run that is live are marked.
MarkIs(d) ==
  \/ rundirs[d] = Free \/ d \in leaked
  \/ d \in {worker.dir, worker.clean} /\ rundirs[d] = worker.run
  \/ Live(Current(rundirs[d])) /\ dir[Current(rundirs[d])] = d

LEMMA MarkedStep ==
  ASSUME Types, DirsAreFew, SessionsInOrder, WorkerInOrder, MarkedDirsAreUsed,
         \A j \in Infos : ReaderInOrder(j), [Next]_vars
  PROVE  MarkedDirsAreUsed'
<1>0. WorkerType /\ SessionType /\ TableType /\ DirType
  BY DEF Types, ControllerTypes, RunTypes
<1>1. CASE Reset
  BY <1>1 DEF Reset, MarkedDirsAreUsed
<1>2. ASSUME ~Reset, NEW d \in DOMAIN rundirs' PROVE MarkIs(d)'
  <2>0. session' = session
    BY <1>2, SessionsStep
  <2>1. \A e \in DOMAIN rundirs : MarkIs(e)
    BY DEF MarkedDirsAreUsed, MarkIs
  <2>2. \A r \in Runs : /\ Current(r) \in Infos /\ Current(r)' = Current(r)
                        /\ Current(r)[1] = r
    BY <1>0, <2>0, InfosType DEF Current
  <2>3. ASSUME NEW r \in Runs, Live(Current(r)), ~ReturnDir(Current(r))
        PROVE  Live(Current(r))' /\ dir'[Current(r)] = dir[Current(r)]
    <3>1. Live(Current(r))'
      BY <2>2, <2>3, LiveStep DEF Live
    <3>2. dir'[Current(r)] = dir[Current(r)]
      <4>1. CASE SameRun(Current(r))
        BY <4>1 DEF SameRun
      <4>2. CASE \E q \in load.runs : Pop(q)
        BY <4>2 DEF Pop
      <4>3. CASE Launch /\ Current(r) = Current(worker.run)
        BY <2>3, <4>3, LaunchIs DEF Live
      <4>4. CASE \E i \in Infos : ProcessPrints(i) \/ ProcessEnds(i) \/ RestartKill(i) \/ Wrapup(i)
        BY <4>4 DEF ProcessPrints, ProcessEnds, RestartKill, Wrapup
      <4> QED
        BY <2>2, <2>3, <4>1, <4>2, <4>3, <4>4, RunSame
    <3> QED
      BY <3>1, <3>2
  <2>4. ASSUME d \in DOMAIN rundirs, rundirs'[d] = rundirs[d], ~ \E i \in Infos : ReturnDir(i),
               \/ UNCHANGED <<worker, leaked>>
               \/ d \in {worker.dir, worker.clean} /\ rundirs[d] = worker.run => MarkIs(d)',
               leaked \subseteq leaked'
        PROVE  MarkIs(d)'
    <3>1. rundirs[d] \in {Free} \cup Runs
      BY <1>0, <2>4 DEF TableType
    <3>2. CASE rundirs[d] = Free \/ d \in leaked
      BY <2>4, <3>2 DEF MarkIs
    <3>3. CASE d \in {worker.dir, worker.clean} /\ rundirs[d] = worker.run
      BY <2>4, <3>3 DEF MarkIs
    <3>4. CASE rundirs[d] # Free /\ Live(Current(rundirs[d])) /\ dir[Current(rundirs[d])] = d
      BY <2>2, <2>3, <2>4, <3>1, <3>4 DEF MarkIs
    <3> QED
      BY <2>1, <2>4, <3>2, <3>3, <3>4 DEF MarkIs
  <2>5. CASE UNCHANGED <<worker, rundirs, leaked>> /\ ~ \E i \in Infos : ReturnDir(i)
    BY <2>4, <2>5
  <2>6. ASSUME worker'.pc # worker.pc PROVE ~ \E i \in Infos : ReturnDir(i)
    BY <2>6, ReturnedIs
  <2>7. CASE \E r \in load.runs : Pop(r)
    <3>1. /\ worker.pc = "idle" /\ worker.dir = 0 /\ worker.clean = 0
          /\ worker'.pc = "allocate" /\ UNCHANGED <<rundirs, leaked>>
      BY <1>0, <2>7 DEF Pop, WorkerInOrder, Holding, WorkerType, WorkerRecord, historyVars
    <3>2. d \notin {worker.dir, worker.clean}
      BY <1>0, <1>2, <3>1 DEF TableType
    <3> QED
      BY <1>2, <2>4, <2>6, <3>1, <3>2
  <2>8. CASE AllocateName
    <3>1. /\ rundirs'[FreeName] = worker.run /\ DOMAIN rundirs' = DOMAIN rundirs \cup {FreeName}
          /\ \A e \in DOMAIN rundirs : e # FreeName => rundirs'[e] = rundirs[e]
      BY <2>8, AllocatedIs
    <3>2. /\ worker'.run = worker.run /\ worker'.clean = FreeName
          /\ worker.pc = "again" => worker.dir \in leaked
          /\ worker.pc = "allocate" => worker.dir = 0 /\ worker.clean = 0
          /\ worker.pc = "again" => worker.clean = worker.dir
          /\ worker.pc \in {"allocate", "again"} /\ worker'.pc # worker.pc /\ UNCHANGED leaked
      BY <1>0, <2>8 DEF AllocateName, WorkerInOrder, Holding, WorkerType, WorkerRecord, historyVars
    <3>3. CASE d = FreeName
      BY <3>1, <3>2, <3>3 DEF MarkIs
    <3>4. CASE d # FreeName
      <4>1. d \in DOMAIN rundirs /\ rundirs'[d] = rundirs[d] /\ d # 0
        BY <1>0, <1>2, <3>1, <3>4 DEF TableType
      <4>2. d \in {worker.dir, worker.clean} => d \in leaked'
        BY <3>2, <4>1
      <4> QED
        BY <2>4, <2>6, <3>2, <4>1, <4>2 DEF MarkIs
    <3> QED
      BY <3>3, <3>4
  <2>9. CASE Clean \/ CleanFails
    <3>1. /\ worker'.run = worker.run /\ worker'.clean = worker.clean /\ worker'.dir = worker.dir
          /\ worker'.pc # worker.pc /\ UNCHANGED rundirs /\ leaked \subseteq leaked'
      BY <1>0, <2>9 DEF Clean, CleanFails, WorkerType, WorkerRecord, historyVars
    <3>2. d \in {worker.dir, worker.clean} /\ rundirs[d] = worker.run => MarkIs(d)'
      BY <3>1 DEF MarkIs
    <3> QED
      BY <1>2, <2>4, <2>6, <3>1, <3>2
  <2>10. CASE Launch
    <3>1. PICK i \in Infos : /\ i = Current(worker.run) /\ reader'[i].pc = "read"
                             /\ reader[i].pc = "none" /\ dir'[i] = worker.dir
                             /\ worker.run \in Taken /\ i[1] = worker.run
      BY <2>10, LaunchIs
    <3>2. /\ worker.pc = "launch" /\ worker'.pc # worker.pc /\ UNCHANGED rundirs
          /\ leaked' = IF worker.clean = worker.dir THEN leaked
                       ELSE (leaked \ {worker.dir}) \cup {worker.clean}
      BY <2>10 DEF Launch
    <3>3. CASE d = worker.dir
      <4>1. rundirs'[d] \in {worker.run, Free}
        BY <3>2, <3>3 DEF WorkerInOrder, Holding, Held
      <4>2. i = <<worker.run, session'>>
        BY <2>0, <3>1 DEF Current
      <4> QED
        BY <3>1, <3>3, <4>1, <4>2 DEF MarkIs, Live, Current
    <3>4. CASE d = worker.clean /\ d # worker.dir
      BY <3>2, <3>4 DEF MarkIs
    <3>5. CASE d \notin {worker.dir, worker.clean}
      <4>1. \/ rundirs[d] = Free \/ d \in leaked
            \/ Live(Current(rundirs[d])) /\ dir[Current(rundirs[d])] = d
        BY <1>2, <2>1, <3>2, <3>5 DEF MarkIs
      <4>2. CASE rundirs[d] = Free \/ d \in leaked
        BY <3>2, <3>5, <4>2 DEF MarkIs
      <4>3. CASE rundirs[d] # Free /\ Live(Current(rundirs[d])) /\ dir[Current(rundirs[d])] = d
        <5>1. rundirs[d] \in Runs
          BY <1>0, <1>2, <3>2, <4>3 DEF TableType
        <5> QED
          BY <2>2, <2>3, <2>6, <3>2, <4>3, <5>1 DEF MarkIs
      <4> QED
        BY <4>1, <4>2, <4>3
    <3> QED
      BY <3>3, <3>4, <3>5
  <2>11. ASSUME NEW i \in Infos, ReturnDir(i) PROVE MarkIs(d)'
    <3>1. /\ DOMAIN rundirs' = DOMAIN rundirs
          /\ rundirs'[d] = IF d = dir[i] THEN Free ELSE rundirs[d]
          /\ UNCHANGED <<worker, leaked>>
      BY <1>2, <2>11, ReturnedIs
    <3>2. CASE d = dir[i] \/ rundirs[d] = Free \/ d \in leaked
      BY <3>1, <3>2 DEF MarkIs
    <3>3. CASE d # dir[i] /\ d \in {worker.dir, worker.clean} /\ rundirs[d] = worker.run
      BY <3>1, <3>3 DEF MarkIs
    <3>4. CASE d # dir[i] /\ rundirs[d] # Free /\ Live(Current(rundirs[d]))
               /\ dir[Current(rundirs[d])] = d
      <4>1. rundirs[d] \in Runs
        BY <1>0, <1>2, <3>1, <3>4 DEF TableType
      <4>2. PICK j \in Infos : j = Current(rundirs[d]) /\ j # i /\ Live(j)
        BY <2>2, <3>4, <4>1
      <4>3. reader'[j] = reader[j] /\ dir'[j] = dir[j]
        BY <1>0, <2>11, <4>2 DEF ReturnDir, ToReader, DirType, Types, ReaderTypes, ReaderType
      <4> QED
        BY <2>2, <3>1, <3>4, <4>1, <4>2, <4>3 DEF MarkIs, Live
    <3> QED
      BY <1>2, <2>1, <3>1, <3>2, <3>3, <3>4 DEF MarkIs
  <2> QED
    BY <1>2, <2>5, <2>7, <2>8, <2>9, <2>10, <2>11, ControllerChanges, HistoryChanges
       DEF QueueWorker, RestartRequest, RestartKilled, Wrapup, controllerVars, historyVars,
           ReadLine, SendExit, Snapshot, Detach
<1> QED
  BY <1>1, <1>2 DEF MarkedDirsAreUsed, MarkIs


-----------------------------------------------------------------------------
(***************************************************************************)
(* The reader of a run                                                     *)
(***************************************************************************)
LEMMA ReaderStep ==
  ASSUME Types, SessionsInOrder, WorkerInOrder, \A j \in Infos : ReaderInOrder(j), [Next]_vars,
         NEW i \in Infos
  PROVE  ReaderInOrder(i)'
<1> USE DEF ReaderInOrder, ExitRecorded, Handling, Live
<1>0. /\ ReaderInOrder(i) /\ load'.runs = load.runs
      /\ read[i] \in Nat /\ printed[i] \in Nat /\ reader[i] \in ReaderRecord
      /\ run[i] \in RunRecord /\ dir[i] \in {0} \cup Dirs
  BY SessionsStep DEF Types, ReaderTypes, RunTypes, ReadType, PrintedType, ReaderType, RunType, DirType
<1>1. CASE SameRun(i) /\ SameReader(i)
  BY <1>0, <1>1 DEF SameRun, SameReader
<1>2. ASSUME NEW r \in load.runs, Pop(r), i = Current(r) PROVE ReaderInOrder(i)'
  <2>1. /\ run[i].status = "queued" /\ run'[i].status = "running" /\ run'[i].process = run[i].process
        /\ run'[i].killing = run[i].killing /\ UNCHANGED <<printed, dir, reader, read, recent>>
    BY <1>2 DEF Pop, Types, RunTypes, RunType, RunRecord, readerVars
  <2>2. i[1] = r
    BY <1>2 DEF Current
  <2> QED
    BY <1>0, <2>1, <2>2
<1>3. CASE Launch /\ i = Current(worker.run)
  <2>1. /\ reader[i].pc = "none" /\ worker.run \in Taken
        /\ run'[i].status = "running" /\ run'[i].process = "live" /\ run'[i].killing = run[i].killing
        /\ printed'[i] = printed[i] /\ dir'[i] = worker.dir
        /\ reader'[i].pc = "read" /\ read'[i] = read[i] /\ recent'[i] = recent[i]
    BY <1>3, LaunchIs
  <2>2. worker.dir # 0
    BY <1>3 DEF Launch, WorkerInOrder, Holding, Held, Types, ControllerTypes, TableType
  <2>3. i[1] \in load.runs
    BY <1>0, <1>3, <2>1 DEF Taken
  <2> QED
    BY <1>0, <2>1, <2>2, <2>3
<1>4. CASE ProcessPrints(i)
  <2>1. /\ run[i].process = "live" /\ printed'[i] = printed[i] + 1
        /\ UNCHANGED <<run, dir, reader, read, recent>>
    BY <1>4 DEF ProcessPrints, readerVars, Types, RunTypes, PrintedType
  <2> QED
    BY <1>0, <2>1
<1>5. CASE ProcessEnds(i)
  <2>1. /\ run[i].process = "live" /\ run'[i].process = "gone" /\ run'[i].status = run[i].status
        /\ run'[i].killing = run[i].killing
        /\ UNCHANGED <<printed, dir, reader, read, recent>>
    BY <1>5 DEF ProcessEnds, readerVars, Types, RunTypes, RunType, RunRecord
  <2> QED
    BY <1>0, <2>1
<1>6. CASE RestartKill(i)
  <2>1. /\ run[i].status = "running" /\ run'[i].status = "over"
        /\ run'[i].process = IF run[i].process = "none" THEN "none" ELSE "gone"
        /\ run'[i].killing = (run[i].process = "live")
        /\ UNCHANGED <<printed, dir, reader, read, recent>>
    BY <1>6 DEF RestartKill, Running, readerVars, Types, RunTypes, RunType, RunRecord
  <2> QED
    BY <1>0, <2>1
<1>7. CASE ReadLine(i)
  BY <1>0, <1>7, ReadLineIs DEF Exit
<1>8. CASE LoopStart(i)
  BY <1>0, <1>8, LoopStartIs
<1>9. CASE Send(i)
  BY <1>0, <1>9, SendReaderIs
<1>10. CASE LoopEnd(i)
  BY <1>0, <1>10, LoopEndIs
<1>11. CASE Wrapup(i)
  BY <1>0, <1>11, WrapupIs
<1>12. CASE SendExit(i)
  BY <1>0, <1>12, SendExitIs
<1>13. CASE ReturnDir(i)
  BY <1>0, <1>13, ReturnDirIs
<1> QED
  <2>2. ASSUME ~SameReader(i), ~Reader(i) PROVE ReaderInOrder(i)'
    BY <1>3, <2>2, ReaderSame
  <2>3. CASE Reader(i)
    BY <1>7, <1>8, <1>9, <1>10, <1>11, <1>12, <1>13, <2>3 DEF Reader
  <2>4. CASE SameReader(i) /\ ~Reader(i)
    <3>1. Reader(i) \/ SameRun(i) \/ (\E r \in load.runs : Pop(r) /\ i = Current(r))
          \/ (Launch /\ i = Current(worker.run)) \/ ProcessPrints(i) \/ ProcessEnds(i) \/ RestartKill(i)
      BY RunSame DEF Reader
    <3> QED
      BY <1>1, <1>2, <1>3, <1>4, <1>5, <1>6, <2>4, <3>1
  <2> QED
    BY <2>2, <2>3, <2>4


\* ExitRecorded changes with SendExit alone.
LEMMA ExitRecordedStep ==
  ASSUME Types, WorkerInOrder, [Next]_vars, NEW i \in Infos
  PROVE  /\ SendExit(i) => ~ExitRecorded(i) /\ ExitRecorded(i)'
         /\ ~SendExit(i) => ExitRecorded(i)' = ExitRecorded(i)
<1> USE DEF ExitRecorded, Handling
<1>0. read[i] \in Nat
  BY DEF Types, ReaderTypes, ReadType
<1>1. CASE SameReader(i) /\ ~Reader(i)
  BY <1>1 DEF SameReader, Reader
<1>2. CASE Launch /\ i = Current(worker.run)
  <2>1. ~SendExit(i)
    BY <1>2, LaunchIs, SendExitIs
  <2> QED
    BY <1>2, <2>1, LaunchIs
<1>3. CASE ReadLine(i)
  BY <1>0, <1>3, ReadLineIs, SendExitIs DEF Exit
<1>4. CASE LoopStart(i)
  BY <1>4, LoopStartIs, SendExitIs
<1>5. CASE Send(i)
  BY <1>5, SendReaderIs, SendExitIs
<1>6. CASE LoopEnd(i)
  BY <1>6, LoopEndIs, SendExitIs
<1>7. CASE Wrapup(i)
  BY <1>7, WrapupIs, SendExitIs
<1>8. CASE SendExit(i)
  BY <1>8, SendExitIs
<1>9. CASE ReturnDir(i)
  BY <1>9, ReturnDirIs, SendExitIs
<1> QED
  BY <1>1, <1>2, <1>3, <1>4, <1>5, <1>6, <1>7, <1>8, <1>9, ReaderSame DEF Reader

\* The lines a reader has read, and its recent lines, change with ReadLine and
\* SendExit alone.
LEMMA TextsStep ==
  ASSUME Types, WorkerInOrder, [Next]_vars, NEW i \in Infos
  PROVE  \/ ReadLine(i) /\ read'[i] = read[i] + 1 /\ recent'[i] = Recent(recent[i], read[i] + 1)
         \/ SendExit(i) /\ read'[i] = read[i] /\ recent'[i] = Recent(recent[i], Exit)
         \/ ~SendExit(i) /\ read'[i] = read[i] /\ recent'[i] = recent[i]
<1>1. CASE SameReader(i) /\ ~Reader(i)
  BY <1>1 DEF SameReader, Reader
<1>2. CASE Launch /\ i = Current(worker.run)
  <2>1. ~SendExit(i)
    BY <1>2, LaunchIs, SendExitIs
  <2> QED
    BY <1>2, <2>1, LaunchIs
<1>3. CASE Reader(i)
  BY <1>3, ReadLineIs, LoopStartIs, SendReaderIs, LoopEndIs, WrapupIs, SendExitIs, ReturnDirIs DEF Reader
<1> QED
  BY <1>1, <1>2, <1>3, ReaderSame

LEMMA RecentIs ==
  ASSUME NEW s \in Seq(Nat), NEW x \in Nat
  PROVE  \/ /\ Len(Recent(s, x)) = Len(s) + 1 /\ Recent(s, x)[Len(s) + 1] = x
            /\ \A k \in 1..Len(s) : Recent(s, x)[k] = s[k]
         \/ Len(Recent(s, x)) = 1 /\ Recent(s, x)[1] = x
BY DEF Recent

\* Recent lines that end with line n, and one more.
EndsWith(s, n) == Len(s) \in 0..n /\ \A k \in 1..Len(s) : s[k] = n - Len(s) + k

LEMMA RecentLine ==
  ASSUME NEW s \in Seq(Nat), NEW n \in Nat, EndsWith(s, n)
  PROVE  EndsWith(Recent(s, n + 1), n + 1)
<1>1. PICK t : t = Recent(s, n + 1)
  OBVIOUS
<1>2. PICK m \in Nat : m = Len(s)
  OBVIOUS
<1>3. m <= n /\ \A k \in 1..m : s[k] = n - m + k
  BY <1>2 DEF EndsWith
<1>4. \/ Len(t) = m + 1 /\ t[m + 1] = n + 1 /\ \A k \in 1..m : t[k] = s[k]
      \/ Len(t) = 1 /\ t[1] = n + 1
  <2>1. n + 1 \in Nat
    OBVIOUS
  <2> QED
    BY <1>1, <1>2, <2>1, RecentIs, Zenon
<1>5. CASE Len(t) = 1 /\ t[1] = n + 1
  <2>1. Len(t) \in 0..(n + 1) /\ \A k \in 1..Len(t) : t[k] = n + 1 - Len(t) + k
    BY <1>5
  <2> QED
    BY <1>1, <2>1 DEF EndsWith
<1>6. CASE Len(t) = m + 1 /\ t[m + 1] = n + 1 /\ \A k \in 1..m : t[k] = s[k]
  <2>1. \A k \in 1..(m + 1) : t[k] = (n + 1) - (m + 1) + k
    <3> TAKE k \in 1..(m + 1)
    <3>1. CASE k = m + 1
      BY <1>6, <3>1
    <3>2. CASE k \in 1..m
      BY <1>3, <1>6, <3>2
    <3> QED
      BY <3>1, <3>2
  <2>2. Len(t) \in 0..(n + 1) /\ \A k \in 1..Len(t) : t[k] = n + 1 - Len(t) + k
    BY <1>3, <1>6, <2>1
  <2> QED
    BY <1>1, <2>2 DEF EndsWith
<1> QED
  BY <1>4, <1>5, <1>6

LEMMA RecentStep ==
  ASSUME Types, WorkerInOrder, [Next]_vars, NEW i \in Infos, ReaderInOrder(i), RecentInOrder(i)
  PROVE  RecentInOrder(i)'
<1>0. read[i] \in Nat /\ recent[i] \in Seq(Nat)
  BY DEF Types, ReaderTypes, ReadType, RecentType
<1>1. CASE ReadLine(i)
  <2>1. ~ExitRecorded(i) /\ ~ExitRecorded(i)'
    BY <1>1, ReadLineIs, SendExitIs, ExitRecordedStep DEF ExitRecorded, Handling
  <2>2. EndsWith(recent[i], read[i])
    BY <2>1 DEF RecentInOrder, EndsWith
  <2>3. EndsWith(recent'[i], read'[i])
    <3>1. PICK s \in Seq(Nat), n \in Nat : s = recent[i] /\ n = read[i]
      BY <1>0
    <3> QED
      BY <1>1, <2>2, <3>1, ReadLineIs, RecentLine
  <2> QED
    BY <2>1, <2>3 DEF RecentInOrder, EndsWith
<1>2. CASE SendExit(i)
  <2>1. ~ExitRecorded(i) /\ ExitRecorded(i)'
    BY <1>2, ExitRecordedStep
  <2>2. PICK s \in Seq(Nat), n \in Nat : s = recent[i] /\ n = read[i]
    BY <1>0
  <2>3. EndsWith(s, n)
    BY <2>1, <2>2 DEF RecentInOrder, EndsWith
  <2>4. PICK t : t = Recent(s, Exit)
    OBVIOUS
  <2>5. recent'[i] = t /\ read'[i] = n
    BY <1>2, <2>2, <2>4, SendExitIs
  <2>6. /\ Len(t) - 1 \in 0..n /\ \A k \in 1..(Len(t) - 1) : t[k] = n - (Len(t) - 1) + k
        /\ t[Len(t) - 1 + 1] = Exit
    <3>1. Exit \in Nat
      BY DEF Exit
    <3>2. \/ /\ Len(t) = Len(s) + 1 /\ t[Len(s) + 1] = Exit
             /\ \A k \in 1..Len(s) : t[k] = s[k]
          \/ Len(t) = 1 /\ t[1] = Exit
      BY <2>4, <3>1, RecentIs, Zenon
    <3>3. CASE Len(t) = 1 /\ t[1] = Exit
      BY <3>3
    <3>4. CASE /\ Len(t) = Len(s) + 1 /\ t[Len(s) + 1] = Exit
               /\ \A k \in 1..Len(s) : t[k] = s[k]
      BY <2>3, <3>4 DEF EndsWith
    <3> QED
      BY <3>2, <3>3, <3>4
  <2> QED
    BY <2>1, <2>5, <2>6 DEF RecentInOrder
<1>3. CASE ~SendExit(i) /\ read'[i] = read[i] /\ recent'[i] = recent[i]
  <2>1. ExitRecorded(i)' = ExitRecorded(i)
    BY <1>3, ExitRecordedStep
  <2> QED
    BY <1>3, <2>1 DEF RecentInOrder
<1> QED
  BY <1>1, <1>2, <1>3, TextsStep

-----------------------------------------------------------------------------
(***************************************************************************)
(* The console files                                                       *)
(***************************************************************************)

\* Who changes a console file, and how.
LEMMA ConsoleStep ==
  ASSUME Types, WorkerInOrder, [Next]_vars, NEW d \in Dirs
  PROVE  \/ console'[d] = console[d]
         \/ Clean /\ d = worker.clean
         \/ Launch /\ d = worker.dir /\ console'[d] = <<>>
         \/ \E j \in Infos : /\ d = dir[j]
                             /\ \/ ReadLine(j) /\ console'[d] = Append(console[d], <<j, read[j] + 1>>)
                                \/ SendExit(j) /\ console'[d] = Append(console[d], <<j, Exit>>)
<1>0. ConsoleType
  BY DEF Types, ReaderTypes
<1>1. CASE UNCHANGED readerVars
  BY <1>1 DEF readerVars
<1>2. CASE Clean
  BY <1>0, <1>2 DEF Clean, ConsoleType
<1>3. CASE Launch
  BY <1>0, <1>3 DEF Launch, ConsoleType
<1>4. ASSUME NEW j \in Infos, Reader(j) PROVE
         \/ console'[d] = console[d]
         \/ /\ d = dir[j]
            /\ \/ ReadLine(j) /\ console'[d] = Append(console[d], <<j, read[j] + 1>>)
               \/ SendExit(j) /\ console'[d] = Append(console[d], <<j, Exit>>)
  <2>1. CASE ReadLine(j)
    BY <1>0, <2>1 DEF ReadLine, Record, ConsoleType
  <2>2. CASE SendExit(j)
    BY <1>0, <2>2 DEF SendExit, Record, ConsoleType
  <2>3. CASE UNCHANGED console
    BY <2>3
  <2> QED
    BY <1>4, <2>1, <2>2, <2>3 DEF Reader, LoopStart, Send, LoopEnd, Wrapup, ReturnDir
<1> QED
  BY <1>1, <1>2, <1>3, <1>4, ReaderChanges

\* What a reader has recorded grows by the text it records.
LEMMA RecordedStep ==
  ASSUME Types, WorkerInOrder, [Next]_vars, NEW i \in Infos
  PROVE  /\ ReadLine(i) => Recorded(i)' = Append(Recorded(i), <<i, read[i] + 1>>)
         /\ SendExit(i) => Recorded(i)' = Append(Recorded(i), <<i, Exit>>)
         /\ ~ReadLine(i) /\ ~SendExit(i) => Recorded(i)' = Recorded(i)
<1>0. PICK n \in Nat : n = read[i]
  BY DEF Types, ReaderTypes, ReadType
<1>1. ASSUME ReadLine(i) PROVE Recorded(i)' = Append(Recorded(i), <<i, read[i] + 1>>)
  <2>1. ~ExitRecorded(i) /\ ~ExitRecorded(i)' /\ read'[i] = n + 1
    BY <1>0, <1>1, ReadLineIs, SendExitIs, ExitRecordedStep DEF ExitRecorded, Handling
  <2>2. Recorded(i) = [k \in 1..n |-> <<i, k>>] /\ Recorded(i)' = [k \in 1..(n + 1) |-> <<i, k>>]
    BY <1>0, <2>1 DEF Recorded, Lines
  <2>3. [k \in 1..(n + 1) |-> <<i, k>>] = Append([k \in 1..n |-> <<i, k>>], <<i, n + 1>>)
    OBVIOUS
  <2> QED
    BY <1>0, <2>2, <2>3
<1>2. ASSUME SendExit(i) PROVE Recorded(i)' = Append(Recorded(i), <<i, Exit>>)
  <2>1. ~ExitRecorded(i) /\ ExitRecorded(i)' /\ read'[i] = read[i]
    BY <1>2, ExitRecordedStep, SendExitIs
  <2> QED
    BY <2>1 DEF Recorded, Lines, Exit
<1>3. ASSUME ~ReadLine(i), ~SendExit(i) PROVE Recorded(i)' = Recorded(i)
  BY <1>3, ExitRecordedStep, TextsStep DEF Recorded, Lines, Exit
<1> QED
  BY <1>1, <1>2, <1>3


LEMMA DirStep ==
  ASSUME Types, DirsAreFew, SessionsInOrder, WorkerInOrder,
         \A j \in Infos : ReaderInOrder(j) /\ DirInOrder(j), [Next]_vars, NEW i \in Infos
  PROVE  DirInOrder(i)'
<1> SUFFICES ASSUME ~late', Live(i)'
             PROVE  /\ i[2] = session' /\ dir'[i] \in DOMAIN rundirs' /\ rundirs'[dir'[i]] = i[1]
                    /\ console'[dir'[i]] = Recorded(i)'
  BY DEF DirInOrder
<1>0. WorkerType /\ TableType /\ SessionType /\ DirType /\ LeakedType
  BY DEF Types, ControllerTypes, RunTypes, HistoryTypes
<1>1. ~late
  BY <1>0, HistoryChanges DEF historyVars, CleanFails, Launch, Reset, ReadLine, SendExit, Snapshot,
                              Detach, LeakedType
<1>2. CASE Launch /\ reader[i].pc = "none"
  <2>1. i = Current(worker.run)
    BY <1>2, LiveStep, SendExitIs DEF Live
  <2>2. /\ i[1] = worker.run /\ i[2] = session /\ dir'[i] = worker.dir
        /\ read'[i] = read[i] /\ reader'[i].pc = "read"
    BY <1>2, <2>1, LaunchIs
  <2>3. read[i] = 0
    BY <1>2 DEF ReaderInOrder
  <2>4. /\ worker.dir \in DOMAIN rundirs /\ rundirs[worker.dir] = worker.run
        /\ UNCHANGED <<rundirs, session>>
    BY <1>1, <1>2 DEF Launch, WorkerInOrder, Holding, Held
  <2>5. console'[worker.dir] = <<>>
    BY <1>0, <1>2, <2>4 DEF Launch, Types, ReaderTypes, ConsoleType, TableType
  <2>6. Recorded(i)' = <<>>
    BY <2>2, <2>3 DEF Recorded, Lines, ExitRecorded, Handling
  <2> QED
    BY <2>2, <2>4, <2>5, <2>6
<1>3. CASE ~(Launch /\ reader[i].pc = "none")
  <2>1. Live(i) /\ ~ReturnDir(i)
    BY <1>3, LiveStep, ReturnDirIs DEF Live
  <2>2. /\ i[2] = session /\ dir[i] \in DOMAIN rundirs /\ rundirs[dir[i]] = i[1]
        /\ console[dir[i]] = Recorded(i)
    BY <1>1, <2>1 DEF DirInOrder
  <2>3. i = Current(i[1]) /\ i[1] \in Runs /\ dir[i] \in Dirs
    BY <1>0, <2>2, Constants DEF Current, TableType
  <2>4. session' = session
    <3>1. CASE Reset
      <4>1. i[1] \in load.runs
        BY <2>1 DEF ReaderInOrder, Live
      <4>2. i \in OfSession
        BY <2>3, <4>1 DEF OfSession
      <4> QED
        BY <1>0, <2>1, <3>1, <4>2 DEF Reset, Live, LeakedType
    <3> QED
      BY <3>1, SessionsStep
  <2>5. dir'[i] = dir[i]
    <3>1. CASE SameRun(i)
      BY <3>1 DEF SameRun
    <3>2. CASE \E q \in load.runs : Pop(q)
      BY <3>2 DEF Pop
    <3>3. CASE Launch /\ i = Current(worker.run)
      BY <1>3, <3>3, LaunchIs
    <3>4. CASE ProcessPrints(i) \/ ProcessEnds(i) \/ RestartKill(i) \/ Wrapup(i)
      BY <3>4 DEF ProcessPrints, ProcessEnds, RestartKill, Wrapup
    <3> QED
      BY <2>1, <3>1, <3>2, <3>3, <3>4, RunSame
  \* No other reader uses the directory, nor does the worker.
  <2>6. \A j \in Infos : Live(j) /\ j # i => dir[j] # dir[i]
    BY <1>1, <2>2, <2>3, Constants DEF DirInOrder
  <2>7. dir[i] # worker.dir /\ dir[i] # worker.clean
    BY <1>1, <2>1, UserIsNotWorker
  <2> DEFINE Marked == dir[i] \in DOMAIN rundirs' /\ rundirs'[dir[i]] = i[1]
  <2>8. Marked
    <3>1. CASE UNCHANGED rundirs
      BY <2>2, <3>1
    <3>2. CASE AllocateName
      <4>1. FreeName # dir[i]
        BY <2>2, <2>3, <3>2, AllocatedIs, Constants
      <4> QED
        BY <2>2, <3>2, <4>1, AllocatedIs
    <3>3. ASSUME NEW j \in Infos, ReturnDir(j) PROVE Marked
      <4>1. dir[j] # dir[i]
        BY <2>1, <2>6, <3>3, ReturnDirIs DEF Live
      <4> QED
        BY <2>2, <3>3, <4>1, ReturnedIs
    <3>4. CASE Reset
      BY <1>0, <2>4, <3>4, Constants DEF Reset, SessionType
    <3> QED
      BY <3>1, <3>2, <3>3, <3>4, ControllerChanges
         DEF QueueWorker, Pop, Clean, CleanFails, Launch, RestartRequest, RestartKilled, Wrapup,
             controllerVars
  <2>9. console'[dir[i]] = Recorded(i)'
    <3>1. CASE ReadLine(i)
      <4>1. console'[dir[i]] = Append(console[dir[i]], <<i, read[i] + 1>>)
        BY <2>3, <3>1 DEF ReadLine, Record, Types, ReaderTypes, ConsoleType
      <4> QED
        BY <2>2, <3>1, <4>1, RecordedStep
    <3>2. CASE SendExit(i)
      <4>1. console'[dir[i]] = Append(console[dir[i]], <<i, Exit>>)
        BY <2>3, <3>2 DEF SendExit, Record, Types, ReaderTypes, ConsoleType
      <4> QED
        BY <2>2, <3>2, <4>1, RecordedStep
    <3>3. CASE ~ReadLine(i) /\ ~SendExit(i)
      <4>1. ASSUME NEW j \in Infos, ReadLine(j) \/ SendExit(j) PROVE dir[j] # dir[i]
        BY <2>6, <3>3, <4>1, ReadLineIs, SendExitIs DEF Live
      <4>2. console'[dir[i]] = console[dir[i]]
        BY <2>3, <2>7, <4>1, ConsoleStep
      <4> QED
        BY <2>2, <3>3, <4>2, RecordedStep
    <3> QED
      BY <3>1, <3>2, <3>3
  <2> QED
    BY <2>2, <2>4, <2>5, <2>8, <2>9
<1> QED
  BY <1>2, <1>3


-----------------------------------------------------------------------------
(***************************************************************************)
(* The lists of callbacks                                                  *)
(***************************************************************************)

\* What is taken out of a list in which nothing occurs twice.
LEMMA OnceWithout ==
  ASSUME NEW S, NEW s \in Seq(S), Once(s), NEW k \in DOMAIN s
  PROVE  /\ Once(Without(s, k))
         /\ \A j \in DOMAIN Without(s, k) :
              Without(s, k)[j] # s[k] /\ \E l \in DOMAIN s : Without(s, k)[j] = s[l]
         /\ \A l \in DOMAIN s : s[l] # s[k] => \E j \in DOMAIN Without(s, k) : Without(s, k)[j] = s[l]
<1>1. PICK w : w = Without(s, k)
  OBVIOUS
<1>2. PICK n \in Nat : n = Len(s) /\ k \in 1..n /\ DOMAIN s = 1..n
  OBVIOUS
<1>3. DOMAIN w = 1..(n - 1) /\ \A j \in 1..(n - 1) : w[j] = IF j < k THEN s[j] ELSE s[j + 1]
  BY <1>1, <1>2, WithoutIs
<1>4. \A j \in 1..(n - 1) : \E l \in 1..n : l # k /\ w[j] = s[l] /\ l = IF j < k THEN j ELSE j + 1
  <2> TAKE j \in 1..(n - 1)
  <2>1. CASE j < k
    <3>1. w[j] = s[j] /\ j \in 1..n /\ j # k
      BY <1>2, <1>3, <2>1
    <3> QED
      BY <2>1, <3>1
  <2>2. CASE ~(j < k)
    <3>1. w[j] = s[j + 1] /\ j + 1 \in 1..n /\ j + 1 # k
      BY <1>2, <1>3, <2>2
    <3> QED
      BY <2>2, <3>1
  <2> QED
    BY <2>1, <2>2
<1>5. \A i, j \in 1..n : s[i] = s[j] => i = j
  BY <1>2 DEF Once
<1>6. Once(w)
  <2>1. ASSUME NEW i \in 1..(n - 1), NEW j \in 1..(n - 1), w[i] = w[j]
        PROVE  i = j
    <3>1. PICK l \in 1..n : w[i] = s[l] /\ l = IF i < k THEN i ELSE i + 1
      BY <1>4
    <3>2. PICK m \in 1..n : w[j] = s[m] /\ m = IF j < k THEN j ELSE j + 1
      BY <1>4
    <3>3. l = m
      BY <1>5, <2>1, <3>1, <3>2
    <3>4. l \in Nat /\ m \in Nat /\ i \in Nat /\ j \in Nat /\ k \in Nat
      BY <1>2
    <3> QED
      BY <3>1, <3>2, <3>3, <3>4
  <2> QED
    BY <1>3, <2>1 DEF Once
<1>7. \A j \in 1..(n - 1) : w[j] # s[k] /\ \E l \in 1..n : w[j] = s[l]
  <2> TAKE j \in 1..(n - 1)
  <2>1. PICK l \in 1..n : l # k /\ w[j] = s[l]
    BY <1>4
  <2> QED
    BY <1>2, <1>5, <2>1
<1>8. \A l \in 1..n : l # k => \E j \in 1..(n - 1) : w[j] = s[l]
  <2> TAKE l \in 1..n
  <2>1. CASE l < k
    BY <1>2, <1>3, <2>1
  <2>2. CASE l > k
    <3>1. l - 1 \in 1..(n - 1) /\ w[l - 1] = s[l]
      BY <1>2, <1>3, <2>2
    <3> QED
      BY <3>1
  <2> QED
    BY <1>2, <2>1, <2>2
<1>9. /\ \A j \in DOMAIN w : w[j] # s[k] /\ \E l \in DOMAIN s : w[j] = s[l]
      /\ \A l \in DOMAIN s : s[l] # s[k] => \E j \in DOMAIN w : w[j] = s[l]
  <2>1. DOMAIN w = 1..(n - 1) /\ DOMAIN s = 1..n
    BY <1>2, <1>3
  <2>2. \A l \in 1..n : s[l] # s[k] => l # k
    OBVIOUS
  <2> QED
    BY <1>7, <1>8, <2>1, <2>2, Zenon
<1> QED
  BY <1>1, <1>6, <1>9

LEMMA OnceAppend ==
  ASSUME NEW S, NEW s \in Seq(S), Once(s), NEW c \in S, \A k \in DOMAIN s : s[k] # c
  PROVE  /\ Once(Append(s, c))
         /\ \A k \in DOMAIN Append(s, c) :
              Append(s, c)[k] = c \/ (k \in DOMAIN s /\ Append(s, c)[k] = s[k])
BY DEF Once

CallbackIs(c, i) == /\ client[c].to = i /\ client[c].pc \in {"hook", "attached", "left"}
                    /\ client[c].pc = "left" => i[2] # session
AcallbackIs(c, i) == client[c].to = i /\ client[c].pc \in {"attached", "left"}

LEMMA ListsAre ==
  ASSUME NEW i
  PROVE  ListsInOrder(i) <=>
           /\ Once(callbacks[i]) /\ Once(acallbacks[i])
           /\ \A k \in DOMAIN callbacks[i] : CallbackIs(callbacks[i][k], i)
           /\ \A k \in DOMAIN acallbacks[i] : AcallbackIs(acallbacks[i][k], i)
BY DEF ListsInOrder, CallbackIs, AcallbackIs

LEMMA ListsStep ==
  ASSUME Types, SessionsInOrder, WorkerInOrder, \A j \in Infos : ReaderInOrder(j) /\ ListsInOrder(j),
         \A c \in Clients : ClientInOrder(c), [Next]_vars, NEW i \in Infos
  PROVE  ListsInOrder(i)'
<1>0. /\ callbacks[i] \in Seq(Clients) /\ acallbacks[i] \in Seq(Clients)
      /\ callbacks \in [Infos -> Seq(Clients)] /\ acallbacks \in [Infos -> Seq(Clients)]
      /\ session \in Nat /\ i[2] \in Nat
  BY Constants DEF Types, ClientTypes, ListType, ControllerTypes, SessionType
<1>1. /\ Once(callbacks[i]) /\ Once(acallbacks[i])
      /\ \A k \in DOMAIN callbacks[i] : callbacks[i][k] \in Clients /\ CallbackIs(callbacks[i][k], i)
      /\ \A k \in DOMAIN acallbacks[i] : acallbacks[i][k] \in Clients /\ AcallbackIs(acallbacks[i][k], i)
  BY <1>0, ListsAre
<1>2. \A c \in Clients : client[c].to = i => i[2] <= session /\ client[c].pc # "out"
  BY Constants DEF ClientInOrder
\* The clients that are listed still are what they were.
<1>3. ASSUME NEW c \in Clients, client'[c].pc = client[c].pc, client'[c].to = client[c].to
      PROVE  (CallbackIs(c, i) => CallbackIs(c, i)') /\ (AcallbackIs(c, i) => AcallbackIs(c, i)')
  BY <1>0, <1>2, <1>3, SessionsStep DEF CallbackIs, AcallbackIs
<1>4. ASSUME UNCHANGED listVars, \A c \in Clients : client[c].pc \notin {"out"} =>
                                    client'[c].pc = client[c].pc /\ client'[c].to = client[c].to
      PROVE  ListsInOrder(i)'
  <2>1. \A c \in Clients :
          (CallbackIs(c, i) => CallbackIs(c, i)') /\ (AcallbackIs(c, i) => AcallbackIs(c, i)')
    BY <1>3, <1>4 DEF CallbackIs, AcallbackIs
  <2> QED
    BY <1>1, <1>4, <2>1 DEF listVars, ListsInOrder, CallbackIs, AcallbackIs
<1>5. CASE UNCHANGED <<listVars, client>>
  BY <1>4, <1>5
<1>6. ASSUME NEW j \in Infos, Send(j) PROVE ListsInOrder(i)'
  BY <1>4, <1>6, SendIs
<1>7. ASSUME NEW c \in Clients, NEW r \in load.runs, Attach(c, r) PROVE ListsInOrder(i)'
  BY <1>4, <1>7, AttachIs
<1>8. ASSUME NEW c \in Clients, Snapshot(c) PROVE ListsInOrder(i)'
  <2>1. PICK j \in Infos :
          /\ j = client[c].to /\ client[c].pc = "snapshot"
          /\ client'[c].pc = "hook" /\ client'[c].to = j
          /\ \A d \in Clients : d # c => client'[d] = client[d]
          /\ callbacks' = [callbacks EXCEPT ![j] = Append(callbacks[j], c)]
          /\ UNCHANGED acallbacks
    BY <1>8, SnapshotIs
  <2>2. \A k \in DOMAIN callbacks[i] : callbacks[i][k] # c
    BY <1>1, <2>1 DEF CallbackIs
  <2>3. \A k \in DOMAIN acallbacks[i] : acallbacks[i][k] # c
    BY <1>1, <2>1 DEF AcallbackIs
  <2>4. \A d \in Clients : d # c =>
          (CallbackIs(d, i) => CallbackIs(d, i)') /\ (AcallbackIs(d, i) => AcallbackIs(d, i)')
    BY <1>3, <2>1
  <2>5. CASE i = j
    <3>1. CallbackIs(c, i)'
      BY <2>1, <2>5 DEF CallbackIs
    <3>2. callbacks'[i] = Append(callbacks[i], c) /\ acallbacks'[i] = acallbacks[i]
      BY <1>0, <2>1, <2>5
    <3>3. Once(Append(callbacks[i], c))
          /\ \A k \in DOMAIN Append(callbacks[i], c) :
               Append(callbacks[i], c)[k] = c
               \/ (k \in DOMAIN callbacks[i] /\ Append(callbacks[i], c)[k] = callbacks[i][k])
      <4> DEFINE s == callbacks[i]
      <4>1. s \in Seq(Clients) /\ Once(s) /\ \A k \in DOMAIN s : s[k] # c
        BY <1>0, <1>1, <2>2
      <4> HIDE DEF s
      <4>2. /\ Once(Append(s, c))
            /\ \A k \in DOMAIN Append(s, c) :
                 Append(s, c)[k] = c \/ (k \in DOMAIN s /\ Append(s, c)[k] = s[k])
        BY <4>1, OnceAppend
      <4> QED
        BY <4>2 DEF s
    <3>4. \A k \in DOMAIN callbacks'[i] : CallbackIs(callbacks[i][k], i)'
      BY <1>1, <2>2, <2>4, <3>1, <3>2, <3>3
    <3>5. \A k \in DOMAIN acallbacks'[i] : AcallbackIs(acallbacks[i][k], i)'
      BY <1>1, <2>3, <2>4, <3>2
    <3> QED
      BY <1>1, <3>2, <3>3, <3>4, <3>5 DEF ListsInOrder, CallbackIs, AcallbackIs
  <2>6. CASE i # j
    <3>1. callbacks'[i] = callbacks[i] /\ acallbacks'[i] = acallbacks[i]
      BY <1>0, <2>1, <2>6
    <3> QED
      BY <1>1, <2>2, <2>3, <2>4, <3>1 DEF ListsInOrder, CallbackIs, AcallbackIs
  <2> QED
    BY <2>5, <2>6
<1>9. ASSUME NEW c \in Clients, Hook(c) PROVE ListsInOrder(i)'
  <2>1. PICK j \in Infos :
          /\ j = client[c].to /\ client[c].pc = "hook"
          /\ client'[c].pc = "attached" /\ client'[c].to = j
          /\ \A d \in Clients : d # c => client'[d] = client[d]
          /\ acallbacks' = [acallbacks EXCEPT ![j] = Append(acallbacks[j], c)]
          /\ UNCHANGED callbacks
    BY <1>9, HookIs
  <2>2. \A k \in DOMAIN acallbacks[i] : acallbacks[i][k] # c
    BY <1>1, <2>1 DEF AcallbackIs
  <2>3. CallbackIs(c, i) => CallbackIs(c, i)'
    BY <2>1 DEF CallbackIs
  <2>4. \A d \in Clients : d # c =>
          (CallbackIs(d, i) => CallbackIs(d, i)') /\ (AcallbackIs(d, i) => AcallbackIs(d, i)')
    BY <1>3, <2>1
  <2>5. CASE i = j
    <3>1. AcallbackIs(c, i)'
      BY <2>1, <2>5 DEF AcallbackIs
    <3>2. acallbacks'[i] = Append(acallbacks[i], c) /\ callbacks'[i] = callbacks[i]
      BY <1>0, <2>1, <2>5
    <3>3. Once(Append(acallbacks[i], c))
          /\ \A k \in DOMAIN Append(acallbacks[i], c) :
               Append(acallbacks[i], c)[k] = c
               \/ (k \in DOMAIN acallbacks[i] /\ Append(acallbacks[i], c)[k] = acallbacks[i][k])
      <4> DEFINE s == acallbacks[i]
      <4>1. s \in Seq(Clients) /\ Once(s) /\ \A k \in DOMAIN s : s[k] # c
        BY <1>0, <1>1, <2>2
      <4> HIDE DEF s
      <4>2. /\ Once(Append(s, c))
            /\ \A k \in DOMAIN Append(s, c) :
                 Append(s, c)[k] = c \/ (k \in DOMAIN s /\ Append(s, c)[k] = s[k])
        BY <4>1, OnceAppend
      <4> QED
        BY <4>2 DEF s
    <3>4. \A k \in DOMAIN acallbacks'[i] : AcallbackIs(acallbacks[i][k], i)'
      BY <1>1, <2>2, <2>4, <3>1, <3>2, <3>3
    <3>5. \A k \in DOMAIN callbacks'[i] : CallbackIs(callbacks[i][k], i)'
      BY <1>1, <2>3, <2>4, <3>2
    <3> QED
      BY <1>1, <3>2, <3>3, <3>4, <3>5 DEF ListsInOrder, CallbackIs, AcallbackIs
  <2>6. CASE i # j
    <3>1. callbacks'[i] = callbacks[i] /\ acallbacks'[i] = acallbacks[i]
      BY <1>0, <2>1, <2>6
    <3> QED
      BY <1>1, <2>2, <2>3, <2>4, <3>1 DEF ListsInOrder, CallbackIs, AcallbackIs
  <2> QED
    BY <2>5, <2>6
<1>10. ASSUME NEW c \in Clients, Detach(c) PROVE ListsInOrder(i)'
  <2>1. PICK j \in Infos :
          /\ j = client[c].to /\ client[c].pc = "attached"
          /\ client'[c].pc = "left" /\ client'[c].to = j
          /\ \A d \in Clients : d # c => client'[d] = client[d]
          /\ \/ /\ j[2] = session
                /\ \E k \in DOMAIN callbacks[j] :
                     /\ callbacks[j][k] = c
                     /\ callbacks' = [callbacks EXCEPT ![j] = Without(callbacks[j], k)]
                     /\ acallbacks' = [acallbacks EXCEPT ![j] = Without(acallbacks[j], k)]
             \/ j[2] # session /\ UNCHANGED listVars
    BY <1>10, DetachIs
  <2>2. session' = session
    BY <1>10 DEF Detach, controllerVars
  <2>3. AcallbackIs(c, i) => AcallbackIs(c, i)'
    BY <2>1 DEF AcallbackIs
  <2>4. \A d \in Clients : d # c =>
          (CallbackIs(d, i) => CallbackIs(d, i)') /\ (AcallbackIs(d, i) => AcallbackIs(d, i)')
    BY <1>3, <2>1
  <2>5. i # j => ~CallbackIs(c, i)
    BY <2>1 DEF CallbackIs
  <2>6. i # j => callbacks'[i] = callbacks[i] /\ acallbacks'[i] = acallbacks[i]
    BY <1>0, <2>1 DEF listVars
  <2>7. CASE i # j
    BY <1>1, <2>3, <2>4, <2>5, <2>6, <2>7 DEF ListsInOrder, CallbackIs, AcallbackIs
  <2>8. CASE i = j /\ j[2] # session /\ UNCHANGED listVars
    <3>1. CallbackIs(c, i) => CallbackIs(c, i)'
      BY <2>1, <2>2, <2>8 DEF CallbackIs
    <3> QED
      BY <1>1, <2>3, <2>4, <2>8, <3>1 DEF listVars, ListsInOrder, CallbackIs, AcallbackIs
  <2>9. ASSUME i = j, NEW k \in DOMAIN callbacks[i], callbacks[i][k] = c,
               callbacks' = [callbacks EXCEPT ![i] = Without(callbacks[i], k)],
               acallbacks' = [acallbacks EXCEPT ![i] = Without(acallbacks[i], k)]
        PROVE  ListsInOrder(i)'
    <3>1. callbacks'[i] = Without(callbacks[i], k) /\ acallbacks'[i] = Without(acallbacks[i], k)
      BY <1>0, <2>9
    <3>2. /\ Once(callbacks'[i])
          /\ \A n \in DOMAIN callbacks'[i] :
               callbacks'[i][n] # c /\ \E l \in DOMAIN callbacks[i] : callbacks'[i][n] = callbacks[i][l]
      BY <1>0, <1>1, <2>9, <3>1, OnceWithout
    <3>3. /\ Once(acallbacks'[i])
          /\ \A n \in DOMAIN acallbacks'[i] :
               \E l \in DOMAIN acallbacks[i] : acallbacks'[i][n] = acallbacks[i][l]
      <4>1. CASE k \in DOMAIN acallbacks[i]
        BY <1>0, <1>1, <3>1, <4>1, OnceWithout
      <4>2. CASE k \notin DOMAIN acallbacks[i]
        BY <1>0, <1>1, <3>1, <4>2 DEF Without
      <4> QED BY <4>1, <4>2
    <3>4. \A n \in DOMAIN callbacks'[i] : CallbackIs(callbacks[i][n], i)'
      BY <1>1, <2>4, <3>2
    <3>5. \A n \in DOMAIN acallbacks'[i] : AcallbackIs(acallbacks[i][n], i)'
      BY <1>1, <2>3, <2>4, <3>3
    <3> QED
      BY <3>2, <3>3, <3>4, <3>5 DEF ListsInOrder, CallbackIs, AcallbackIs
  <2> QED
    BY <2>1, <2>7, <2>8, <2>9
<1> QED
  BY <1>5, <1>6, <1>7, <1>8, <1>9, <1>10, ClientChanges


-----------------------------------------------------------------------------
(***************************************************************************)
(* The places of the clients in the lists                                  *)
(***************************************************************************)

\* c has one place in both lists: AtOnePlace, of any two lists.
Level(s, t, c) ==
  \E k \in DOMAIN s \cap DOMAIN t : s[k] = c /\ \A j \in 1..k : t[j] = s[j]

LEMMA LevelAppend ==
  ASSUME NEW S, NEW s \in Seq(S), NEW t \in Seq(S), NEW c, NEW x \in S, Level(s, t, c)
  PROVE  Level(Append(s, x), t, c) /\ Level(s, Append(t, x), c)
<1>1. PICK k \in DOMAIN s \cap DOMAIN t : s[k] = c /\ \A j \in 1..k : t[j] = s[j]
  BY DEF Level
<1>2. /\ k \in DOMAIN Append(s, x) /\ Append(s, x)[k] = c
      /\ \A j \in 1..k : Append(s, x)[j] = s[j]
  BY <1>1
<1>3. /\ k \in DOMAIN Append(t, x)
      /\ \A j \in 1..k : Append(t, x)[j] = t[j]
  BY <1>1
<1> QED
  BY <1>1, <1>2, <1>3 DEF Level

LEMMA LevelWithout ==
  ASSUME NEW S, NEW s \in Seq(S), NEW t \in Seq(S), NEW c, NEW k \in DOMAIN s, s[k] # c,
         Level(s, t, c)
  PROVE  Level(Without(s, k), Without(t, k), c)
<1>1. PICK p \in DOMAIN s \cap DOMAIN t : s[p] = c /\ \A j \in 1..p : t[j] = s[j]
  BY DEF Level
<1>2. PICK m \in Nat, n \in Nat : m = Len(s) /\ n = Len(t) /\ DOMAIN s = 1..m /\ DOMAIN t = 1..n
  OBVIOUS
<1>3. PICK v : v = Without(s, k)
  OBVIOUS
<1>4. PICK w : w = Without(t, k)
  OBVIOUS
<1>5. DOMAIN v = 1..(m - 1) /\ \A j \in 1..(m - 1) : v[j] = IF j < k THEN s[j] ELSE s[j + 1]
  BY <1>2, <1>3, WithoutIs
<1>6. CASE k < p
  <2>1. k \in DOMAIN t
    BY <1>1, <1>2, <1>6
  <2>2. DOMAIN w = 1..(n - 1) /\ \A j \in 1..(n - 1) : w[j] = IF j < k THEN t[j] ELSE t[j + 1]
    BY <1>2, <1>4, <2>1, WithoutIs
  <2>3. p - 1 \in DOMAIN v \cap DOMAIN w /\ v[p - 1] = c
    <3>1. p - 1 \in 1..(m - 1) /\ p - 1 \in 1..(n - 1) /\ ~(p - 1 < k) /\ (p - 1) + 1 = p
      BY <1>1, <1>2, <1>6
    <3>2. v[p - 1] = s[p]
      BY <1>5, <3>1
    <3> QED
      BY <1>1, <1>5, <2>2, <3>1, <3>2
  <2>4. ASSUME NEW j \in 1..(p - 1) PROVE w[j] = v[j]
    <3>1. /\ j \in 1..(m - 1) /\ j \in 1..(n - 1) /\ j \in 1..p /\ j + 1 \in 1..p
      BY <1>1, <1>2
    <3>2. t[j] = s[j] /\ t[j + 1] = s[j + 1]
      BY <1>1, <3>1
    <3> QED
      BY <1>5, <2>2, <3>1, <3>2, Zenon
  <2> QED
    BY <1>3, <1>4, <2>3, <2>4 DEF Level
<1>7. CASE p < k
  <2>1. p \in DOMAIN w /\ \A j \in 1..p : w[j] = t[j]
    <3>1. CASE k \in DOMAIN t
      <4>1. DOMAIN w = 1..(n - 1) /\ \A j \in 1..(n - 1) : w[j] = IF j < k THEN t[j] ELSE t[j + 1]
        BY <1>2, <1>4, <3>1, WithoutIs
      <4> QED
        BY <1>1, <1>2, <1>7, <3>1, <4>1
    <3>2. CASE k \notin DOMAIN t
      BY <1>1, <1>4, <3>2 DEF Without
    <3> QED BY <3>1, <3>2
  <2>2. p \in DOMAIN v /\ \A j \in 1..p : v[j] = s[j]
    BY <1>1, <1>2, <1>5, <1>7
  <2>3. v[p] = c
    BY <1>1, <1>2, <2>2
  <2> QED
    BY <1>1, <1>3, <1>4, <2>1, <2>2, <2>3 DEF Level
<1> QED
  BY <1>1, <1>2, <1>6, <1>7

LEMMA AppendWithout ==
  ASSUME NEW S, NEW t \in Seq(S), NEW c \in S, NEW k \in DOMAIN Append(t, c), Append(t, c)[k] # c
  PROVE  Without(Append(t, c), k) = Append(Without(t, k), c)
<1>1. PICK n \in Nat : n = Len(t) /\ DOMAIN t = 1..n /\ k \in 1..n
  OBVIOUS
<1>2. PICK v : v = Without(Append(t, c), k)
  OBVIOUS
<1>3. PICK w : w = Without(t, k)
  OBVIOUS
<1>4. /\ Append(t, c) \in Seq(S) /\ Len(Append(t, c)) = n + 1
      /\ \A j \in 1..n : Append(t, c)[j] = t[j]
      /\ Append(t, c)[n + 1] = c
  BY <1>1
<1>5. /\ v \in Seq(S) /\ DOMAIN v = 1..n
      /\ \A j \in 1..n : v[j] = IF j < k THEN Append(t, c)[j] ELSE Append(t, c)[j + 1]
  <2>1. PICK u \in Seq(S) : u = Append(t, c)
    BY <1>4
  <2>2. Len(u) = n + 1 /\ k \in DOMAIN u /\ (n + 1) - 1 = n
    BY <1>1, <1>4, <2>1
  <2>3. /\ Without(u, k) \in Seq(S) /\ DOMAIN Without(u, k) = 1..n
        /\ \A j \in 1..n : Without(u, k)[j] = IF j < k THEN u[j] ELSE u[j + 1]
    BY <2>2, WithoutIs
  <2> QED
    BY <1>2, <2>1, <2>3, Zenon
<1>6. /\ w \in Seq(S) /\ Len(w) = n - 1
      /\ \A j \in 1..(n - 1) : w[j] = IF j < k THEN t[j] ELSE t[j + 1]
  BY <1>1, <1>3, WithoutIs
<1>7. /\ Append(w, c) \in Seq(S) /\ DOMAIN Append(w, c) = 1..n
      /\ \A j \in 1..(n - 1) : Append(w, c)[j] = w[j]
      /\ Append(w, c)[n] = c
  BY <1>1, <1>6
<1>8. ASSUME NEW j \in 1..n PROVE v[j] = Append(w, c)[j]
  <2>1. CASE j < k
    BY <1>1, <1>4, <1>5, <1>6, <1>7, <2>1
  <2>2. CASE j >= k /\ j < n
    BY <1>1, <1>4, <1>5, <1>6, <1>7, <2>2
  <2>3. CASE j = n
    BY <1>1, <1>4, <1>5, <1>7, <2>3
  <2>4. j < k \/ (j >= k /\ j < n) \/ j = n
    BY <1>1
  <2> QED
    BY <2>1, <2>2, <2>3, <2>4, Zenon
<1>9. v = Append(w, c)
  BY <1>5, <1>7, <1>8, SeqEqual
<1> QED
  BY <1>2, <1>3, <1>9

\* ClientInOrder, of a client and the run it attached to.
Known(c, i) ==
  /\ client[c].pc = "out" <=> i = NoInfo
  /\ client[c].pc \in {"out", "snapshot"} => client[c].got = <<>>
  /\ i # NoInfo => i[2] <= session /\ run[i].status # "queued"
  /\ client[c].pc \in {"hook", "attached"} => \E k \in DOMAIN callbacks[i] : callbacks[i][k] = c
Placed(c, i) ==
  /\ client[c].pc = "hook" => callbacks[i] = Append(acallbacks[i], c)
  /\ client[c].pc = "attached" => AtOnePlace(c, i)
  /\ client[c].pc = "left" /\ i[2] = session => ~Listed(c, i)

LEMMA ClientIs ==
  ASSUME NEW c, NEW i, client[c].to = i
  PROVE  ClientInOrder(c) <=> Known(c, i) /\ (c \notin crossed => Placed(c, i))
BY DEF ClientInOrder, Known, Placed

LEMMA ClientIsNext ==
  ASSUME NEW c, NEW i, client'[c].to = i, Known(c, i)', c \notin crossed' => Placed(c, i)'
  PROVE  ClientInOrder(c)'
BY DEF ClientInOrder, Known, Placed

LEMMA CrossedStep ==
  ASSUME [Next]_vars
  PROVE  crossed \subseteq crossed' /\ ((~ \E c \in Clients : Snapshot(c)) => crossed' = crossed)
<1>1. CASE \E c \in Clients : Snapshot(c)
  BY <1>1 DEF Snapshot
<1>2. CASE ~ \E c \in Clients : Snapshot(c)
  BY <1>2, HistoryChanges DEF historyVars, CleanFails, Launch, Reset, ReadLine, SendExit, Detach
<1> QED
  BY <1>1, <1>2

\* A run that was taken from the queue stays so, and a session only begins.
LEMMA InfoStep ==
  ASSUME Types, SessionsInOrder, WorkerInOrder, \A j \in Infos : ReaderInOrder(j), [Next]_vars,
         NEW i \in Infos, i[2] <= session, run[i].status # "queued"
  PROVE  i[2] <= session' /\ run'[i].status # "queued" /\ (i[2] = session' => session' = session)
<1>1. run'[i].status # "queued"
  BY QueuedStep
<1>2. session \in Nat /\ i[2] \in Nat
  BY Constants DEF Types, ControllerTypes, SessionType
<1> QED
  BY <1>1, <1>2, SessionsStep

LEMMA ClientKeeps ==
  ASSUME Types, SessionsInOrder, WorkerInOrder, \A j \in Infos : ReaderInOrder(j), [Next]_vars,
         NEW c \in Clients, ClientInOrder(c), client'[c].pc = client[c].pc,
         NEW i, client[c].to = i, client'[c].to = i,
         client[c].pc \in {"out", "snapshot"} => client'[c].got = client[c].got,
         i \in Infos => callbacks'[i] = callbacks[i] /\ acallbacks'[i] = acallbacks[i]
  PROVE  ClientInOrder(c)'
<1>1. Known(c, i) /\ (c \notin crossed => Placed(c, i))
  BY ClientIs
<1>2. i = NoInfo \/ i \in Infos
  BY DEF Types, ClientTypes, ClientType, ClientRecord
<1>3. CASE i = NoInfo
  <2>1. client[c].pc = "out"
    BY <1>1, <1>3 DEF Known
  <2>2. Known(c, i)' /\ Placed(c, i)'
    BY <1>1, <1>3, <2>1 DEF Known, Placed
  <2> QED
    BY <2>2, ClientIsNext
<1>4. CASE i \in Infos
  <2>1. i # NoInfo
    BY <1>4, Constants
  <2>2. i[2] <= session' /\ run'[i].status # "queued" /\ (i[2] = session' => session' = session)
    BY <1>1, <1>4, <2>1, InfoStep DEF Known
  <2>3. Known(c, i)'
    BY <1>1, <1>4, <2>1, <2>2 DEF Known
  <2>4. Placed(c, i) => Placed(c, i)'
    BY <1>4, <2>2 DEF Placed, AtOnePlace, Listed
  <2>5. c \notin crossed' => Placed(c, i)'
    BY <1>1, <2>4, CrossedStep
  <2> QED
    BY <2>3, <2>5, ClientIsNext
<1> QED
  BY <1>2, <1>3, <1>4


LEMMA ClientStep ==
  ASSUME Types, SessionsInOrder, WorkerInOrder, \A j \in Infos : ReaderInOrder(j) /\ ListsInOrder(j),
         \A d \in Clients : ClientInOrder(d), [Next]_vars, NEW c \in Clients
  PROVE  ClientInOrder(c)'
<1> DEFINE i == client[c].to
<1>0. /\ \A j \in Infos : callbacks[j] \in Seq(Clients) /\ acallbacks[j] \in Seq(Clients)
      /\ callbacks \in [Infos -> Seq(Clients)] /\ acallbacks \in [Infos -> Seq(Clients)]
  BY DEF Types, ClientTypes, ListType
<1>1. Known(c, i) /\ (c \notin crossed => Placed(c, i))
  BY ClientIs
<1>2. \A j \in Infos : /\ Once(callbacks[j]) /\ Once(acallbacks[j])
                       /\ \A k \in DOMAIN acallbacks[j] : AcallbackIs(acallbacks[j][k], j)
  BY ListsAre
\* A client that does nothing, and whose lists nobody changes.
<1>3. ASSUME client'[c].pc = client[c].pc, client'[c].to = client[c].to,
             client[c].pc \in {"out", "snapshot"} => client'[c].got = client[c].got,
             i \in Infos => callbacks'[i] = callbacks[i] /\ acallbacks'[i] = acallbacks[i]
      PROVE  ClientInOrder(c)'
  BY <1>3, ClientKeeps
<1>4. CASE UNCHANGED <<listVars, client>>
  BY <1>3, <1>4 DEF listVars
<1>5. ASSUME NEW j \in Infos, Send(j) PROVE ClientInOrder(c)'
  <2>1. UNCHANGED listVars
    BY <1>5, SendIs
  <2>2. CASE client'[c] = client[c]
    BY <1>3, <2>1, <2>2 DEF listVars
  <2>3. CASE client'[c] # client[c]
    <3>1. /\ reader[j].i \in DOMAIN acallbacks[j] /\ c = acallbacks[j][reader[j].i]
          /\ client'[c].pc = client[c].pc /\ client'[c].to = client[c].to
      BY <1>5, <2>3, SendIs
    <3>2. client[c].pc \notin {"out", "snapshot"}
      BY <1>2, <3>1 DEF AcallbackIs
    <3> QED
      BY <1>3, <2>1, <3>1, <3>2 DEF listVars
  <2> QED BY <2>2, <2>3
<1>6. ASSUME NEW d \in Clients, NEW r \in load.runs, Attach(d, r) PROVE ClientInOrder(c)'
  <2>1. PICK j \in Infos :
          /\ UNCHANGED listVars
          /\ j[2] = session /\ run[j].status = "running"
          /\ client[d].pc = "out" /\ client'[d].pc = "snapshot" /\ client'[d].to = j
          /\ client'[d].got = client[d].got
          /\ \A e \in Clients : e # d => client'[e] = client[e]
    BY <1>6, AttachIs
  <2>2. CASE c # d
    BY <1>3, <2>1, <2>2 DEF listVars
  <2>3. CASE c = d
    <3>1. session' = session /\ run' = run /\ session \in Nat
      BY <1>6 DEF Attach, controllerVars, runVars, Types, ControllerTypes, SessionType, Sessions
    <3>2. client'[c].got = <<>> /\ client'[c].to = j /\ client'[c].pc = "snapshot" /\ j # NoInfo
      BY <1>1, <2>1, <2>3, Constants DEF Known
    <3>3. j[2] <= session' /\ run'[j].status # "queued" /\ j[2] \in Nat
      BY <2>1, <3>1, Constants
    <3>4. Known(c, j)' /\ Placed(c, j)'
      BY <3>2, <3>3 DEF Known, Placed
    <3> QED
      BY <3>2, <3>4, ClientIsNext
  <2> QED BY <2>2, <2>3
<1>7. ASSUME NEW d \in Clients, Snapshot(d) PROVE ClientInOrder(c)'
  <2>1. PICK j \in Infos :
          /\ j = client[d].to /\ client[d].pc = "snapshot"
          /\ client'[d].pc = "hook" /\ client'[d].to = j
          /\ \A e \in Clients : e # d => client'[e] = client[e]
          /\ callbacks' = [callbacks EXCEPT ![j] = Append(callbacks[j], d)]
          /\ UNCHANGED acallbacks
    BY <1>7, SnapshotIs
  <2>2. session' = session /\ run' = run
    BY <1>7 DEF Snapshot, controllerVars, runVars
  <2>3. callbacks[j] # acallbacks[j] =>
          /\ d \in crossed'
          /\ \A e \in Clients \ {d} :
               client[e].pc = "hook" /\ client[e].to = j => e \in crossed'
    BY <1>7, <2>1 DEF Snapshot, Attaching
  <2>4. PICK s \in Seq(Clients), t \in Seq(Clients) : s = callbacks[j] /\ t = acallbacks[j]
    BY <1>0
  <2>5. callbacks'[j] = Append(s, d) /\ acallbacks'[j] = t
    BY <1>0, <2>1, <2>4
  <2>6. j # NoInfo
    BY Constants
  <2>7. CASE c # d /\ i # j
    <3>1. i \in Infos => callbacks'[i] = callbacks[i] /\ acallbacks'[i] = acallbacks[i]
      BY <1>0, <2>1, <2>7
    <3> QED
      BY <1>3, <2>1, <2>7, <3>1
  <2>8. CASE c # d /\ i = j
    <3>1. client'[c] = client[c] /\ Known(c, j) /\ (c \notin crossed => Placed(c, j))
      BY <1>1, <2>1, <2>8
    <3>2. \A k \in DOMAIN s : k \in DOMAIN Append(s, d) /\ Append(s, d)[k] = s[k]
      OBVIOUS
    <3>3. (\E k \in DOMAIN callbacks[j] : callbacks[j][k] = c)
            => \E k \in DOMAIN callbacks'[j] : callbacks'[j][k] = c
      BY <2>4, <2>5, <3>2
    <3>4. Known(c, j)'
      BY <2>2, <2>6, <3>1, <3>3 DEF Known
    <3>5. ASSUME c \notin crossed' PROVE Placed(c, j)'
      <4>1. Placed(c, j)
        BY <3>1, <3>5, CrossedStep
      <4>2. client[c].pc # "hook"
        <5>1. SUFFICES ASSUME client[c].pc = "hook" PROVE FALSE
          OBVIOUS
        <5>2. s = t
          BY <2>3, <2>4, <2>8, <3>5, <5>1
        <5>3. s = Append(t, c)
          BY <2>4, <4>1, <5>1 DEF Placed
        <5>4. Len(Append(t, c)) = Len(t) + 1 /\ Len(t) \in Nat
          OBVIOUS
        <5> QED
          BY <5>2, <5>3, <5>4
      <4>3. AtOnePlace(c, j) => AtOnePlace(c, j)'
        <5>1. Level(s, t, c) => Level(Append(s, d), t, c)
          BY LevelAppend
        <5> QED
          BY <2>4, <2>5, <5>1 DEF AtOnePlace, Level
      <4>4. Listed(c, j)' => Listed(c, j)
        BY <2>4, <2>5 DEF Listed
      <4> QED
        BY <2>2, <3>1, <4>1, <4>2, <4>3, <4>4 DEF Placed
    <3>6. client'[c].to = j
      BY <2>8, <3>1
    <3> QED
      BY <3>4, <3>5, <3>6, ClientIsNext
  <2>9. CASE c = d
    <3>1. client'[c].pc = "hook" /\ client'[c].to = j
      BY <2>1, <2>9
    <3>2. Len(s) + 1 \in DOMAIN Append(s, c) /\ Append(s, c)[Len(s) + 1] = c
      OBVIOUS
    <3>3. \E k \in DOMAIN callbacks'[j] : callbacks'[j][k] = c
      BY <2>5, <2>9, <3>2
    <3>4. Known(c, j)'
      BY <1>1, <2>1, <2>2, <2>6, <2>9, <3>1, <3>3 DEF Known
    <3>5. c \notin crossed' => callbacks'[j] = Append(acallbacks'[j], c)
      BY <2>3, <2>4, <2>5, <2>9
    <3>6. c \notin crossed' => Placed(c, j)'
      BY <3>1, <3>5 DEF Placed
    <3> QED
      BY <3>1, <3>4, <3>6, ClientIsNext
  <2> QED BY <2>7, <2>8, <2>9
<1>8. ASSUME NEW d \in Clients, Hook(d) PROVE ClientInOrder(c)'
  <2>1. PICK j \in Infos :
          /\ j = client[d].to /\ client[d].pc = "hook"
          /\ client'[d].pc = "attached" /\ client'[d].to = j
          /\ \A e \in Clients : e # d => client'[e] = client[e]
          /\ acallbacks' = [acallbacks EXCEPT ![j] = Append(acallbacks[j], d)]
          /\ UNCHANGED callbacks
    BY <1>8, HookIs
  <2>2. session' = session /\ run' = run /\ crossed' = crossed
    BY <1>8 DEF Hook, controllerVars, runVars, historyVars
  <2>3. PICK s \in Seq(Clients), t \in Seq(Clients) : s = callbacks[j] /\ t = acallbacks[j]
    BY <1>0
  <2>4. acallbacks'[j] = Append(t, d) /\ callbacks'[j] = s
    BY <1>0, <2>1, <2>3
  <2>5. j # NoInfo
    BY Constants
  <2>6. CASE c # d /\ i # j
    <3>1. i \in Infos => callbacks'[i] = callbacks[i] /\ acallbacks'[i] = acallbacks[i]
      BY <1>0, <2>1, <2>6
    <3> QED
      BY <1>3, <2>1, <2>6, <3>1
  <2>7. CASE c # d /\ i = j
    <3>1. client'[c] = client[c] /\ Known(c, j) /\ (c \notin crossed => Placed(c, j))
      BY <1>1, <2>1, <2>7
    <3>2. Known(c, j)'
      BY <2>1, <2>2, <3>1 DEF Known
    <3>3. ASSUME c \notin crossed' PROVE Placed(c, j)'
      <4>1. Placed(c, j)
        BY <2>2, <3>1, <3>3
      <4>2. client[c].pc # "hook"
        <5>1. SUFFICES ASSUME client[c].pc = "hook" PROVE FALSE
          OBVIOUS
        <5>2. PICK k \in DOMAIN s : s[k] = d
          <6>1. Known(d, j)
            BY <2>1, ClientIs
          <6> QED
            BY <2>1, <2>3, <6>1 DEF Known
        <5>3. s = Append(t, c)
          BY <2>3, <4>1, <5>1 DEF Placed
        <5>4. k \in DOMAIN t /\ t[k] = d
          BY <2>7, <5>2, <5>3
        <5>5. AcallbackIs(d, j)
          BY <1>2, <2>3, <5>4
        <5> QED
          BY <2>1, <5>5 DEF AcallbackIs
      <4>3. AtOnePlace(c, j) => AtOnePlace(c, j)'
        <5>1. Level(s, t, c) => Level(s, Append(t, d), c)
          BY LevelAppend
        <5> QED
          BY <2>3, <2>4, <5>1 DEF AtOnePlace, Level
      <4>4. Listed(c, j)' => Listed(c, j)
        <5>1. \A k \in DOMAIN Append(t, d) : Append(t, d)[k] = d \/ (k \in DOMAIN t /\ Append(t, d)[k] = t[k])
          OBVIOUS
        <5> QED
          BY <2>3, <2>4, <2>7, <5>1 DEF Listed
      <4> QED
        BY <2>2, <3>1, <4>1, <4>2, <4>3, <4>4 DEF Placed
    <3>4. client'[c].to = j
      BY <2>7, <3>1
    <3> QED
      BY <3>2, <3>3, <3>4, ClientIsNext
  <2>8. CASE c = d
    <3>1. client'[c].pc = "attached" /\ client'[c].to = j /\ client[c].pc = "hook" /\ i = j
      BY <2>1, <2>8
    <3>2. Known(c, j)'
      BY <1>1, <2>1, <2>2, <2>5, <3>1 DEF Known
    <3>3. ASSUME c \notin crossed' PROVE Placed(c, j)'
      <4>1. s = Append(t, c) /\ acallbacks'[j] = Append(t, c) /\ callbacks'[j] = Append(t, c)
        BY <1>1, <2>2, <2>3, <2>4, <2>8, <3>1, <3>3 DEF Placed
      <4>2. Len(t) + 1 \in DOMAIN Append(t, c) /\ Append(t, c)[Len(t) + 1] = c
        OBVIOUS
      <4>3. AtOnePlace(c, j)'
        BY <4>1, <4>2 DEF AtOnePlace
      <4> QED
        BY <3>1, <4>3 DEF Placed
    <3> QED
      BY <3>1, <3>2, <3>3, ClientIsNext
  <2> QED BY <2>6, <2>7, <2>8
<1>9. ASSUME NEW d \in Clients, Detach(d) PROVE ClientInOrder(c)'
  <2>1. PICK j \in Infos :
          /\ j = client[d].to /\ client[d].pc = "attached"
          /\ client'[d].pc = "left" /\ client'[d].to = j
          /\ \A e \in Clients : e # d => client'[e] = client[e]
          /\ \/ /\ j[2] = session
                /\ \E k \in DOMAIN callbacks[j] :
                     /\ callbacks[j][k] = d
                     /\ callbacks' = [callbacks EXCEPT ![j] = Without(callbacks[j], k)]
                     /\ acallbacks' = [acallbacks EXCEPT ![j] = Without(acallbacks[j], k)]
             \/ j[2] # session /\ UNCHANGED listVars
    BY <1>9, DetachIs
  <2>2. session' = session /\ run' = run /\ crossed' = crossed
    BY <1>9 DEF Detach, controllerVars, runVars
  <2>3. j # NoInfo
    BY Constants
  <2>4. CASE c # d /\ (i # j \/ UNCHANGED listVars)
    <3>1. i \in Infos => callbacks'[i] = callbacks[i] /\ acallbacks'[i] = acallbacks[i]
      BY <1>0, <2>1, <2>4 DEF listVars
    <3> QED
      BY <1>3, <2>1, <2>4, <3>1
  <2>5. CASE c = d /\ j[2] # session
    <3>1. client'[c].pc = "left" /\ client'[c].to = j /\ client[c].pc = "attached" /\ i = j
      BY <2>1, <2>5
    <3>2. Known(c, j)' /\ Placed(c, j)'
      BY <1>1, <2>2, <2>3, <2>5, <3>1 DEF Known, Placed
    <3> QED
      BY <3>1, <3>2, ClientIsNext
  <2>6. ASSUME j[2] = session, i = j, NEW k \in DOMAIN callbacks[j], callbacks[j][k] = d,
               callbacks' = [callbacks EXCEPT ![j] = Without(callbacks[j], k)],
               acallbacks' = [acallbacks EXCEPT ![j] = Without(acallbacks[j], k)]
        PROVE  ClientInOrder(c)'
    <3>1. PICK s \in Seq(Clients), t \in Seq(Clients) : s = callbacks[j] /\ t = acallbacks[j]
      BY <1>0
    <3>2. /\ callbacks'[j] = Without(s, k) /\ acallbacks'[j] = Without(t, k)
          /\ k \in DOMAIN s /\ s[k] = d /\ Once(s) /\ Once(t)
      BY <1>0, <1>2, <2>6, <3>1
    <3>3. CASE c # d
      <4>1. client'[c] = client[c] /\ Known(c, j) /\ (c \notin crossed => Placed(c, j))
        BY <1>1, <2>1, <2>6, <3>3
      <4>2. \A l \in DOMAIN s : s[l] = c => \E n \in DOMAIN Without(s, k) : Without(s, k)[n] = c
        BY <3>2, <3>3, OnceWithout
      <4>3. Known(c, j)'
        BY <2>2, <2>3, <3>1, <3>2, <4>1, <4>2 DEF Known
      <4>4. ASSUME c \notin crossed' PROVE Placed(c, j)'
        <5>1. Placed(c, j)
          BY <2>2, <4>1, <4>4
        <5>2. client[c].pc = "hook" => Without(s, k) = Append(Without(t, k), c)
          <6>1. SUFFICES ASSUME client[c].pc = "hook" PROVE Without(s, k) = Append(Without(t, k), c)
            OBVIOUS
          <6>2. s = Append(t, c)
            BY <3>1, <5>1, <6>1 DEF Placed
          <6>3. k \in DOMAIN Append(t, c) /\ Append(t, c)[k] # c
            BY <3>2, <3>3, <6>2
          <6> QED
            BY <6>2, <6>3, AppendWithout
        <5>3. AtOnePlace(c, j) => AtOnePlace(c, j)'
          <6>1. Level(s, t, c) => Level(Without(s, k), Without(t, k), c)
            BY <3>2, <3>3, LevelWithout
          <6> QED
            BY <3>1, <3>2, <6>1 DEF AtOnePlace, Level
        <5>4. Listed(c, j)' => Listed(c, j)
          <6>1. \A n \in DOMAIN Without(t, k) : \E l \in DOMAIN t : Without(t, k)[n] = t[l]
            <7>1. CASE k \in DOMAIN t
              BY <3>2, <7>1, OnceWithout
            <7>2. CASE k \notin DOMAIN t
              BY <7>2 DEF Without
            <7> QED BY <7>1, <7>2
          <6> QED
            BY <3>1, <3>2, <6>1 DEF Listed
        <5> QED
          BY <2>2, <3>2, <4>1, <5>1, <5>2, <5>3, <5>4 DEF Placed
      <4>5. client'[c].to = j
        BY <2>6, <4>1
      <4> QED
        BY <4>3, <4>4, <4>5, ClientIsNext
    <3>4. CASE c = d
      <4>1. client'[c].pc = "left" /\ client'[c].to = j /\ client[c].pc = "attached"
        BY <2>1, <3>4
      <4>2. Known(c, j)'
        BY <1>1, <2>2, <2>3, <2>6, <4>1 DEF Known
      <4>3. ASSUME c \notin crossed' PROVE Placed(c, j)'
        <5>1. AtOnePlace(c, j)
          BY <1>1, <2>2, <2>6, <4>1, <4>3 DEF Placed
        <5>2. PICK p \in DOMAIN s \cap DOMAIN t : s[p] = c /\ \A n \in 1..p : t[n] = s[n]
          BY <3>1, <5>1 DEF AtOnePlace
        <5>3. p = k
          BY <3>2, <3>4, <5>2 DEF Once
        <5>4. p \in 1..p
          BY <5>2
        <5>5. k \in DOMAIN t /\ t[k] = c
          BY <5>2, <5>3, <5>4
        <5>6. \A n \in DOMAIN Without(t, k) : Without(t, k)[n] # c
          BY <3>2, <5>5, OnceWithout
        <5>7. ~Listed(c, j)'
          BY <3>2, <5>6 DEF Listed
        <5> QED
          BY <4>1, <5>7 DEF Placed
      <4> QED
        BY <4>1, <4>2, <4>3, ClientIsNext
    <3> QED BY <3>3, <3>4
  <2>7. CASE i = j /\ j[2] = session
    BY <2>1, <2>6, <2>7
  <2>8. c = d => i = j
    BY <2>1
  <2> QED
    BY <2>1, <2>4, <2>5, <2>7, <2>8
<1> QED
  BY <1>4, <1>5, <1>6, <1>7, <1>8, <1>9, ClientChanges


-----------------------------------------------------------------------------
(***************************************************************************)
(* What a client has received: the steps of the reader                     *)
(***************************************************************************)
LinesOf(c, i) ==
  OrderOfLines(c) /\ GotWasRead(c, i) /\ AttachIsBlurred(c, i) /\ GotAllLines(c, i) /\ SentOnce(c, i)

LEMMA LinesTypes ==
  ASSUME Types, NEW c \in Clients, NEW i \in Infos
  PROVE  /\ client[c].got \in Seq(Nat) /\ blur[c] \in SUBSET Nat /\ acallbacks[i] \in Seq(Clients)
         /\ read[i] \in Nat /\ reader[i].text \in Nat /\ reader[i].i \in Nat /\ reader[i].n \in Nat
         /\ recent[i] \in Seq(Nat)
BY DEF Types, ClientTypes, ClientType, ClientRecord, ListType, HistoryTypes, BlurType, ReaderTypes,
       ReadType, ReaderType, ReaderRecord, RecentType

LEMMA OrderKeeps ==
  ASSUME NEW c, client'[c].got = client[c].got, blur[c] \subseteq blur'[c], OrderOfLines(c)
  PROVE  OrderOfLines(c)'
BY DEF OrderOfLines

\* What the clients missed when a text was recorded.
LEMMA RecordedBlur ==
  ASSUME NEW i \in Infos, ReadLine(i) \/ SendExit(i), NEW c \in Clients
  PROVE  /\ client[c].pc = "hook" /\ client[c].to = i =>
              blur'[c] = blur[c] \cup {IF ReadLine(i) THEN read[i] + 1 ELSE Exit}
         /\ ~(client[c].pc = "hook" /\ client[c].to = i) => blur'[c] = blur[c]
<1>1. ReadLine(i) => reader[i].pc = "read"
  BY DEF ReadLine
<1>2. SendExit(i) => reader[i].pc = "exit"
  BY DEF SendExit
<1>3. CASE ReadLine(i)
  BY <1>3 DEF ReadLine, Record
<1>4. CASE SendExit(i)
  <2>1. ~ReadLine(i)
    BY <1>1, <1>2, <1>4
  <2> QED
    BY <1>4, <2>1 DEF SendExit, Record
<1> QED
  BY <1>3, <1>4

\* Steps that change nothing of a client and its run but, perhaps, the place of
\* a reader that handles no text.
LEMMA LinesKeep ==
  ASSUME NEW c, NEW i, LinesOf(c, i), client'[c].got = client[c].got,
         client'[c].pc = "hook" => client[c].pc = "hook", blur'[c] = blur[c],
         acallbacks'[i] = acallbacks[i], read'[i] = read[i],
         ExitRecorded(i)' = ExitRecorded(i),
         \/ reader'[i] = reader[i]
         \/ /\ ~Handling(i) /\ ~Handling(i)'
            /\ reader'[i].pc \in {"return", "done"} => reader[i].pc \in {"return", "done"}
  PROVE  LinesOf(c, i)'
<1>1. OrderOfLines(c)'
  BY OrderKeeps DEF LinesOf
<1>2. GotWasRead(c, i)'
  BY DEF LinesOf, GotWasRead
<1>3. CASE reader'[i] = reader[i]
  BY <1>1, <1>2, <1>3 DEF LinesOf, AttachIsBlurred, GotAllLines, SentOnce, Handling, Pending, Listed
<1>4. CASE /\ ~Handling(i) /\ ~Handling(i)'
           /\ reader'[i].pc \in {"return", "done"} => reader[i].pc \in {"return", "done"}
  <2>1. AttachIsBlurred(c, i)'
    BY <1>4 DEF LinesOf, AttachIsBlurred
  <2>2. ~Pending(c, i) /\ ~Pending(c, i)' /\ reader'[i].pc # "send"
    BY <1>4 DEF Pending, Handling
  <2>3. GotAllLines(c, i)'
    BY <2>2 DEF LinesOf, GotAllLines, Listed
  <2>4. SentOnce(c, i)'
    BY <2>2 DEF SentOnce
  <2> QED
    BY <1>1, <1>2, <2>1, <2>3, <2>4 DEF LinesOf
<1> QED
  BY <1>3, <1>4

LEMMA ReadLineLines ==
  ASSUME Types, NEW c \in Clients, NEW i \in Infos, client[c].to = i, LinesOf(c, i), ReadLine(i),
         ExitRecorded(i)' = ExitRecorded(i)
  PROVE  LinesOf(c, i)'
<1>0. client[c].got \in Seq(Nat) /\ read[i] \in Nat
  BY LinesTypes
<1>1. /\ reader[i].pc = "read" /\ reader'[i].pc = "loop" /\ reader'[i].text = read[i] + 1
      /\ read'[i] = read[i] + 1
  BY ReadLineIs
<1>2. client' = client /\ acallbacks' = acallbacks
  BY DEF ReadLine, listVars
<1>3. /\ client[c].pc = "hook" => blur'[c] = blur[c] \cup {read[i] + 1}
      /\ client[c].pc # "hook" => blur'[c] = blur[c]
  BY RecordedBlur
<1>4. OrderOfLines(c)'
  BY <1>2, <1>3, OrderKeeps DEF LinesOf
<1>5. GotWasRead(c, i)'
  BY <1>0, <1>1, <1>2 DEF LinesOf, GotWasRead
<1>6. AttachIsBlurred(c, i)'
  BY <1>1, <1>2, <1>3 DEF AttachIsBlurred
<1>7. GotAllLines(c, i)'
  <2>1. SUFFICES ASSUME client[c].pc = "hook" \/ Listed(c, i), NEW t \in 1..(read[i] + 1),
                        client[c].got # <<>>, client[c].got[1] # Exit, client[c].got[1] <= t,
                        t \notin blur'[c]
                 PROVE  (\E j \in DOMAIN client[c].got : client[c].got[j] = t)
                        \/ (Pending(c, i)' /\ t = read[i] + 1)
    BY <1>1, <1>2 DEF GotAllLines, Listed
  <2>2. CASE t \in 1..read[i]
    <3>1. ~Pending(c, i)
      BY <1>1 DEF Pending, Handling
    <3>2. t \notin blur[c]
      BY <1>3, <2>1
    <3> QED
      BY <2>1, <2>2, <3>1, <3>2 DEF LinesOf, GotAllLines
  <2>3. CASE t = read[i] + 1
    <3>1. client[c].pc # "hook"
      BY <1>3, <2>1, <2>3
    <3>2. Pending(c, i)'
      BY <1>1, <1>2, <2>1, <2>3, <3>1 DEF Pending, Handling, Listed
    <3> QED
      BY <2>3, <3>2
  <2> QED
    BY <1>0, <2>2, <2>3
<1>8. SentOnce(c, i)'
  BY <1>0, <1>1, <1>2 DEF SentOnce, LinesOf, GotWasRead
<1> QED
  BY <1>4, <1>5, <1>6, <1>7, <1>8 DEF LinesOf

LEMMA SendExitLines ==
  ASSUME Types, NEW c \in Clients, NEW i \in Infos, client[c].to = i, LinesOf(c, i), SendExit(i),
         ~ExitRecorded(i), ExitRecorded(i)'
  PROVE  LinesOf(c, i)'
<1>0. client[c].got \in Seq(Nat) /\ read[i] \in Nat
  BY LinesTypes
<1>1. /\ reader[i].pc = "exit" /\ reader'[i].pc = "loop" /\ reader'[i].text = Exit
      /\ read'[i] = read[i]
  BY SendExitIs
<1>2. client' = client /\ acallbacks' = acallbacks
  BY DEF SendExit, listVars
<1>3. /\ client[c].pc = "hook" => blur'[c] = blur[c] \cup {Exit}
      /\ client[c].pc # "hook" => blur'[c] = blur[c]
  <2>1. ~ReadLine(i)
    BY <1>1 DEF ReadLine
  <2> QED
    BY <2>1, RecordedBlur
<1>4. OrderOfLines(c)'
  BY <1>2, <1>3, OrderKeeps DEF LinesOf
<1>5. GotWasRead(c, i)'
  BY <1>1, <1>2 DEF LinesOf, GotWasRead
<1>6. AttachIsBlurred(c, i)'
  BY <1>1, <1>2, <1>3 DEF AttachIsBlurred
<1>7. GotAllLines(c, i)'
  <2>1. SUFFICES ASSUME client[c].pc = "hook" \/ Listed(c, i), NEW t \in 1..read[i],
                        client[c].got # <<>>, client[c].got[1] # Exit, client[c].got[1] <= t,
                        t \notin blur'[c]
                 PROVE  \E j \in DOMAIN client[c].got : client[c].got[j] = t
    BY <1>1, <1>2 DEF GotAllLines, Listed
  <2>2. ~Pending(c, i)
    BY <1>1 DEF Pending, Handling
  <2>3. t \notin blur[c]
    BY <1>3, <2>1
  <2> QED
    BY <2>1, <2>2, <2>3 DEF LinesOf, GotAllLines
<1>8. SentOnce(c, i)'
  BY <1>1, <1>2 DEF SentOnce, LinesOf, GotWasRead
<1> QED
  BY <1>4, <1>5, <1>6, <1>7, <1>8 DEF LinesOf

LEMMA LoopStartLines ==
  ASSUME Types, NEW c \in Clients, NEW i \in Infos, LinesOf(c, i), LoopStart(i),
         ExitRecorded(i)' = ExitRecorded(i)
  PROVE  LinesOf(c, i)'
<1>1. /\ reader[i].pc = "loop" /\ reader'[i].pc = "send" /\ reader'[i].text = reader[i].text
      /\ reader'[i].i = 1 /\ reader'[i].n = Len(acallbacks[i]) /\ read'[i] = read[i]
  BY LoopStartIs
<1>2. client' = client /\ acallbacks' = acallbacks /\ blur' = blur
  BY DEF LoopStart, listVars, historyVars
<1>3. DOMAIN acallbacks[i] = 1..Len(acallbacks[i]) /\ Len(acallbacks[i]) \in Nat
  BY LinesTypes
<1>4. OrderOfLines(c)'
  BY <1>2, OrderKeeps DEF LinesOf
<1>5. GotWasRead(c, i)' /\ AttachIsBlurred(c, i)'
  BY <1>1, <1>2 DEF LinesOf, GotWasRead, AttachIsBlurred, Handling
<1>6. Pending(c, i)' <=> Pending(c, i)
  BY <1>1, <1>2, <1>3 DEF Pending, Handling
<1>7. GotAllLines(c, i)'
  BY <1>1, <1>2, <1>6 DEF LinesOf, GotAllLines, Listed
<1>8. SentOnce(c, i)'
  BY <1>1, <1>2, <1>3, <1>6 DEF LinesOf, SentOnce
<1> QED
  BY <1>4, <1>5, <1>7, <1>8 DEF LinesOf

LEMMA LoopEndLines ==
  ASSUME Types, NEW c \in Clients, NEW i \in Infos, LinesOf(c, i), LoopEnd(i),
         ExitRecorded(i)' = ExitRecorded(i)
  PROVE  LinesOf(c, i)'
<1>1. /\ reader[i].pc = "send" /\ reader[i].i > reader[i].n
      /\ reader'[i].pc = IF reader[i].text = Exit THEN "return" ELSE "read"
      /\ read'[i] = read[i]
  BY LoopEndIs
<1>2. client' = client /\ acallbacks' = acallbacks /\ blur' = blur
  BY DEF LoopEnd, listVars, historyVars
<1>3. DOMAIN acallbacks[i] \subseteq Nat /\ reader[i].i \in Nat /\ reader[i].n \in Nat
  BY LinesTypes
<1>4. OrderOfLines(c)'
  BY <1>2, OrderKeeps DEF LinesOf
<1>5. GotWasRead(c, i)' /\ AttachIsBlurred(c, i)'
  BY <1>1, <1>2 DEF LinesOf, GotWasRead, AttachIsBlurred, Handling
<1>6. ~Pending(c, i)
  <2>1. reader[i].text \notin blur[c] =>
          \A k \in DOMAIN acallbacks[i] : acallbacks[i][k] = c => k <= reader[i].n
    BY <1>1 DEF LinesOf, SentOnce
  <2> QED
    BY <1>1, <1>3, <2>1 DEF Pending
<1>7. ~Pending(c, i)' /\ reader'[i].pc # "send"
  BY <1>1 DEF Pending, Handling
<1>8. GotAllLines(c, i)'
  BY <1>1, <1>2, <1>6 DEF LinesOf, GotAllLines, Listed
<1>9. SentOnce(c, i)'
  BY <1>7 DEF SentOnce
<1> QED
  BY <1>4, <1>5, <1>8, <1>9 DEF LinesOf


\* What a client has got: in order but for the texts in B; lines that were read,
\* and the exit message only once it was sent; and every line from the first on.
InOrder(got, B) ==
  \A j, k \in DOMAIN got : j < k /\ got[j] \notin B /\ got[k] \notin B =>
    (got[j] < got[k] \/ got[k] = Exit) /\ got[j] # Exit
WasRead(got, n, exits) == \A j \in DOMAIN got : got[j] <= n /\ (got[j] = Exit => exits = 1)
AllFrom(got, n) ==
  got # <<>> /\ got[1] # Exit => \A t \in 1..n : got[1] <= t => \E j \in DOMAIN got : got[j] = t
IsRecent(got, n, last, exits) ==
  /\ last = Len(got) - exits
  /\ \A k \in 1..last : got[k] = n - last + k
  /\ exits = 1 => got[last + 1] = Exit
Grows(got, more, text) ==
  /\ \A j \in DOMAIN got : j \in DOMAIN more /\ more[j] = got[j]
  /\ \E j \in DOMAIN more : more[j] = text
  /\ more # <<>>
  /\ IF got = <<>> THEN more[1] = text ELSE more[1] = got[1]
IsText(text, n, exits) == (text # Exit => text = n /\ exits = 0) /\ (text = Exit => exits = 1)
NotIn(text, got, B) == text \notin B => \A j \in DOMAIN got : got[j] # text


\* One more text in what a client has got: the last line read, or the exit
\* message; exits is 1 once the exit message has been recorded.
LEMMA OneMore ==
  ASSUME NEW got \in Seq(Nat), NEW n \in Nat, NEW text \in Nat, NEW B, NEW exits \in 0..1,
         IsText(text, n, exits),
         WasRead(got, n, exits), InOrder(got, B), NotIn(text, got, B)
  PROVE  /\ WasRead(Append(got, text), n, exits) /\ InOrder(Append(got, text), B)
         /\ Grows(got, Append(got, text), text)
<1>0. PICK more : more = Append(got, text)
  OBVIOUS
<1>1. SUFFICES WasRead(more, n, exits) /\ InOrder(more, B) /\ Grows(got, more, text)
  BY <1>0
<1> USE DEF WasRead, InOrder, NotIn, IsText
<1>2. /\ DOMAIN got = 1..Len(got) /\ Len(got) \in Nat
      /\ DOMAIN more = 1..(Len(got) + 1) /\ more[Len(got) + 1] = text
      /\ \A j \in DOMAIN got : j \in DOMAIN more /\ more[j] = got[j] /\ got[j] \in Nat
  BY <1>0
<1>3. more # <<>> /\ IF got = <<>> THEN more[1] = text ELSE more[1] = got[1]
  BY <1>0
<1>4. \A j \in DOMAIN more : j \in DOMAIN got \/ (j = Len(got) + 1 /\ more[j] = text)
  BY <1>2
<1>5. \A j \in DOMAIN more : more[j] <= n /\ (more[j] = Exit => exits = 1)
  <2>1. text <= n
    BY DEF Exit
  <2> QED
    BY <1>2, <1>4, <2>1
<1>6. ASSUME NEW j \in DOMAIN more, NEW k \in DOMAIN more, j < k, more[j] \notin B, more[k] \notin B
      PROVE  (more[j] < more[k] \/ more[k] = Exit) /\ more[j] # Exit
  <2>1. j \in DOMAIN got /\ more[j] = got[j]
    BY <1>2, <1>6
  <2>2. CASE k \in DOMAIN got
    BY <1>2, <1>6, <2>1, <2>2
  <2>3. CASE more[k] = text
    <3>1. got[j] # text /\ got[j] <= n /\ got[j] \in Nat /\ (got[j] = Exit => exits = 1)
      BY <1>2, <1>6, <2>1, <2>3
    <3> QED
      BY <2>1, <2>3, <3>1
  <2> QED
    BY <1>4, <1>6, <2>2, <2>3
<1>7. \E j \in DOMAIN more : more[j] = text
  <2>1. Len(got) + 1 \in DOMAIN more
    BY <1>2
  <2> QED
    BY <1>2, <2>1
<1> QED
  BY <1>2, <1>3, <1>5, <1>6, <1>7 DEF Grows

\* A text is sent to c, who is listed at the place the loop has come to.
LEMMA SendToLines ==
  ASSUME Types, NEW c \in Clients, NEW i \in Infos, LinesOf(c, i), Send(i), ReaderInOrder(i),
         Once(acallbacks[i]), ExitRecorded(i)' = ExitRecorded(i), client[c].pc # "hook",
         reader[i].i \in DOMAIN acallbacks[i], acallbacks[i][reader[i].i] = c,
         client'[c].pc = client[c].pc, client'[c].got = Append(client[c].got, reader[i].text)
  PROVE  LinesOf(c, i)'
<1>0. PICK got \in Seq(Nat), n \in Nat, text \in Nat, p \in Nat :
        got = client[c].got /\ n = read[i] /\ text = reader[i].text /\ p = reader[i].i
  BY LinesTypes
<1>1. /\ reader[i].pc = "send" /\ reader'[i].pc = "send" /\ reader'[i].text = text
      /\ reader'[i].i = p + 1 /\ reader'[i].n = reader[i].n /\ read'[i] = n
  BY <1>0, SendReaderIs
<1>2. acallbacks' = acallbacks /\ blur' = blur
  BY DEF Send, listVars, historyVars
<1>3. Handling(i)
  BY <1>1 DEF Handling
<1>4. PICK exits \in 0..1 : exits = 1 <=> ExitRecorded(i)
  <2>1. CASE ExitRecorded(i)
    BY <2>1
  <2>2. CASE ~ExitRecorded(i)
    BY <2>2
  <2> QED BY <2>1, <2>2
<1>5. (text # Exit => text = n /\ exits = 0) /\ (text = Exit => exits = 1)
  BY <1>0, <1>1, <1>3, <1>4 DEF ReaderInOrder, ExitRecorded
<1>6. /\ \A j \in DOMAIN got : got[j] <= n /\ (got[j] = Exit => exits = 1)
      /\ \A j, k \in DOMAIN got : j < k /\ got[j] \notin blur[c] /\ got[k] \notin blur[c] =>
           (got[j] < got[k] \/ got[k] = Exit) /\ got[j] # Exit
  BY <1>0, <1>4 DEF LinesOf, GotWasRead, OrderOfLines
<1>7. text \notin blur[c] => \A j \in DOMAIN got : got[j] # text
  <2>1. text \notin blur[c] => Pending(c, i)
    BY <1>0, <1>3 DEF Pending
  <2> QED
    BY <1>0, <2>1 DEF LinesOf, SentOnce
<1>8. ~Pending(c, i)'
  <2>1. ASSUME NEW k \in DOMAIN acallbacks[i], acallbacks[i][k] = c, k >= p + 1 PROVE FALSE
    <3>1. k = p
      BY <1>0, <2>1 DEF Once
    <3> QED
      BY <1>0, <2>1, <3>1
  <2> QED
    BY <1>1, <1>2, <2>1 DEF Pending
<1>9. PICK more : more = Append(got, text)
  OBVIOUS
<1>10. WasRead(more, n, exits) /\ InOrder(more, blur[c]) /\ Grows(got, more, text)
  <2>1. PICK B : B = blur[c]
    OBVIOUS
  <2>2. WasRead(got, n, exits) /\ InOrder(got, B) /\ NotIn(text, got, B)
    BY <1>6, <1>7, <2>1 DEF WasRead, InOrder, NotIn
  <2>3. WasRead(more, n, exits) /\ InOrder(more, B) /\ Grows(got, more, text)
    <3>1. IsText(text, n, exits)
      BY <1>5 DEF IsText
    <3>2. /\ WasRead(Append(got, text), n, exits) /\ InOrder(Append(got, text), B)
          /\ Grows(got, Append(got, text), text)
      BY <1>0, <1>4, <2>2, <3>1, OneMore
    <3> QED
      BY <1>9, <3>2
  <2> QED
    BY <2>1, <2>3
<1>11. client'[c].got = more
  BY <1>0, <1>9
<1>12. OrderOfLines(c)'
  BY <1>2, <1>10, <1>11 DEF OrderOfLines, InOrder
<1>13. GotWasRead(c, i)'
  BY <1>1, <1>4, <1>10, <1>11 DEF GotWasRead, WasRead
<1>14. AttachIsBlurred(c, i)'
  BY DEF AttachIsBlurred
<1>15. GotAllLines(c, i)'
  <2>1. SUFFICES ASSUME NEW t \in 1..n, more[1] # Exit, more[1] <= t, t \notin blur[c]
                 PROVE  \E j \in DOMAIN more : more[j] = t
    BY <1>1, <1>2, <1>11 DEF GotAllLines
  <2>2. CASE t = text
    BY <1>10, <2>2 DEF Grows
  <2>3. CASE t # text /\ got = <<>>
    BY <1>5, <1>10, <2>1, <2>3 DEF Grows
  <2>4. CASE t # text /\ got # <<>>
    <3>1. Listed(c, i)
      BY DEF Listed
    <3>2. more[1] = got[1]
      BY <1>10, <2>4 DEF Grows
    <3>3. \E j \in DOMAIN got : got[j] = t
      BY <1>0, <2>1, <2>4, <3>1, <3>2 DEF LinesOf, GotAllLines
    <3> QED
      BY <1>10, <3>3 DEF Grows
  <2> QED
    BY <2>2, <2>3, <2>4
<1>16. SentOnce(c, i)'
  BY <1>0, <1>1, <1>2, <1>8 DEF LinesOf, SentOnce
<1> QED
  BY <1>12, <1>13, <1>14, <1>15, <1>16 DEF LinesOf

\* A text is sent to another client, or to none.
LEMMA SendElsewhereLines ==
  ASSUME Types, NEW c \in Clients, NEW i \in Infos, LinesOf(c, i), Send(i),
         ExitRecorded(i)' = ExitRecorded(i), client'[c] = client[c],
         reader[i].i \in DOMAIN acallbacks[i] => acallbacks[i][reader[i].i] # c
  PROVE  LinesOf(c, i)'
<1>1. /\ reader[i].pc = "send" /\ reader'[i].pc = "send" /\ reader'[i].text = reader[i].text
      /\ reader'[i].i = reader[i].i + 1 /\ reader'[i].n = reader[i].n /\ read'[i] = read[i]
  BY SendReaderIs
<1>2. acallbacks' = acallbacks /\ blur' = blur
  BY DEF Send, listVars, historyVars
<1>3. DOMAIN acallbacks[i] \subseteq Nat /\ reader[i].i \in Nat
  BY LinesTypes
<1>4. OrderOfLines(c)'
  BY <1>2, OrderKeeps DEF LinesOf
<1>5. GotWasRead(c, i)' /\ AttachIsBlurred(c, i)'
  BY <1>1, <1>2 DEF LinesOf, GotWasRead, AttachIsBlurred, Handling
<1>6. Pending(c, i)' <=> Pending(c, i)
  <2>1. \A k \in DOMAIN acallbacks[i] : acallbacks[i][k] = c =>
          (k >= reader[i].i + 1 <=> k >= reader[i].i)
    BY <1>3
  <2> QED
    BY <1>1, <1>2, <2>1 DEF Pending, Handling
<1>7. GotAllLines(c, i)'
  BY <1>1, <1>2, <1>6 DEF LinesOf, GotAllLines, Listed
<1>8. SentOnce(c, i)'
  BY <1>1, <1>2, <1>6 DEF LinesOf, SentOnce
<1> QED
  BY <1>4, <1>5, <1>7, <1>8 DEF LinesOf

-----------------------------------------------------------------------------
(***************************************************************************)
(* What a client has received: the steps of the clients                    *)
(***************************************************************************)
LEMMA AttachLines ==
  ASSUME NEW c, NEW i, client'[c].got = <<>>, client'[c].pc = "snapshot", ~Listed(c, i)'
  PROVE  LinesOf(c, i)'
<1>1. OrderOfLines(c)' /\ GotWasRead(c, i)' /\ AttachIsBlurred(c, i)'
  BY DEF OrderOfLines, GotWasRead, AttachIsBlurred
<1>2. ~Pending(c, i)'
  BY DEF Pending, Listed
<1>3. GotAllLines(c, i)' /\ SentOnce(c, i)'
  BY <1>2 DEF GotAllLines, SentOnce, Listed
<1> QED
  BY <1>1, <1>3 DEF LinesOf

\* The recent lines are the last ones read, in order, and the exit message.
LEMMA RecentGot ==
  ASSUME NEW got \in Seq(Nat), NEW n \in Nat, NEW exits \in 0..1, NEW last \in 0..n,
         IsRecent(got, n, last, exits)
  PROVE  InOrder(got, {}) /\ WasRead(got, n, exits) /\ AllFrom(got, n)
<1> USE DEF IsRecent
<1>1. DOMAIN got = 1..Len(got) /\ Len(got) \in Nat /\ last \in Nat /\ last <= n /\ last <= Len(got)
  OBVIOUS
<1>2. \A k \in DOMAIN got : k \in 1..last \/ (k = last + 1 /\ exits = 1 /\ got[k] = Exit)
  BY <1>1
<1>3. \A k \in 1..last : /\ k \in DOMAIN got /\ got[k] = n - last + k
                         /\ got[k] \in Nat /\ got[k] <= n /\ got[k] # Exit
  <2> TAKE k \in 1..last
  <2>1. k \in Nat /\ k >= 1 /\ k <= last
    BY <1>1
  <2>2. PICK m : m = n - last + k
    OBVIOUS
  <2>3. m \in Nat /\ m <= n /\ m >= 1
    BY <1>1, <2>1, <2>2
  <2>4. got[k] = m
    BY <2>2
  <2>5. k \in DOMAIN got
    BY <1>1, <2>1
  <2> QED
    BY <2>2, <2>3, <2>4, <2>5 DEF Exit
<1>4. \A j \in DOMAIN got : got[j] <= n /\ (got[j] = Exit => exits = 1)
  <2> TAKE j \in DOMAIN got
  <2>1. CASE j \in 1..last
    BY <1>3, <2>1
  <2>2. CASE got[j] = Exit /\ exits = 1
    BY <2>2 DEF Exit
  <2> QED
    BY <1>2, <2>1, <2>2
<1>5. ASSUME NEW j \in DOMAIN got, NEW k \in DOMAIN got, j < k
      PROVE  (got[j] < got[k] \/ got[k] = Exit) /\ got[j] # Exit
  <2>1. j \in 1..last
    <3>1. j \in Nat \ {0} /\ k \in Nat
      BY <1>1
    <3>2. k <= last + 1
      BY <1>1, <1>2, <3>1
    <3>3. j <= last
      BY <1>1, <1>5, <3>1, <3>2
    <3> QED
      BY <1>1, <3>1, <3>3
  <2>2. got[j] = n - last + j /\ got[j] # Exit
    BY <1>3, <2>1
  <2>3. k \in 1..last => got[k] = n - last + k
    BY <1>3
  <2>4. k \in 1..last => got[j] < got[k]
    BY <1>1, <1>5, <2>1, <2>2, <2>3
  <2> QED
    BY <1>2, <2>2, <2>4
<1>6. ASSUME got # <<>>, got[1] # Exit, NEW t \in 1..n, got[1] <= t
      PROVE  \E j \in DOMAIN got : got[j] = t
  <2>1. 1 \in DOMAIN got
    BY <1>1, <1>6
  <2>2. 1 \in 1..last
    BY <1>2, <1>6, <2>1
  <2>3. n - last + 1 <= t /\ t <= n
    BY <1>3, <1>6, <2>2
  <2>4. PICK j \in 1..last : j = t - (n - last)
    <3>1. t - (n - last) \in 1..last
      BY <1>1, <2>3
    <3> QED
      BY <3>1
  <2>5. n - last + j = t
    BY <1>1, <2>4, SMT
  <2> QED
    BY <1>3, <2>4, <2>5
<1> QED
  BY <1>4, <1>5, <1>6 DEF InOrder, WasRead, AllFrom

LEMMA SnapshotLines ==
  ASSUME Types, NEW c \in Clients, NEW i \in Infos, client[c].to = i, RecentInOrder(i), Snapshot(c),
         client'[c].got = recent[i], client'[c].pc = "hook", ~Listed(c, i)
  PROVE  LinesOf(c, i)'
<1>1. PICK got \in Seq(Nat), n \in Nat : got = recent[i] /\ n = read[i]
  BY LinesTypes
<1>2. PICK exits \in 0..1 : exits = 1 <=> ExitRecorded(i)
  <2>1. CASE ExitRecorded(i)
    BY <2>1
  <2>2. CASE ~ExitRecorded(i)
    BY <2>2
  <2> QED BY <2>1, <2>2
<1>3. /\ acallbacks' = acallbacks /\ read' = read /\ reader' = reader
      /\ blur'[c] = IF Handling(i) THEN {reader[i].text}
                    ELSE IF reader[i].pc \in {"return", "done"} THEN {Exit}
                    ELSE {}
  BY DEF Snapshot, readerVars, Types, HistoryTypes, BlurType
<1>4. ExitRecorded(i)' <=> exits = 1
  BY <1>2, <1>3 DEF ExitRecorded, Handling
<1>5. PICK last \in 0..n : IsRecent(got, n, last, exits)
  <2>1. PICK last \in 0..n :
          /\ last = IF ExitRecorded(i) THEN Len(got) - 1 ELSE Len(got)
          /\ \A k \in 1..last : got[k] = n - last + k
          /\ ExitRecorded(i) => got[last + 1] = Exit
    BY <1>1 DEF RecentInOrder
  <2>2. last = Len(got) - exits
    BY <1>1, <1>2, <2>1
  <2> QED
    BY <1>2, <2>1, <2>2 DEF IsRecent
<1>6. InOrder(got, {}) /\ WasRead(got, n, exits) /\ AllFrom(got, n)
  BY <1>1, <1>2, <1>5, RecentGot
<1>7. client'[c].got = got /\ read'[i] = n
  BY <1>1, <1>3
<1>8. OrderOfLines(c)' /\ GotWasRead(c, i)' /\ GotAllLines(c, i)'
  BY <1>4, <1>6, <1>7 DEF OrderOfLines, GotWasRead, GotAllLines, InOrder, WasRead, AllFrom
<1>9. AttachIsBlurred(c, i)'
  BY <1>3 DEF AttachIsBlurred, Handling
<1>10. SentOnce(c, i)'
  BY <1>3 DEF SentOnce, Pending, Listed
<1> QED
  BY <1>8, <1>9, <1>10 DEF LinesOf

\* The list grows by a client: c, whose snapshot has been sent, or another.
LEMMA HookLines ==
  ASSUME Types, NEW c \in Clients, NEW i \in Infos, LinesOf(c, i), NEW d \in Clients,
         client'[c].got = client[c].got, UNCHANGED <<readerVars, blur>>,
         acallbacks'[i] = Append(acallbacks[i], d),
         \/ d = c /\ client[c].pc = "hook" /\ client'[c].pc = "attached" /\ ~Listed(c, i)
         \/ d # c /\ client'[c].pc = client[c].pc
  PROVE  LinesOf(c, i)'
<1>0. PICK s \in Seq(Clients) : s = acallbacks[i] /\ acallbacks'[i] = Append(s, d)
  BY LinesTypes
<1>1. /\ read' = read /\ reader' = reader
      /\ Handling(i)' = Handling(i) /\ ExitRecorded(i)' = ExitRecorded(i)
  BY DEF readerVars, ExitRecorded, Handling
<1>2. OrderOfLines(c)'
  BY OrderKeeps DEF LinesOf
<1>3. GotWasRead(c, i)'
  BY <1>1 DEF LinesOf, GotWasRead
<1>4. AttachIsBlurred(c, i)'
  BY <1>1 DEF LinesOf, AttachIsBlurred
<1>5. CASE d = c /\ client[c].pc = "hook" /\ client'[c].pc = "attached" /\ ~Listed(c, i)
  <2>1. Handling(i) => reader[i].text \in blur[c]
    BY <1>5 DEF LinesOf, AttachIsBlurred
  <2>2. ~Pending(c, i) /\ ~Pending(c, i)'
    BY <1>1, <2>1 DEF Pending
  <2>3. GotAllLines(c, i)'
    BY <1>1, <1>5, <2>2 DEF LinesOf, GotAllLines
  <2>4. SentOnce(c, i)'
    BY <1>1, <2>1, <2>2 DEF SentOnce, Handling
  <2> QED
    BY <1>2, <1>3, <1>4, <2>3, <2>4 DEF LinesOf
<1>6. CASE d # c /\ client'[c].pc = client[c].pc
  <2>1. \A k \in DOMAIN s : k \in DOMAIN Append(s, d) /\ Append(s, d)[k] = s[k]
    OBVIOUS
  <2>2. \A k \in DOMAIN Append(s, d) : Append(s, d)[k] = c => k \in DOMAIN s /\ s[k] = c
    BY <1>6
  <2>3. Listed(c, i)' <=> Listed(c, i)
    BY <1>0, <2>1, <2>2 DEF Listed
  <2>4. Pending(c, i)' <=> Pending(c, i)
    BY <1>0, <1>1, <2>1, <2>2 DEF Pending
  <2>5. GotAllLines(c, i)'
    BY <1>1, <1>6, <2>3, <2>4 DEF LinesOf, GotAllLines
  <2>6. SentOnce(c, i)'
    BY <1>0, <1>1, <2>2, <2>4 DEF LinesOf, SentOnce
  <2> QED
    BY <1>2, <1>3, <1>4, <2>5, <2>6 DEF LinesOf
<1> QED
  BY <1>5, <1>6

\* A client is taken out of the list: if the reader is sending, whoever is
\* attached may miss the text.
LEMMA DetachLines ==
  ASSUME NEW c, NEW i, LinesOf(c, i),
         client'[c].got = client[c].got, UNCHANGED readerVars,
         client'[c].pc = "hook" => client[c].pc = "hook",
         Listed(c, i)' => Listed(c, i),
         blur'[c] = IF reader[i].pc = "send" THEN blur[c] \cup {reader[i].text} ELSE blur[c]
  PROVE  LinesOf(c, i)'
<1>1. /\ read' = read /\ reader' = reader
      /\ Handling(i)' = Handling(i) /\ ExitRecorded(i)' = ExitRecorded(i)
  BY DEF readerVars, ExitRecorded, Handling
<1>2. OrderOfLines(c)'
  BY OrderKeeps DEF LinesOf
<1>3. GotWasRead(c, i)'
  BY <1>1 DEF LinesOf, GotWasRead
<1>4. AttachIsBlurred(c, i)'
  BY <1>1 DEF LinesOf, AttachIsBlurred
<1>5. Pending(c, i)' => reader[i].pc = "loop" /\ Pending(c, i)
  BY <1>1 DEF Pending, Handling, Listed
<1>6. GotAllLines(c, i)'
  <2>1. SUFFICES ASSUME client'[c].pc = "hook" \/ Listed(c, i)', NEW t \in 1..read[i],
                        client[c].got # <<>>, client[c].got[1] # Exit, client[c].got[1] <= t,
                        t \notin blur'[c]
                 PROVE  (\E j \in DOMAIN client[c].got : client[c].got[j] = t)
                        \/ (Pending(c, i)' /\ t = reader[i].text)
    BY <1>1 DEF GotAllLines
  <2>2. t \notin blur[c]
    BY <2>1
  <2>3. (\E j \in DOMAIN client[c].got : client[c].got[j] = t) \/ (Pending(c, i) /\ t = reader[i].text)
    BY <2>1, <2>2 DEF LinesOf, GotAllLines
  <2>4. CASE Pending(c, i) /\ t = reader[i].text
    <3>1. reader[i].pc # "send" /\ Handling(i) /\ reader[i].text \notin blur[c]
      BY <2>1, <2>4 DEF Pending
    <3>2. client[c].pc # "hook"
      BY <3>1 DEF LinesOf, AttachIsBlurred
    <3>3. Listed(c, i)'
      BY <2>1, <3>2
    <3>4. Pending(c, i)'
      BY <1>1, <3>1, <3>3 DEF Pending, Listed
    <3> QED
      BY <2>4, <3>4
  <2> QED
    BY <2>3, <2>4
<1>7. SentOnce(c, i)'
  <2>1. reader'[i].pc = "send" => reader'[i].text \in blur'[c]
    BY <1>1
  <2> QED
    BY <1>1, <1>5, <2>1 DEF LinesOf, SentOnce
<1> QED
  BY <1>2, <1>3, <1>4, <1>6, <1>7 DEF LinesOf


-----------------------------------------------------------------------------
(***************************************************************************)
(* What a client has received: every step                                  *)
(***************************************************************************)
LEMMA LinesIs ==
  ASSUME NEW c, NEW i, client[c].to = i
  PROVE  LinesInOrder(c) <=> (c \notin crossed /\ i # NoInfo => LinesOf(c, i))
BY DEF LinesInOrder, LinesOf

LEMMA LinesIsNext ==
  ASSUME NEW c, NEW i, client'[c].to = i, c \notin crossed' /\ i # NoInfo => LinesOf(c, i)'
  PROVE  LinesInOrder(c)'
BY DEF LinesInOrder, LinesOf

ClientSteps == \E c \in Clients : \/ Snapshot(c) \/ Hook(c) \/ Detach(c)
                                  \/ \E r \in load.runs : Attach(c, r)

\* A client does nothing, and neither does the reader of its run.
LEMMA OthersKeep ==
  ASSUME Types, \A j \in Infos : ListsInOrder(j), [Next]_vars, ~ClientSteps,
         NEW c \in Clients, NEW i \in Infos, client[c].to = i, ~Reader(i)
  PROVE  client'[c] = client[c] /\ blur'[c] = blur[c] /\ UNCHANGED listVars
<1>1. client'[c] = client[c] /\ UNCHANGED listVars
  <2>1. UNCHANGED <<listVars, client>> \/ \E j \in Infos : Send(j)
    BY ClientChanges DEF ClientSteps
  <2>2. ASSUME NEW j \in Infos, Send(j) PROVE client'[c] = client[c] /\ UNCHANGED listVars
    <3>1. j # i
      BY <2>2 DEF Reader
    <3>2. UNCHANGED listVars
      BY <2>2, SendIs
    <3>3. \A k \in DOMAIN acallbacks[j] : acallbacks[j][k] # c
      BY <3>1, ListsAre DEF AcallbackIs
    <3>4. client'[c] = client[c]
      BY <2>2, <3>3, SendIs
    <3> QED BY <3>2, <3>4
  <2> QED
    BY <2>1, <2>2
<1>2. blur'[c] = blur[c]
  <2>1. ASSUME NEW j \in Infos, ReadLine(j) \/ SendExit(j) PROVE blur'[c] = blur[c]
    <3>1. j # i
      BY <2>1 DEF Reader
    <3> QED
      BY <2>1, <3>1, RecordedBlur
  <2> QED
    BY <2>1, HistoryChanges DEF ClientSteps, historyVars, CleanFails, Launch, Reset
<1> QED
  BY <1>1, <1>2

\* A step of the reader of a client's run.
LEMMA ReaderLines ==
  ASSUME Types, WorkerInOrder, \A j \in Infos : ReaderInOrder(j) /\ ListsInOrder(j), [Next]_vars,
         NEW c \in Clients, NEW i \in Infos, client[c].to = i, LinesOf(c, i), Reader(i)
  PROVE  client'[c].to = i /\ LinesOf(c, i)'
<1>1. /\ SendExit(i) => ~ExitRecorded(i) /\ ExitRecorded(i)'
      /\ ~SendExit(i) => ExitRecorded(i)' = ExitRecorded(i)
  BY ExitRecordedStep
<1>2. SendExit(i) => reader[i].pc = "exit"
  BY DEF SendExit
<1>3. CASE ReadLine(i)
  <2>1. ~SendExit(i) /\ client' = client
    BY <1>2, <1>3 DEF ReadLine
  <2> QED
    BY <1>1, <1>3, <2>1, ReadLineLines
<1>4. CASE LoopStart(i)
  <2>1. ~SendExit(i) /\ client' = client
    BY <1>2, <1>4 DEF LoopStart
  <2> QED
    BY <1>1, <1>4, <2>1, LoopStartLines
<1>5. CASE Send(i)
  <2>1. ~SendExit(i)
    BY <1>2, <1>5 DEF Send
  <2>2. CASE /\ reader[i].i \in DOMAIN acallbacks[i] /\ acallbacks[i][reader[i].i] = c
    <3>1. /\ client'[c].pc = client[c].pc /\ client'[c].to = client[c].to
          /\ client'[c].got = Append(client[c].got, reader[i].text)
      BY <1>5, <2>2, SendIs
    <3>2. Once(acallbacks[i]) /\ client[c].pc # "hook"
      BY <2>2, ListsAre DEF AcallbackIs
    <3> QED
      BY <1>1, <1>5, <2>1, <2>2, <3>1, <3>2, SendToLines
  <2>3. CASE reader[i].i \in DOMAIN acallbacks[i] => acallbacks[i][reader[i].i] # c
    <3>1. client'[c] = client[c]
      BY <1>5, <2>3, SendIs
    <3> QED
      BY <1>1, <1>5, <2>1, <2>3, <3>1, SendElsewhereLines
  <2> QED BY <2>2, <2>3
<1>6. CASE LoopEnd(i)
  <2>1. ~SendExit(i) /\ client' = client
    BY <1>2, <1>6 DEF LoopEnd
  <2> QED
    BY <1>1, <1>6, <2>1, LoopEndLines
<1>7. CASE Wrapup(i)
  <2>1. ~SendExit(i) /\ client' = client /\ acallbacks' = acallbacks /\ blur' = blur
    BY <1>2, <1>7 DEF Wrapup, listVars, historyVars
  <2>2. reader[i].pc = "read" /\ reader'[i].pc = "exit" /\ read' = read
    BY <1>7, WrapupIs
  <2>3. ~Handling(i) /\ ~Handling(i)'
    BY <2>2 DEF Handling
  <2> QED
    BY <1>1, <2>1, <2>2, <2>3, LinesKeep
<1>8. CASE SendExit(i)
  <2>1. client' = client
    BY <1>8 DEF SendExit
  <2> QED
    BY <1>1, <1>8, <2>1, SendExitLines
<1>9. CASE ReturnDir(i)
  <2>1. ~SendExit(i) /\ client' = client /\ acallbacks' = acallbacks /\ blur' = blur
    BY <1>2, <1>9 DEF ReturnDir, listVars, historyVars
  <2>2. reader[i].pc = "return" /\ reader'[i].pc = "done" /\ read' = read
    BY <1>9, ReturnDirIs
  <2>3. ~Handling(i) /\ ~Handling(i)'
    BY <2>2 DEF Handling
  <2> QED
    BY <1>1, <2>1, <2>2, <2>3, LinesKeep
<1> QED
  BY <1>3, <1>4, <1>5, <1>6, <1>7, <1>8, <1>9 DEF Reader

LEMMA LinesStep ==
  ASSUME Types, SessionsInOrder, WorkerInOrder, [Next]_vars,
         \A j \in Infos : ReaderInOrder(j) /\ RecentInOrder(j) /\ ListsInOrder(j),
         \A d \in Clients : ClientInOrder(d), NEW c \in Clients, LinesInOrder(c), ClientInOrder(c)'
  PROVE  LinesInOrder(c)'
<1>10. PICK i : i = client[c].to
  OBVIOUS
<1>0. \A j \in Infos : /\ acallbacks[j] \in Seq(Clients) /\ j # NoInfo
                       /\ \A k \in DOMAIN acallbacks[j] : AcallbackIs(acallbacks[j][k], j)
  BY ListsAre, Constants DEF Types, ClientTypes, ListType
<1>1. i = NoInfo \/ i \in Infos
  BY <1>10 DEF Types, ClientTypes, ClientType, ClientRecord
<1>2. crossed \subseteq crossed'
  BY <1>10, CrossedStep
<1>3. c \notin crossed /\ i # NoInfo => LinesOf(c, i)
  BY <1>10, LinesIs
\* Nothing of the client and its run changes that matters here.
<1>4. ASSUME client'[c].to = i, client'[c].got = client[c].got,
             client'[c].pc = "hook" => client[c].pc = "hook", blur'[c] = blur[c],
             i \in Infos => acallbacks'[i] = acallbacks[i],
             reader' = reader /\ read' = read
      PROVE  LinesInOrder(c)'
  <2>1. ExitRecorded(i)' = ExitRecorded(i)
    BY <1>10, <1>4 DEF ExitRecorded, Handling
  <2>2. c \notin crossed' /\ i # NoInfo => LinesOf(c, i)'
    BY <1>10, <1>1, <1>2, <1>3, <1>4, <2>1, LinesKeep
  <2> QED
    BY <1>10, <1>4, <2>2, LinesIsNext
<1>5. CASE ~ClientSteps
  <2>1. CASE i = NoInfo
    <3>1. client'[c].to = NoInfo
      <4>1. CASE UNCHANGED <<listVars, client>>
        BY <1>10, <2>1, <4>1
      <4>2. ASSUME NEW j \in Infos, Send(j) PROVE client'[c].to = NoInfo
        BY <1>10, <2>1, <4>2, SendIs
      <4> QED
        BY <1>10, <1>5, <4>1, <4>2, ClientChanges DEF ClientSteps
    <3> QED
      BY <1>10, <3>1, LinesIsNext
  <2>2. CASE i \in Infos /\ Reader(i)
    <3>1. client'[c].to = i
      <4>1. CASE UNCHANGED <<listVars, client>>
        BY <1>10, <4>1
      <4>2. ASSUME NEW j \in Infos, Send(j) PROVE client'[c].to = i
        BY <1>10, <4>2, SendIs
      <4> QED
        BY <1>10, <1>5, <4>1, <4>2, ClientChanges DEF ClientSteps
    <3>2. c \notin crossed' /\ i # NoInfo => LinesOf(c, i)'
      BY <1>10, <1>2, <1>3, <2>2, ReaderLines
    <3> QED
      BY <1>10, <3>1, <3>2, LinesIsNext
  <2>3. CASE i \in Infos /\ ~Reader(i)
    <3>1. client'[c] = client[c] /\ blur'[c] = blur[c] /\ UNCHANGED listVars
      BY <1>10, <1>5, <2>3, OthersKeep
    <3>2. ExitRecorded(i)' = ExitRecorded(i)
      BY <1>10, <2>3, ExitRecordedStep DEF Reader
    <3>3. /\ read'[i] = read[i]
          /\ \/ reader'[i] = reader[i]
             \/ /\ ~Handling(i) /\ ~Handling(i)'
                /\ reader'[i].pc \notin {"return", "done"}
      <4>1. CASE SameReader(i)
        BY <1>10, <4>1 DEF SameReader
      <4>2. CASE Launch /\ i = Current(worker.run)
        BY <1>10, <4>2, LaunchIs DEF Handling
      <4> QED
        BY <1>10, <2>3, <4>1, <4>2, ReaderSame
    <3>4. c \notin crossed' /\ i # NoInfo => LinesOf(c, i)'
      BY <1>10, <1>2, <1>3, <3>1, <3>2, <3>3, LinesKeep DEF listVars
    <3> QED
      BY <1>10, <3>1, <3>4, LinesIsNext
  <2> QED
    BY <1>10, <1>1, <2>1, <2>2, <2>3
<1>6. ASSUME NEW d \in Clients, NEW r \in load.runs, Attach(d, r) PROVE LinesInOrder(c)'
  <2>1. PICK j \in Infos :
          /\ UNCHANGED listVars
          /\ client[d].pc = "out" /\ client'[d].pc = "snapshot" /\ client'[d].to = j
          /\ client'[d].got = client[d].got
          /\ \A e \in Clients : e # d => client'[e] = client[e]
    BY <1>10, <1>6, AttachIs
  <2>2. CASE c # d
    BY <1>10, <1>4, <1>6, <2>1, <2>2 DEF Attach, readerVars, historyVars, listVars
  <2>3. CASE c = d
    <3>1. client[c].got = <<>> /\ client[c].to = NoInfo
      BY <1>10, <2>1, <2>3 DEF ClientInOrder
    <3>2. ~Listed(c, j)'
      BY <1>10, <1>0, <2>1, <3>1 DEF Listed, AcallbackIs, listVars
    <3>3. LinesOf(c, j)'
      BY <1>10, <2>1, <2>3, <3>1, <3>2, AttachLines
    <3> QED
      BY <1>10, <2>1, <2>3, <3>3, LinesIsNext
  <2> QED BY <2>2, <2>3
<1>7. ASSUME NEW d \in Clients, Snapshot(d) PROVE LinesInOrder(c)'
  <2>1. PICK j \in Infos :
          /\ j = client[d].to /\ client[d].pc = "snapshot"
          /\ client'[d].pc = "hook" /\ client'[d].to = j /\ client'[d].got = recent[j]
          /\ \A e \in Clients : e # d => client'[e] = client[e]
          /\ UNCHANGED acallbacks
    BY <1>10, <1>7, SnapshotIs
  <2>2. CASE c # d
    <3>1. blur'[c] = blur[c] /\ reader' = reader /\ read' = read
      BY <1>10, <1>7, <2>2 DEF Snapshot, readerVars
    <3> QED
      BY <1>10, <1>4, <2>1, <2>2, <3>1
  <2>3. CASE c = d
    <3>1. ~Listed(c, j)
      BY <1>10, <1>0, <2>1, <2>3 DEF Listed, AcallbackIs
    <3>2. LinesOf(c, j)'
      BY <1>10, <1>7, <2>1, <2>3, <3>1, SnapshotLines
    <3> QED
      BY <1>10, <2>1, <2>3, <3>2, LinesIsNext
  <2> QED BY <2>2, <2>3
<1>8. ASSUME NEW d \in Clients, Hook(d) PROVE LinesInOrder(c)'
  <2>1. PICK j \in Infos :
          /\ j = client[d].to /\ client[d].pc = "hook"
          /\ client'[d].pc = "attached" /\ client'[d].to = j
          /\ client'[d].got = client[d].got
          /\ \A e \in Clients : e # d => client'[e] = client[e]
          /\ acallbacks' = [acallbacks EXCEPT ![j] = Append(acallbacks[j], d)]
    BY <1>10, <1>8, HookIs
  <2>2. UNCHANGED <<readerVars, blur>> /\ reader' = reader /\ read' = read
    BY <1>10, <1>8 DEF Hook, readerVars, historyVars
  <2>3. acallbacks \in [Infos -> Seq(Clients)]
    BY DEF Types, ClientTypes, ListType
  <2>4. CASE i # j
    <3>1. c # d /\ (i \in Infos => acallbacks'[i] = acallbacks[i])
      BY <1>10, <2>1, <2>3, <2>4
    <3> QED
      BY <1>10, <1>4, <2>1, <2>2, <3>1
  <2>5. CASE i = j
    <3>1. acallbacks'[j] = Append(acallbacks[j], d)
      BY <1>10, <2>1, <2>3
    <3>2. c = d => ~Listed(c, j)
      BY <1>10, <1>0, <2>1 DEF Listed, AcallbackIs
    <3>3. client'[c].got = client[c].got /\ client'[c].to = j
      BY <1>10, <2>1, <2>5
    <3>4. c \notin crossed' /\ j # NoInfo => LinesOf(c, j)'
      BY <1>10, <1>2, <1>3, <2>1, <2>2, <2>5, <3>1, <3>2, <3>3, HookLines
    <3> QED
      BY <1>10, <3>3, <3>4, LinesIsNext
  <2> QED BY <2>4, <2>5
<1>9. ASSUME NEW d \in Clients, Detach(d) PROVE LinesInOrder(c)'
  <2>1. PICK j \in Infos :
          /\ j = client[d].to /\ client[d].pc = "attached"
          /\ client'[d].pc = "left" /\ client'[d].to = j
          /\ client'[d].got = client[d].got
          /\ \A e \in Clients : e # d => client'[e] = client[e]
          /\ \/ /\ j[2] = session
                /\ \E k \in DOMAIN callbacks[j] :
                     acallbacks' = [acallbacks EXCEPT ![j] = Without(acallbacks[j], k)]
             \/ j[2] # session /\ UNCHANGED listVars
    BY <1>10, <1>9, DetachIs
  <2>2. UNCHANGED readerVars /\ reader' = reader /\ read' = read /\ session' = session
    BY <1>10, <1>9 DEF Detach, readerVars, controllerVars
  <2>3. client'[c].got = client[c].got /\ client'[c].to = i
        /\ (client'[c].pc = "hook" => client[c].pc = "hook")
    BY <1>10, <2>1
  <2>4. blur'[c] = IF j[2] = session /\ reader[j].pc = "send" /\ i = j
                   THEN blur[c] \cup {reader[j].text} ELSE blur[c]
    BY <1>10, <1>9, <2>1 DEF Detach
  <2>5. acallbacks \in [Infos -> Seq(Clients)]
    BY DEF Types, ClientTypes, ListType
  <2>6. CASE i # j \/ j[2] # session
    <3>1. i \in Infos => acallbacks'[i] = acallbacks[i]
      BY <1>10, <2>1, <2>5, <2>6 DEF listVars
    <3>2. blur'[c] = blur[c]
      BY <1>10, <2>4, <2>6
    <3> QED
      BY <1>10, <1>4, <2>2, <2>3, <3>1, <3>2
  <2>7. CASE i = j /\ j[2] = session
    <3>1. PICK k : acallbacks'[j] = Without(acallbacks[j], k)
      BY <1>10, <2>1, <2>5, <2>7
    <3>2. Listed(c, j)' => Listed(c, j)
      <4>1. CASE k \in DOMAIN acallbacks[j]
        <5>1. Once(acallbacks[j])
          BY ListsAre
        <5>2. \A n \in DOMAIN Without(acallbacks[j], k) :
                \E l \in DOMAIN acallbacks[j] : Without(acallbacks[j], k)[n] = acallbacks[j][l]
          BY <1>10, <1>0, <4>1, <5>1, OnceWithout
        <5> QED
          BY <1>10, <3>1, <5>2 DEF Listed
      <4>2. CASE k \notin DOMAIN acallbacks[j]
        BY <1>10, <3>1, <4>2 DEF Without, Listed
      <4> QED BY <4>1, <4>2
    <3>3. c \notin crossed' /\ j # NoInfo => LinesOf(c, j)'
      BY <1>10, <1>2, <1>3, <2>2, <2>3, <2>4, <2>7, <3>2, DetachLines
    <3> QED
      BY <1>10, <2>3, <2>7, <3>3, LinesIsNext
  <2> QED BY <2>6, <2>7
<1> QED
  BY <1>10, <1>5, <1>6, <1>7, <1>8, <1>9 DEF ClientSteps


-----------------------------------------------------------------------------
(***************************************************************************)
(* The theorems                                                            *)
(***************************************************************************)
LEMMA InitInv == Init => IInv
<1> SUFFICES ASSUME Init PROVE IInv
  OBVIOUS
<1> USE DEF Init
<1>1. load \in [runs : SUBSET Runs, clients : SUBSET Clients, lines : Nat, restarts : 0..MaxRestarts,
                faults : Nat]
  BY OutputAssumption
<1>2. 1 \in Sessions /\ MaxRestarts \in Nat
  BY Constants DEF Sessions
<1>3. TypeOK
  <2>1. ControllerTypes
    <3>1. rundirs \in Seq({Free} \cup Runs) /\ DOMAIN rundirs = {}
      OBVIOUS
    <3> QED
      BY <1>1, <1>2, <3>1 DEF ControllerTypes, LoadType, SessionType, WorkerType, WorkerRecord,
                              WorkerSteps, TableType
  <2>2. RunTypes
    BY DEF RunTypes, RunType, RunRecord, PrintedType, DirType
  <2>3. ReaderTypes
    BY DEF ReaderTypes, ReaderType, ReaderRecord, ReaderSteps, ReadType, RecentType, ConsoleType
  <2>4. ClientTypes
    BY DEF ClientTypes, ListType, ClientType, ClientRecord
  <2>5. HistoryTypes
    BY DEF HistoryTypes, LeakedType, BlurType
  <2> QED
    BY <2>1, <2>2, <2>3, <2>4, <2>5, TypesAre DEF Types
<1>4. SessionsInOrder
  BY <1>1, <1>2 DEF SessionsInOrder
<1>5. DirsAreFew
  <2>1. Len(rundirs) = 0 /\ ToCome = 0
    BY DEF ToCome
  <2> QED
    BY <2>1, TakenFinite DEF DirsAreFew
<1>6. WorkerInOrder
  BY DEF WorkerInOrder, Holding
<1>7. MarkedDirsAreUsed
  BY DEF MarkedDirsAreUsed
<1>8. ASSUME NEW i \in Infos
      PROVE  ReaderInOrder(i) /\ DirInOrder(i) /\ RecentInOrder(i) /\ ListsInOrder(i)
  <2>1. /\ reader[i] = [pc |-> "none", text |-> 0, i |-> 0, n |-> 0]
        /\ run[i].status = "queued" /\ run[i].process = "none" /\ ~run[i].killing
        /\ printed[i] = 0 /\ read[i] = 0 /\ dir[i] = 0 /\ recent[i] = <<>>
        /\ callbacks[i] = <<>> /\ acallbacks[i] = <<>>
    OBVIOUS
  <2>2. ~Live(i) /\ ~Handling(i) /\ ~ExitRecorded(i)
    BY <2>1 DEF Live, Handling, ExitRecorded
  <2>3. ReaderInOrder(i) /\ DirInOrder(i)
    BY <2>1, <2>2 DEF ReaderInOrder, DirInOrder
  <2>4. RecentInOrder(i)
    BY <2>1, <2>2 DEF RecentInOrder
  <2>5. ListsInOrder(i)
    BY <2>1 DEF ListsInOrder, Once
  <2> QED
    BY <2>3, <2>4, <2>5
<1>9. ASSUME NEW c \in Clients PROVE ClientInOrder(c) /\ LinesInOrder(c)
  <2>1. client[c].pc = "out" /\ client[c].to = NoInfo /\ client[c].got = <<>>
    OBVIOUS
  <2> QED
    BY <2>1 DEF ClientInOrder, LinesInOrder
<1> QED
  BY <1>3, <1>4, <1>5, <1>6, <1>7, <1>8, <1>9 DEF IInv

LEMMA NextInv == IInv /\ [Next]_vars => IInv'
<1> SUFFICES ASSUME IInv, [Next]_vars PROVE IInv'
  OBVIOUS
<1>1. /\ Types /\ SessionsInOrder /\ DirsAreFew /\ WorkerInOrder /\ MarkedDirsAreUsed
      /\ \A i \in Infos : ReaderInOrder(i) /\ DirInOrder(i) /\ RecentInOrder(i) /\ ListsInOrder(i)
      /\ \A c \in Clients : ClientInOrder(c) /\ LinesInOrder(c)
  BY TypesAre DEF IInv
<1>2. TypeOK'
  <2>1. Types'
    BY <1>1, TypesStep
  <2> QED
    BY <2>1, TypesAre, PTL
<1>3. SessionsInOrder'
  BY <1>1, SessionsStep
<1>4. DirsAreFew'
  BY <1>1, <1>3, DirsAreFewStep
<1>5. WorkerInOrder'
  BY <1>1, WorkerStep
<1>6. MarkedDirsAreUsed'
  BY <1>1, MarkedStep
<1>7. \A i \in Infos : (ReaderInOrder(i) /\ DirInOrder(i) /\ RecentInOrder(i) /\ ListsInOrder(i))'
  <2> TAKE i \in Infos
  <2>1. ReaderInOrder(i)'
    BY <1>1, ReaderStep
  <2>2. DirInOrder(i)'
    BY <1>1, DirStep
  <2>3. RecentInOrder(i)'
    BY <1>1, RecentStep
  <2>4. ListsInOrder(i)'
    BY <1>1, ListsStep
  <2> QED
    BY <2>1, <2>2, <2>3, <2>4
<1>8. \A c \in Clients : (ClientInOrder(c) /\ LinesInOrder(c))'
  <2> TAKE c \in Clients
  <2>1. ClientInOrder(c)'
    BY <1>1, ClientStep
  <2>2. LinesInOrder(c)'
    BY <1>1, <2>1, LinesStep
  <2> QED
    BY <2>1, <2>2
<1> QED
  BY <1>2, <1>3, <1>4, <1>5, <1>6, <1>7, <1>8 DEF IInv

LEMMA InductiveInvariant == Spec => []IInv
BY InitInv, NextInv, PTL DEF Spec

\* Of every behaviour, the variables have their types: the directories a
\* controller names are never more than two for each of its runs.
THEOREM TypeCorrect == Spec => []TypeOK
<1>1. IInv => TypeOK
  BY DEF IInv
<1> QED
  BY <1>1, InductiveInvariant, PTL

\* No two runs of a node use one directory, none is cleaned under a run, and
\* none is kept for a run that is over, however many runs, restarts and
\* directories that cannot be cleaned.
THEOREM DirsStayInOrder == Spec => []DirsInOrder
<1>1. IInv => OneRunPerDir
  <2> SUFFICES ASSUME IInv, ~late
               PROVE  /\ \A i, j \in Infos : Live(i) /\ Live(j) /\ i # j => dir[i] # dir[j]
                      /\ \A i \in Infos : Live(i) => dir[i] \notin {worker.dir, worker.clean}
    BY DEF OneRunPerDir
  <2>1. Types /\ WorkerInOrder /\ \A i \in Infos : DirInOrder(i)
    BY TypesAre DEF IInv
  <2>2. ASSUME NEW i \in Infos, NEW j \in Infos, Live(i), Live(j), dir[i] = dir[j]
        PROVE  i = j
    <3>1. i[2] = j[2] /\ i[1] = j[1]
      BY <2>1, <2>2 DEF DirInOrder
    <3> QED
      BY <3>1, Constants
  <2>3. ASSUME NEW i \in Infos, Live(i), NEW d, d \in {worker.dir, worker.clean}
        PROVE  dir[i] # d
    BY <2>1, <2>3, UserIsNotWorker
  <2> QED
    BY <2>2, <2>3
<1>2. IInv => DirsInOrder
  BY <1>1 DEF IInv, DirsInOrder
<1> QED
  BY <1>2, InductiveInvariant, PTL

\* The console file of a run that is over holds what it printed and nothing
\* else, and a client whose attach did not overlap with another's gets the
\* lines in order, each once, from the first it gets on.
THEOREM OutputStaysComplete == Spec => []OutputIsComplete
<1>1. IInv => ConsoleIsComplete
  <2> SUFFICES ASSUME IInv, ~late, NEW i \in Infos, reader[i].pc = "return"
               PROVE  /\ console[dir[i]] = Append([k \in 1..read[i] |-> <<i, k>>], <<i, Exit>>)
                      /\ ~run[i].killing => read[i] = printed[i]
    BY DEF ConsoleIsComplete
  <2>1. ReaderInOrder(i) /\ DirInOrder(i)
    BY DEF IInv
  <2>2. Live(i) /\ ExitRecorded(i)
    BY DEF Live, ExitRecorded
  <2>3. console[dir[i]] = Recorded(i)
    BY <2>1, <2>2 DEF DirInOrder
  <2> QED
    BY <2>1, <2>2, <2>3 DEF Recorded, Lines, ReaderInOrder
<1>2. IInv => LinesComeOnce
  <2> SUFFICES ASSUME IInv, NEW c \in Clients, c \notin crossed
               PROVE  LET got == client[c].got
                          clear == {j \in DOMAIN got : got[j] \notin blur[c]}
                          seen == IF got = <<>> \/ got[1] = Exit THEN {}
                                  ELSE got[1]..read[client[c].to]
                      IN  /\ \A j, k \in clear : j < k =>
                               (got[j] < got[k] \/ got[k] = Exit) /\ got[j] # Exit
                          /\ (client[c].pc = "attached" /\ reader[client[c].to].pc \in {"read", "exit"})
                               => seen \ blur[c] \subseteq Range(got)
    BY DEF LinesComeOnce
  <2>1. ClientInOrder(c) /\ LinesInOrder(c) /\ Types
    BY TypesAre DEF IInv
  <2>2. PICK i : i = client[c].to
    OBVIOUS
  <2>3. i = NoInfo \/ i \in Infos
    BY <2>1, <2>2 DEF Types, ClientTypes, ClientType, ClientRecord
  <2>4. CASE i = NoInfo
    <3>1. client[c].pc = "out" /\ client[c].got = <<>>
      BY <2>1, <2>2, <2>4 DEF ClientInOrder
    <3> QED
      BY <3>1
  <2>5. CASE i \in Infos
    <3>1. LinesOf(c, i)
      BY <2>1, <2>2, <2>5, LinesIs, Constants
    <3>2. PICK got \in Seq(Nat), n \in Nat : got = client[c].got /\ n = read[i]
      BY <2>1, <2>5, LinesTypes
    <3>3. OrderOfLines(c)
      BY <3>1 DEF LinesOf
    <3>4. ASSUME client[c].pc = "attached", reader[i].pc \in {"read", "exit"}, got # <<>>, got[1] # Exit,
                 NEW t \in got[1]..n, t \notin blur[c]
          PROVE  t \in Range(got)
      <4>1. AtOnePlace(c, i)
        BY <2>1, <2>2, <3>4 DEF ClientInOrder
      <4>2. Listed(c, i)
        <5>1. PICK k \in DOMAIN callbacks[i] \cap DOMAIN acallbacks[i] :
                callbacks[i][k] = c /\ \A j \in 1..k : acallbacks[i][j] = callbacks[i][j]
          BY <4>1 DEF AtOnePlace
        <5>2. k \in 1..k
          BY <2>1, <2>5, <5>1, LinesTypes
        <5> QED
          BY <5>1, <5>2 DEF Listed
      <4>3. ~Pending(c, i)
        BY <3>4 DEF Pending, Handling
      <4>4. t \in 1..n /\ got[1] <= t
        <5>1. 1 \in DOMAIN got /\ got[1] \in Nat
          BY <3>2, <3>4
        <5> QED
          BY <3>2, <3>4, <5>1 DEF Exit
      <4>5. \E j \in DOMAIN got : got[j] = t
        BY <3>1, <3>2, <3>4, <4>2, <4>3, <4>4 DEF LinesOf, GotAllLines
      <4> QED
        BY <4>5 DEF Range
    <3> QED
      BY <2>2, <3>2, <3>3, <3>4 DEF OrderOfLines
  <2> QED
    BY <2>3, <2>4, <2>5
<1>3. IInv => OutputIsComplete
  BY <1>1, <1>2 DEF OutputIsComplete
<1> QED
  BY <1>3, InductiveInvariant, PTL

\* A step of detach takes only the callback of its own client, and a client
\* that has left is sent nothing, but for clients whose attaches overlapped.
THEOREM DetachTakesItsOwn == Spec => DetachIsOwn
<1>1. ASSUME IInv, [Next]_vars, NEW c \in Clients \ crossed, NEW i \in Infos
      PROVE  /\ (client[c].pc = "attached" /\ client'[c].pc = "attached")
                  => (c \in Range(acallbacks[i]) => c \in Range(acallbacks[i])')
             /\ (client[c].pc = "left" /\ client[c].to[2] = session) => client'[c].got = client[c].got
  <2>1. /\ Types /\ \A d \in Clients : ClientInOrder(d)
        /\ \A j \in Infos : Once(acallbacks[j])
                            /\ \A k \in DOMAIN acallbacks[j] : AcallbackIs(acallbacks[j][k], j)
    BY <1>1, TypesAre, ListsAre DEF IInv
  <2>2. /\ callbacks \in [Infos -> Seq(Clients)] /\ acallbacks \in [Infos -> Seq(Clients)]
    BY <2>1 DEF Types, ClientTypes, ListType
  <2>3. c \in Range(acallbacks[i]) <=> Listed(c, i)
    BY DEF Range, Listed
  <2>4. (c \in Range(acallbacks[i]))' <=> Listed(c, i)'
    BY DEF Range, Listed
  <2>5. ASSUME client[c].pc = "attached", client'[c].pc = "attached", Listed(c, i) PROVE Listed(c, i)'
    <3>1. CASE UNCHANGED acallbacks
      BY <2>5, <3>1 DEF Listed
    <3>2. ASSUME NEW d \in Clients, Hook(d) PROVE Listed(c, i)'
      <4>1. PICK j \in Infos : acallbacks' = [acallbacks EXCEPT ![j] = Append(acallbacks[j], d)]
        BY <2>1, <3>2, HookIs
      <4>2. PICK s \in Seq(Clients) : s = acallbacks[i]
        BY <2>2
      <4>3. \A k \in DOMAIN s : k \in DOMAIN Append(s, d) /\ Append(s, d)[k] = s[k]
        OBVIOUS
      <4>4. acallbacks'[i] = s \/ acallbacks'[i] = Append(s, d)
        BY <2>2, <4>1, <4>2
      <4> QED
        BY <2>5, <4>2, <4>3, <4>4 DEF Listed
    <3>3. ASSUME NEW d \in Clients, Detach(d) PROVE Listed(c, i)'
      <4>1. PICK j \in Infos :
              /\ client'[d].pc = "left"
              /\ \/ \E k \in DOMAIN callbacks[j] :
                      /\ callbacks[j][k] = d
                      /\ acallbacks' = [acallbacks EXCEPT ![j] = Without(acallbacks[j], k)]
                 \/ UNCHANGED acallbacks
        BY <2>1, <3>3, DetachIs DEF listVars
      <4>2. c # d
        BY <2>5, <4>1
      <4>3. CASE i # j
        BY <2>2, <2>5, <4>1, <4>3 DEF Listed
      <4>4. ASSUME i = j, NEW k \in DOMAIN callbacks[i], callbacks[i][k] = d,
                   acallbacks' = [acallbacks EXCEPT ![i] = Without(acallbacks[i], k)]
            PROVE  Listed(c, i)'
        <5>1. PICK s \in Seq(Clients), t \in Seq(Clients) : s = callbacks[i] /\ t = acallbacks[i]
          BY <2>2
        <5>2. client[c].to = i
          BY <2>1, <2>5 DEF Listed, AcallbackIs
        <5>3. Level(s, t, c)
          <6>1. AtOnePlace(c, i)
            BY <2>1, <2>5, <5>2 DEF ClientInOrder
          <6> QED
            BY <5>1, <6>1 DEF AtOnePlace, Level
        <5>4. k \in DOMAIN s /\ s[k] # c
          BY <4>2, <4>4, <5>1
        <5>5. Level(Without(s, k), Without(t, k), c)
          BY <5>3, <5>4, LevelWithout
        <5>6. acallbacks'[i] = Without(t, k) /\ Without(s, k) \in Seq(Clients)
          BY <2>2, <4>4, <5>1, WithoutType
        <5>7. \A p \in DOMAIN Without(s, k) : p \in 1..p
          BY <5>6
        <5> QED
          BY <5>5, <5>6, <5>7 DEF Level, Listed
      <4> QED
        BY <3>1, <4>1, <4>3, <4>4
    <3>4. \/ UNCHANGED acallbacks \/ \E d \in Clients : Hook(d) \/ Detach(d)
      BY <1>1, ClientChanges DEF listVars, Send, Snapshot, Attach
    <3> QED
      BY <3>1, <3>2, <3>3, <3>4
  <2>6. ASSUME client[c].pc = "left", client[c].to[2] = session PROVE client'[c].got = client[c].got
    <3>1. CASE UNCHANGED client
      BY <3>1
    <3>2. ASSUME NEW j \in Infos, Send(j) PROVE client'[c].got = client[c].got
      <4>1. \A k \in DOMAIN acallbacks[j] : acallbacks[j][k] # c
        <5>1. SUFFICES ASSUME NEW k \in DOMAIN acallbacks[j], acallbacks[j][k] = c PROVE FALSE
          OBVIOUS
        <5>2. client[c].to = j /\ Listed(c, j)
          BY <2>1, <5>1 DEF AcallbackIs, Listed
        <5> QED
          BY <2>1, <2>6, <5>2 DEF ClientInOrder
      <4> QED
        BY <2>1, <3>2, <4>1, SendIs
    <3>3. ASSUME NEW d \in Clients, Snapshot(d) PROVE client'[c].got = client[c].got
      BY <2>1, <2>6, <3>3, SnapshotIs
    <3>4. ASSUME NEW d \in Clients, Hook(d) PROVE client'[c].got = client[c].got
      BY <2>1, <3>4, HookIs
    <3>5. ASSUME NEW d \in Clients, Detach(d) PROVE client'[c].got = client[c].got
      BY <2>1, <3>5, DetachIs
    <3>6. ASSUME NEW d \in Clients, NEW r \in load.runs, Attach(d, r)
          PROVE  client'[c].got = client[c].got
      BY <2>1, <3>6, AttachIs
    <3> QED
      BY <1>1, <3>1, <3>2, <3>3, <3>4, <3>5, <3>6, ClientChanges
  <2> QED
    BY <2>3, <2>4, <2>5, <2>6
<1>2. IInv /\ [Next]_vars =>
        [\A c \in Clients \ crossed, i \in Infos :
           /\ (client[c].pc = "attached" /\ client'[c].pc = "attached")
                => (c \in Range(acallbacks[i]) => c \in Range(acallbacks[i])')
           /\ (client[c].pc = "left" /\ client[c].to[2] = session)
                => client'[c].got = client[c].got]_vars
  BY <1>1
<1> QED
  BY <1>2, InductiveInvariant, PTL DEF Spec, DetachIsOwn

=============================================================================
