----------------------------- MODULE PsmProofs -----------------------------
(***************************************************************************)
(* Proofs about Psm, for any set of entries, submitted on the box or over  *)
(* SSH, whatever their clients' clocks and versions of psm.py say.         *)
(***************************************************************************)
EXTENDS Psm, FiniteSetTheorems, TLAPS

-----------------------------------------------------------------------------
(***************************************************************************)
(* Types.  TypeOK names the fields the program reads; a proof also needs   *)
(* the records they are fields of, and that the entry a monitor or cancel  *)
(* command is about was submitted before.                                  *)
(***************************************************************************)
ServerPCs == {"down", "starting", "list", "count", "zap", "copy", "remove",
              "unzip", "write", "spawn"}

UserPCs == {"idle", "read", "status", "current", "processes", "exists", "unqueue",
            "isCurrent", "kill"}

Records ==
  /\ server \in [Entries -> [pc : ServerPCs, entry : Entries \cup {NoEntry}]]
  /\ cwd \in [psm : Nat, zip : [entry : Entries \cup {NoEntry}, whole : BOOLEAN],
              current : Entries \cup {NoEntry}]
  /\ user \in [op : {"none", "monitor", "cancel"}, pc : UserPCs,
               entry : Entries \cup {NoEntry}]
  /\ user.pc # "idle" => user.entry \in Entries /\ client[user.entry] = "done"

Typed == TypeOK /\ Records

\* A server that goes on, and one that ends or is started.
LEMMA ServerGoesOn ==
  ASSUME Records, NEW s \in Entries, NEW pc \in ServerPCs, Goto(s, pc)
  PROVE  /\ server' \in [Entries -> [pc : ServerPCs, entry : Entries \cup {NoEntry}]]
         /\ server'[s].pc = pc /\ server'[s].entry = server[s].entry
         /\ \A t \in Entries : t # s => server'[t] = server[t]
BY DEF Records, Goto

LEMMA ServerReplaced ==
  ASSUME Records, NEW s \in Entries,
         NEW v \in [pc : ServerPCs, entry : Entries \cup {NoEntry}],
         server' = [server EXCEPT ![s] = v]
  PROVE  /\ server' \in [Entries -> [pc : ServerPCs, entry : Entries \cup {NoEntry}]]
         /\ server'[s] = v
         /\ \A t \in Entries : t # s => server'[t] = server[t]
BY DEF Records

LEMMA DownIsAServer ==
  /\ Down \in [pc : ServerPCs, entry : Entries \cup {NoEntry}]
  /\ Down.pc = "down" /\ Down.entry = NoEntry
  /\ [Down EXCEPT !.pc = "starting"] \in [pc : ServerPCs, entry : Entries \cup {NoEntry}]
  /\ [Down EXCEPT !.pc = "starting"].pc = "starting"
  /\ [Down EXCEPT !.pc = "starting"].entry = NoEntry
BY DEF Down, ServerPCs

\* What a server's entry may be at each point of its loop.
ServersHoldEntries ==
  \A s \in Entries :
    /\ server[s].pc \in {"down", "starting"} => server[s].entry = NoEntry
    /\ server[s].pc \in ServerPCs \ {"down", "starting", "list"} => server[s].entry \in Entries

EntryTypes ==
  /\ file \in [Entries -> {"none", "partial", "zip"}]
  /\ client \in [Entries -> {"idle", "kill", "start", "await", "put", "putting", "done",
                             "failed"}]
  /\ job \in [Entries -> {"none", "setup", "controller", "closing", "ended"}]
  /\ unread \in [Entries -> BOOLEAN]

SetTypes ==
  /\ told \subseteq Entries /\ cancelled \subseteq Entries /\ lost \subseteq Entries
  /\ remotePsm \in Nat /\ ops \in 0..MaxOps

LEMMA TypedParts ==
  Typed <=> EntryTypes /\ SetTypes /\ died \in BOOLEAN /\ ServersHoldEntries /\ Records
<1>1. Records =>
        ((\A s \in Entries :
            \/ server[s].pc \in {"down", "starting"} /\ server[s].entry = NoEntry
            \/ /\ server[s].pc \in {"list", "count", "zap", "copy", "remove",
                                    "unzip", "write", "spawn"}
               /\ server[s].entry \in Entries \cup {NoEntry}
               /\ server[s].pc # "list" => server[s].entry \in Entries)
         <=> ServersHoldEntries)
  BY DEF Records, ServersHoldEntries, ServerPCs
<1>2. Records => /\ cwd.psm \in Nat
                 /\ cwd.zip \in [entry : Entries \cup {NoEntry}, whole : BOOLEAN]
                 /\ cwd.current \in Entries \cup {NoEntry}
                 /\ user.pc \in {"idle", "read", "status", "current", "processes",
                                 "exists", "unqueue", "isCurrent", "kill"}
  BY DEF Records, UserPCs
<1> QED BY <1>1, <1>2 DEF Typed, TypeOK, EntryTypes, SetTypes

LEMMA TypedInit == Init => Typed
<1> SUFFICES ASSUME Init PROVE Typed
    OBVIOUS
<1>1. Records
  <2>1. server \in [Entries -> [pc : ServerPCs, entry : Entries \cup {NoEntry}]]
    BY DownIsAServer DEF Init
  <2>2. cwd \in [psm : Nat, zip : [entry : Entries \cup {NoEntry}, whole : BOOLEAN],
                 current : Entries \cup {NoEntry}]
    BY DEF Init, EmptyCwd, NoZip
  <2>3. user \in [op : {"none", "monitor", "cancel"}, pc : UserPCs,
                  entry : Entries \cup {NoEntry}]
        /\ user.pc = "idle"
    BY DEF Init, NoUser, UserPCs
  <2> QED BY <2>1, <2>2, <2>3 DEF Records
<1>2. ServersHoldEntries
  BY DownIsAServer DEF Init, ServersHoldEntries, ServerPCs
<1>3. EntryTypes
  BY DEF Init, EntryTypes
<1>4. died \in BOOLEAN
  BY Zenon DEF Init
<1>5. SetTypes
  BY BoundsAreNaturals DEF Init, SetTypes
<1> QED BY <1>1, <1>2, <1>3, <1>4, <1>5, TypedParts

LEMMA EntryTypesStep == Typed /\ [Next]_vars => EntryTypes'
<1> SUFFICES ASSUME EntryTypes, SetTypes, Records, ServersHoldEntries, [Next]_vars
             PROVE  EntryTypes'
  BY TypedParts
<1> USE DEF EntryTypes
<1>1. ASSUME NEW e \in Entries, ClientCheck(e) \/ Client(e) PROVE EntryTypes'
  <2>1. CASE ClientCheck(e)
    BY <2>1 DEF ClientCheck
  <2>2. CASE ClientKill(e)
    BY <2>2 DEF ClientKill
  <2>3. CASE ClientStart(e)
    BY <2>3 DEF ClientStart
  <2>4. CASE ClientAwait(e)
    BY <2>4 DEF ClientAwait
  <2>5. CASE ClientPut(e)
    BY <2>5 DEF ClientPut
  <2>6. CASE ClientPutDone(e)
    BY <2>6 DEF ClientPutDone
  <2> QED BY <1>1, <2>1, <2>2, <2>3, <2>4, <2>5, <2>6 DEF Client
<1>2. ASSUME NEW s \in Entries, Server(s) PROVE EntryTypes'
  <2>1. CASE ServerRemove(s)
    BY <2>1 DEF ServerRemove
  <2>2. CASE ServerSpawn(s)
    BY <2>2 DEF ServerSpawn
  <2>3. CASE UNCHANGED <<file, client, job, unread>>
    BY <2>3
  <2> QED
    BY <1>2, <2>1, <2>2, <2>3
       DEF Server, ServerUp, ServerList, ServerCount, ServerZap, ServerCopy, ServerUnzip,
           ServerWrite, command
<1>3. ASSUME NEW e \in Entries, JobStep(e) PROVE EntryTypes'
  BY <1>3 DEF JobStep
<1>4. ASSUME NEW e \in Entries, JobOutput(e) PROVE EntryTypes'
  BY <1>4 DEF JobOutput
<1>5. CASE MonitorRead
  BY <1>5 DEF MonitorRead
<1>6. CASE CancelUnqueue
  BY <1>6 DEF CancelUnqueue
<1>7. CASE CancelKill
  BY <1>7 DEF CancelKill
<1>8. CASE UNCHANGED <<file, client, job, unread>>
  BY <1>8
<1> QED
  BY <1>1, <1>2, <1>3, <1>4, <1>5, <1>6, <1>7, <1>8
     DEF Next, User, UserStart, StatusQueue, StatusCurrent, StatusProcesses, CancelExists,
         CancelCurrent, rest, vars

LEMMA SetTypesStep == Typed /\ [Next]_vars => SetTypes' /\ died' \in BOOLEAN
<1> SUFFICES ASSUME EntryTypes, SetTypes, died \in BOOLEAN, Records, ServersHoldEntries,
                    [Next]_vars
             PROVE  SetTypes' /\ died' \in BOOLEAN
  BY TypedParts
<1>1. died' \in BOOLEAN
  <2>1. died' = died \/ died' = TRUE
    BY Zenon
       DEF Next, Client, ClientCheck, ClientKill, ClientStart, ClientAwait, ClientPut,
           ClientPutDone, Server, ServerUp, ServerList, ServerCount, ServerZap, ServerCopy,
           ServerRemove, ServerUnzip, ServerWrite, ServerSpawn, Dies, JobStep, JobOutput,
           User, UserStart, MonitorRead, StatusQueue, StatusCurrent, StatusProcesses,
           CancelExists, CancelUnqueue, CancelCurrent, CancelKill, rest, vars
  <2> QED BY <2>1, Zenon
<1>2. remotePsm' \in Nat
  BY VersionsPositive
     DEF SetTypes, Next, Client, ClientCheck, ClientKill, ClientStart, ClientAwait,
         ClientPut, ClientPutDone, Server, ServerUp, ServerList, ServerCount, ServerZap,
         ServerCopy, ServerRemove, ServerUnzip, ServerWrite, ServerSpawn, JobStep,
         JobOutput, User, UserStart, MonitorRead, StatusQueue, StatusCurrent,
         StatusProcesses, CancelExists, CancelUnqueue, CancelCurrent, CancelKill, rest, vars
<1>3. ops' \in 0..MaxOps
  <2>1. ASSUME NEW e \in Entries, NEW op, UserStart(e, op) PROVE ops' \in 0..MaxOps
    BY <2>1, BoundsAreNaturals DEF UserStart, SetTypes
  <2>2. CASE ops' = ops
    BY <2>2 DEF SetTypes
  <2> QED
    BY <2>1, <2>2
       DEF Next, Client, ClientCheck, ClientKill, ClientStart, ClientAwait, ClientPut,
           ClientPutDone, Server, ServerUp, ServerList, ServerCount, ServerZap, ServerCopy,
           ServerRemove, ServerUnzip, ServerWrite, ServerSpawn, JobStep, JobOutput, command,
           User, MonitorRead, StatusQueue, StatusCurrent, StatusProcesses,
           CancelExists, CancelUnqueue, CancelCurrent, CancelKill, vars
<1>4. lost' \subseteq Entries
  <2>1. ASSUME NEW e \in Entries, ClientKill(e) PROVE lost' \subseteq Entries
    BY <2>1 DEF ClientKill, HeldOnly, ServersHoldEntries, ServerPCs, Running, SetTypes
  <2>2. ASSUME NEW s \in Entries, ServerUnzip(s) PROVE lost' \subseteq Entries
    BY <2>2 DEF ServerUnzip, At, ServersHoldEntries, ServerPCs, SetTypes
  <2>3. CASE lost' = lost
    BY <2>3 DEF SetTypes
  <2> QED
    BY <2>1, <2>2, <2>3
       DEF Next, Client, ClientCheck, ClientStart, ClientAwait, ClientPut,
           ClientPutDone, Server, ServerUp, ServerList, ServerCount, ServerZap, ServerCopy,
           ServerRemove, ServerWrite, ServerSpawn, JobStep, JobOutput,
           User, UserStart, MonitorRead, StatusQueue, StatusCurrent, StatusProcesses,
           CancelExists, CancelUnqueue, CancelCurrent, CancelKill, rest, vars
<1>5. told' \subseteq Entries /\ cancelled' \subseteq Entries
  <2>1. \/ UNCHANGED <<told, cancelled>>
        \/ user.pc # "idle" /\ told' \subseteq told \cup {user.entry} /\ cancelled' = cancelled
        \/ user.pc # "idle" /\ cancelled' \subseteq cancelled \cup {user.entry} /\ told' = told
    <3>1. ASSUME NEW status, Answer(status)
          PROVE told' \subseteq told \cup {user.entry}
      BY <3>1 DEF Answer
    <3>2. CASE User
      BY <3>1, <3>2
         DEF User, MonitorRead, StatusQueue, StatusCurrent, StatusProcesses,
             CancelExists, CancelUnqueue, CancelCurrent, CancelKill, rest, UserAt
    <3>3. CASE UNCHANGED <<told, cancelled>>
      BY <3>3
    <3> QED
      BY <3>2, <3>3
       DEF Next, Client, ClientCheck, ClientKill, ClientStart, ClientAwait, ClientPut,
           ClientPutDone, Server, ServerUp, ServerList, ServerCount, ServerZap, ServerCopy,
           ServerRemove, ServerUnzip, ServerWrite, ServerSpawn, JobStep, JobOutput, command,
           UserStart, vars
  <2> QED BY <2>1 DEF Records, SetTypes
<1> QED BY <1>1, <1>2, <1>3, <1>4, <1>5 DEF SetTypes

\* What a step does to the servers: one of them goes on, holding what it held
\* or an entry it has just seen, or ends, or is started.
ServerMoves(s) ==
  \/ Goto(s, "list") /\ server[s].pc \in {"starting", "count", "unzip", "spawn"}
  \/ Goto(s, "zap") /\ server[s].pc = "count"
  \/ Goto(s, "copy") /\ server[s].pc = "zap"
  \/ Goto(s, "remove") /\ server[s].pc = "copy"
  \/ Goto(s, "unzip") /\ server[s].pc = "remove" /\ file[server[s].entry] # "none"
  \/ Goto(s, "write") /\ server[s].pc = "unzip"
  \/ Goto(s, "spawn") /\ server[s].pc = "write"
  \/ \E e \in Oldest : server' = [server EXCEPT ![s] = [pc |-> "count", entry |-> e]]
                       /\ server[s].pc = "list"
  \/ server' = [server EXCEPT ![s] = Down]
  \/ server' = [server EXCEPT ![s] = [Down EXCEPT !.pc = "starting"]] /\ client[s] = "start"

LEMMA ServerMoved ==
  [Next]_vars => server' = server \/ \E s \in Entries : ServerMoves(s)
<1> SUFFICES ASSUME [Next]_vars PROVE server' = server \/ \E s \in Entries : ServerMoves(s)
    OBVIOUS
<1>1. ASSUME NEW e \in Entries, ClientCheck(e) \/ Client(e)
      PROVE  server' = server \/ \E s \in Entries : ServerMoves(s)
  <2>1. CASE ClientKill(e)
    BY <2>1 DEF ClientKill, ServerMoves, Running
  <2>2. CASE ClientStart(e)
    BY <2>2 DEF ClientStart, ServerMoves
  <2> QED
    BY <1>1, <2>1, <2>2 DEF Client, ClientCheck, ClientAwait, ClientPut, ClientPutDone
<1>2. ASSUME NEW s \in Entries, Server(s) PROVE ServerMoves(s)
  <2>1. CASE ServerUp(s)
    BY <2>1 DEF ServerUp, ServerMoves, At
  <2>2. CASE ServerList(s)
    BY <2>2 DEF ServerList, ServerMoves, At
  <2>3. CASE ServerCount(s)
    BY <2>3 DEF ServerCount, ServerMoves, At
  <2>4. CASE ServerZap(s)
    BY <2>4 DEF ServerZap, ServerMoves, At
  <2>5. CASE ServerCopy(s)
    BY <2>5 DEF ServerCopy, ServerMoves, At, Dies
  <2>6. CASE ServerRemove(s)
    BY <2>6 DEF ServerRemove, ServerMoves, At, Dies
  <2>7. CASE ServerUnzip(s)
    BY <2>7 DEF ServerUnzip, ServerMoves, At
  <2>8. CASE ServerWrite(s)
    BY <2>8 DEF ServerWrite, ServerMoves, At
  <2>9. CASE ServerSpawn(s)
    BY <2>9 DEF ServerSpawn, ServerMoves, At
  <2> QED BY <1>2, <2>1, <2>2, <2>3, <2>4, <2>5, <2>6, <2>7, <2>8, <2>9 DEF Server
<1>3. CASE server' = server
  BY <1>3
<1> QED
  BY <1>1, <1>2, <1>3
     DEF Next, JobStep, JobOutput, User, UserStart, MonitorRead, StatusQueue,
         StatusCurrent, StatusProcesses, CancelExists, CancelUnqueue, CancelCurrent,
         CancelKill, rest, vars

LEMMA ServersStep ==
  Typed /\ [Next]_vars =>
    /\ server' \in [Entries -> [pc : ServerPCs, entry : Entries \cup {NoEntry}]]
    /\ ServersHoldEntries'
<1> SUFFICES ASSUME Records, ServersHoldEntries, [Next]_vars
             PROVE  /\ server' \in [Entries -> [pc : ServerPCs, entry : Entries \cup {NoEntry}]]
                    /\ ServersHoldEntries'
  BY TypedParts
<1>1. CASE server' = server
  BY <1>1 DEF Records, ServersHoldEntries
<1>2. ASSUME NEW s \in Entries, ServerMoves(s)
      PROVE  /\ server' \in [Entries -> [pc : ServerPCs, entry : Entries \cup {NoEntry}]]
             /\ ServersHoldEntries'
  <2>1. ASSUME NEW pc \in ServerPCs \ {"down", "starting"}, Goto(s, pc),
               pc = "list" \/ server[s].pc \in ServerPCs \ {"down", "starting", "list"}
        PROVE  /\ server' \in [Entries -> [pc : ServerPCs, entry : Entries \cup {NoEntry}]]
               /\ ServersHoldEntries'
    BY <2>1, ServerGoesOn DEF ServersHoldEntries
  <2>2. ASSUME NEW e \in Entries,
               server' = [server EXCEPT ![s] = [pc |-> "count", entry |-> e]]
        PROVE  /\ server' \in [Entries -> [pc : ServerPCs, entry : Entries \cup {NoEntry}]]
               /\ ServersHoldEntries'
    <3>1. [pc |-> "count", entry |-> e] \in [pc : ServerPCs, entry : Entries \cup {NoEntry}]
      BY DEF ServerPCs
    <3> DEFINE v == [pc |-> "count", entry |-> e]
    <3>2. v.pc = "count" /\ v.entry = e
      OBVIOUS
    <3> HIDE DEF v
    <3>3. /\ server' \in [Entries -> [pc : ServerPCs, entry : Entries \cup {NoEntry}]]
          /\ server'[s] = v
          /\ \A t \in Entries : t # s => server'[t] = server[t]
      BY <2>2, <3>1, ServerReplaced DEF v
    <3> QED BY <3>2, <3>3 DEF ServersHoldEntries
  <2>3. CASE server' = [server EXCEPT ![s] = Down]
    <3> DEFINE v == Down
    <3>1. v \in [pc : ServerPCs, entry : Entries \cup {NoEntry}] /\ v.entry = NoEntry
          /\ v.pc \in {"down", "starting"}
      BY DownIsAServer
    <3> HIDE DEF v
    <3>2. /\ server' \in [Entries -> [pc : ServerPCs, entry : Entries \cup {NoEntry}]]
          /\ server'[s] = v
          /\ \A t \in Entries : t # s => server'[t] = server[t]
      BY <2>3, <3>1, ServerReplaced DEF v
    <3> QED BY <3>1, <3>2 DEF ServersHoldEntries
  <2>4. CASE server' = [server EXCEPT ![s] = [Down EXCEPT !.pc = "starting"]]
    <3> DEFINE v == [Down EXCEPT !.pc = "starting"]
    <3>1. v \in [pc : ServerPCs, entry : Entries \cup {NoEntry}] /\ v.entry = NoEntry
          /\ v.pc \in {"down", "starting"}
      BY DownIsAServer
    <3> HIDE DEF v
    <3>2. /\ server' \in [Entries -> [pc : ServerPCs, entry : Entries \cup {NoEntry}]]
          /\ server'[s] = v
          /\ \A t \in Entries : t # s => server'[t] = server[t]
      BY <2>4, <3>1, ServerReplaced DEF v
    <3> QED BY <3>1, <3>2 DEF ServersHoldEntries
  <2>5. /\ {"list", "zap", "copy", "remove", "unzip", "write", "spawn"}
             \subseteq ServerPCs \ {"down", "starting"}
        /\ {"count", "zap", "copy", "remove", "unzip", "write", "spawn"}
             \subseteq ServerPCs \ {"down", "starting", "list"}
    BY DEF ServerPCs
  <2> QED BY <1>2, <2>1, <2>2, <2>3, <2>4, <2>5 DEF ServerMoves, Oldest
<1> QED BY <1>1, <1>2, ServerMoved

LEMMA CwdStep ==
  Typed /\ [Next]_vars =>
    cwd' \in [psm : Nat, zip : [entry : Entries \cup {NoEntry}, whole : BOOLEAN],
              current : Entries \cup {NoEntry}]
<1> DEFINE Cwds == [psm : Nat, zip : [entry : Entries \cup {NoEntry}, whole : BOOLEAN],
                    current : Entries \cup {NoEntry}]
<1> SUFFICES ASSUME Records, ServersHoldEntries, [Next]_vars PROVE cwd' \in Cwds
  BY TypedParts
<1>0. cwd \in Cwds
  BY DEF Records
<1>1. ASSUME NEW e \in Entries, ClientStart(e) PROVE cwd' \in Cwds
  <2>1. Version[e] \in Nat
    BY VersionsPositive
  <2> QED BY <1>0, <1>1, <2>1 DEF ClientStart
<1>2. ASSUME NEW s \in Entries, ServerZap(s) PROVE cwd' \in Cwds
  BY <1>2 DEF ServerZap, EmptyCwd, NoZip
<1>3. ASSUME NEW s \in Entries, ServerCopy(s) PROVE cwd' \in Cwds
  <2>1. server[s].entry \in Entries
    BY <1>3 DEF ServerCopy, At, ServersHoldEntries, ServerPCs
  <2>2. (file[server[s].entry] = "zip") \in BOOLEAN
    OBVIOUS
  <2>3. [entry |-> server[s].entry, whole |-> file[server[s].entry] = "zip"]
          \in [entry : Entries \cup {NoEntry}, whole : BOOLEAN]
    BY <2>1, <2>2
  <2> QED BY <1>0, <1>3, <2>3 DEF ServerCopy
<1>4. ASSUME NEW s \in Entries, ServerWrite(s) PROVE cwd' \in Cwds
  <2>1. server[s].entry \in Entries
    BY <1>4 DEF ServerWrite, At, ServersHoldEntries, ServerPCs
  <2> QED BY <1>0, <1>4, <2>1 DEF ServerWrite
<1>5. CASE cwd' = cwd
  BY <1>0, <1>5
<1> HIDE DEF Cwds
<1> QED
  BY <1>1, <1>2, <1>3, <1>4, <1>5
     DEF Next, Client, ClientCheck, ClientKill, ClientAwait, ClientPut, ClientPutDone,
         Server, ServerUp, ServerList, ServerCount, ServerRemove, ServerUnzip, ServerSpawn,
         JobStep, JobOutput, User, UserStart, MonitorRead, StatusQueue, StatusCurrent,
         StatusProcesses, CancelExists, CancelUnqueue, CancelCurrent, CancelKill, rest, vars

\* A command that has submitted its entry is over.
LEMMA DoneIsDone ==
  ASSUME EntryTypes, [Next]_vars, NEW e \in Entries, client[e] = "done"
  PROVE  client'[e] = "done"
<1>1. ASSUME NEW f \in Entries, ClientCheck(f) \/ Client(f) PROVE client'[e] = "done"
  BY <1>1
     DEF Client, ClientCheck, ClientKill, ClientStart, ClientAwait, ClientPut,
         ClientPutDone, EntryTypes
<1>2. CASE client' = client
  BY <1>2
<1> QED
  BY <1>1, <1>2
     DEF Next, Server, ServerUp, ServerList, ServerCount, ServerZap, ServerCopy,
         ServerRemove, ServerUnzip, ServerWrite, ServerSpawn, JobStep, JobOutput, User,
         UserStart, MonitorRead, StatusQueue, StatusCurrent, StatusProcesses,
         CancelExists, CancelUnqueue, CancelCurrent, CancelKill, rest, vars

LEMMA UserStep ==
  Typed /\ [Next]_vars =>
    /\ user' \in [op : {"none", "monitor", "cancel"}, pc : UserPCs,
                  entry : Entries \cup {NoEntry}]
    /\ user'.pc # "idle" => user'.entry \in Entries /\ client'[user'.entry] = "done"
<1> DEFINE Users == [op : {"none", "monitor", "cancel"}, pc : UserPCs,
                     entry : Entries \cup {NoEntry}]
           Good == /\ user' \in Users
                   /\ user'.pc # "idle" =>
                        user'.entry \in Entries /\ client'[user'.entry] = "done"
<1> SUFFICES ASSUME EntryTypes, Records, [Next]_vars PROVE Good
  BY TypedParts
<1>0. /\ user \in Users
      /\ user.pc # "idle" => user.entry \in Entries /\ client'[user.entry] = "done"
  BY DoneIsDone DEF Records
<1>1. ASSUME NEW e \in Entries, NEW op \in {"monitor", "cancel"}, UserStart(e, op) PROVE Good
  BY <1>1, DoneIsDone DEF UserStart, UserPCs
<1>2. CASE user' = NoUser
  BY <1>2 DEF NoUser, UserPCs
<1>3. ASSUME user.pc # "idle", NEW pc \in UserPCs, UserGoto(pc) PROVE Good
  BY <1>0, <1>3 DEF UserGoto
<1>4. CASE user' = user
  BY <1>0, <1>4
<1>5. ASSUME NEW status, user.pc # "idle", Answer(status) PROVE Good
  <2>1. \/ user' = NoUser
        \/ user' = [user EXCEPT !.pc = "read"]
        \/ user' = [user EXCEPT !.pc = "exists"]
    BY <1>5 DEF Answer
  <2>2. {"read", "exists"} \subseteq UserPCs
    BY DEF UserPCs
  <2> QED BY <1>2, <1>3, <1>5, <2>1, <2>2 DEF UserGoto
<1>6. {"status", "current", "processes", "unqueue", "isCurrent", "kill"} \subseteq UserPCs
  BY DEF UserPCs
<1>7. CASE User
  <2>0. user.pc # "idle"
    BY <1>7
       DEF User, MonitorRead, StatusQueue, StatusCurrent, StatusProcesses, CancelExists,
           CancelUnqueue, CancelCurrent, CancelKill, UserAt
  <2> HIDE DEF Good, Users
  <2>1. CASE MonitorRead
    BY <1>3, <1>4, <1>6, <2>0, <2>1 DEF MonitorRead
  <2>2. CASE StatusQueue \/ StatusCurrent \/ StatusProcesses
    BY <1>3, <1>5, <1>6, <2>0, <2>2 DEF StatusQueue, StatusCurrent, StatusProcesses
  <2>3. CASE CancelExists \/ CancelCurrent
    BY <1>2, <1>3, <1>6, <2>0, <2>3 DEF CancelExists, CancelCurrent
  <2>4. CASE CancelUnqueue \/ CancelKill
    BY <1>2, <2>4 DEF CancelUnqueue, CancelKill
  <2> QED BY <1>7, <2>1, <2>2, <2>3, <2>4 DEF User
<1> HIDE DEF Good, Users
<1> QED
  BY <1>1, <1>4, <1>7
     DEF Next, Client, ClientCheck, ClientKill, ClientStart, ClientAwait, ClientPut,
         ClientPutDone, Server, ServerUp, ServerList, ServerCount, ServerZap, ServerCopy,
         ServerRemove, ServerUnzip, ServerWrite, ServerSpawn, JobStep, JobOutput, command,
         vars

LEMMA TypedStep == Typed /\ [Next]_vars => Typed'
<1> SUFFICES ASSUME Typed, [Next]_vars
             PROVE  /\ EntryTypes' /\ SetTypes' /\ died' \in BOOLEAN
                    /\ ServersHoldEntries' /\ Records'
  <2>1. (EntryTypes /\ SetTypes /\ died \in BOOLEAN /\ ServersHoldEntries /\ Records)'
          => Typed'
    BY TypedParts, PTL
  <2> QED BY <2>1
<1>1. Records'
  BY ServersStep, CwdStep, UserStep DEF Records
<1> QED BY <1>1, EntryTypesStep, SetTypesStep, ServersStep

-----------------------------------------------------------------------------
(***************************************************************************)
(* Where an entry is                                                       *)
(***************************************************************************)
Held(s, e) == server[s].pc \in {"unzip", "write", "spawn"} /\ server[s].entry = e

\* The command that submits e has not copied its file yet.
Unsubmitted(e) == client[e] \in {"idle", "kill", "start", "await", "put", "failed"}

\* Before its file is copied an entry is nowhere.
NowhereYet ==
  \A e \in Entries : Unsubmitted(e) =>
    /\ file[e] = "none" /\ job[e] = "none" /\ e \notin lost
    /\ \A s \in Entries : ~Held(s, e)

\* Once started, or lost, it is not in the queue and nobody holds it.
StartedOrLost ==
  \A e \in Entries : job[e] # "none" \/ e \in lost =>
    /\ file[e] = "none" /\ ~(job[e] # "none" /\ e \in lost)
    /\ \A s \in Entries : ~Held(s, e)

\* An entry a server holds is out of the queue, and no other server's.
HeldByOne ==
  \A e \in Entries : \A s \in Entries : Held(s, e) =>
    file[e] = "none" /\ \A t \in Entries : Held(t, e) => t = s

Places == NowhereYet /\ StartedOrLost /\ HeldByOne

LEMMA PlacesInit == Init => Places
BY DownIsAServer DEF Init, Places, NowhereYet, StartedOrLost, HeldByOne, Held

\* A step that starts, loses and queues no entry, and after which no server
\* holds what it did not hold before.
LEMMA PlacesKept ==
  ASSUME Places,
         \A e \in Entries : /\ Unsubmitted(e)' => Unsubmitted(e)
                            /\ file'[e] # "none" => file[e] # "none"
                            /\ job'[e] # "none" <=> job[e] # "none"
                            /\ \A s \in Entries : Held(s, e)' => Held(s, e),
         lost' = lost
  PROVE  Places'
<1>1. NowhereYet'
  BY DEF Places, NowhereYet
<1>2. StartedOrLost'
  BY DEF Places, StartedOrLost
<1>3. HeldByOne'
  BY DEF Places, HeldByOne
<1> QED BY <1>1, <1>2, <1>3 DEF Places

\* Only the removal of its file makes a server hold an entry.
LEMMA HeldOrRemoved ==
  ASSUME Records, NEW s \in Entries, ServerMoves(s), NEW t \in Entries, NEW e \in Entries,
         Held(t, e)', ~Held(t, e)
  PROVE  t = s /\ server[s].pc = "remove" /\ server[s].entry = e /\ file[e] # "none"
<1>1. CASE server' = [server EXCEPT ![s] = Down]
           \/ server' = [server EXCEPT ![s] = [Down EXCEPT !.pc = "starting"]]
  BY <1>1, ServerReplaced, DownIsAServer DEF Held
<1>2. ASSUME NEW f \in Oldest, server' = [server EXCEPT ![s] = [pc |-> "count", entry |-> f]]
      PROVE  FALSE
  BY <1>2 DEF Held, Records
<1>3. ASSUME NEW pc \in {"list", "zap", "copy", "remove"}, Goto(s, pc) PROVE FALSE
  BY <1>3, ServerGoesOn DEF Held, ServerPCs
<1>4. ASSUME NEW pc \in {"write", "spawn"}, Goto(s, pc), server[s].pc \in {"unzip", "write"}
      PROVE  FALSE
  BY <1>4, ServerGoesOn DEF Held, ServerPCs
<1>5. CASE Goto(s, "unzip") /\ server[s].pc = "remove" /\ file[server[s].entry] # "none"
  BY <1>5, ServerGoesOn DEF Held, ServerPCs
<1> QED BY <1>1, <1>2, <1>3, <1>4, <1>5 DEF ServerMoves

\* The entry a server has finished with, or was killed with, is no longer held.
LEMMA ReleasedByList ==
  ASSUME Records, NEW s \in Entries,
         Goto(s, "list") \/ server' = [server EXCEPT ![s] = Down]
  PROVE  \A t, e \in Entries : Held(t, e)' => Held(t, e) /\ t # s
<1>1. CASE Goto(s, "list")
  BY <1>1, ServerGoesOn DEF Held, ServerPCs
<1>2. CASE server' = [server EXCEPT ![s] = Down]
  BY <1>2, ServerReplaced, DownIsAServer DEF Held
<1> QED BY <1>1, <1>2

LEMMA HeldUnchanged ==
  ASSUME server' = server
  PROVE  \A t, e \in Entries : Held(t, e)' <=> Held(t, e)
BY DEF Held

LEMMA PlacesStep == Typed /\ Places /\ [Next]_vars => Places'
<1> SUFFICES ASSUME EntryTypes, SetTypes, Records, ServersHoldEntries, Places, [Next]_vars
             PROVE  Places'
  BY TypedParts
<1>1. ASSUME NEW e \in Entries, ClientCheck(e) PROVE Places'
  BY <1>1, PlacesKept, HeldUnchanged DEF ClientCheck, Unsubmitted, EntryTypes
<1>2. ASSUME NEW e \in Entries, ClientKill(e) PROVE Places'
  <2>1. CASE server' = server /\ lost' = lost
    BY <1>2, <2>1, PlacesKept, HeldUnchanged DEF ClientKill, Unsubmitted, EntryTypes
  <2>2. ASSUME NEW s \in Running, server' = [server EXCEPT ![s] = Down],
               lost' = lost \cup HeldOnly(s)
        PROVE  Places'
    <3>1. \A t, f \in Entries : Held(t, f)' => Held(t, f) /\ t # s
      BY <2>2, ReleasedByList DEF Running
    <3>2. \A f \in Entries : f \in lost' <=> f \in lost \/ Held(s, f)
      BY <2>2 DEF HeldOnly, Held
    <3>3. /\ UNCHANGED <<file, job>>
          /\ \A f \in Entries : Unsubmitted(f)' => Unsubmitted(f)
      BY <1>2 DEF ClientKill, Unsubmitted, EntryTypes
    <3>4. s \in Entries
      BY DEF Running
    <3>5. NowhereYet'
      BY <3>1, <3>2, <3>3, <3>4 DEF Places, NowhereYet
    <3>6. StartedOrLost'
      BY <3>1, <3>2, <3>3, <3>4 DEF Places, StartedOrLost, HeldByOne
    <3>7. HeldByOne'
      BY <3>1, <3>3 DEF Places, HeldByOne
    <3> QED BY <3>5, <3>6, <3>7 DEF Places
  <2> QED BY <1>2, <2>1, <2>2 DEF ClientKill
<1>3. ASSUME NEW e \in Entries, ClientStart(e) PROVE Places'
  <2>1. \A t, f \in Entries : Held(t, f)' => Held(t, f)
    BY <1>3, ServerReplaced, DownIsAServer DEF ClientStart, Held
  <2> QED BY <1>3, <2>1, PlacesKept DEF ClientStart, Unsubmitted, EntryTypes
<1>4. ASSUME NEW e \in Entries, ClientAwait(e) PROVE Places'
  BY <1>4, PlacesKept, HeldUnchanged DEF ClientAwait, Unsubmitted, EntryTypes
<1>5. ASSUME NEW e \in Entries, ClientPut(e) PROVE Places'
  <2>1. /\ job[e] = "none" /\ e \notin lost
        /\ \A t \in Entries : ~Held(t, e)
    BY <1>5 DEF ClientPut, Places, NowhereYet, Unsubmitted
  <2>2. /\ UNCHANGED <<job, lost>>
        /\ \A t, f \in Entries : Held(t, f)' <=> Held(t, f)
        /\ \A f \in Entries : f # e => file'[f] = file[f] /\ client'[f] = client[f]
        /\ client'[e] = "putting"
    BY <1>5, HeldUnchanged DEF ClientPut, EntryTypes
  <2>3. NowhereYet'
    BY <2>2 DEF Places, NowhereYet, Unsubmitted
  <2>4. StartedOrLost'
    BY <2>1, <2>2 DEF Places, StartedOrLost
  <2>5. HeldByOne'
    BY <2>1, <2>2 DEF Places, HeldByOne
  <2> QED BY <2>3, <2>4, <2>5 DEF Places
<1>6. ASSUME NEW e \in Entries, ClientPutDone(e) PROVE Places'
  BY <1>6, PlacesKept, HeldUnchanged DEF ClientPutDone, Unsubmitted, EntryTypes
<1>7. ASSUME NEW s \in Entries,
             ServerUp(s) \/ ServerList(s) \/ ServerCount(s) \/ ServerZap(s) \/ ServerCopy(s)
               \/ ServerWrite(s)
      PROVE  Places'
  <2>1. server[s].pc # "remove" /\ ServerMoves(s)
    BY <1>7
       DEF ServerUp, ServerList, ServerCount, ServerZap, ServerCopy, ServerWrite, At,
           ServerMoves, Dies
  <2>2. \A t, f \in Entries : Held(t, f)' => Held(t, f)
    BY <2>1, HeldOrRemoved
  <2>3. UNCHANGED <<file, client, job, lost>>
    BY <1>7 DEF ServerUp, ServerList, ServerCount, ServerZap, ServerCopy, ServerWrite
  <2> QED BY <2>2, <2>3, PlacesKept DEF Unsubmitted
<1>8. ASSUME NEW s \in Entries, ServerRemove(s) PROVE Places'
  <2> DEFINE e == server[s].entry
  <2>1. CASE file' = file
    <3>1. server' = [server EXCEPT ![s] = Down] \/ file[e] # "none"
      BY <1>8 DEF ServerRemove, Dies
    <3>2. file[e] # "none" => file'[e] = "none"
      BY <1>8 DEF ServerRemove, At, EntryTypes, ServersHoldEntries, ServerPCs
    <3>3. server' = [server EXCEPT ![s] = Down]
      BY <2>1, <3>1, <3>2
    <3> QED
      BY <1>8, <2>1, <3>3, ReleasedByList, PlacesKept DEF ServerRemove, Unsubmitted
  <2>2. CASE file' # file
    <3>1. /\ e \in Entries /\ file[e] # "none"
          /\ file'[e] = "none"
          /\ \A f \in Entries : f # e => file'[f] = file[f]
          /\ Goto(s, "unzip")
          /\ UNCHANGED <<client, job, lost>>
      BY <1>8, <2>2 DEF ServerRemove, At, EntryTypes, ServersHoldEntries, ServerPCs
    <3>2. \A t, f \in Entries : Held(t, f)' => Held(t, f) \/ (t = s /\ f = e)
      BY <3>1, ServerGoesOn DEF Held, ServerPCs
    <3>3. job[e] = "none" /\ e \notin lost /\ ~Unsubmitted(e) /\ \A t \in Entries : ~Held(t, e)
      BY <3>1 DEF Places, NowhereYet, StartedOrLost, HeldByOne
    <3> HIDE DEF e
    <3>4. NowhereYet'
      BY <3>1, <3>2, <3>3 DEF Places, NowhereYet, Unsubmitted
    <3>5. StartedOrLost'
      BY <3>1, <3>2, <3>3 DEF Places, StartedOrLost
    <3>6. HeldByOne'
      BY <3>1, <3>2, <3>3 DEF Places, HeldByOne
    <3> QED BY <3>4, <3>5, <3>6 DEF Places
  <2> QED BY <2>1, <2>2
<1>9. ASSUME NEW s \in Entries, ServerUnzip(s) PROVE Places'
  <2>1. CASE lost' = lost /\ Goto(s, "write")
    <3>1. server[s].pc # "remove" /\ ServerMoves(s)
      BY <1>9, <2>1 DEF ServerUnzip, At, ServerMoves
    <3>2. \A t, f \in Entries : Held(t, f)' => Held(t, f)
      BY <3>1, HeldOrRemoved
    <3> QED BY <1>9, <2>1, <3>2, PlacesKept DEF ServerUnzip, Unsubmitted
  <2>2. CASE lost' = lost \cup {server[s].entry} /\ Goto(s, "list")
    <3>1. \A t, f \in Entries : Held(t, f)' => Held(t, f) /\ t # s
      BY <2>2, ReleasedByList
    <3>2. \A f \in Entries : f \in lost' <=> f \in lost \/ Held(s, f)
      BY <1>9, <2>2 DEF ServerUnzip, Held, At
    <3>3. UNCHANGED <<file, job, client>>
      BY <1>9 DEF ServerUnzip
    <3>4. NowhereYet'
      BY <3>1, <3>2, <3>3 DEF Places, NowhereYet, Unsubmitted
    <3>5. StartedOrLost'
      BY <3>1, <3>2, <3>3 DEF Places, StartedOrLost, HeldByOne
    <3>6. HeldByOne'
      BY <3>1, <3>3 DEF Places, HeldByOne
    <3> QED BY <3>4, <3>5, <3>6 DEF Places
  <2> QED BY <1>9, <2>1, <2>2 DEF ServerUnzip
<1>10. ASSUME NEW s \in Entries, ServerSpawn(s) PROVE Places'
  <2>1. \A t, f \in Entries : Held(t, f)' => Held(t, f) /\ t # s
    BY <1>10, ReleasedByList DEF ServerSpawn
  <2>2. \A f \in Entries : job'[f] # "none" <=> job[f] # "none" \/ Held(s, f)
    BY <1>10 DEF ServerSpawn, Held, At, EntryTypes, ServersHoldEntries, ServerPCs
  <2>3. UNCHANGED <<file, lost, client>>
    BY <1>10 DEF ServerSpawn
  <2>4. NowhereYet'
    BY <2>1, <2>2, <2>3 DEF Places, NowhereYet, Unsubmitted
  <2>5. StartedOrLost'
    BY <2>1, <2>2, <2>3 DEF Places, StartedOrLost, HeldByOne
  <2>6. HeldByOne'
    BY <2>1, <2>3 DEF Places, HeldByOne
  <2> QED BY <2>4, <2>5, <2>6 DEF Places
<1>11. ASSUME NEW e \in Entries, JobStep(e) PROVE Places'
  BY <1>11, PlacesKept, HeldUnchanged DEF JobStep, Unsubmitted, EntryTypes
<1>12. CASE CancelUnqueue
  BY <1>12, PlacesKept, HeldUnchanged
     DEF CancelUnqueue, Unsubmitted, EntryTypes, Records, UserAt
<1>13. CASE CancelKill
  BY <1>13, PlacesKept, HeldUnchanged DEF CancelKill, Unsubmitted, EntryTypes, Controllers
<1>14. CASE UNCHANGED <<file, client, server, job, lost>>
  BY <1>14, PlacesKept, HeldUnchanged DEF Unsubmitted
<1> QED
  BY <1>1, <1>2, <1>3, <1>4, <1>5, <1>6, <1>7, <1>8, <1>9, <1>10, <1>11, <1>12, <1>13,
     <1>14
     DEF Next, Client, Server, JobOutput, User, UserStart, MonitorRead, StatusQueue,
         StatusCurrent, StatusProcesses, CancelExists, CancelCurrent, rest, vars

\* A started entry is nowhere else, and none is started twice, however many
\* commands overlap and whatever servers are killed.
LEMMA PlacesFollow == Typed /\ Places => OnePlace
BY DEF Places, StartedOrLost, HeldByOne, OnePlace, Held, HeldOnly, Running

\* The queue and its servers are in order: also when commands overlap.
THEOREM QueueIsInOrder == Spec => []QueueInOrder
<1>1. Init => Typed /\ Places
  BY TypedInit, PlacesInit
<1>2. Typed /\ Places /\ [Next]_vars => (Typed /\ Places)'
  BY TypedStep, PlacesStep
<1>3. Typed /\ Places => QueueInOrder
  BY PlacesFollow DEF Typed, QueueInOrder
<1> QED BY <1>1, <1>2, <1>3, PTL DEF Spec

-----------------------------------------------------------------------------
(***************************************************************************)
(* One entry at a time.  When no two commands that start servers overlap   *)
(* there is one server, and what it counted stays true until it starts the *)
(* entry.  With two servers both may have counted none.                    *)
(***************************************************************************)
Busy(e) == client[e] \in {"kill", "start", "await", "put", "putting"}

OneClient == \A e, f \in Entries : Busy(e) /\ Busy(f) => e = f

OneServer ==
  \A s, t \in Entries : server[s].pc # "down" /\ server[t].pc # "down" => s = t

\* A command that kills a server finds none that is starting, and one that
\* starts a server finds none.
NoneStarting ==
  \A e \in Entries :
    /\ client[e] = "kill" => \A s \in Entries : server[s].pc # "starting"
    /\ client[e] = "start" => \A s \in Entries : server[s].pc = "down"

Counted == {"zap", "copy", "remove", "unzip", "write", "spawn"}

\* No process of an entry runs from the count of processes to the next start.
CountedNone == \A s \in Entries : server[s].pc \in Counted => Wrappers = {}

OneWrapper == \A e, f \in Wrappers : e = f

BoxInv == OneClient /\ OneServer /\ NoneStarting /\ CountedNone /\ OneWrapper

LEMMA BoxInit == Init => BoxInv
BY DownIsAServer
   DEF Init, BoxInv, OneClient, OneServer, NoneStarting, CountedNone, OneWrapper, Busy,
       Counted, Wrappers

\* What a step of a server does to its place in the loop.
LEMMA ServerActs ==
  ASSUME Records, NEW s \in Entries, Server(s)
  PROVE  /\ \A t \in Entries : t # s => server'[t] = server[t]
         /\ server[s].pc # "down" /\ server'[s].pc # "starting"
         /\ server'[s].pc \in Counted => server[s].pc \in Counted \/ Wrappers = {}
         /\ client' = client
<1>1. client' = client
  BY DEF Server, ServerUp, ServerList, ServerCount, ServerZap, ServerCopy, ServerRemove,
         ServerUnzip, ServerWrite, ServerSpawn
<1>2. CASE ServerUp(s) \/ ServerSpawn(s)
  BY <1>1, <1>2, ServerGoesOn DEF ServerUp, ServerSpawn, At, Counted, ServerPCs
<1>3. CASE ServerList(s)
  BY <1>1, <1>3 DEF ServerList, At, Counted, Records
<1>4. CASE ServerCount(s)
  BY <1>1, <1>4, ServerGoesOn DEF ServerCount, At, Counted, ServerPCs
<1>5. CASE ServerZap(s) \/ ServerWrite(s)
  BY <1>1, <1>5, ServerGoesOn DEF ServerZap, ServerWrite, At, Counted, ServerPCs
<1>6. CASE ServerUnzip(s)
  BY <1>1, <1>6, ServerGoesOn DEF ServerUnzip, At, Counted, ServerPCs
<1>7. CASE server' = [server EXCEPT ![s] = Down] /\ server[s].pc # "down"
  BY <1>1, <1>7, ServerReplaced, DownIsAServer DEF Counted
<1>8. CASE ServerCopy(s)
  BY <1>1, <1>7, <1>8, ServerGoesOn DEF ServerCopy, At, Counted, ServerPCs, Dies
<1>9. CASE ServerRemove(s)
  BY <1>1, <1>7, <1>9, ServerGoesOn DEF ServerRemove, At, Counted, ServerPCs, Dies
<1> QED BY <1>2, <1>3, <1>4, <1>5, <1>6, <1>8, <1>9 DEF Server

\* Only a server's start of an entry adds to the processes of the box.
LEMMA WrappersAdded ==
  ASSUME EntryTypes, [Next]_vars, NEW e \in Entries, job'[e] # job[e]
  PROVE  \/ e \in Wrappers /\ job'[e] \in {"controller", "closing", "ended"}
         \/ \E s \in Entries : ServerSpawn(s) /\ server[s].entry = e
<1>1. ASSUME NEW f \in Entries, JobStep(f)
      PROVE  e \in Wrappers /\ job'[e] \in {"controller", "closing", "ended"}
  BY <1>1 DEF JobStep, Wrappers, EntryTypes
<1>2. CASE CancelKill
  BY <1>2 DEF CancelKill, Controllers, Wrappers, EntryTypes
<1>3. ASSUME NEW s \in Entries, ServerSpawn(s) PROVE server[s].entry = e
  BY <1>3 DEF ServerSpawn, EntryTypes
<1>4. CASE job' = job
  BY <1>4
<1> QED
  BY <1>1, <1>2, <1>3, <1>4
     DEF Next, Client, ClientCheck, ClientKill, ClientStart, ClientAwait, ClientPut,
         ClientPutDone, Server, ServerUp, ServerList, ServerCount, ServerZap, ServerCopy,
         ServerRemove, ServerUnzip, ServerWrite, JobOutput, User, UserStart, MonitorRead,
         StatusQueue, StatusCurrent, StatusProcesses, CancelExists, CancelUnqueue,
         CancelCurrent, rest, vars

LEMMA WrappersKept ==
  ASSUME EntryTypes, [Next]_vars, \A s \in Entries : ~ServerSpawn(s)
  PROVE  Wrappers' \subseteq Wrappers
BY WrappersAdded DEF Wrappers

LEMMA OneClientStep ==
  ASSUME Overlap = FALSE, EntryTypes, OneClient, [Next]_vars
  PROVE  OneClient'
<1>1. ASSUME NEW e \in Entries, ClientCheck(e) PROVE OneClient'
  <2>1. \A f \in Entries : ~Busy(f)
    BY <1>1 DEF ClientCheck, MayStart, Busy
  <2>2. \A f \in Entries : f # e => client'[f] = client[f]
    BY <1>1 DEF ClientCheck, EntryTypes
  <2> QED BY <2>1, <2>2 DEF OneClient, Busy
<1>2. ASSUME NEW e \in Entries, Client(e) PROVE OneClient'
  <2>1. Busy(e) /\ \A f \in Entries : f # e => client'[f] = client[f]
    BY <1>2
       DEF Client, ClientKill, ClientStart, ClientAwait, ClientPut, ClientPutDone, Busy,
           EntryTypes
  <2> QED BY <2>1 DEF OneClient, Busy
<1>3. CASE client' = client
  BY <1>3 DEF OneClient, Busy
<1> QED
  BY <1>1, <1>2, <1>3
     DEF Next, Server, ServerUp, ServerList, ServerCount, ServerZap, ServerCopy,
         ServerRemove, ServerUnzip, ServerWrite, ServerSpawn, JobStep, JobOutput, User,
         UserStart, MonitorRead, StatusQueue, StatusCurrent, StatusProcesses,
         CancelExists, CancelUnqueue, CancelCurrent, CancelKill, rest, vars

LEMMA ServersStepOne ==
  ASSUME Overlap = FALSE, EntryTypes, Records, OneClient, OneServer, NoneStarting,
         CountedNone, OneWrapper, [Next]_vars
  PROVE  OneServer' /\ NoneStarting' /\ CountedNone' /\ OneWrapper'
<1>1. ASSUME NEW e \in Entries, ClientCheck(e)
      PROVE  OneServer' /\ NoneStarting' /\ CountedNone' /\ OneWrapper'
  <2>1. \A s \in Entries : server[s].pc # "starting"
    BY <1>1 DEF ClientCheck, MayStart
  <2>2. client'[e] = "start" => \A s \in Entries : server[s].pc = "down"
    BY <1>1, <2>1 DEF ClientCheck, Running, EntryTypes
  <2>3. /\ UNCHANGED <<server, job>>
        /\ \A f \in Entries : f # e => client'[f] = client[f]
    BY <1>1 DEF ClientCheck, EntryTypes
  <2> QED
    BY <2>1, <2>2, <2>3 DEF OneServer, NoneStarting, CountedNone, OneWrapper, Wrappers
<1>2. ASSUME NEW e \in Entries, ClientKill(e)
      PROVE  OneServer' /\ NoneStarting' /\ CountedNone' /\ OneWrapper'
  <2>1. /\ job' = job /\ client'[e] \in {"start", "failed"}
        /\ \A f \in Entries : f # e => client'[f] = client[f]
    BY <1>2 DEF ClientKill, EntryTypes
  <2>2. /\ \A s \in Entries : server[s].pc # "starting"
        /\ \A f \in Entries : f # e => client[f] \notin {"kill", "start"}
    BY <1>2 DEF ClientKill, NoneStarting, OneClient, Busy
  <2>3. \A s \in Entries : server'[s].pc = "down"
    <3>1. CASE Running = {} /\ server' = server
      BY <2>2, <3>1 DEF Running
    <3>2. ASSUME NEW t \in Running, server' = [server EXCEPT ![t] = Down]
          PROVE  \A s \in Entries : server'[s].pc = "down"
      BY <3>2, ServerReplaced, DownIsAServer DEF Running, OneServer
    <3> QED BY <1>2, <3>1, <3>2 DEF ClientKill
  <2> QED
    BY <2>1, <2>2, <2>3
       DEF OneServer, NoneStarting, CountedNone, Counted, OneWrapper, Wrappers
<1>3. ASSUME NEW e \in Entries, ClientStart(e)
      PROVE  OneServer' /\ NoneStarting' /\ CountedNone' /\ OneWrapper'
  <2>1. /\ job' = job /\ client'[e] \in {"put", "await"}
        /\ \A f \in Entries : f # e => client'[f] = client[f]
    BY <1>3 DEF ClientStart, EntryTypes
  <2>2. /\ \A s \in Entries : server[s].pc = "down"
        /\ \A f \in Entries : f # e => client[f] \notin {"kill", "start"}
    BY <1>3 DEF ClientStart, NoneStarting, OneClient, Busy
  <2>3. server'[e].pc = "starting" /\ \A s \in Entries : s # e => server'[s].pc = "down"
    BY <1>3, <2>2, ServerReplaced, DownIsAServer DEF ClientStart
  <2> QED
    BY <2>1, <2>2, <2>3
       DEF OneServer, NoneStarting, CountedNone, Counted, OneWrapper, Wrappers
<1>4. ASSUME NEW e \in Entries, ClientAwait(e) \/ ClientPut(e) \/ ClientPutDone(e)
      PROVE  OneServer' /\ NoneStarting' /\ CountedNone' /\ OneWrapper'
  BY <1>4
     DEF ClientAwait, ClientPut, ClientPutDone, EntryTypes, OneServer, NoneStarting,
         CountedNone, OneWrapper, Wrappers
<1>5. ASSUME NEW s \in Entries, Server(s)
      PROVE  OneServer' /\ NoneStarting' /\ CountedNone' /\ OneWrapper'
  <2>1. OneServer'
    BY <1>5, ServerActs DEF OneServer
  <2>2. NoneStarting'
    BY <1>5, ServerActs DEF NoneStarting
  <2>3. CASE \A t \in Entries : ~ServerSpawn(t)
    <3>1. Wrappers' \subseteq Wrappers
      BY <2>3, WrappersKept
    <3>2. CountedNone'
      BY <1>5, <3>1, ServerActs DEF CountedNone
    <3>3. OneWrapper'
      BY <3>1 DEF OneWrapper
    <3> QED BY <2>1, <2>2, <3>2, <3>3
  <2>4. ASSUME NEW t \in Entries, ServerSpawn(t)
        PROVE  OneServer' /\ NoneStarting' /\ CountedNone' /\ OneWrapper'
    <3>1. Wrappers = {}
      BY <2>4 DEF ServerSpawn, At, CountedNone, Counted
    <3>2. OneWrapper'
      BY <2>4, <3>1 DEF ServerSpawn, OneWrapper, Wrappers, EntryTypes
    <3>3. /\ server[t].pc = "spawn" /\ server'[t].pc = "list"
          /\ \A q \in Entries : q # t => server'[q] = server[q]
      BY <2>4, ServerGoesOn DEF ServerSpawn, At, ServerPCs
    <3>4. CountedNone'
      BY <3>3 DEF CountedNone, Counted, OneServer
    <3> QED BY <2>1, <2>2, <3>2, <3>4
  <2> QED BY <2>3, <2>4
<1>6. CASE UNCHANGED <<client, server>> /\ \A s \in Entries : ~ServerSpawn(s)
  <2>1. Wrappers' \subseteq Wrappers
    BY <1>6, WrappersKept
  <2> QED BY <1>6, <2>1 DEF OneServer, NoneStarting, CountedNone, OneWrapper
<1>7. CASE UNCHANGED <<client, server>> /\ \E s \in Entries : ServerSpawn(s)
  BY <1>5, <1>7 DEF Server
<1> QED
  BY <1>1, <1>2, <1>3, <1>4, <1>5, <1>6, <1>7
     DEF Next, Client, JobStep, JobOutput, User, UserStart, MonitorRead, StatusQueue,
         StatusCurrent, StatusProcesses, CancelExists, CancelUnqueue, CancelCurrent,
         CancelKill, rest, vars

LEMMA BoxStep ==
  ASSUME Overlap = FALSE
  PROVE  Typed /\ BoxInv /\ [Next]_vars => BoxInv'
BY OneClientStep, ServersStepOne, TypedParts DEF BoxInv

\* When no two commands overlap the box runs one entry at a time, whatever
\* server was killed and started in between.
THEOREM OneAtATime == ASSUME Overlap = FALSE PROVE Spec => []OneEntryAtATime
<1>1. OneWrapper => OneEntryAtATime
  <2> SUFFICES ASSUME OneWrapper PROVE Cardinality(Wrappers) <= 1
    BY DEF OneEntryAtATime
  <2>1. CASE Wrappers = {}
    BY <2>1, FS_EmptySet
  <2>2. ASSUME NEW e \in Wrappers PROVE Cardinality(Wrappers) <= 1
    <3>1. Wrappers = {e}
      BY <2>2 DEF OneWrapper
    <3> QED BY <3>1, FS_Singleton
  <2> QED BY <2>1, <2>2
<1>2. Init => Typed /\ BoxInv
  BY TypedInit, BoxInit
<1>3. Typed /\ BoxInv /\ [Next]_vars => (Typed /\ BoxInv)'
  BY TypedStep, BoxStep
<1>4. Typed /\ BoxInv => OneEntryAtATime
  BY <1>1 DEF BoxInv
<1> QED BY <1>2, <1>3, <1>4, PTL DEF Spec

-----------------------------------------------------------------------------
(***************************************************************************)
(* Cancelled entries.  A cancel command looks at the queue or at the name  *)
(* of the current entry, and acts later, by killing whichever controller   *)
(* it finds.  What makes this right is that the current entry has begun by *)
(* then: if a controller runs at all, it is that entry's or the entry is   *)
(* over.                                                                   *)
(***************************************************************************)

\* The server has written e as the current entry, and gone on or been killed.
Begun(e) ==
  \/ job[e] # "none" \/ e \in lost
  \/ \E s \in Entries : server[s].pc = "spawn" /\ server[s].entry = e

\* The current entry, and the one a cancel took for it, has begun.
CurrentHasBegun ==
  /\ cwd.current \in Entries => Begun(cwd.current)
  /\ user.pc = "kill" => Begun(user.entry)

\* A cancelled entry does not execute and is nowhere it could start from.
CancelledIsOver ==
  \A e \in cancelled :
    /\ job[e] \in {"none", "closing", "ended"}
    /\ file[e] = "none" /\ client[e] = "done"
    /\ \A s \in Entries : ~Held(s, e)

CancelInv == Typed /\ Places /\ BoxInv /\ CurrentHasBegun /\ CancelledIsOver

LEMMA CancelInit == Init => CurrentHasBegun /\ CancelledIsOver
BY EntriesFinite DEF Init, CurrentHasBegun, CancelledIsOver, EmptyCwd, NoUser

\* What was started or lost stays so.
LEMMA StartedForGood ==
  ASSUME EntryTypes, [Next]_vars, NEW e \in Entries
  PROVE  /\ job[e] # "none" => job'[e] # "none"
         /\ lost \subseteq lost'
<1>1. lost \subseteq lost'
  BY DEF Next, Client, ClientCheck, ClientKill, ClientStart, ClientAwait, ClientPut,
         ClientPutDone, Server, ServerUp, ServerList, ServerCount, ServerZap, ServerCopy,
         ServerRemove, ServerUnzip, ServerWrite, ServerSpawn, JobStep, JobOutput, User,
         UserStart, MonitorRead, StatusQueue, StatusCurrent, StatusProcesses,
         CancelExists, CancelUnqueue, CancelCurrent, CancelKill, rest, vars
<1>2. ASSUME NEW s \in Entries, ServerSpawn(s) PROVE job[e] # "none" => job'[e] # "none"
  BY <1>2 DEF ServerSpawn, EntryTypes
<1> QED BY <1>1, <1>2, WrappersAdded

LEMMA BegunForGood ==
  ASSUME EntryTypes, Records, NoneStarting, [Next]_vars, NEW e \in Entries, Begun(e)
  PROVE  Begun(e)'
<1>1. CASE job[e] # "none" \/ e \in lost
  BY <1>1, StartedForGood DEF Begun
<1>2. ASSUME NEW s \in Entries, server[s].pc = "spawn", server[s].entry = e
      PROVE  Begun(e)'
  <2>1. CASE server'[s] = server[s]
    BY <1>2, <2>1 DEF Begun
  <2>2. ASSUME NEW f \in Entries, ClientKill(f), server'[s] # server[s] PROVE e \in lost'
    <3>1. PICK t \in Running : server' = [server EXCEPT ![t] = Down]
                               /\ lost' = lost \cup HeldOnly(t)
      BY <2>2 DEF ClientKill
    <3>2. t = s
      BY <2>2, <3>1, ServerReplaced, DownIsAServer DEF Running
    <3> QED BY <1>2, <3>1, <3>2 DEF HeldOnly
  <2>3. ASSUME NEW f \in Entries, ClientStart(f) PROVE FALSE
    BY <1>2, <2>3 DEF ClientStart, NoneStarting
  <2>4. ASSUME NEW t \in Entries, Server(t), server'[s] # server[s] PROVE job'[e] # "none"
    <3>1. t = s
      BY <2>4, ServerActs
    <3>2. ServerSpawn(s)
      BY <1>2, <2>4, <3>1
         DEF Server, ServerUp, ServerList, ServerCount, ServerZap, ServerCopy,
             ServerRemove, ServerUnzip, ServerWrite, At
    <3> QED BY <1>2, <3>2 DEF ServerSpawn, EntryTypes
  <2> QED
    BY <2>1, <2>2, <2>3, <2>4
       DEF Begun, Next, Client, ClientCheck, ClientAwait, ClientPut, ClientPutDone, JobStep,
           JobOutput, User, UserStart, MonitorRead, StatusQueue, StatusCurrent,
           StatusProcesses, CancelExists, CancelUnqueue, CancelCurrent, CancelKill, rest,
           vars
<1> QED BY <1>1, <1>2 DEF Begun

LEMMA CurrentStep ==
  ASSUME Typed, EntryTypes, Records, ServersHoldEntries, NoneStarting, CurrentHasBegun,
         [Next]_vars
  PROVE  CurrentHasBegun'
<1>1. ASSUME NEW e \in Entries, cwd'.current = e PROVE Begun(e)'
  <2>1. CASE cwd'.current = cwd.current
    <3>1. cwd.current = e
      BY <1>1, <2>1
    <3>2. Begun(e)
      BY <3>1 DEF CurrentHasBegun, Begun
    <3> QED BY <3>2, BegunForGood
  <2>2. ASSUME NEW s \in Entries, ServerWrite(s) PROVE Begun(e)'
    <3>1. cwd'.current = server[s].entry
      BY <2>2 DEF ServerWrite, Records
    <3>2. server'[s].pc = "spawn" /\ server'[s].entry = server[s].entry
      BY <2>2, ServerGoesOn DEF ServerWrite, ServerPCs
    <3> QED BY <1>1, <3>1, <3>2 DEF Begun
  <2>3. ASSUME NEW s \in Entries, ServerZap(s) PROVE cwd'.current \notin Entries
    BY <2>3, EntriesFinite DEF ServerZap, EmptyCwd
  <2>4. ASSUME NEW s \in Entries, ServerCopy(s) PROVE cwd'.current = cwd.current
    BY <2>4 DEF ServerCopy, Records
  <2>5. ASSUME NEW f \in Entries, ClientStart(f) PROVE cwd'.current = cwd.current
    BY <2>5 DEF ClientStart, Records
  <2> QED
    BY <1>1, <2>1, <2>2, <2>3, <2>4, <2>5
       DEF Next, Client, ClientCheck, ClientKill, ClientAwait, ClientPut, ClientPutDone,
           Server, ServerUp, ServerList, ServerCount, ServerRemove, ServerUnzip,
           ServerSpawn, JobStep, JobOutput, User, UserStart, MonitorRead, StatusQueue,
           StatusCurrent, StatusProcesses, CancelExists, CancelUnqueue, CancelCurrent,
           CancelKill, rest, vars
<1>2. ASSUME NEW e \in Entries, user'.pc = "kill", user'.entry = e PROVE Begun(e)'
  <2>1. CASE user' = user
    <3>1. user.pc = "kill" /\ user.entry = e
      BY <1>2, <2>1
    <3>2. Begun(e)
      BY <3>1 DEF CurrentHasBegun, Begun
    <3> QED BY <3>2, BegunForGood
  <2>2. CASE CancelCurrent
    <3>1. cwd.current = e
      BY <1>2, <2>2 DEF CancelCurrent, UserGoto, NoUser, Records
    <3>2. Begun(e)
      BY <3>1 DEF CurrentHasBegun, Begun
    <3> QED BY <3>2, BegunForGood
  <2>3. ASSUME NEW f \in Entries, NEW op \in {"monitor", "cancel"}, UserStart(f, op)
        PROVE  user'.pc # "kill"
    BY <2>3 DEF UserStart
  <2>4. ASSUME NEW status, Answer(status) PROVE user'.pc # "kill"
    BY <2>4 DEF Answer, NoUser, Records
  <2>5. ASSUME NEW pc, UserGoto(pc), pc # "kill" PROVE user'.pc # "kill"
    BY <2>5 DEF UserGoto, Records
  <2>6. CASE MonitorRead \/ StatusQueue \/ StatusCurrent \/ StatusProcesses \/ CancelExists
    <3>1. user' = user \/ user'.pc # "kill"
      BY <2>4, <2>5, <2>6
         DEF MonitorRead, StatusQueue, StatusCurrent, StatusProcesses, CancelExists
    <3> QED BY <1>2, <2>1, <3>1
  <2>7. CASE CancelUnqueue \/ CancelKill
    BY <1>2, <2>7 DEF CancelUnqueue, CancelKill, NoUser
  <2> QED
    BY <1>2, <2>1, <2>2, <2>3, <2>6, <2>7
       DEF Next, Client, ClientCheck, ClientKill, ClientStart, ClientAwait, ClientPut,
           ClientPutDone, Server, ServerUp, ServerList, ServerCount, ServerZap, ServerCopy,
           ServerRemove, ServerUnzip, ServerWrite, ServerSpawn, JobStep, JobOutput, command,
           User, vars
<1>3. (cwd.current \in Entries => Begun(cwd.current))'
  BY <1>1 DEF Begun
<1>4. (user.pc = "kill" => user.entry \in Entries)'
  BY UserStep
<1>5. (user.pc = "kill" => Begun(user.entry))'
  BY <1>2, <1>4 DEF Begun
<1> QED BY <1>3, <1>5 DEF CurrentHasBegun

\* An entry cancelled before the step.
LEMMA CancelledStays ==
  ASSUME EntryTypes, Records, CancelledIsOver, [Next]_vars, NEW e \in cancelled, e \in Entries
  PROVE  /\ job'[e] = job[e] \/ job'[e] = "ended"
         /\ file'[e] = "none" /\ client'[e] = "done"
         /\ \A s \in Entries : ~Held(s, e)'
<1>0. /\ job[e] \in {"none", "closing", "ended"} /\ file[e] = "none" /\ client[e] = "done"
      /\ \A s \in Entries : ~Held(s, e)
  BY DEF CancelledIsOver
<1>1. client'[e] = "done"
  BY <1>0, DoneIsDone
<1>2. \A s \in Entries : ~Held(s, e)'
  BY <1>0, ServerMoved, HeldOrRemoved, HeldUnchanged
<1>3. file'[e] = "none"
  <2>1. ASSUME NEW f \in Entries, ClientPut(f) \/ ClientPutDone(f) PROVE file'[e] = "none"
    BY <1>0, <2>1 DEF ClientPut, ClientPutDone, EntryTypes
  <2>2. ASSUME NEW s \in Entries, ServerRemove(s) PROVE file'[e] = "none"
    BY <1>0, <2>2 DEF ServerRemove, EntryTypes
  <2>3. CASE CancelUnqueue
    BY <1>0, <2>3 DEF CancelUnqueue, EntryTypes
  <2>4. CASE file' = file
    BY <1>0, <2>4
  <2> QED
    BY <2>1, <2>2, <2>3, <2>4
       DEF Next, Client, ClientCheck, ClientKill, ClientStart, ClientAwait, Server,
           ServerUp, ServerList, ServerCount, ServerZap, ServerCopy, ServerUnzip,
           ServerWrite, ServerSpawn, JobStep, JobOutput, User, UserStart, MonitorRead,
           StatusQueue, StatusCurrent, StatusProcesses, CancelExists, CancelCurrent,
           CancelKill, rest, vars
<1>4. job'[e] = job[e] \/ job'[e] = "ended"
  <2>1. ASSUME NEW f \in Entries, JobStep(f) PROVE job'[e] = job[e] \/ job'[e] = "ended"
    BY <1>0, <2>1 DEF JobStep, EntryTypes
  <2>2. CASE CancelKill
    BY <1>0, <2>2 DEF CancelKill, Controllers, EntryTypes
  <2>3. ASSUME NEW s \in Entries, ServerSpawn(s) PROVE job'[e] = job[e]
    BY <1>0, <2>3 DEF ServerSpawn, Held, At, EntryTypes
  <2>4. CASE job' = job
    BY <2>4
  <2> QED
    BY <2>1, <2>2, <2>3, <2>4
       DEF Next, Client, ClientCheck, ClientKill, ClientStart, ClientAwait, ClientPut,
           ClientPutDone, Server, ServerUp, ServerList, ServerCount, ServerZap, ServerCopy,
           ServerRemove, ServerUnzip, ServerWrite, JobOutput, User, UserStart, MonitorRead,
           StatusQueue, StatusCurrent, StatusProcesses, CancelExists, CancelUnqueue,
           CancelCurrent, rest, vars
<1> QED BY <1>1, <1>2, <1>3, <1>4

\* An entry cancelled by the step.
LEMMA CancelledNow ==
  ASSUME EntryTypes, Records, Places, BoxInv, CurrentHasBegun, [Next]_vars,
         NEW e \in cancelled', e \notin cancelled
  PROVE  /\ job'[e] \in {"none", "closing", "ended"}
         /\ file'[e] = "none" /\ client'[e] = "done"
         /\ \A s \in Entries : ~Held(s, e)'
<1>1. CASE CancelUnqueue
  <2>1. /\ e = user.entry /\ e \in Entries /\ client[e] = "done"
        /\ file[e] # "none" /\ file'[e] = "none"
        /\ UNCHANGED <<client, job, server>>
    BY <1>1 DEF CancelUnqueue, UserAt, Records, EntryTypes
  <2>2. job[e] = "none" /\ \A s \in Entries : ~Held(s, e)
    BY <2>1 DEF Places, StartedOrLost, HeldByOne
  <2> QED BY <2>1, <2>2, HeldUnchanged
<1>2. CASE CancelKill
  <2>1. PICK c \in Controllers : job' = [job EXCEPT ![c] = "closing"]
    BY <1>2 DEF CancelKill
  <2>2. /\ e = user.entry /\ e \in Entries /\ client[e] = "done" /\ Begun(e)
        /\ UNCHANGED <<client, file, server>>
    BY <1>2 DEF CancelKill, UserAt, Records, CurrentHasBegun
  <2>3. c \in Wrappers /\ c \in Entries
    BY DEF Controllers, Wrappers
  <2>4. \A s \in Entries : server[s].pc # "spawn"
    BY <2>3 DEF BoxInv, CountedNone, Counted
  <2>5. job[e] # "none" \/ e \in lost
    BY <2>2, <2>4 DEF Begun
  <2>6. file[e] = "none" /\ \A s \in Entries : ~Held(s, e)
    BY <2>2, <2>5 DEF Places, StartedOrLost
  <2>7. job'[e] \in {"none", "closing", "ended"}
    <3>1. CASE e = c
      BY <2>1, <2>3, <3>1 DEF EntryTypes
    <3>2. CASE e # c
      <4>1. e \notin Wrappers
        BY <2>3, <3>2 DEF BoxInv, OneWrapper
      <4> QED BY <2>1, <2>2, <2>3, <3>2, <4>1 DEF EntryTypes, Wrappers
    <3> QED BY <3>1, <3>2
  <2> QED BY <2>2, <2>6, <2>7, HeldUnchanged
<1>3. cancelled' # cancelled
  OBVIOUS
<1> QED
  BY <1>1, <1>2, <1>3
     DEF Next, Client, ClientCheck, ClientKill, ClientStart, ClientAwait, ClientPut,
         ClientPutDone, Server, ServerUp, ServerList, ServerCount, ServerZap, ServerCopy,
         ServerRemove, ServerUnzip, ServerWrite, ServerSpawn, JobStep, JobOutput, User,
         UserStart, MonitorRead, StatusQueue, StatusCurrent, StatusProcesses,
         CancelExists, CancelCurrent, command, vars

LEMMA CancelStep ==
  ASSUME Overlap = FALSE
  PROVE  CancelInv /\ [Next]_vars =>
           /\ CancelInv'
           /\ \A e \in cancelled : job'[e] = job[e] \/ job'[e] = "ended"
           /\ \A e \in cancelled' : job'[e] \in {"none", "closing", "ended"}
<1> SUFFICES ASSUME CancelInv, [Next]_vars
             PROVE  /\ CurrentHasBegun' /\ CancelledIsOver'
                    /\ \A e \in cancelled : job'[e] = job[e] \/ job'[e] = "ended"
                    /\ \A e \in cancelled' : job'[e] \in {"none", "closing", "ended"}
  BY TypedStep, PlacesStep, BoxStep DEF CancelInv
<1>1. /\ Typed /\ EntryTypes /\ Records /\ ServersHoldEntries /\ cancelled \subseteq Entries
      /\ Places /\ BoxInv /\ NoneStarting /\ CurrentHasBegun /\ CancelledIsOver
  BY TypedParts DEF CancelInv, SetTypes, BoxInv
<1>2. CurrentHasBegun'
  BY <1>1, CurrentStep
<1>3. \A e \in cancelled : job'[e] = job[e] \/ job'[e] = "ended"
  BY <1>1, CancelledStays
<1>4. ASSUME NEW e \in cancelled'
      PROVE  /\ job'[e] \in {"none", "closing", "ended"}
             /\ file'[e] = "none" /\ client'[e] = "done"
             /\ \A s \in Entries : ~Held(s, e)'
  <2>1. CASE e \in cancelled
    <3>1. job[e] \in {"none", "closing", "ended"}
      BY <1>1, <2>1 DEF CancelledIsOver
    <3> QED BY <1>1, <2>1, <3>1, CancelledStays
  <2>2. CASE e \notin cancelled
    BY <1>1, <2>2, CancelledNow
  <2> QED BY <2>1, <2>2
<1>5. CancelledIsOver'
  BY <1>4 DEF CancelledIsOver
<1> QED BY <1>2, <1>3, <1>4, <1>5

\* An entry that was reported as cancelled is over, and never starts, as long
\* as no two commands that start servers overlap.
THEOREM CancelledForGood == ASSUME Overlap = FALSE PROVE Spec => CancelledStaysOver
<1>1. Init => CancelInv
  BY TypedInit, PlacesInit, BoxInit, CancelInit DEF CancelInv
<1>2. CancelInv /\ [Next]_vars => CancelInv'
  BY CancelStep
<1>3. CancelInv /\ [Next]_vars =>
        [/\ \A e \in cancelled : job'[e] = job[e] \/ job'[e] = "ended"
         /\ \A e \in cancelled' : job'[e] \in {"none", "closing", "ended"}]_vars
  BY CancelStep
<1> QED BY <1>1, <1>2, <1>3, PTL DEF Spec, CancelledStaysOver
=============================================================================
